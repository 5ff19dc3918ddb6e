---------------------------- MODULE MCHostService ----------------------------
(***************************************************************************)
(* Constants of HostService for TLC.                                       *)
(***************************************************************************)
EXTENDS HostServiceProps

CONSTANTS k1, k2

DistinctPrefixes == [k \in Key |-> k]

\* The first repository; a grant to k2 that k1 signed in the codes the host
\* sends, with a repository id that is cut to 0; an endpoint that always fails,
\* and one that does without the TA.
HostRequests ==
  {InitRequest(k1),
   AccessRequest(Word, "ADD", "WRITER", k2, k1, <<0, OP_ADD, HOST_ROLE_WRITER, k2>>),
   CommitRequest,
   PlainRequest(OK)}
=============================================================================
