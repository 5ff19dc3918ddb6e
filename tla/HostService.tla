----------------------------- MODULE HostService -----------------------------
(***************************************************************************)
(* host/main.c: the HTTP daemon, composed with the TA.  main accepts       *)
(* connections and gives each a detached thread; a thread receives one     *)
(* request, may invoke the TA through the one session all threads share,   *)
(* writes one answer and closes.  An invocation is a joint step with the   *)
(* action of TrustChainTA for its command; every other step of the host    *)
(* leaves the TA alone.                                                    *)
(*                                                                         *)
(* Clients connect, send, stay silent and hang up as they like.  The       *)
(* process ends when accept fails, by a signal, or when it is killed.      *)
(***************************************************************************)
EXTENDS TrustChainTA

CONSTANTS
  MaxConn,    \* bound: the connections of a behaviour, each carrying at most one request
  Requests,   \* what clients may send
  MaxSockets  \* the descriptors the process has for connections

\* Requests differ only as far as the handlers tell them apart.
PlainRequest(code) == [kind |-> "plain", code |-> code]
InitRequest(admin_key) == [kind |-> "init-repo", admin_key |-> admin_key]
CommitRequest == [kind |-> "commit"]
HashRequest == [kind |-> "latest-hash"]

\* signed is the message under the client's signature, by signature_key.
AccessRequest(repo_id, operation, role, public_key, signature_key, signed) ==
  [kind |-> "access-control", repo_id |-> repo_id, operation |-> operation, role |-> role,
   public_key |-> public_key, signature_key |-> signature_key, signed |-> signed]

NoRequest == [kind |-> "none"]

OK == 200
CLIENT_ERROR == 400 \* or 404, 405: refused by the host
TA_ERROR == 500

IsRequest(r) ==
  \/ \E code \in {OK, CLIENT_ERROR} : r = PlainRequest(code)
  \/ \E k \in Key : r = InitRequest(k)
  \/ r \in {CommitRequest, HashRequest}
  \/ /\ r.kind = "access-control" /\ r.repo_id \in Nat
     /\ \E operation \in {"ADD", "DELETE", "OTHER"}, role \in {"ADMIN", "WRITER"}, pk, sk \in Key,
           to \in AnyId, op \in AccessOps, code \in Role :
          r = AccessRequest(r.repo_id, operation, role, pk, sk, <<to, op, code, pk>>)

ASSUME RequestsAssumption == \A r \in Requests : IsRequest(r)
ASSUME HostRolesAssumption == {0, 1} \subseteq Role
ASSUME HostBoundAssumption == {MaxConn, MaxSockets} \subseteq Nat \ {0}

\* Connections are numbered in the order in which they are made.
Conn == 1..MaxConn

VARIABLES
  daemon,   \* "down", "accepting", "closing" (accept failed), "exiting" (session closed)
  pc,       \* where a connection stands
  request,  \* what its client has sent
  status,   \* the status of its answer, 0 before there is one
  gone,     \* its client has hung up
  made      \* history: the blocks its invocation appended, as <<boot, repository, position>>

connVars == <<pc, request, status, gone, made>>
hostVars == <<vars, daemon, connVars>>

\* "answered": the client has the answer; "closed": the connection ended without.
Ended == {"answered", "closed"}
Threads == {c \in Conn : pc[c] \in {"recv", "write"}}

HostInit ==
  /\ Init
  /\ daemon = "down"
  /\ pc = [c \in Conn |-> "none"]
  /\ request = [c \in Conn |-> NoRequest]
  /\ status = [c \in Conn |-> 0]
  /\ gone = [c \in Conn |-> FALSE]
  /\ made = [c \in Conn |-> {}]

Goto(c, label) == pc' = [pc EXCEPT ![c] = label]

\* Connections end.  Only of those that made a block is more remembered than how.
Finish(cs, label) ==
  LET Forgotten(c) == c \in cs /\ made[c] = {} IN
  /\ pc' = [c \in Conn |-> IF c \in cs THEN label ELSE pc[c]]
  /\ request' = [c \in Conn |-> IF Forgotten(c) THEN NoRequest ELSE request[c]]
  /\ status' = [c \in Conn |-> IF Forgotten(c) THEN 0 ELSE status[c]]
  /\ gone' = [c \in Conn |-> gone[c] /\ ~Forgotten(c)]
  /\ UNCHANGED made

\* The process is gone, and every connection with it.
ProcessEnds ==
  /\ daemon' = "down"
  /\ Finish({c \in Conn : pc[c] \notin {"none"} \cup Ended}, "closed")

\* The session ends with its process; it may be dead already.
SessionEnds == TA_CloseSession \/ (~session /\ UNCHANGED vars)

-----------------------------------------------------------------------------
(* main.                                                                     *)

\* init_tee_connection, then the listening socket.  The last boot is left
\* unused: the bound never keeps a session open.
Start ==
  /\ daemon = "down" /\ boots + 1 < MaxBoots
  /\ TA_OpenSession
  /\ daemon' = IF session' THEN "accepting" ELSE "down"
  /\ UNCHANGED connVars

\* The head of the listen queue.
IsNext(c) == pc[c] = "queued" /\ \A d \in 1..(c - 1) : pc[d] # "queued"

\* Mutant: the request is handled in main, the next is accepted afterwards.
AcceptInTurn(c) ==
  /\ daemon = "accepting" /\ IsNext(c) /\ Threads = {}
  /\ Goto(c, "recv")
  /\ UNCHANGED <<vars, daemon, request, status, gone, made>>

\* The thread starts, or malloc or pthread_create fails and the connection is
\* closed without an answer.
Accept(c) ==
  /\ daemon = "accepting" /\ IsNext(c) /\ Cardinality(Threads) < MaxSockets
  /\ \/ Goto(c, "recv") /\ UNCHANGED <<request, status, gone, made>>
     \/ Finish({c}, "closed")
  /\ UNCHANGED <<vars, daemon>>

\* accept returns an error, whatever the reason (no descriptor or no memory, a
\* connection that was aborted in the queue, a signal): the loop ends.
AcceptFails ==
  /\ daemon = "accepting"
  /\ daemon' = "closing"
  /\ UNCHANGED <<vars, connVars>>

\* Mutant: main first waits for its threads.
close_tee_connection_joining ==
  /\ daemon = "closing" /\ Threads = {}
  /\ SessionEnds
  /\ daemon' = "exiting"
  /\ UNCHANGED connVars

\* The session closes under the threads that still run.
close_tee_connection ==
  /\ daemon = "closing"
  /\ SessionEnds
  /\ daemon' = "exiting"
  /\ UNCHANGED connVars

\* The return of main ends the threads.
Exit ==
  /\ daemon = "exiting"
  /\ ProcessEnds
  /\ UNCHANGED vars

\* Without a free descriptor accept fails at once.
AcceptFindsNoDescriptor == Cardinality(Threads) >= MaxSockets /\ AcceptFails

\* What main does by itself, given time.
Main ==
  (\E c \in Conn : Accept(c)) \/ AcceptFindsNoDescriptor \/ close_tee_connection \/ Exit

-----------------------------------------------------------------------------
(* What the request handlers pass to the TA.                                 *)

HOST_ROLE_ADMIN == 0
HOST_ROLE_WRITER == 1

ac_op(operation) == IF operation = "ADD" THEN OP_ADD ELSE OP_DELETE
ac_role(role) == IF role = "ADMIN" THEN HOST_ROLE_ADMIN ELSE HOST_ROLE_WRITER

\* json_integer_value is assigned to a uint32_t.
ac_rep_id(repo_id) == repo_id % Word

\* The message of handle_access_control.  strncpy copies 511 of the 512
\* characters of a signature and the last stays uninitialised: kept says
\* whether it happens to be the right one, followed by a NUL.
ac_msg(r, kept) ==
  LET id == ac_rep_id(r.repo_id)
      op == ac_op(r.operation)
      role == ac_role(r.role)
  IN AccessMessage(id, op, role, r.public_key, r.signature_key,
                   kept /\ r.signed = <<id, op, role, r.public_key>>)

handle_init_repo(r) == r.kind = "init-repo" /\ init_repo(r.admin_key)

handle_access_control(r) ==
  r.kind = "access-control" /\ \E kept \in BOOLEAN : access_control(ac_msg(r, kept))

\* The parameter types it declares are not those commit checks.
handle_commit(r) == r.kind = "commit" /\ InvokeBadParameters

\* Nor are these those of the TA's get_latest_hash.
handle_get_latest_hash(r) == r.kind = "latest-hash" /\ InvokeBadParameters

Command(r) ==
  \/ handle_init_repo(r) \/ handle_access_control(r)
  \/ handle_commit(r) \/ handle_get_latest_hash(r)

\* The TA may panic where it writes a block: access_control writes 2132 bytes
\* into the host's 256, and the TA's stack has 2 KB.
MayPanic(r) == r.kind \in {"init-repo", "access-control"}

\* History: the positions an invocation fills.
NewBlocks == {<<boots, r, Len(ledger'[r])>> : r \in {s \in RepId : Len(ledger'[s]) > Len(ledger[s])}}

-----------------------------------------------------------------------------
(* handle_client.                                                            *)

Respond(c, code) ==
  /\ Goto(c, "write")
  /\ status' = [status EXCEPT ![c] = code]

\* Nothing came, or no longer comes, because the client has left.
RecvNothing(c) ==
  /\ pc[c] = "recv" /\ gone[c]
  /\ Finish({c}, "closed")
  /\ UNCHANGED <<vars, daemon>>

\* The thread's one recv got a request that the daemon answers itself, or only
\* the first part of one: the JSON does not parse, or the request line is cut.
HandlePlain(c) ==
  /\ pc[c] = "recv" /\ request[c] # NoRequest
  /\ \/ request[c].kind = "plain" /\ Respond(c, request[c].code)
     \/ Respond(c, CLIENT_ERROR)
  /\ UNCHANGED <<vars, daemon, request, gone, made>>

\* Mutant: a late success may be taken for a failure, and the command sent again.
InvokeWithRetry(c) ==
  /\ Command(request[c])
  /\ \/ Respond(c, IF result' = TEE_SUCCESS THEN OK ELSE TA_ERROR)
     \/ result' = TEE_SUCCESS /\ UNCHANGED <<pc, status>>
  /\ made' = [made EXCEPT ![c] = NewBlocks]

\* Mutant: a late success may be answered as a failure.
InvokeReportsLate(c) ==
  /\ Command(request[c])
  /\ \/ Respond(c, IF result' = TEE_SUCCESS THEN OK ELSE TA_ERROR)
     \/ Respond(c, TA_ERROR)
  /\ made' = [made EXCEPT ![c] = NewBlocks]

\* Mutant: a success is not answered.
InvokeSilent(c) ==
  /\ Command(request[c])
  /\ IF result' = TEE_SUCCESS THEN Goto(c, "closed") /\ UNCHANGED status ELSE Respond(c, TA_ERROR)
  /\ made' = [made EXCEPT ![c] = NewBlocks]

InvokeCommand(c) ==
  /\ Command(request[c])
  /\ Respond(c, IF result' = TEE_SUCCESS THEN OK ELSE TA_ERROR)
  /\ made' = [made EXCEPT ![c] = NewBlocks]

\* The session is closed or the TA is dead.
InvokeDead(c) ==
  /\ ~session
  /\ Respond(c, TA_ERROR)
  /\ UNCHANGED <<vars, made>>

InvokePanics(c) ==
  /\ MayPanic(request[c])
  /\ TA_CloseSession
  /\ Respond(c, TA_ERROR)
  /\ UNCHANGED made

Invoke(c) ==
  /\ pc[c] = "recv" /\ request[c].kind \notin {"none", "plain"}
  /\ UNCHANGED <<daemon, request, gone>>
  /\ InvokeCommand(c) \/ InvokeDead(c) \/ InvokePanics(c)

\* send_json_response and close.  An answer to a client that has left is lost.
Write(c) ==
  /\ pc[c] = "write"
  /\ Finish({c}, IF gone[c] THEN "closed" ELSE "answered")
  /\ UNCHANGED <<vars, daemon>>

\* The client's reset has followed its FIN: write raises SIGPIPE.
WriteSignals(c) ==
  /\ pc[c] = "write" /\ gone[c]
  /\ SessionEnds
  /\ ProcessEnds

Thread(c) == RecvNothing(c) \/ HandlePlain(c) \/ Invoke(c) \/ Write(c) \/ WriteSignals(c)

-----------------------------------------------------------------------------
(* The clients, and whoever kills the process.                               *)

Connect(c) ==
  /\ daemon = "accepting" /\ pc[c] = "none" /\ \A d \in 1..(c - 1) : pc[d] # "none"
  /\ Goto(c, "queued")
  /\ UNCHANGED <<vars, daemon, request, status, gone, made>>

Send(c) ==
  /\ pc[c] \in {"queued", "recv"} /\ request[c] = NoRequest /\ ~gone[c]
  /\ \E r \in Requests : request' = [request EXCEPT ![c] = r]
  /\ UNCHANGED <<vars, daemon, pc, status, gone, made>>

HangUp(c) ==
  /\ pc[c] \notin {"none"} \cup Ended /\ ~gone[c]
  /\ gone' = [gone EXCEPT ![c] = TRUE]
  /\ UNCHANGED <<vars, daemon, pc, request, status, made>>

Killed ==
  /\ daemon # "down"
  /\ SessionEnds
  /\ ProcessEnds

HostNext ==
  \/ Start \/ Main \/ AcceptFails \/ Killed
  \/ \E c \in Conn : Thread(c) \/ Connect(c) \/ Send(c) \/ HangUp(c)

\* The scheduler runs every thread that can run; nothing is expected of clients,
\* of the operator, or of accept, which need not fail while it has a descriptor.
HostSpec ==
  /\ HostInit /\ [][HostNext]_hostVars
  /\ WF_hostVars(Main)
  /\ \A c \in Conn : WF_hostVars(Thread(c))
=============================================================================
