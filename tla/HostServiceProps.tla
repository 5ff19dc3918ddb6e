-------------------------- MODULE HostServiceProps ---------------------------
(***************************************************************************)
(* The correctness properties of HostService.                              *)
(***************************************************************************)
EXTENDS HostService

Label == {"none", "queued", "recv", "write"} \cup Ended

\* Every variable of the host has its type; a connection has a status once it
\* is being answered, and no block before.
HostTypeOK ==
  /\ daemon \in {"down", "accepting", "closing", "exiting"}
  /\ pc \in [Conn -> Label]
  /\ request \in [Conn -> Requests \cup {NoRequest}]
  /\ status \in [Conn -> {0, OK, CLIENT_ERROR, TA_ERROR}]
  /\ gone \in [Conn -> BOOLEAN]
  /\ made \in [Conn -> SUBSET ((1..MaxBoots) \X RepId \X (1..MaxBlocks))]
  /\ \A c \in Conn : /\ pc[c] = "write" => status[c] # 0
                     /\ pc[c] \in {"none", "queued", "recv"} => status[c] = 0 /\ made[c] = {}

\* The block at a position is still held by the instance that made it.
Held(p) == session /\ p[1] = boots

\* The block in this repository records what the request asked for, in the codes
\* the host sends and, for a change of access, in the repository its signer named.
Records(rep_id, b, r) ==
  \/ /\ r.kind = "init-repo"
     /\ b = Signed(GenesisBlock(r.admin_key), b.tee_sig.key)
  \/ /\ r.kind = "access-control"
     /\ rep_id = r.signed[1]
     /\ b.op = ac_op(r.operation) /\ b.role = ac_role(r.role)
     /\ b.pubkey = r.public_key /\ b.sigkey = r.signature_key
     /\ b.signature = Sign(r.signature_key, r.signed)

Asks(r) == r.kind \in {"init-repo", "access-control"}

\* What a client was told stays true: behind the 200 of a change there is one
\* block, and as long as the instance lives it stays where it was appended and
\* records the request, whatever other threads, hang-ups and refusals do.
SuccessIsRecorded ==
  \A c \in Conn :
    status[c] = OK /\ Asks(request[c]) =>
      /\ Cardinality(made[c]) = 1
      /\ \A p \in made[c] : Held(p) => /\ p[3] <= Len(ledger[p[2]])
                                       /\ Records(p[2], ledger[p[2]][p[3]], request[c])

\* A waiting request gets an error answer, or its connection ends without one.
Refuses(c) ==
  pc[c] \in {"queued", "recv"} /\ pc'[c] \in {"write", "closed"} /\ status'[c] # OK

\* What a refusal means, wherever in host or TA it came from: unless the instance
\* ended in that step, no chain, height or repository has changed, and of the key
\* lists at most the entry of the key the request names, which is then torn.  An
\* OK whose answer is lost is no refusal (NoSilentBlock is about it); an instance
\* that panics takes its repositories with it.
RefusalIsClean ==
  [][\A c \in Conn : Refuses(c) /\ session' = session =>
       /\ UNCHANGED <<repoVars, ledger>>
       /\ \A r \in RepId, k \in Key :
            admin_keys'[r][k] # admin_keys[r][k] \/ writer_keys'[r][k] # writer_keys[r][k]
              => /\ request[c].kind = "access-control" /\ request[c].public_key = k
                 /\ k \in torn'[r]]_hostVars

\* Every block a live instance holds was appended by exactly one request: none
\* is handled twice, and none by a thread that was already answered.
OneRequestPerBlock ==
  session => \A r \in repositories : \A i \in 1..Len(ledger[r]) :
               Cardinality({c \in Conn : <<boots, r, i>> \in made[c]}) = 1

\* While the daemon runs, a block whose requester got no answer has a requester
\* that hung up: no block goes unnoticed by a client that waits.
NoSilentBlock ==
  \A c \in Conn :
    pc[c] = "closed" /\ (\E p \in made[c] : Held(p)) => gone[c]

\* Every connection whose client has sent its request or hung up comes to an
\* end, silent clients, dead TAs and refusals notwithstanding: answered,
\* closed, or ended with the daemon.
ConnectionsEnd ==
  \A c \in Conn : (pc[c] = "queued" \/ pc[c] = "recv") /\ (request[c] # NoRequest \/ gone[c])
                    ~> pc[c] \in Ended

\* Once accept has failed the process ends, and the session with it, although
\* threads may be blocked in recv for ever.
FailedDaemonExits == daemon = "closing" ~> (daemon = "down" /\ ~session)

\* Whatever the host does, the TA behaves as TrustChainTA: the host sends only
\* messages the TA was modelled for, and a panic loses what a closed session loses.
DrivesTA == Spec

-----------------------------------------------------------------------------
\* host/main.c:36: its role codes agree with the TA's.  A grant or revocation
\* for the role WRITER is recorded as one of the TA's writer role.
WriterMeansWriter ==
  \A c \in Conn :
    /\ request[c].kind = "access-control"
    /\ status[c] = OK
    /\ request[c].role = "WRITER"
    => \A p \in made[c] : Held(p) => ledger[p[2]][p[3]].role = ROLE_WRITER
=============================================================================
