------------------------- MODULE HostService_proofs --------------------------
(***************************************************************************)
(* The host drives the TA only through behaviours of TrustChainTA, so that *)
(* what is proved of the TA holds in the whole system, for any clients,    *)
(* threads, panics and restarts; and what a client was told is what the TA *)
(* did.  A step is first reduced to what it does to the connections        *)
(* (ConnStep), to main (DaemonStep) and to the TA (TAStep).                *)
(***************************************************************************)
EXTENDS HostServiceProps, TrustChainTA_steps, FiniteSetTheorems

\* What a thread handles is what its client sent: one of the requests.
RequestsKnown == \A c \in Conn : request[c] \in Requests \cup {NoRequest}

\* The end of a connection keeps its request or forgets it.
LEMMA FinishKeepsKnown ==
  ASSUME RequestsKnown, NEW cs, NEW label, Finish(cs, label)
  PROVE  RequestsKnown'
BY DEF RequestsKnown, Finish

\* The requests a client has sent remain among Requests: no step of a thread,
\* of main, or of the end of the process makes one up.
LEMMA KnownStep == RequestsKnown /\ [HostNext]_hostVars => RequestsKnown'
<1> SUFFICES ASSUME RequestsKnown, [HostNext]_hostVars PROVE RequestsKnown'
  OBVIOUS
<1>1. ASSUME UNCHANGED request PROVE RequestsKnown'
  BY <1>1 DEF RequestsKnown
<1>2. CASE UNCHANGED hostVars
  BY <1>1, <1>2 DEF hostVars, connVars
<1>3. CASE Start
  BY <1>1, <1>3 DEF Start, connVars
<1>4. CASE Main \/ AcceptFails
  BY <1>1, <1>4, FinishKeepsKnown
     DEF Main, Accept, AcceptFindsNoDescriptor, AcceptFails, close_tee_connection, Exit, ProcessEnds, connVars
<1>5. CASE Killed
  BY <1>5, FinishKeepsKnown DEF Killed, ProcessEnds
<1>6. ASSUME NEW c \in Conn, Thread(c) PROVE RequestsKnown'
  BY <1>1, <1>6, FinishKeepsKnown
     DEF Thread, RecvNothing, HandlePlain, Invoke, Write, WriteSignals, ProcessEnds
<1>7. ASSUME NEW c \in Conn, Connect(c) \/ HangUp(c) PROVE RequestsKnown'
  BY <1>1, <1>7 DEF Connect, HangUp
<1>8. ASSUME NEW c \in Conn, Send(c) PROVE RequestsKnown'
  BY <1>8 DEF Send, RequestsKnown
<1> QED
  BY <1>2, <1>3, <1>4, <1>5, <1>6, <1>7, <1>8 DEF HostNext

\* An access-control request becomes a message of the TA's input alphabet: the
\* identifier is cut to the word, and both codes are codes the TA may get.
LEMMA AccessMessageKnown ==
  ASSUME NEW r \in Requests, r.kind = "access-control", NEW kept \in BOOLEAN
  PROVE  ac_msg(r, kept) \in AccessMessages
<1>1. /\ r.repo_id \in Nat
      /\ \E operation \in {"ADD", "DELETE", "OTHER"}, role \in {"ADMIN", "WRITER"}, pk, sk \in Key,
            to \in AnyId, op \in AccessOps, code \in Role :
           r = AccessRequest(r.repo_id, operation, role, pk, sk, <<to, op, code, pk>>)
  <2>1. IsRequest(r)
    BY RequestsAssumption
  <2>2. \A code : PlainRequest(code).kind = "plain"
    BY DEF PlainRequest
  <2>3. \A k : InitRequest(k).kind = "init-repo"
    BY DEF InitRequest
  <2>4. CommitRequest.kind = "commit" /\ HashRequest.kind = "latest-hash"
    BY DEF CommitRequest, HashRequest
  <2> QED BY <2>1, <2>2, <2>3, <2>4 DEF IsRequest
<1>2. r.public_key \in Key /\ r.signature_key \in Key
  BY <1>1 DEF AccessRequest
<1>3. ac_rep_id(r.repo_id) \in AnyId
  BY <1>1, RepoAssumption DEF ac_rep_id, AnyId
<1>4. ac_op(r.operation) \in AnyOp
  BY DEF ac_op, AnyOp, AccessOps
<1>5. ac_role(r.role) \in Role
  BY HostRolesAssumption DEF ac_role, HOST_ROLE_ADMIN, HOST_ROLE_WRITER
<1> DEFINE right == kept /\ r.signed = <<ac_rep_id(r.repo_id), ac_op(r.operation),
                                         ac_role(r.role), r.public_key>>
<1>6. right \in BOOLEAN
  OBVIOUS
<1>7. ac_msg(r, kept) = AccessMessage(ac_rep_id(r.repo_id), ac_op(r.operation), ac_role(r.role),
                                     r.public_key, r.signature_key, right)
  BY DEF ac_msg
<1> HIDE DEF right
<1> QED
  BY <1>2, <1>3, <1>4, <1>5, <1>6, <1>7 DEF AccessMessages

\* What a handler invokes is a command of the TA with arguments it may get.
LEMMA CommandIsNext ==
  ASSUME NEW r \in Requests \cup {NoRequest}, Command(r)
  PROVE  Next
<1>1. CASE r.kind = "init-repo" /\ init_repo(r.admin_key)
  <2>1. r \in Requests
    BY <1>1 DEF NoRequest
  <2>2. r.admin_key \in Key
    BY <1>1, <2>1, RequestsAssumption
       DEF IsRequest, PlainRequest, InitRequest, CommitRequest, HashRequest
  <2> QED BY <1>1, <2>2 DEF Next
<1>2. CASE r.kind = "access-control" /\ \E kept \in BOOLEAN : access_control(ac_msg(r, kept))
  <2>1. r \in Requests
    BY <1>2 DEF NoRequest
  <2> QED BY <1>2, <2>1, AccessMessageKnown DEF Next
<1>3. CASE InvokeBadParameters
  BY <1>3 DEF Next
<1> QED
  BY <1>1, <1>2, <1>3 DEF Command, handle_init_repo, handle_access_control,
                             handle_commit, handle_get_latest_hash

\* The end of a session is a step of the TA, or the TA is dead already.
LEMMA SessionEndsIsNext == SessionEnds => [Next]_vars
BY DEF SessionEnds, Next

\* Every step of the host is a step of the TA or leaves it alone.
LEMMA HostStepIsTAStep == RequestsKnown /\ [HostNext]_hostVars => [Next]_vars
<1> SUFFICES ASSUME RequestsKnown, [HostNext]_hostVars PROVE [Next]_vars
  OBVIOUS
<1>1. CASE UNCHANGED hostVars
  BY <1>1 DEF hostVars
<1>2. CASE Start
  BY <1>2 DEF Start, Next
<1>3. CASE Main \/ AcceptFails
  BY <1>3, SessionEndsIsNext DEF Main, Accept, AcceptFindsNoDescriptor, AcceptFails, close_tee_connection, Exit
<1>4. CASE Killed
  BY <1>4, SessionEndsIsNext DEF Killed
<1>5. ASSUME NEW c \in Conn, Thread(c) PROVE [Next]_vars
  <2>1. CASE RecvNothing(c) \/ HandlePlain(c) \/ Write(c)
    BY <2>1 DEF RecvNothing, HandlePlain, Write
  <2>2. CASE WriteSignals(c)
    BY <2>2, SessionEndsIsNext DEF WriteSignals
  <2>3. CASE Invoke(c)
    <3>1. CASE InvokeCommand(c)
      BY <3>1, CommandIsNext DEF InvokeCommand, RequestsKnown
    <3>2. CASE InvokeDead(c)
      BY <3>2 DEF InvokeDead
    <3>3. CASE InvokePanics(c)
      BY <3>3 DEF InvokePanics, Next
    <3> QED BY <2>3, <3>1, <3>2, <3>3 DEF Invoke
  <2> QED BY <1>5, <2>1, <2>2, <2>3 DEF Thread
<1>6. ASSUME NEW c \in Conn, Connect(c) \/ Send(c) \/ HangUp(c) PROVE [Next]_vars
  BY <1>6 DEF Connect, Send, HangUp
<1> QED
  BY <1>1, <1>2, <1>3, <1>4, <1>5, <1>6 DEF HostNext

\* Whatever clients send, however threads interleave, and wherever the process
\* or the TA dies, the TA sees a behaviour of TrustChainTA.
THEOREM HostImplementsTA == HostSpec => DrivesTA
<1>1. HostInit => Init /\ RequestsKnown
  BY DEF HostInit, RequestsKnown
<1>2. HostInit /\ [][HostNext]_hostVars => []RequestsKnown
  BY <1>1, KnownStep, PTL
<1> QED
  BY <1>1, <1>2, HostStepIsTAStep, PTL DEF HostSpec, Spec, DrivesTA

\* Behind the daemon, too, every block is signed by a key that the blocks
\* before it authorise.
THEOREM HostBlocksAreAuthorised == HostSpec => []BlocksAuthorised
BY HostImplementsTA, BlocksAreAuthorised DEF DrivesTA

-----------------------------------------------------------------------------
(* What the steps do to the TA, as far as the host's properties see it.      *)

USE DEF repoVars, lifeVars, connVars, Return

\* A block is appended to a repository, perhaps the first.
Added(r, b) ==
  /\ r \in RepId /\ r \in repositories'
  /\ ledger' = [ledger EXCEPT ![r] = Append(@, b)]
  /\ repositories' \ {r} \subseteq repositories
  /\ Len(ledger[r]) < MaxBlocks

\* init_repo appends the genesis block, to a slot that was empty, or nothing.
LEMMA InitOutcome ==
  ASSUME IInv, EmptySlots, NEW k \in Key, init_repo(k)
  PROVE  \/ result' # TEE_SUCCESS /\ UNCHANGED <<ledger, repositories>>
         \/ /\ result' = TEE_SUCCESS
            /\ \E tk \in StoredKey, r \in RepId : Added(r, Fresh(k, tk))
<1>1. TypeOK /\ IdsDense /\ OuterTypes
  BY DEF IInv, TypeOK, OuterTypes
<1>2. CASE Refused
  BY <1>2 DEF Refused, chainVars
<1>3. ASSUME NEW tk \in StoredKey, Created(k, tk), NEW r, r = repo_num
      PROVE  Added(r, Fresh(k, tk))
  <2> DEFINE b == Fresh(k, tk)
  <2>1. /\ r \in RepId /\ r \notin repositories
        /\ repositories' = repositories \cup {r}
        /\ ledger' = [ledger EXCEPT ![r] = <<b>>]
    BY <1>1, <1>3, CreatedFacts
  <2> HIDE DEF b
  <2>2. ledger[r] = <<>>
    BY <2>1 DEF EmptySlots
  <2>3. Append(ledger[r], b) = <<b>> /\ Len(ledger[r]) < MaxBlocks
    BY <2>2, BoundAssumption
  <2>4. ledger' = [ledger EXCEPT ![r] = Append(ledger[r], b)]
    BY <2>1, <2>3
  <2>5. Added(r, b)
    BY <2>1, <2>3, <2>4 DEF Added
  <2> QED BY <2>5 DEF b
<1>4. ASSUME NEW tk \in StoredKey, Created(k, tk)
      PROVE  \E r \in RepId : Added(r, Fresh(k, tk))
  <2>1. PICK r : r = repo_num
    OBVIOUS
  <2> QED BY <1>3, <1>4, <2>1 DEF Added
<1> QED BY <1>1, <1>2, <1>4, InitRepoStep DEF Refused

\* access_control appends the block of its message, or nothing.
LEMMA AccessOutcome ==
  ASSUME IInv, NEW m \in AccessMessages, access_control(m)
  PROVE  \/ result' # TEE_SUCCESS /\ UNCHANGED <<ledger, repositories>>
         \/ /\ result' = TEE_SUCCESS
            /\ m.signature = Sign(m.sigkey, AccessData(m))
            /\ \E tk \in StoredKey : Added(m.rep_id, Signed(AccessBlock(m), tk))
<1>1. TypeOK /\ OuterTypes
  BY DEF IInv, TypeOK, OuterTypes
<1>2. CASE Refused
  BY <1>2 DEF Refused, chainVars
<1>3. CASE result' # TEE_SUCCESS /\ \E u \in UpdatesOf(m) : TornBy(m, u)
  BY <1>3 DEF TornBy, AccessFails
<1>4. ASSUME NEW u \in UpdatesOf(m), NEW tk \in StoredKey, AccessBy(m, u, tk),
             result' = TEE_SUCCESS, Len(ledger[m.rep_id]) < MaxBlocks
      PROVE  /\ m.signature = Sign(m.sigkey, AccessData(m))
             /\ Added(m.rep_id, Signed(AccessBlock(m), tk))
  BY <1>1, <1>4, AccessGrows, AccessChecked DEF AccessBy, Grown, Added
<1> QED BY <1>1, <1>2, <1>3, <1>4, AccessStep

\* The block of a request records the request: the TA accepted its signature,
\* so the client had signed the codes the host sent.
LEMMA AccessRecords ==
  ASSUME NEW q \in Requests, q.kind = "access-control", NEW kept \in BOOLEAN, NEW tk,
         ac_msg(q, kept).signature = Sign(q.signature_key, AccessData(ac_msg(q, kept)))
  PROVE  Records(ac_msg(q, kept).rep_id, Signed(AccessBlock(ac_msg(q, kept)), tk), q)
<1> DEFINE m == ac_msg(q, kept)
           data == <<ac_rep_id(q.repo_id), ac_op(q.operation), ac_role(q.role), q.public_key>>
           right == kept /\ q.signed = data
           b == Signed(AccessBlock(m), tk)
<1>1. /\ m.rep_id = ac_rep_id(q.repo_id) /\ m.op = ac_op(q.operation)
      /\ m.role = ac_role(q.role) /\ m.pubkey = q.public_key /\ m.sigkey = q.signature_key
      /\ m.signature = IF right THEN Sign(q.signature_key, data) ELSE EMPTY_SIGNATURE
  BY DEF ac_msg, AccessMessage, SignedBy
<1>2. /\ b.op = m.op /\ b.role = m.role /\ b.pubkey = m.pubkey
      /\ b.sigkey = m.sigkey /\ b.signature = m.signature
  BY DEF Signed, AccessBlock, init_access_block
<1> HIDE DEF m, b, data
<1>3. m.signature # EMPTY_SIGNATURE
  BY DEF Sign, EMPTY_SIGNATURE, m
<1>4. q.signed = data
  BY <1>1, <1>3
<1>5. m.signature = Sign(q.signature_key, q.signed)
  BY <1>1, <1>3, <1>4
<1>6. q.signed[1] = m.rep_id
  BY <1>1, <1>4 DEF data
<1> QED BY <1>1, <1>2, <1>5, <1>6 DEF Records, b, m

\* A command appends the block its request asks for and succeeds, or fails and
\* leaves the repositories alone; it neither opens nor closes the session.
LEMMA CommandOutcome ==
  ASSUME IInv, EmptySlots, NEW q \in Requests \cup {NoRequest}, Command(q)
  PROVE  /\ session /\ UNCHANGED <<session, boots>>
         /\ \/ result' # TEE_SUCCESS /\ UNCHANGED <<ledger, repositories>>
            \/ /\ result' = TEE_SUCCESS /\ Asks(q)
               /\ \E r, b : Added(r, b) /\ Records(r, b, q)
<1>1. CASE handle_commit(q) \/ handle_get_latest_hash(q)
  BY <1>1 DEF handle_commit, handle_get_latest_hash, InvokeBadParameters,
              TEE_ERROR_BAD_PARAMETERS, TEE_SUCCESS
<1>2. CASE handle_init_repo(q)
  <2>1. q.kind = "init-repo" /\ init_repo(q.admin_key) /\ q.admin_key \in Key
    <3>1. q \in Requests
      BY <1>2 DEF handle_init_repo, NoRequest
    <3> QED BY <1>2, <3>1, RequestsAssumption
            DEF handle_init_repo, IsRequest, PlainRequest, InitRequest, CommitRequest, HashRequest
  <2>2. session /\ UNCHANGED <<session, boots>>
    BY <2>1 DEF init_repo
  <2>3. \A r, tk : Records(r, Fresh(q.admin_key, tk), q)
    BY <2>1 DEF Records, Fresh, Signed, GenesisBlock, init_access_block
  <2> QED BY <2>1, <2>2, <2>3, InitOutcome DEF Asks
<1>3. CASE handle_access_control(q)
  <2>1. PICK kept \in BOOLEAN : access_control(ac_msg(q, kept))
    BY <1>3 DEF handle_access_control
  <2>2. q \in Requests /\ q.kind = "access-control"
    BY <1>3 DEF handle_access_control, NoRequest
  <2>3. session /\ UNCHANGED <<session, boots>>
    BY <2>1 DEF access_control
  <2>4. ac_msg(q, kept) \in AccessMessages /\ ac_msg(q, kept).sigkey = q.signature_key
    BY <2>2, AccessMessageKnown DEF ac_msg, AccessMessage
  <2> QED BY <2>1, <2>2, <2>3, <2>4, AccessOutcome, AccessRecords DEF Asks
<1> QED BY <1>1, <1>2, <1>3 DEF Command

\* An invocation fills the position it appends to, and no other.
LEMMA NewBlocksAre ==
  ASSUME IInv
  PROVE  /\ UNCHANGED ledger => NewBlocks = {}
         /\ \A r, b : Added(r, b) => NewBlocks = {<<boots, r, Len(ledger[r]) + 1>>}
<1>1. \A s \in RepId : IsLedger(ledger[s]) /\ DOMAIN ledger = RepId /\ Len(ledger[s]) \in Nat
  BY EmptyLedger, AppendElements DEF IInv, TypeOK
<1>2. UNCHANGED ledger => NewBlocks = {}
  BY <1>1 DEF NewBlocks
<1>3. ASSUME NEW r, NEW b, Added(r, b) PROVE NewBlocks = {<<boots, r, Len(ledger[r]) + 1>>}
  <2>1. /\ r \in RepId
        /\ Len(ledger'[r]) = Len(ledger[r]) + 1
        /\ \A s \in RepId : s # r => ledger'[s] = ledger[s]
    BY <1>1, <1>3, AppendElements DEF Added
  <2>2. {s \in RepId : Len(ledger'[s]) > Len(ledger[s])} = {r}
    BY <1>1, <2>1
  <2> QED BY <2>1, <2>2 DEF NewBlocks
<1> QED BY <1>2, <1>3

-----------------------------------------------------------------------------
(* What the steps do to the connections.                                     *)

Position == (1..MaxBoots) \X RepId \X (1..MaxBlocks)

\* HostTypeOK without main.
ConnTypes ==
  /\ pc \in [Conn -> Label]
  /\ request \in [Conn -> Requests \cup {NoRequest}]
  /\ status \in [Conn -> {0, OK, CLIENT_ERROR, TA_ERROR}]
  /\ gone \in [Conn -> BOOLEAN]
  /\ made \in [Conn -> SUBSET Position]
  /\ \A c \in Conn : /\ pc[c] = "write" => status[c] # 0
                     /\ pc[c] \in {"none", "queued", "recv"} => status[c] = 0 /\ made[c] = {}

\* A connection that made a block keeps its request and its answer.
Steady ==
  \A d \in Conn : made[d] # {} =>
    request'[d] = request[d] /\ status'[d] = status[d] /\ (gone[d] => gone'[d])

\* A success behind which there is no block is not a new one.
NoFalseOK ==
  \A d \in Conn : status'[d] = OK /\ Asks(request'[d]) /\ made'[d] = {}
                  => status[d] = OK /\ Asks(request[d]) /\ made[d] = {}

\* A connection that made a block ends unanswered only if its client has hung
\* up or the session has ended.
NoneSilenced ==
  \A d \in Conn : pc'[d] = "closed" =>
    pc[d] = "closed" \/ made'[d] = {} \/ gone'[d] \/ ~session'

ConnStep == ConnTypes' /\ Steady /\ NoFalseOK /\ NoneSilenced

\* Who has made a block was told of success.
NoBlockRefused == \A c \in Conn : status[c] # OK => made[c] = {}

\* The end of connections forgets only those that made no block.
LEMMA FinishStep ==
  ASSUME ConnTypes, NoBlockRefused, NEW cs, NEW label \in Ended, Finish(cs, label),
         label = "closed" => \A d \in cs : made[d] = {} \/ gone[d] \/ ~session'
  PROVE  ConnStep
<1> DEFINE Forgotten(c) == c \in cs /\ made[c] = {}
<1>1. /\ pc' = [c \in Conn |-> IF c \in cs THEN label ELSE pc[c]]
      /\ request' = [c \in Conn |-> IF Forgotten(c) THEN NoRequest ELSE request[c]]
      /\ status' = [c \in Conn |-> IF Forgotten(c) THEN 0 ELSE status[c]]
      /\ gone' = [c \in Conn |-> gone[c] /\ ~Forgotten(c)]
      /\ made' = made
  BY DEF Finish
<1>2. ConnTypes'
  <2>1. pc' \in [Conn -> Label] /\ label \notin {"write", "none", "queued", "recv"}
    BY <1>1 DEF ConnTypes, Label, Ended
  <2>2. /\ request' \in [Conn -> Requests \cup {NoRequest}]
        /\ status' \in [Conn -> {0, OK, CLIENT_ERROR, TA_ERROR}]
    BY <1>1 DEF ConnTypes
  <2>3. gone' \in [Conn -> BOOLEAN]
    BY <1>1, Zenon DEF ConnTypes
  <2>4. \A c \in Conn : /\ pc'[c] = "write" => status'[c] # 0
                       /\ pc'[c] \in {"none", "queued", "recv"} => status'[c] = 0 /\ made'[c] = {}
    BY <1>1, <2>1 DEF ConnTypes
  <2> QED BY <1>1, <2>1, <2>2, <2>3, <2>4 DEF ConnTypes
<1>3. Steady
  BY <1>1 DEF Steady
<1>4. NoFalseOK
  BY <1>1 DEF NoFalseOK, OK
<1>5. NoneSilenced
  BY <1>1 DEF NoneSilenced
<1> QED BY <1>2, <1>3, <1>4, <1>5 DEF ConnStep

\* An answer to a request that came to this; a success of a change has its block.
LEMMA RespondStep ==
  ASSUME ConnTypes, NEW c \in Conn, pc[c] = "recv",
         NEW code \in {OK, CLIENT_ERROR, TA_ERROR}, Respond(c, code),
         UNCHANGED <<request, gone>>,
         NEW S \in SUBSET Position, made' = [made EXCEPT ![c] = S],
         code = OK /\ Asks(request[c]) => S # {}
  PROVE  ConnStep
<1>1. /\ pc' = [pc EXCEPT ![c] = "write"]
      /\ status' = [status EXCEPT ![c] = code]
      /\ request' = request /\ gone' = gone
      /\ made[c] = {}
  BY DEF Respond, Goto, ConnTypes
<1>2. ConnTypes'
  BY <1>1 DEF ConnTypes, Label, OK, CLIENT_ERROR, TA_ERROR
<1>3. Steady
  BY <1>1 DEF Steady, ConnTypes
<1>4. NoFalseOK
  BY <1>1 DEF NoFalseOK, ConnTypes
<1>5. NoneSilenced
  BY <1>1 DEF NoneSilenced, ConnTypes
<1> QED BY <1>2, <1>3, <1>4, <1>5 DEF ConnStep

\* A client connects, or main accepts.
LEMMA MoveStep ==
  ASSUME ConnTypes, NEW c \in Conn, pc[c] \in {"none", "queued"},
         NEW label \in {"queued", "recv"}, Goto(c, label),
         UNCHANGED <<request, status, gone, made>>
  PROVE  ConnStep
<1>1. pc' = [pc EXCEPT ![c] = label] /\ status[c] = 0 /\ made[c] = {}
  BY DEF Goto, ConnTypes
<1>2. ConnTypes'
  BY <1>1 DEF ConnTypes, Label
<1> QED BY <1>1, <1>2 DEF ConnStep, Steady, NoFalseOK, NoneSilenced, ConnTypes

\* A client sends.
LEMMA SendStep ==
  ASSUME ConnTypes, NEW c \in Conn, Send(c)
  PROVE  ConnStep
<1>1. /\ request' \in [Conn -> Requests \cup {NoRequest}]
      /\ \A d \in Conn : d # c => request'[d] = request[d]
      /\ status[c] = 0 /\ made[c] = {}
      /\ UNCHANGED <<pc, status, gone, made>>
  BY DEF Send, ConnTypes
<1>2. ConnTypes'
  BY <1>1 DEF ConnTypes
<1> QED BY <1>1, <1>2 DEF ConnStep, Steady, NoFalseOK, NoneSilenced, OK

\* A client hangs up.
LEMMA HangUpStep ==
  ASSUME ConnTypes, NEW c \in Conn, HangUp(c)
  PROVE  ConnStep
<1>1. /\ gone' \in [Conn -> BOOLEAN]
      /\ \A d \in Conn : gone[d] => gone'[d]
      /\ UNCHANGED <<pc, request, status, made>>
  <2>1. gone' = [gone EXCEPT ![c] = TRUE] /\ gone \in [Conn -> BOOLEAN]
    BY DEF HangUp, ConnTypes
  <2>2. UNCHANGED <<pc, request, status, made>>
    BY DEF HangUp
  <2> QED BY <2>1, <2>2
<1>2. ConnTypes'
  BY <1>1 DEF ConnTypes
<1> QED BY <1>1, <1>2 DEF ConnStep, Steady, NoFalseOK, NoneSilenced

\* A step that does not touch the connections.
LEMMA RestStep ==
  ASSUME ConnTypes, UNCHANGED connVars
  PROVE  ConnStep
<1>1. ConnTypes'
  BY DEF ConnTypes
<1> QED BY <1>1 DEF ConnStep, Steady, NoFalseOK, NoneSilenced

-----------------------------------------------------------------------------
(* The steps of the composition.                                             *)

\* There is a repository only in a session, a session only in a process, and
\* sessions are counted from 1.
Standing ==
  /\ session => boots > 0
  /\ ~session => repositories = {}
  /\ daemon \in {"down", "exiting"} => ~session

\* The TA holds the same blocks; it loses them; a session opens; it appends one
\* for the thread of c, which answers that.
TAQuiet == UNCHANGED <<session, boots, ledger, repositories, made>>
TAEnds == ~session' /\ repositories' = {} /\ UNCHANGED <<boots, made>>
TAStarts == ~session /\ boots' = boots + 1 /\ UNCHANGED <<ledger, repositories, made>>
TAGrows(c) ==
  /\ session /\ UNCHANGED <<session, boots, request>>
  /\ pc[c] = "recv" /\ status'[c] = OK
  /\ \E r, b : /\ Added(r, b) /\ Records(r, b, request[c])
              /\ made' = [made EXCEPT ![c] = {<<boots, r, Len(ledger[r]) + 1>>}]

TAStep == TAQuiet \/ TAEnds \/ TAStarts \/ \E c \in Conn : TAGrows(c)

DaemonStep ==
  /\ daemon' \in {"down", "accepting", "closing", "exiting"}
  /\ daemon' \in {"down", "exiting"} => ~session'

\* What the lemmas about a step need to know of the state before it.
HostInv0 == IInv /\ EmptySlots /\ HostTypeOK /\ NoBlockRefused /\ Standing

\* The types of the connections, as the lemmas above use them.
LEMMA HostInv0Types == HostInv0 => ConnTypes
BY DEF HostInv0, HostTypeOK, ConnTypes, Position

\* The end of a session discards its repositories.
LEMMA SessionEndsStep ==
  ASSUME Standing, SessionEnds
  PROVE  ~session' /\ repositories' = {} /\ UNCHANGED boots
BY DEF Standing, SessionEnds, TA_CloseSession, vars

\* The end of the process.
LEMMA ProcessEndsStep ==
  ASSUME HostInv0, ~session', ProcessEnds
  PROVE  ConnStep /\ DaemonStep /\ UNCHANGED made
<1>1. ConnTypes /\ NoBlockRefused
  BY HostInv0Types DEF HostInv0
<1>2. "closed" \in Ended
  BY DEF Ended
<1>3. Finish({c \in Conn : pc[c] \notin {"none"} \cup Ended}, "closed")
  BY DEF ProcessEnds
<1>4. ConnStep
  BY <1>1, <1>2, <1>3, FinishStep
<1> QED BY <1>3, <1>4 DEF ProcessEnds, Finish, DaemonStep

\* An invocation by a thread.
LEMMA InvokeStep ==
  ASSUME HostInv0, NEW c \in Conn, Invoke(c)
  PROVE  ConnStep /\ DaemonStep /\ TAStep
<1>1. /\ ConnTypes /\ pc[c] = "recv" /\ made[c] = {}
      /\ request[c] \in Requests \cup {NoRequest}
      /\ UNCHANGED <<daemon, request, gone>>
  BY HostInv0Types DEF Invoke, ConnTypes
<1>2. IInv /\ EmptySlots /\ Standing
  BY DEF HostInv0
<1>3. {} \in SUBSET Position /\ made = [made EXCEPT ![c] = {}]
  BY <1>1 DEF ConnTypes
<1>4. TA_ERROR # OK
  BY DEF TA_ERROR, OK
<1>5. (UNCHANGED session \/ ~session') => DaemonStep
  BY <1>1, <1>2 DEF DaemonStep, Standing, HostInv0, HostTypeOK
<1>6. CASE InvokeDead(c)
  <2>1. Respond(c, TA_ERROR) /\ UNCHANGED vars /\ UNCHANGED made
    BY <1>6 DEF InvokeDead
  <2>2. ConnStep
    BY <1>1, <1>3, <1>4, <2>1, RespondStep
  <2> QED BY <1>5, <2>1, <2>2 DEF TAStep, TAQuiet, vars
<1>7. CASE InvokePanics(c)
  <2>1. Respond(c, TA_ERROR) /\ TA_CloseSession /\ UNCHANGED made
    BY <1>7 DEF InvokePanics
  <2>2. ConnStep
    BY <1>1, <1>3, <1>4, <2>1, RespondStep
  <2>3. TAEnds
    BY <2>1 DEF TAEnds, TA_CloseSession
  <2> QED BY <1>5, <2>2, <2>3 DEF TAStep, TAEnds
<1>8. CASE InvokeCommand(c)
  <2>1. /\ Command(request[c])
        /\ Respond(c, IF result' = TEE_SUCCESS THEN OK ELSE TA_ERROR)
        /\ made' = [made EXCEPT ![c] = NewBlocks]
    BY <1>8 DEF InvokeCommand
  <2>2. /\ session /\ UNCHANGED <<session, boots>>
        /\ \/ result' # TEE_SUCCESS /\ UNCHANGED <<ledger, repositories>>
           \/ /\ result' = TEE_SUCCESS /\ Asks(request[c])
              /\ \E r, b : Added(r, b) /\ Records(r, b, request[c])
    BY <1>1, <1>2, <2>1, CommandOutcome
  <2>3. CASE result' # TEE_SUCCESS /\ UNCHANGED <<ledger, repositories>>
    <3>1. NewBlocks = {} /\ Respond(c, TA_ERROR)
      BY <1>2, <2>1, <2>3, NewBlocksAre
    <3>2. made' = [made EXCEPT ![c] = {}]
      BY <2>1, <3>1
    <3>3. ConnStep
      BY <1>1, <1>3, <1>4, <3>1, <3>2, RespondStep
    <3> QED BY <1>3, <1>5, <2>2, <2>3, <3>2, <3>3 DEF TAStep, TAQuiet
  <2>4. ASSUME result' = TEE_SUCCESS, NEW r, NEW b, Added(r, b), Records(r, b, request[c])
        PROVE  ConnStep /\ DaemonStep /\ TAStep
    <3> DEFINE p == <<boots, r, Len(ledger[r]) + 1>>
    <3>1. made' = [made EXCEPT ![c] = {p}]
      BY <1>2, <2>1, <2>4, NewBlocksAre
    <3>2. p \in Position
      <4>1. boots \in 1..MaxBoots
        BY <1>2, <2>2, BoundAssumption DEF Standing, IInv, TypeOK
      <4>2. Len(ledger[r]) + 1 \in 1..MaxBlocks /\ r \in RepId
        BY <1>2, <2>4, AppendElements, BoundAssumption DEF Added, IInv, TypeOK
      <4> QED BY <4>1, <4>2 DEF Position
    <3> HIDE DEF p
    <3>3. Respond(c, OK)
      BY <2>1, <2>4
    <3>4. ConnStep
      <4>1. {p} \in SUBSET Position /\ {p} # {}
        BY <3>2
      <4> QED BY <1>1, <3>1, <3>3, <4>1, RespondStep
    <3>5. TAGrows(c)
      <4>1. status'[c] = OK
        BY <1>1, <3>3 DEF Respond, ConnTypes
      <4> QED BY <1>1, <2>2, <2>4, <3>1, <4>1 DEF TAGrows, p
    <3> QED BY <1>5, <2>2, <3>4, <3>5 DEF TAStep
  <2> QED BY <2>2, <2>3, <2>4
<1> QED BY <1>6, <1>7, <1>8 DEF Invoke

\* Every step is one of these for the connections, for main and for the TA.
LEMMA HostStep ==
  ASSUME HostInv0, [HostNext]_hostVars
  PROVE  ConnStep /\ DaemonStep /\ TAStep
<1>1. /\ IInv /\ ConnTypes /\ NoBlockRefused /\ Standing
      /\ daemon \in {"down", "accepting", "closing", "exiting"}
  BY HostInv0Types DEF HostInv0, HostTypeOK
<1>2. UNCHANGED vars /\ UNCHANGED made => TAStep
  BY DEF vars, TAStep, TAQuiet
<1>3. UNCHANGED <<session, daemon>> => DaemonStep
  BY <1>1 DEF DaemonStep, Standing
<1>4. "closed" \in Ended /\ "answered" \in Ended
  BY DEF Ended
<1>5. SessionEnds /\ UNCHANGED made => TAStep /\ ~session'
  BY <1>1, SessionEndsStep DEF TAStep, TAEnds
<1>6. CASE UNCHANGED hostVars
  BY <1>1, <1>2, <1>3, <1>6, RestStep DEF hostVars, vars
<1>7. CASE Start
  <2>1. ConnStep
    BY <1>1, <1>7, RestStep DEF Start
  <2>2. DaemonStep
    BY <1>1, <1>7 DEF Start, DaemonStep, TA_OpenSession
  <2>3. TAStep
    BY <1>7 DEF Start, TA_OpenSession, TAStep, TAStarts, TAQuiet
  <2> QED BY <2>1, <2>2, <2>3
<1>8. ASSUME NEW c \in Conn, Accept(c) PROVE ConnStep /\ DaemonStep /\ TAStep
  <2>1. UNCHANGED <<vars, daemon>> /\ pc[c] = "queued" /\ made[c] = {}
    BY <1>1, <1>8 DEF Accept, IsNext, ConnTypes
  <2>2. CASE Goto(c, "recv") /\ UNCHANGED <<request, status, gone, made>>
    BY <1>1, <1>2, <1>3, <2>1, <2>2, MoveStep DEF vars
  <2>3. CASE Finish({c}, "closed")
    <3>1. ConnStep
      BY <1>1, <1>4, <2>1, <2>3, FinishStep
    <3> QED BY <1>2, <1>3, <2>1, <2>3, <3>1 DEF vars, Finish
  <2> QED BY <1>8, <2>2, <2>3 DEF Accept
<1>9. CASE AcceptFails
  <2>1. ConnStep
    BY <1>1, <1>9, RestStep DEF AcceptFails
  <2> QED BY <1>2, <1>9, <2>1 DEF AcceptFails, DaemonStep
<1>10. CASE close_tee_connection
  <2>1. ConnStep
    BY <1>1, <1>10, RestStep DEF close_tee_connection
  <2> QED BY <1>5, <1>10, <2>1 DEF close_tee_connection, DaemonStep
<1>11. CASE Exit
  <2>1. ~session' /\ ProcessEnds /\ UNCHANGED vars
    BY <1>1, <1>11 DEF Exit, Standing, vars
  <2> QED BY <1>2, <2>1, ProcessEndsStep
<1>12. CASE Killed
  BY <1>1, <1>5, <1>12, SessionEndsStep, ProcessEndsStep DEF Killed
<1>13. ASSUME NEW c \in Conn, RecvNothing(c) \/ Write(c) PROVE ConnStep /\ DaemonStep /\ TAStep
  <2>1. /\ UNCHANGED <<vars, daemon>>
        /\ \/ made[c] = {} /\ Finish({c}, "closed")
           \/ Finish({c}, IF gone[c] THEN "closed" ELSE "answered")
    BY <1>1, <1>13 DEF RecvNothing, Write, ConnTypes
  <2>2. CASE (made[c] = {} \/ gone[c]) /\ Finish({c}, "closed")
    <3>1. ConnStep
      BY <1>1, <1>4, <2>2, FinishStep
    <3> QED BY <1>2, <1>3, <2>1, <2>2, <3>1 DEF vars, Finish
  <2>3. CASE Finish({c}, "answered")
    <3>1. ConnStep
      BY <1>1, <1>4, <2>3, FinishStep
    <3> QED BY <1>2, <1>3, <2>1, <2>3, <3>1 DEF vars, Finish
  <2> QED BY <2>1, <2>2, <2>3
<1>14. ASSUME NEW c \in Conn, HandlePlain(c) PROVE ConnStep /\ DaemonStep /\ TAStep
  <2>1. /\ UNCHANGED <<vars, daemon, request, gone, made>>
        /\ pc[c] = "recv" /\ request[c] \in Requests \cup {NoRequest}
    BY <1>1, <1>14 DEF HandlePlain, ConnTypes
  <2>2. {} \in SUBSET Position /\ made' = [made EXCEPT ![c] = {}]
    BY <1>1, <2>1 DEF ConnTypes
  <2>3. CASE request[c].kind = "plain" /\ Respond(c, request[c].code)
    <3>1. request[c] \in Requests
      BY <2>1, <2>3 DEF NoRequest
    <3>2. request[c].code \in {OK, CLIENT_ERROR} /\ ~Asks(request[c])
      BY <2>3, <3>1, RequestsAssumption
         DEF IsRequest, PlainRequest, InitRequest, CommitRequest, HashRequest, Asks
    <3>3. ConnStep
      BY <1>1, <2>1, <2>2, <2>3, <3>2, RespondStep
    <3> QED BY <1>2, <1>3, <2>1, <3>3 DEF vars
  <2>4. CASE Respond(c, CLIENT_ERROR)
    <3>1. CLIENT_ERROR # OK
      BY DEF CLIENT_ERROR, OK
    <3>2. ConnStep
      BY <1>1, <2>1, <2>2, <2>4, <3>1, RespondStep
    <3> QED BY <1>2, <1>3, <2>1, <3>2 DEF vars
  <2> QED BY <1>14, <2>3, <2>4 DEF HandlePlain
<1>15. ASSUME NEW c \in Conn, WriteSignals(c) PROVE ConnStep /\ DaemonStep /\ TAStep
  BY <1>1, <1>5, <1>15, SessionEndsStep, ProcessEndsStep DEF WriteSignals
<1>16. ASSUME NEW c \in Conn, Connect(c) PROVE ConnStep /\ DaemonStep /\ TAStep
  BY <1>1, <1>2, <1>3, <1>16, MoveStep DEF Connect, vars
<1>17. ASSUME NEW c \in Conn, Send(c) PROVE ConnStep /\ DaemonStep /\ TAStep
  BY <1>1, <1>2, <1>3, <1>17, SendStep DEF Send, vars
<1>18. ASSUME NEW c \in Conn, HangUp(c) PROVE ConnStep /\ DaemonStep /\ TAStep
  BY <1>1, <1>2, <1>3, <1>18, HangUpStep DEF HangUp, vars
<1>19. CASE Main
  BY <1>8, <1>9, <1>10, <1>11, <1>19 DEF Main, AcceptFindsNoDescriptor
<1>20. ASSUME NEW c \in Conn, Thread(c) PROVE ConnStep /\ DaemonStep /\ TAStep
  BY <1>13, <1>14, <1>15, <1>20, InvokeStep DEF Thread
<1> QED
  BY <1>6, <1>7, <1>9, <1>12, <1>16, <1>17, <1>18, <1>19, <1>20 DEF HostNext

-----------------------------------------------------------------------------
(* The inductive invariant.                                                  *)

\* What a connection made is of an instance that has been, and while it lives
\* the block is there and records the request.
Kept ==
  \A c \in Conn : \A p \in made[c] :
    /\ p[1] <= boots
    /\ Held(p) => /\ p[3] <= Len(ledger[p[2]])
                  /\ Records(p[2], ledger[p[2]][p[3]], request[c])

AtMostOne == \A c \in Conn : \A p, q \in made[c] : p = q

Answered == \A c \in Conn : status[c] = OK /\ Asks(request[c]) => made[c] # {}

Disjoint == \A c, d \in Conn : \A p \in made[c] : p \in made[d] => c = d

Covered ==
  session => \A r \in repositories : \A i \in 1..Len(ledger[r]) :
               \E c \in Conn : <<boots, r, i>> \in made[c]

HostInv ==
  /\ HostTypeOK /\ NoBlockRefused /\ Standing
  /\ Kept /\ AtMostOne /\ Answered /\ Disjoint /\ Covered /\ NoSilentBlock

\* The step of the thread of c: where its block lands, and what stays.
LEMMA GrowthFacts ==
  ASSUME HostInv0, NEW c \in Conn, TAGrows(c)
  PROVE  \E r, b :
           /\ r \in RepId
           /\ session /\ session' /\ boots' = boots /\ boots \in 1..MaxBoots
           /\ Len(ledger[r]) \in Nat
           /\ Len(ledger'[r]) = Len(ledger[r]) + 1
           /\ ledger'[r][Len(ledger[r]) + 1] = b
           /\ \A i \in 1..Len(ledger[r]) : ledger'[r][i] = ledger[r][i]
           /\ \A s \in RepId : s # r => ledger'[s] = ledger[s]
           /\ r \in repositories' /\ repositories' \ {r} \subseteq repositories
           /\ r \notin repositories => Len(ledger[r]) = 0
           /\ Records(r, b, request[c]) /\ request' = request
           /\ made[c] = {} /\ made'[c] = {<<boots, r, Len(ledger[r]) + 1>>}
           /\ \A d \in Conn : d # c => made'[d] = made[d]
<1>1. PICK r, b : /\ Added(r, b) /\ Records(r, b, request[c])
                  /\ made' = [made EXCEPT ![c] = {<<boots, r, Len(ledger[r]) + 1>>}]
  BY DEF TAGrows
<1>2. IInv /\ TypeOK /\ EmptySlots /\ Standing /\ ConnTypes
  BY HostInv0Types DEF HostInv0, IInv
<1>3. /\ r \in RepId /\ IsLedger(ledger[r]) /\ DOMAIN ledger = RepId
      /\ ledger' = [ledger EXCEPT ![r] = Append(ledger[r], b)]
  BY <1>1, <1>2 DEF Added, TypeOK
<1>4. /\ ledger'[r] = Append(ledger[r], b)
      /\ \A s \in RepId : s # r => ledger'[s] = ledger[s]
  BY <1>3
<1>5. /\ session /\ session' /\ boots' = boots /\ request' = request /\ pc[c] = "recv"
  BY DEF TAGrows
<1>6. boots \in 1..MaxBoots
  BY <1>2, <1>5, BoundAssumption DEF Standing, TypeOK
<1>7. made[c] = {} /\ made \in [Conn -> SUBSET Position]
  BY <1>2, <1>5 DEF ConnTypes
<1>8. /\ r \in repositories' /\ repositories' \ {r} \subseteq repositories
      /\ r \notin repositories => Len(ledger[r]) = 0
  BY <1>1, <1>2, <1>3 DEF Added, EmptySlots
<1>9. /\ made'[c] = {<<boots, r, Len(ledger[r]) + 1>>}
      /\ \A d \in Conn : d # c => made'[d] = made[d]
  BY <1>1, <1>7
<1>10. /\ Len(ledger[r]) \in Nat
       /\ Len(ledger'[r]) = Len(ledger[r]) + 1
       /\ ledger'[r][Len(ledger[r]) + 1] = b
       /\ \A i \in 1..Len(ledger[r]) : ledger'[r][i] = ledger[r][i]
  BY <1>3, <1>4, AppendElements
<1> QED BY <1>1, <1>3, <1>4, <1>5, <1>6, <1>7, <1>8, <1>9, <1>10

\* A position, and the block at it.
LEMMA PositionFacts ==
  ASSUME HostInv0, NEW c \in Conn, NEW p \in made[c]
  PROVE  /\ p[1] \in 1..MaxBoots /\ p[2] \in RepId /\ p[3] \in 1..MaxBlocks
         /\ p = <<p[1], p[2], p[3]>>
         /\ Len(ledger[p[2]]) \in Nat
<1>1. p \in Position
  BY HostInv0Types DEF ConnTypes
<1>2. /\ p[1] \in 1..MaxBoots /\ p[2] \in RepId /\ p[3] \in 1..MaxBlocks
      /\ p = <<p[1], p[2], p[3]>>
  BY <1>1 DEF Position
<1> QED BY <1>2, EmptyLedger, AppendElements DEF HostInv0, IInv, TypeOK

\* The invariant survives a step that makes no block.
LEMMA PlainHostStep ==
  ASSUME HostInv0, HostInv, [HostNext]_hostVars, TAQuiet \/ TAEnds \/ TAStarts
  PROVE  Kept' /\ AtMostOne' /\ Answered' /\ Disjoint' /\ Covered' /\ NoSilentBlock'
<1>1. ConnStep /\ made' = made
  BY HostStep DEF TAQuiet, TAEnds, TAStarts
<1>2. \A c \in Conn : made[c] # {} => request'[c] = request[c] /\ (gone[c] => gone'[c])
  BY <1>1 DEF ConnStep, Steady
<1>3. ASSUME NEW c \in Conn, NEW p \in made[c]
      PROVE  /\ p[1] <= boots' /\ boots \in Nat
             /\ Held(p)' => Held(p) /\ UNCHANGED <<ledger, repositories>>
  <2>1. p[1] \in Nat /\ p[1] <= boots /\ boots \in Nat
    BY <1>3, PositionFacts, BoundAssumption DEF HostInv, Kept, HostInv0, IInv, TypeOK
  <2>2. CASE TAQuiet
    BY <2>1, <2>2 DEF TAQuiet, Held
  <2>3. CASE TAEnds
    BY <2>1, <2>3 DEF TAEnds, Held
  <2>4. CASE TAStarts
    BY <2>1, <2>4 DEF TAStarts, Held
  <2> QED BY <2>2, <2>3, <2>4
<1>4. Kept'
  <2>1. SUFFICES ASSUME NEW c \in Conn, NEW p \in made[c]
                 PROVE  /\ p[1] <= boots'
                        /\ Held(p)' => /\ p[3] <= Len(ledger'[p[2]])
                                       /\ Records(p[2], ledger'[p[2]][p[3]], request'[c])
    BY <1>1 DEF Kept
  <2>2. CASE ~Held(p)'
    BY <1>3, <2>2
  <2>3. CASE Held(p)'
    <3>1. ledger' = ledger /\ request'[c] = request[c] /\ Held(p)
      BY <1>2, <1>3, <2>3
    <3>2. p[3] <= Len(ledger[p[2]]) /\ Records(p[2], ledger[p[2]][p[3]], request[c])
      BY <3>1 DEF HostInv, Kept
    <3> QED BY <1>3, <3>1, <3>2
  <2> QED BY <2>2, <2>3
<1>5. AtMostOne' /\ Disjoint'
  BY <1>1 DEF HostInv, AtMostOne, Disjoint
<1>6. Answered'
  BY <1>1 DEF HostInv, Answered, ConnStep, NoFalseOK
<1>7. Covered'
  <2>1. CASE TAQuiet
    BY <2>1 DEF HostInv, Covered, TAQuiet
  <2>2. CASE TAEnds
    BY <2>2 DEF Covered, TAEnds
  <2>3. CASE TAStarts
    BY <2>3 DEF HostInv, Standing, Covered, TAStarts
  <2> QED BY <2>1, <2>2, <2>3
<1>8. NoSilentBlock'
  <2>1. SUFFICES ASSUME NEW c \in Conn, pc'[c] = "closed", NEW p \in made[c], Held(p)'
                 PROVE  gone'[c]
    BY <1>1 DEF NoSilentBlock
  <2>2. Held(p) /\ (gone[c] => gone'[c])
    BY <1>2, <1>3, <2>1
  <2>3. pc[c] = "closed" \/ gone'[c]
    BY <1>1, <2>1 DEF ConnStep, NoneSilenced, Held
  <2> QED BY <2>1, <2>2, <2>3 DEF HostInv, NoSilentBlock
<1> QED BY <1>4, <1>5, <1>6, <1>7, <1>8

\* The invariant survives a step that makes one.
LEMMA GrowingHostStep ==
  ASSUME HostInv0, HostInv, [HostNext]_hostVars, NEW c \in Conn, TAGrows(c)
  PROVE  Kept' /\ AtMostOne' /\ Answered' /\ Disjoint' /\ Covered' /\ NoSilentBlock'
<1>1. ConnStep
  BY HostStep
<1>2. \A d \in Conn : made[d] # {} => request'[d] = request[d] /\ (gone[d] => gone'[d])
  BY <1>1 DEF ConnStep, Steady
<1>3. PICK r, b :
        /\ r \in RepId
        /\ session /\ session' /\ boots' = boots /\ boots \in 1..MaxBoots
        /\ Len(ledger[r]) \in Nat
        /\ Len(ledger'[r]) = Len(ledger[r]) + 1
        /\ ledger'[r][Len(ledger[r]) + 1] = b
        /\ \A i \in 1..Len(ledger[r]) : ledger'[r][i] = ledger[r][i]
        /\ \A s \in RepId : s # r => ledger'[s] = ledger[s]
        /\ r \in repositories' /\ repositories' \ {r} \subseteq repositories
        /\ r \notin repositories => Len(ledger[r]) = 0
        /\ Records(r, b, request[c]) /\ request' = request
        /\ made[c] = {} /\ made'[c] = {<<boots, r, Len(ledger[r]) + 1>>}
        /\ \A d \in Conn : d # c => made'[d] = made[d]
  BY GrowthFacts
<1> DEFINE n == Len(ledger[r]) + 1
           new == <<boots, r, n>>
<1>4. new[1] = boots /\ new[2] = r /\ new[3] = n /\ n \in Nat
  BY <1>3
\* What the others made is elsewhere.
<1>5. ASSUME NEW d \in Conn, NEW p \in made[d]
      PROVE  /\ p[1] \in Nat /\ p[1] <= boots /\ boots \in Nat
             /\ p[2] \in RepId /\ p[3] \in Nat \ {0}
             /\ Held(p) => /\ p[3] <= Len(ledger[p[2]]) /\ Len(ledger[p[2]]) \in Nat
                           /\ Records(p[2], ledger[p[2]][p[3]], request[d])
             /\ p # new /\ d # c /\ made'[d] = made[d]
  <2>1. /\ p[1] \in 1..MaxBoots /\ p[2] \in RepId /\ p[3] \in 1..MaxBlocks
        /\ Len(ledger[p[2]]) \in Nat
    BY PositionFacts
  <2>2. p[1] <= boots /\ (Held(p) => p[3] <= Len(ledger[p[2]])
                                    /\ Records(p[2], ledger[p[2]][p[3]], request[d]))
    BY DEF HostInv, Kept
  <2>3. p # new
    <3>1. SUFFICES ASSUME p = new PROVE FALSE
      OBVIOUS
    <3>2. Held(p) /\ p[2] = r /\ p[3] = n
      BY <1>3, <1>4, <3>1 DEF Held
    <3> QED BY <1>3, <2>2, <3>2
  <2>4. d # c
    BY <1>3
  <2> QED BY <1>3, <2>1, <2>2, <2>3, <2>4, BoundAssumption
<1>6. \A d \in Conn : \A p \in made'[d] : p \in made[d] \/ (d = c /\ p = new)
  BY <1>3
<1>7. new \in made'[c] /\ made'[c] = {new}
  BY <1>3
<1> HIDE DEF new, n
<1>8. Kept'
  <2>1. SUFFICES ASSUME NEW d \in Conn, NEW p \in made'[d]
                 PROVE  /\ p[1] <= boots'
                        /\ Held(p)' => /\ p[3] <= Len(ledger'[p[2]])
                                       /\ Records(p[2], ledger'[p[2]][p[3]], request'[d])
    BY DEF Kept
  <2>2. CASE d = c /\ p = new
    <3>1. Len(ledger'[r]) = n /\ ledger'[r][n] = b
      BY <1>3 DEF n
    <3> QED BY <1>3, <1>4, <2>2, <3>1
  <2>3. CASE p \in made[d]
    <3>1. CASE ~Held(p)
      BY <1>3, <1>5, <2>3, <3>1 DEF Held
    <3>2. CASE Held(p)
      <4>1. /\ p[2] \in RepId /\ p[3] \in 1..Len(ledger[p[2]])
            /\ Records(p[2], ledger[p[2]][p[3]], request[d])
        BY <1>5, <2>3, <3>2
      <4>2. /\ Len(ledger'[p[2]]) >= Len(ledger[p[2]])
            /\ ledger'[p[2]][p[3]] = ledger[p[2]][p[3]]
        <5>1. Len(ledger[p[2]]) \in Nat
          BY <1>5, <2>3, <3>2
        <5>2. CASE p[2] = r
          <6>1. ledger'[p[2]][p[3]] = ledger[p[2]][p[3]]
            BY <1>3, <4>1, <5>2
          <6>2. Len(ledger'[p[2]]) = Len(ledger[p[2]]) + 1
            BY <1>3, <5>2
          <6> QED BY <5>1, <6>1, <6>2
        <5>3. CASE p[2] # r
          <6>1. ledger'[p[2]] = ledger[p[2]]
            BY <1>3, <4>1, <5>3
          <6> QED BY <5>1, <6>1
        <5> QED BY <5>2, <5>3
      <4>3. p[3] <= Len(ledger'[p[2]])
        <5>1. Len(ledger'[p[2]]) \in Nat
          BY <1>3, <1>5, <2>3, <3>2
        <5> QED BY <1>5, <2>3, <3>2, <4>1, <4>2, <5>1
      <4> QED BY <1>3, <1>5, <2>3, <4>1, <4>2, <4>3
    <3> QED BY <3>1, <3>2
  <2> QED BY <1>6, <2>2, <2>3
<1>9. AtMostOne'
  BY <1>3, <1>7 DEF HostInv, AtMostOne
<1>10. Answered'
  BY <1>1, <1>7, <1>3 DEF HostInv, Answered, ConnStep, NoFalseOK
<1>11. Disjoint'
  <2>1. SUFFICES ASSUME NEW d \in Conn, NEW e \in Conn, NEW p \in made'[d], p \in made'[e]
                 PROVE  d = e
    BY DEF Disjoint
  <2> QED BY <1>5, <1>6, <2>1 DEF HostInv, Disjoint
<1>12. Covered'
  <2>1. SUFFICES ASSUME NEW s \in repositories', NEW i \in 1..Len(ledger'[s])
                 PROVE  \E d \in Conn : <<boots, s, i>> \in made'[d]
    BY <1>3 DEF Covered
  <2>2. CASE s = r /\ i = n
    BY <1>7, <2>2 DEF new
  <2>3. CASE ~(s = r /\ i = n)
    <3>1. s \in repositories /\ i \in 1..Len(ledger[s])
      <4>1. s \in RepId
        BY <1>3 DEF HostInv0, IInv, TypeOK
      <4>2. CASE s # r
        BY <1>3, <4>1, <4>2
      <4>3. CASE s = r
        <5>1. i \in 1..Len(ledger[r])
          BY <1>3, <2>3, <4>3 DEF n
        <5> QED BY <1>3, <4>3, <5>1
      <4> QED BY <4>2, <4>3
    <3>2. PICK d \in Conn : <<boots, s, i>> \in made[d]
      BY <1>3, <3>1 DEF HostInv, Covered
    <3> QED BY <1>5, <3>2
  <2> QED BY <2>2, <2>3
<1>13. NoSilentBlock'
  <2>1. SUFFICES ASSUME NEW d \in Conn, pc'[d] = "closed", NEW p \in made'[d], Held(p)'
                 PROVE  gone'[d]
    BY DEF NoSilentBlock
  <2>2. pc[d] = "closed" \/ gone'[d]
    BY <1>1, <2>1 DEF ConnStep, NoneSilenced, Held
  <2>3. CASE d = c
    BY <2>2, <2>3 DEF TAGrows
  <2>4. CASE d # c
    <3>1. p \in made[d] /\ Held(p)
      BY <1>3, <2>1, <2>4 DEF Held
    <3> QED BY <1>2, <2>2, <3>1 DEF HostInv, NoSilentBlock
  <2> QED BY <2>3, <2>4
<1> QED BY <1>8, <1>9, <1>10, <1>11, <1>12, <1>13

\* The composition keeps the invariant.
LEMMA HostInvStep ==
  ASSUME IInv, EmptySlots, HostInv, [HostNext]_hostVars
  PROVE  HostInv'
<1>1. HostInv0
  BY DEF HostInv0, HostInv
<1>2. ConnStep /\ DaemonStep /\ TAStep
  BY <1>1, HostStep
<1>3. HostTypeOK'
  BY <1>2 DEF ConnStep, DaemonStep, ConnTypes, HostTypeOK, Position
<1>4. Standing'
  <2>1. daemon' \in {"down", "exiting"} => ~session'
    BY <1>2 DEF DaemonStep
  <2>2. boots \in Nat
    BY BoundAssumption DEF IInv, TypeOK
  <2>3. CASE TAQuiet
    BY <2>1, <2>3 DEF HostInv, Standing, TAQuiet
  <2>4. CASE TAEnds
    BY <2>1, <2>4 DEF Standing, TAEnds
  <2>5. CASE TAStarts
    BY <2>1, <2>2, <2>5 DEF HostInv, Standing, TAStarts
  <2>6. ASSUME NEW c \in Conn, TAGrows(c) PROVE Standing'
    BY <2>1, <2>6 DEF HostInv, Standing, TAGrows
  <2> QED BY <1>2, <2>3, <2>4, <2>5, <2>6 DEF TAStep
<1>5. NoBlockRefused'
  <2>1. \A c \in Conn : made[c] # {} => status'[c] = OK
    BY <1>2 DEF ConnStep, Steady, HostInv, NoBlockRefused
  <2>2. CASE made' = made
    BY <2>1, <2>2 DEF NoBlockRefused
  <2>3. ASSUME NEW c \in Conn, TAGrows(c) PROVE NoBlockRefused'
    <3>1. \A d \in Conn : d # c => made'[d] = made[d]
      BY <1>1, <2>3, GrowthFacts
    <3> QED BY <2>1, <2>3, <3>1 DEF NoBlockRefused, TAGrows
  <2> QED BY <1>2, <2>2, <2>3 DEF TAStep, TAQuiet, TAEnds, TAStarts
<1>6. Kept' /\ AtMostOne' /\ Answered' /\ Disjoint' /\ Covered' /\ NoSilentBlock'
  BY <1>1, <1>2, PlainHostStep, GrowingHostStep DEF TAStep
<1> QED BY <1>3, <1>4, <1>5, <1>6 DEF HostInv

\* It holds before the daemon starts.
LEMMA HostInvInit ==
  ASSUME HostInit
  PROVE  HostInv
<1>1. /\ daemon = "down" /\ session = FALSE /\ repositories = {}
      /\ \A c \in Conn : /\ pc[c] = "none" /\ request[c] = NoRequest
                         /\ status[c] = 0 /\ made[c] = {}
  BY DEF HostInit, Init
<1>2. HostTypeOK
  <2>1. /\ pc \in [Conn -> Label] /\ request \in [Conn -> Requests \cup {NoRequest}]
        /\ status \in [Conn -> {0, OK, CLIENT_ERROR, TA_ERROR}]
        /\ made \in [Conn -> SUBSET Position]
    BY DEF HostInit, Label
  <2>2. gone \in [Conn -> BOOLEAN]
    BY Zenon DEF HostInit
  <2> QED BY <1>1, <2>1, <2>2 DEF HostTypeOK, Position
<1>3. NoBlockRefused /\ Kept /\ AtMostOne /\ Disjoint /\ NoSilentBlock
  BY <1>1 DEF NoBlockRefused, Kept, AtMostOne, Disjoint, NoSilentBlock
<1>4. Answered /\ Covered /\ Standing
  BY <1>1 DEF Answered, Covered, Standing, OK
<1> QED BY <1>2, <1>3, <1>4 DEF HostInv

-----------------------------------------------------------------------------
(* The theorems about the composition.                                       *)

\* The invariant of the composition, for any clients, numbers of connections and
\* descriptors, interleavings, panics and failing TEE calls.
THEOREM HostInvariance == HostSpec => []HostInv
<1>1. HostSpec => [](IInv /\ EmptySlots)
  <2>1. HostSpec => Spec
    BY HostImplementsTA DEF DrivesTA
  <2> QED BY <2>1, Invariance, FreeSlotsAreEmpty, PTL
<1>2. HostInit => HostInv
  BY HostInvInit
<1>3. IInv /\ EmptySlots /\ HostInv /\ [HostNext]_hostVars => HostInv'
  BY HostInvStep
<1> QED BY <1>1, <1>2, <1>3, PTL DEF HostSpec

\* The variables of the host keep their types; who is not answered has made no block.
THEOREM HostTypeCorrect == HostSpec => []HostTypeOK
<1>1. HostInv => HostTypeOK
  BY DEF HostInv
<1> QED BY <1>1, HostInvariance, PTL

\* A refusal that the instance survives touches nothing but, perhaps, the list
\* entry of the key its request names.
CleanFor(c) ==
  /\ UNCHANGED <<repoVars, ledger>>
  /\ \A r \in RepId, k \in Key :
       admin_keys'[r][k] # admin_keys[r][k] \/ writer_keys'[r][k] # writer_keys[r][k]
         => /\ request[c].kind = "access-control" /\ request[c].public_key = k
            /\ k \in torn'[r]

\* A failing access_control changes at most the entry of the key of its message.
LEMMA TearsOneEntry ==
  ASSUME TypeOK, NEW m \in AccessMessages, NEW u \in UpdatesOf(m), TornBy(m, u),
         NEW r \in RepId, NEW k \in Key,
         admin_keys'[r][k] # admin_keys[r][k] \/ writer_keys'[r][k] # writer_keys[r][k]
  PROVE  k = m.pubkey /\ k \in torn'[r]
<1>1. m.op \in AccessOps /\ m.rep_id \in RepId /\ m.role \in Role /\ m.pubkey \in Key
  BY AccessChecked, AccessMessageFields DEF TornBy
<1>2. /\ admin_keys' = [admin_keys EXCEPT ![m.rep_id] = u.admins]
      /\ writer_keys' = [writer_keys EXCEPT ![m.rep_id] = u.writers]
      /\ admin_keys \in [RepId -> KeyLists] /\ writer_keys \in [RepId -> KeyLists]
  BY DEF TornBy, Updated, TypeOK
<1>3. /\ r = m.rep_id
      /\ u.admins[k] # admin_keys[r][k] \/ u.writers[k] # writer_keys[r][k]
  BY <1>1, <1>2
<1>4. UpdateCase(admin_keys[r], writer_keys[r], m, u)
  BY <1>1, <1>2, <1>3, UpdateCases DEF UpdatesOf
<1>5. \A L \in KeyLists : \A c \in Key \ {m.pubkey} : /\ add_key_to_set(L, m.pubkey)[c] = L[c]
                                                      /\ find_and_remove_key(L, m.pubkey)[c] = L[c]
  BY DEF add_key_to_set, find_and_remove_key, KeyLists
<1>6. k = m.pubkey
  BY <1>2, <1>3, <1>4, <1>5 DEF UpdateCase, Lists
<1>7. ~(u.admins = admin_keys[m.rep_id] /\ u.writers = writer_keys[m.rep_id])
  BY <1>3
<1>8. torn' = [torn EXCEPT ![m.rep_id] = @ \cup {m.pubkey}] /\ torn \in [RepId -> SUBSET Key]
  BY <1>7 DEF TornBy, AccessFails, TypeOK
<1> QED BY <1>3, <1>6, <1>8

\* What a command that fails leaves behind.
LEMMA FailedCommand ==
  ASSUME IInv, NEW c \in Conn, request[c] \in Requests \cup {NoRequest}, Command(request[c]),
         result' # TEE_SUCCESS
  PROVE  CleanFor(c)
<1> DEFINE q == request[c]
<1>1. TypeOK /\ IdsDense /\ OuterTypes
  BY DEF IInv, TypeOK, OuterTypes
<1>2. UNCHANGED <<repoVars, ledger>>
  BY <1>1, CommandIsNext, ErrorStep
<1>3. UNCHANGED listVars => CleanFor(c)
  BY <1>2 DEF CleanFor, listVars
<1>4. CASE handle_commit(q) \/ handle_get_latest_hash(q)
  BY <1>3, <1>4 DEF handle_commit, handle_get_latest_hash, InvokeBadParameters
<1>5. CASE handle_init_repo(q)
  <2>1. init_repo(q.admin_key) /\ q.admin_key \in Key
    <3>1. q \in Requests
      BY <1>5 DEF handle_init_repo, NoRequest
    <3> QED BY <1>5, <3>1, RequestsAssumption
            DEF handle_init_repo, IsRequest, PlainRequest, InitRequest, CommitRequest, HashRequest
  <2>2. Refused
    BY <1>1, <2>1, InitRepoStep
  <2> QED BY <1>3, <2>2 DEF Refused, chainVars, listVars
<1>6. CASE handle_access_control(q)
  <2>1. PICK kept \in BOOLEAN : access_control(ac_msg(q, kept))
    BY <1>6 DEF handle_access_control
  <2>2. q \in Requests /\ q.kind = "access-control"
    BY <1>6 DEF handle_access_control, NoRequest
  <2>3. ac_msg(q, kept) \in AccessMessages /\ ac_msg(q, kept).pubkey = q.public_key
    BY <2>2, AccessMessageKnown DEF ac_msg, AccessMessage
  <2>4. Refused \/ \E u \in UpdatesOf(ac_msg(q, kept)) : TornBy(ac_msg(q, kept), u)
    BY <1>1, <2>1, <2>3, AccessStep
  <2>5. CASE Refused
    BY <1>3, <2>5 DEF Refused, chainVars, listVars
  <2>6. ASSUME NEW u \in UpdatesOf(ac_msg(q, kept)), TornBy(ac_msg(q, kept), u)
        PROVE  CleanFor(c)
    <3>1. ASSUME NEW r \in RepId, NEW k \in Key,
                 admin_keys'[r][k] # admin_keys[r][k] \/ writer_keys'[r][k] # writer_keys[r][k]
          PROVE  k = q.public_key /\ k \in torn'[r]
      BY <1>1, <2>3, <2>6, <3>1, TearsOneEntry
    <3> QED BY <1>2, <2>2, <3>1 DEF CleanFor
  <2> QED BY <2>4, <2>5, <2>6
<1> QED BY <1>4, <1>5, <1>6 DEF Command

\* A refusal is a step of the refused thread alone, and only its command, if
\* it came to one, can have touched the TA.
LEMMA RefusalStep ==
  ASSUME HostInv0, [HostNext]_hostVars, NEW c \in Conn, Refuses(c), session' = session
  PROVE  CleanFor(c)
<1>1. /\ IInv /\ pc \in [Conn -> Label] /\ status \in [Conn -> {0, OK, CLIENT_ERROR, TA_ERROR}]
      /\ request[c] \in Requests \cup {NoRequest}
  BY DEF HostInv0, HostTypeOK
<1>2. UNCHANGED vars => CleanFor(c)
  BY DEF vars, CleanFor
<1>3. pc'[c] # pc[c]
  BY DEF Refuses
<1>4. SessionEnds => UNCHANGED vars
  BY DEF SessionEnds, TA_CloseSession
<1>5. CASE UNCHANGED hostVars
  BY <1>2, <1>5 DEF hostVars
<1>6. CASE Start
  BY <1>3, <1>6 DEF Start
<1>7. CASE Main \/ AcceptFails
  BY <1>2, <1>4, <1>7
     DEF Main, Accept, AcceptFindsNoDescriptor, AcceptFails, close_tee_connection, Exit
<1>8. CASE Killed
  BY <1>2, <1>4, <1>8 DEF Killed
<1>9. ASSUME NEW d \in Conn, Connect(d) \/ Send(d) \/ HangUp(d) PROVE CleanFor(c)
  BY <1>2, <1>9 DEF Connect, Send, HangUp
<1>10. ASSUME NEW d \in Conn, RecvNothing(d) \/ HandlePlain(d) \/ Write(d) \/ WriteSignals(d)
       PROVE  CleanFor(c)
  BY <1>2, <1>4, <1>10 DEF RecvNothing, HandlePlain, Write, WriteSignals
<1>11. ASSUME NEW d \in Conn, Invoke(d) PROVE CleanFor(c)
  <2>1. CASE InvokeDead(d)
    BY <1>2, <2>1 DEF InvokeDead
  <2>2. CASE InvokePanics(d)
    BY <2>2 DEF InvokePanics, TA_CloseSession
  <2>3. CASE InvokeCommand(d)
    <3>1. /\ Command(request[d])
          /\ Respond(d, IF result' = TEE_SUCCESS THEN OK ELSE TA_ERROR)
      BY <2>3 DEF InvokeCommand
    <3>2. d = c
      BY <1>1, <1>3, <3>1 DEF Respond, Goto
    <3>3. result' # TEE_SUCCESS
      BY <1>1, <3>1, <3>2 DEF Respond, Refuses
    <3> QED BY <1>1, <3>1, <3>2, <3>3, FailedCommand
  <2> QED BY <1>11, <2>1, <2>2, <2>3 DEF Invoke
<1> QED
  BY <1>5, <1>6, <1>7, <1>8, <1>9, <1>10, <1>11 DEF HostNext, Thread

\* A refused request, whichever exit of host or TA refused it, has left the chains
\* and the repositories alone, unless the whole instance ended with it.
THEOREM RefusalsAreClean == HostSpec => RefusalIsClean
<1>1. HostSpec => [](IInv /\ EmptySlots)
  <2>1. HostSpec => Spec
    BY HostImplementsTA DEF DrivesTA
  <2> QED BY <2>1, Invariance, FreeSlotsAreEmpty, PTL
<1>2. IInv /\ EmptySlots /\ HostInv /\ [HostNext]_hostVars =>
        [\A c \in Conn : Refuses(c) /\ session' = session =>
           /\ UNCHANGED <<repoVars, ledger>>
           /\ \A r \in RepId, k \in Key :
                admin_keys'[r][k] # admin_keys[r][k] \/ writer_keys'[r][k] # writer_keys[r][k]
                  => /\ request[c].kind = "access-control" /\ request[c].public_key = k
                     /\ k \in torn'[r]]_hostVars
  BY RefusalStep DEF HostInv0, HostInv, CleanFor
<1> QED BY <1>1, <1>2, HostInvariance, PTL DEF HostSpec, RefusalIsClean

\* A client told of success has one block, which stays and records its request.
THEOREM SuccessesAreRecorded == HostSpec => []SuccessIsRecorded
<1>1. HostInv => SuccessIsRecorded
  <2>1. SUFFICES ASSUME HostInv, NEW c \in Conn, status[c] = OK, Asks(request[c])
                 PROVE  /\ Cardinality(made[c]) = 1
                        /\ \A p \in made[c] : Held(p) => /\ p[3] <= Len(ledger[p[2]])
                                       /\ Records(p[2], ledger[p[2]][p[3]], request[c])
    BY DEF SuccessIsRecorded
  <2>2. \E p : made[c] = {p}
    BY <2>1 DEF HostInv, Answered, AtMostOne
  <2>3. Cardinality(made[c]) = 1
    BY <2>2, FS_Singleton
  <2> QED BY <2>1, <2>3 DEF HostInv, Kept
<1> QED BY <1>1, HostInvariance, PTL

\* Every block of a live instance was made by exactly one request.
THEOREM BlocksHaveOneRequest == HostSpec => []OneRequestPerBlock
<1>1. HostInv => OneRequestPerBlock
  <2>1. SUFFICES ASSUME HostInv, session, NEW r \in repositories, NEW i \in 1..Len(ledger[r])
                 PROVE  Cardinality({c \in Conn : <<boots, r, i>> \in made[c]}) = 1
    BY DEF OneRequestPerBlock
  <2>2. PICK c \in Conn : <<boots, r, i>> \in made[c]
    BY <2>1 DEF HostInv, Covered
  <2>3. {d \in Conn : <<boots, r, i>> \in made[d]} = {c}
    BY <2>1, <2>2 DEF HostInv, Disjoint
  <2> QED BY <2>3, FS_Singleton
<1> QED BY <1>1, HostInvariance, PTL

\* No block of a live instance went unnoticed by a client that waited.
THEOREM NoBlockIsSilent == HostSpec => []NoSilentBlock
<1>1. HostInv => NoSilentBlock
  BY DEF HostInv
<1> QED BY <1>1, HostInvariance, PTL
=============================================================================
