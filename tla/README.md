# TLA+ verification of trust_chain

trust_chain keeps, per source repository, a hash chain of *access* blocks (who
was granted or lost a role) and *contribution* blocks (pushes and pull
requests). A trusted application (TA) in OP-TEE decides who may append, builds
each block and signs it; a host daemon turns HTTP requests into TA commands.
This directory models the TA, the daemon on top of it and the key store below
it, checks them with TLC and proves their main safety properties with TLAPS.

Every definition was translated from the source; `PROJECT.json` lists under
`map` the lines each one stands for.

## 1. Inventory of the system

| Component | State | Operations | Interacts with |
|---|---|---|---|
| TA, `ta/trust_chain_ta.c` | `repo_num`, `repositories[1000]` (height, latest hash, founder key, two key lists each), in the memory of one TA instance | `init_repo`, `access_control`, `commit`, `get_latest_hash`, `get_tee_public_key`; open and close of the session | called by the host, one command at a time; calls all below |
| Blocks, `ta/block/` | none | initialise, hash | utilities (hash, time) |
| Key lists, `ta/key_list/` | linked list of key strings | exists, add, find-and-remove, cleanup | heap |
| TEE key manager, `ta/tee_key_manager/` | RSA pair in secure storage | load or generate, sign, decrypt | utilities (hex, hash), TEE |
| Utilities, `ta/utils/` | none | SHA-256, hex, PEM, signature verification | TEE, mbedtls |
| Codes and limits, `ta/include/`, `user_ta_header_defines.h` | none | - | all |
| Host daemon, `host/main.c` | listening socket, one detached thread per connection, one session for all | accept, receive, one handler per HTTP endpoint, answer, end | clients, TA |
| Makefiles, docs, `test_api.sh` | none | - | - |

What makes each correct:

* **TA.** A block exists only for a message that is signed by a key the chain
  itself authorises; the chain is linked; the lists in memory say what the chain
  says; a failing call leaves the chain alone; ids are never reused.
* **Blocks.** A block's hash identifies it and its TEE signature is over that hash.
* **Key lists.** No duplicates, although `add_key_to_set` does not look for them.
* **Key manager.** There is one pair, it does not change while it is used, and no
  error path keeps it open.
* **Utilities.** Hex conversion is faithful, and the PEM form fits the capacity
  that is asked for.
* **Host.** A success that was told to a client is on the chain and stays there, a
  refusal leaves the chains alone, every request that was sent comes to an end whatever
  other clients do, and the codes are the TA's.

What is hard to test: the four places where `init_repo` can fail after it has
filled its slot; failures after the key lists have already changed; a decryption
that fails after the block was signed; sequences of grants, promotions and
deletions; restarts that keep the key pair and lose the repositories; strings
that fill their field exactly; silent clients, clients that hang up, a TA that dies
under its threads, an accept that fails; two instances of the TA
that look for the stored pair at the same time. `PROJECT.json` lists each with its line under
`hazards`.

## 2. Modules

| Module | Models | How |
|---|---|---|
| `TrustChainConsts` | `trust_chain_ta.h` | operation, role and result codes |
| `KeyList` | `key_list.c` | a list is the bag of its keys (`[Key -> Nat]`): no caller observes the order of the nodes, but duplicates are possible |
| `Block` | `block.c`, `block.h`, hashing of `utils.c` | blocks as records; SHA-256 as an ideal hash (a digest is its preimage, wrapped); `Released` is the block after the NUL of its signature spilled |
| `TeeKeyManager` | `tee_key_manager.c` | the stored pair is a number, 0 for none; each operation gives the set of its outcomes under the failing calls in `Faults` |
| `TrustChainTA` | `trust_chain_ta.c`, verification and PEM test of `utils.c` | the specification: one action per command or entry point |
| `LedgerRules` | - | who is admin or writer after n blocks, read off the blocks |
| `AccessLedger` | - | abstract specification: ledgers that grow by authorised blocks, with no key lists |
| `Encoding` | hex and PEM of `utils.c` | functions on sequences of bytes and characters |
| `HostService` | `host/main.c` | the daemon, its threads and its clients; extends `TrustChainTA`, whose actions are joint steps with the thread that invokes them |
| `TeeKeyStore` | `tee_key_manager.c`, the open of `get_tee_public_key` | one action per TEE call, for several instances of the TA over one storage |
| `TrustChainTAProps`, `HostServiceProps`, `TeeKeyStoreProps` | - | the properties; the refinement mapping of `AccessLedger`; the key store's tasks against `TeeKeyManager` |
| `MCTrustChainTA`, `MCHostService`, `MCTeeKeyStore` | - | constants for TLC |
| `LedgerLemmas`, `TrustChainTA_proofs` | - | what an append does to roles; the TA's invariants |
| `TrustChainTA_steps`, `TrustChainTA_signatures` | - | the TA's action properties and its refinement of `AccessLedger`; what its signatures bind |
| `HostService_proofs`, `TeeKeyStore_proofs`, `Encoding_proofs` | - | the theorems about the daemon, the key store and the encodings |

How they fit together: `HostService` extends `TrustChainTA`, and each of its steps is one of
the TA's or none (theorem `HostImplementsTA`). `TrustChainTA` extends `KeyList`, `Block`,
`Encoding` and `TeeKeyManager`; its ledgers implement `AccessLedger` (run `core`, theorem `ImplementsLedger`). The
outcomes of `TeeKeyStore`'s tasks, when they run alone, are among those `TeeKeyManager`
gives for a single step (run `keystore`, theorem `TasksAreAtomic`).

### The TA

**State and actions.** `repositories` is the set of non-NULL slots; the fields of
`struct repo_metadata` are functions on ids. `session` says that a TA instance is
alive; closing it zeroes the globals, because the TA is multi-instance (no
`TA_FLAG_SINGLE_INSTANCE` in `user_ta_header_defines.h`) and saves nothing. Each command is one action because
OP-TEE runs the commands of a session one after the other; concurrency of the
host's threads is the free order of these actions, and `HostService` restricts it
to the orders the threads produce. A handler with several exits
is a disjunction, one disjunct per exit, in the code's order (`AccessChecks`
gives the first check that fails). `result` is the command's return value.

History variables, read by no guard but the bounds: `ledger` (the blocks
returned), `archive` (ledgers of earlier instances), `attested` (answers of
`get_latest_hash`), `boots`, and `torn`: the keys whose list entry changed in a
call that then returned an error. `torn` grows only in the failure branches of
`access_control` (`AccessFails`) and states precisely where the lists and the
chain may differ: a key in `torn` has been granted, promoted, demoted or deleted
in memory without a block. `ListsMatchLedger` says that this is the only way they
can differ; without failing calls `torn` stays empty.

**Inputs.** A message has any operation (those of the other command included),
any id up to one past the table, any role of `Role`, any keys, and a signature by
any key over its own data; a signature over other data is as invalid as one by
another key. A recorded message can be sent again at any time, since the signed
data names no height. A ciphertext is made for one of the pairs or is not hex.

**Abstractions.** Time stamps, log lines and lengths of strings are left out.
Keys are terminated and shorter than their field, commit hashes too (git's are
40 characters). Digests are terms, so two blocks have equal hashes exactly when
what is hashed is equal; keys enter only up to their 256th character
(`Prefix256`). Output buffers of the caller are as large as the structures.

**Undefined behaviour.** Where a string overruns its field by one NUL inside a
structure, the layout decides and the model follows it: `latest_hash` clears the
first character of `founder_key`; `tee_sig` clears the low byte of `role` or the
first character of `commit_hash` (`Released`; little-endian, as on Arm). Where
the NUL leaves a stack array (`genesis_hash`, `block_hash`), the model assumes
that it hits padding.

**mbedtls.** Which strings parse as public keys is the constant `ParsableKey`.
The code passes `strlen` and not `strlen + 1` to the parser (`utils.c:237`), and
an mbedtls that insists on the NUL then parses no PEM key at all; that is the case
`ParsableKey = {}`, for which everything below holds as well, but in which no
block follows a genesis block. The runs take the reading the code intends.

### The daemon

**State.** `daemon` is where `main` stands: down, accepting, or, after a failed
`accept`, about to close the session and about to return. `pc` is where a
connection stands: not made, in the listen queue, with a thread in `recv`, with a
thread that has an answer to write, ended with or without the answer. `request`,
`status` and `gone` are what the client sent, the status line of its answer, and
whether it has hung up. `made` is a history variable: the blocks its invocation
appended.

**Actions.** `Accept` takes the head of the queue and starts a thread, or fails to
and closes the connection. `AcceptFails` ends the loop: the code leaves it on any
error of `accept`, whatever the reason. A thread receives once: nothing (`RecvNothing`), a
request the daemon answers itself or only a part of one (`HandlePlain`), or a
request for the TA (`Invoke`). `Invoke` is a joint step with the TA's action for
the command (`Command`): the TEE serialises the invocations of a session, and a
thread does nothing between its invocation and its answer that another can see.
The TA may have panicked (`InvokeDead`), or panic now (`InvokePanics`), where the
code gives it a reason to: an output buffer of 256 bytes for a block of 2132
(`main.c:353`) and a stack of 2 KB. A panic loses what a closed session loses; that
a dying TA first writes elsewhere is not modelled. `Write` answers and closes.
`WriteSignals` is the SIGPIPE of a write to a client whose reset has arrived: the
process has no handler and ends. `Killed` ends it at any time, `Start` starts it again.

**Requests.** What the handlers tell apart. `handle_access_control` converts: the
operation (everything but `ADD` is a deletion), the role name (`ac_role`, by the
host's own constants), the repository number (cut to 32 bits, `% Word`), and the
signature, whose last character stays uninitialised and may or may not be the right one
(`kept`). `handle_commit` and `handle_get_latest_hash` declare other parameter types
than the TA checks, so both endpoints always answer 500; `commit` and
`get_latest_hash` of the TA are unreachable through this daemon and are checked by the TA's own runs. A request that is
cut by its single `recv` ends in a parse error or an unknown path, an error of 400 to 405,
`CLIENT_ERROR`: the start of a JSON object is no JSON object.

**Forgetting.** An ended connection without a block is forgotten except for how it
ended (`Finish`), which no guard and no property looks at.

### The key store

`TeeKeyStore` is `tee_key_manager.c` with one action per TEE call. `user_ta_header_defines.h:41`
makes the TA multi-instance, so instances with an RSA task each interleave over one
storage. The handles are state: `key_pair` (the open pair), `rsa_keypair` (the
transient object), `prepared` (the operation, or the public key object). `Failing`
names the calls that may fail without a reason, `Crash` ends an instance between any
two calls, upon which the TEE releases its handles. That a pair that one
instance holds open cannot be opened or replaced by another is the rule of
GlobalPlatform's storage for handles opened without the share flags (`InUse`, external).

`AtomicIfAlone` compares each task with the outcome set of `TeeKeyManager` for the pair
stored when it began, so that the TA's model may take a task as one step. It is
restricted to tasks that no other instance overlapped; the run `overwrite` shows what overlap does.

## 3. Runs

Deadlock is checked in the runs of `MCTrustChainTA`. The other two systems may
really stop: the daemon is down and the bound on boots is reached, or all connections are
used; the instances have used up `MaxPairs`.

Fairness is assumed in `HostSpec` only. `WF(Main)` and `WF(Thread(c))`: the kernel
schedules each thread that can run, and a call of the TA or a write to a socket
returns. A `recv` without a request is not enabled, so a silent client is not
assumed to speak or leave. `accept` is assumed to fail only when there is no free descriptor
(`AcceptFindsNoDescriptor`, a step of `Main`); it may fail at any other time too
(`AcceptFails` in `HostNext`), but need not. Nothing is assumed of clients, of whoever starts or kills the
daemon, or of panics and signals. Weak fairness is enough since a thread's step, once
enabled, stays so until it is taken or the process ends. All other
specifications are checked for safety only.

| Run | Question | Bounds |
|---|---|---|
| `core` | Do chain, lists and permissions stay consistent under every message when TEE calls work, and does the TA implement `AccessLedger`? | 2 keys (symmetric), 1 repository, 4 blocks, 2 sessions, roles 0-2 |
| `faults` | Do they survive failing calls and restarts? Is every signature still valid? | 2 keys (one parsable), 3 blocks, 2 sessions, 2 pairs, all faults but `open` |
| `answers` | What does an answer of `get_latest_hash` prove? Do failed `init_repo` calls reuse their id? | 2 repositories, 1 key, 3 nonces, 2 answers |
| `host` | What do answers of the daemon mean, does every request come to an end, and does a failed daemon exit? | 3 connections, 2 descriptors, 2 starts of the daemon, 4 kinds of request, 2 keys |
| `keystore` | Do handles, the stored pair and the results of tasks stay right when calls fail, instances crash and two instances interleave? | 2 instances (symmetric), 3 pairs, any call failing |
| `owner` | refuted: the founder cannot be deleted (`pseudocode.md:52`) | 3 blocks |
| `heights` | refuted: heights number the blocks from 0 and the counter counts them (`pseudocode.md:16`, `:113`) | 3 blocks |
| `restart` | refuted: repositories come back after a restart (`trust_chain_ta.c:75`) | 2 sessions |
| `released` | refuted: the block that is returned is the block that was signed (`README.md:41`) | 2 blocks |
| `nonce` | refuted: the answer is a signed nonce and hash (`README.md:65`) | 2 answers |
| `roles` | refuted: the host's role codes agree with the TA's (`main.c:36`) | 2 connections |
| `overwrite` | refuted: a new pair is generated only when there is none (`tee_key_manager.c:45`) | 2 instances, 2 pairs, no failing call |

Why the bounds are enough. Four blocks hold a genesis block and every pair of
changes followed by a use of the result: grant, promote, delete; or a grant, a
deletion of the founder by the new admin, and a grant by that admin. Two keys give an
actor and another user, and the cases where they are the same. Two sessions give
everything one restart does. Two pairs let a signature be made with a
pair that is no longer stored, so that `SignaturesStayValid` could fail. Three
connections and two descriptors give the daemon a queue behind a
full table, a third request after two that interleave, and an `accept` that fails
under running threads, for want of a descriptor or for any other reason; the requests are one that
creates a repository, one that changes it by way of every conversion of the handler, one that always fails in
the TA, and one that never reaches it. Two instances of the TA are enough for every overlap of two
tasks, three pairs for a pair that is replaced and one that is never stored. What the
bounds might hide is covered by the proofs, which have none.

Each bound is a constant: `MaxBlocks` (blocks of a repository), `MaxBoots`
(sessions; the daemon leaves the last unused, so that no session is kept open by the bound), `MaxConn` (connections), `MaxPairs` (pairs generated), `MaxArchive` and `MaxReplies` (what the history variables remember),
`MaxKeyGen` (pairs). A session is closed only while another may follow.

What the runs show beyond the plain statement of the properties:

* `heights`: the pseudocode numbers blocks 0, 1, 2, ... and counts them; the code
  gives genesis and second block both height 1, so a height does not identify a
  block, and `block_height` stays one behind. What the code does instead is the theorem
  `HeightsFollowLaw`.
* `KeyChangesAreRecorded` holds without failing calls and is not part of
  `faults`: there a promotion that runs out of memory loses the writer entry
  (`trust_chain_ta.c:273`), and a signature that fails keeps the list change
  (`trust_chain_ta.c:331`). `ErrorKeepsChain` and `ListsMatchLedger` say what is
  still true then.
* `SignaturesStayValid` is checked with every fault except `open`: the key
  manager takes each failed open for a missing pair and overwrites the stored one
  (`tee_key_manager.c:45`).
* `LockoutIsPermanent`: a repository whose last admin was deleted stays without.
* `SuccessIsRecorded`, `RefusalIsClean`, `OneRequestPerBlock` and `NoSilentBlock`
  together say what a client may conclude. 200 for a change means one block, in the
  repository its signer named, that stays as long as the instance lives. An error, or a
  connection that was closed before the request was handled, means that the step changed no
  chain, height or repository, and of the key lists at most the entry of the key that the
  request names, which is then torn; in the run, where no TEE call fails, not even that.
  Two cases are outside: a panic, which is answered with 500 as well and takes every
  repository of the instance with it (so 500 does not mean that the chains are still
  there), and a 200 that is lost on its way, behind which there is a block. `NoSilentBlock`
  says of the second that only a client that hung up can have such a block.
* `ConnectionsEnd` and `FailedDaemonExits` hold although a silent client keeps
  its thread for ever: `main` never waits for a thread.
* `WorksWithStored` needs the storage's sharing rule: with shared handles an
  instance signs with a pair that is gone.
* `FullNonceBindsAnswer` is what remains true of `AnswerIsBound`: a nonce without
  a zero byte is bound to its hash.

## 4. Proofs

The theorems hold for all constants allowed by the `ASSUME`s of the modules: any number of
repositories, keys, clients and instances, any failing TEE calls, ledgers of any length.
The assumptions: `MAX_REPO_ID` and the bounds are natural numbers, and a repository may
have its genesis block (`MaxBlocks > 0`); roles are natural numbers; the parsable keys are
keys; the empty string is neither a key nor a commit hash; a nonce has four bytes; `Faults`
and `Failing` name calls; there is at least one pair to generate; the role codes of the
host, 0 and 1, are among `Role`. Three theorems about the TA and one about the key store
say in their own statement which calls must not fail, for the reason given with each.

### The TA: invariants

`TrustChainTA_proofs`:

    Spec => []TypeOK          Spec => []IdsDense      Spec => []ListsExclusive
    Spec => []ChainLinked     Spec => []HeightLaw
    Spec => []ListsMatchLedger                        Spec => []BlocksAuthorised

The inductive invariant `IInv` is the conjunction of the seven. `HeightLaw` is stated
there, as the law the code follows where the pseudocode has another (run `heights`).
Most are not inductive alone: `ListsExclusive` needs the types; a failed
`init_repo` clears slot `repo_num` and keeps `IdsDense` only because dense ids
mean the slot was free; `BlocksAuthorised` is about the ledger while the code
checks the lists, so it needs `ListsMatchLedger`, and that in turn needs
`ListsExclusive`, since a deletion removes one node only. `StepEffect` first
reduces every step to one of five effects (repositories discarded, repository
created, lists changed by a failing call, access block, contribution block) or to
no change; each invariant then has one lemma with a step per effect.
`LedgerLemmas` holds the facts about ledgers: `AdminAfterAppend` and
`WriterAfterAppend` say how the last block changes a role, `RolesOfPrefix` that
earlier positions do not change.

### The TA: steps and refinement

`TrustChainTA_steps`. `FailedCallsKeepChain`: every exit with an error leaves the chains
alone (`ErrorStep`, an action per step). The delicate one is `init_repo`, which clears its slot:
it is free by `IdsDense`. `LockoutsArePermanent`: each effect on a list without admins leaves it
without; a promotion or grant needs an admin to sign it.

`ListChangesAreRecorded` and `ImplementsLedger` assume `~CanTear`: none of `malloc`,
`digest`, `generate` and `sign` fails. With one of them `access_control` changes a list and
then returns an error, so the first does not hold of the code, and the list
then permits what no ledger does (`torn`). Calls not in the list (opening the pair, decrypting,
verifying) may fail. The refinement is a step simulation: from `NothingTorn` and
`ListsMatchLedger` the lists are what the ledgers say, so a check of the lists is the guard
of the abstract action; `AccessEntries` and `CommitEntries` map the block to an abstract entry;
`FreeSlotsAreEmpty` (a slot that is not in use has no block, whatever failed in it) makes the
mapping of a creation an append to an empty ledger.

### The TA: signatures

`TrustChainTA_signatures`. `NoncesBindAnswers`: the bytes that are signed are those of the
struct up to its first zero byte. A nonce without one gives four bytes and the hash,
a nonce with one fewer than four (`WholeStruct`, `CutStruct`), so equal bytes mean equal nonces and
equal hashes. The invariant is that an answer is signed over its own struct (`AnswersShaped`).

`SignaturesAreStable` assumes that `open` is not in `Faults`: every failed open is taken
for a missing pair, which is then overwritten (`tee_key_manager.c:45`), and all earlier signatures are lost.
Every other call may fail. The strengthening, `Sealed`: every block and every answer, those
of earlier sessions included, carries a signature by the stored pair, and there is one as soon as there is a signature.

### The daemon

`HostImplementsTA`: `HostSpec` implies the TA's `Spec`. Every step of the
host is an action of the TA or leaves its variables alone; the work is to show that the
message a handler builds is among those the TA was modelled for (`AccessMessageKnown`,
from the assumption on `Requests`), and that a panic and the end of the process are
`TA_CloseSession`. So every theorem about the TA holds of the whole system;
`HostBlocksAreAuthorised` draws that conclusion for `BlocksAuthorised`.

The four invariants of the run `host` follow from `HostInv`, which strengthens them: who made a
block was told of success (`NoBlockRefused`); without
a session there are no repositories, and a daemon that is down or about to return has none
(`Standing`); the blocks of a connection are in their place and record its request
as long as their instance lives (`Kept`); it has one at most (`AtMostOne`), and exactly one
after a success (`Answered`); no two connections share a block (`Disjoint`); every block of a live
chain belongs to some connection (`Covered`). `OneRequestPerBlock` is `Disjoint` with
`Covered`, `SuccessIsRecorded` is `Answered` with `Kept`. A step either appends a block for the one
thread that invokes (`GrowingHostStep`, from the effects of the TA's actions in `StepEffect`'s terms) or
appends none and at most ends the session (`PlainHostStep`): a later instance has a later
boot number, so positions of a dead instance never come back. `RefusalsAreClean` is about single
steps (`RefusalStep`): a refusal that the session survives leaves the TA alone or is a command that
failed (`FailedCommand`), which by `ErrorStep` keeps the chains and by `TearsOneEntry` changes at most
one list entry; failing TEE calls, absent from the run, are included. TLC checked `HostInv` on the
run's instance, and with failing TEE calls, before it was proved.

### The key store

`StoreInvariance`: types; for each instance the handles that belong to
the call it is at (`HandlesAt`); at most one instance has the pair open (`OneHolder`); and
the pair behind an open handle is the stored one. The last needs the one before it: `Create` replaces the
stored pair, and only `OneHolder` with the sharing rule says that nobody has it open.
`StoreTypeCorrect`, `NoHandleIsLeft` and `AllWorkWithStored` follow.

`TasksAreAtomic` proves that a task no other instance overlapped ends with an outcome of `TeeKeyManager`.
The invariant, `Track`, says for a task that is alone: where it stands in the load in terms of the pair
stored when it began (`Loading`: that pair is still stored until `Create`, and `Create` is reached only
if there was none or the open may fail), that all others are idle (`Solo`), and that its outcome is
one of the set once it has ended (`EndsAtomic`). `FaultsMean`, `LoadEnds`, `TaskFails` and
`TaskEnds` relate a failing TEE call to the fault it is in `TeeKeyManager`.

`SinglePairStays` complements the run `overwrite`: with a single instance and an open that
fails only for want of a pair, the comment of `tee_key_manager.c:45` is true.

### The encodings

`HexRoundTrip`: decoding what was encoded gives the bytes back, for byte
strings of any length; the encoder is a function on positions, not a recursion, so no induction is needed. `PemFits`: `estimated_len` covers the text that is
written and its NUL, up to the 1024 bytes of the DER buffer, and the base64 text fits `b64_buf`.

### What stays with TLC

The two liveness properties of the daemon, `ConnectionsEnd` and `FailedDaemonExits`: they rest on
fairness, which the prover cannot reason about. The statements that the code refutes (the
runs that expect a violation) have a counterexample each, not a theorem. Every other property of a passing run
is a theorem; the statements restricted to some failing calls are checked by TLC under the same restriction
(`core` has no failing call, `faults` has all but `open`).

## 5. Not modelled

* `remove_key_from_set`, which has no caller; the order of nodes, the pointers and the
  `count` field of a key list, which no caller observes.
* The handles of `public_key_pem_to_obj` in `utils.c` (some error paths leak one) and
  the parsing by mbedtls.
* Bytes: sizes of the callers' buffers, strings longer than their fields, stack and heap sizes
  other than as failures. Texts of HTTP requests and answers; in
  particular that an answer longer than 2048 characters is cut (`main.c:205`) and that the
  answer of access-control carries no block.
* The length of the listen queue, and more than one request per connection (the code
  reads one).
* Time stamps, log lines, build files.

Where documents and code differ without a run of their own: `README.md:51` says that the signature of a
request covers five fields, the operator's key among them, and the code verifies four
(`trust_chain_ta.c:253`, as in `pseudocode.md:39`); `pseudocode.md:18` has the TEE's key as the
genesis block's signer, and the code the founder's (`trust_chain_ta.c:202`); the deletion of a
repository (`pseudocode.md:22`, called by `test_api.sh`) exists in neither TA nor host. And the
comment at `trust_chain_ta.c:469` announces the real public key, while every
`get_tee_public_key` with a stored pair ends in `TEE_ERROR_SHORT_BUFFER`: it passes 0 as the
capacity of the buffer (`trust_chain_ta.c:463`, `utils.c:396`; `PublicKeyResults` in the
model). One call shows it.

## 6. Plan

Modelled first: the TA, which decides everything the system promises; then the daemon
and the key store; then the proofs, in the order of section 4. Left:

1. The key list as a sequence of nodes with its count, and that its operations are those of the bag.
2. Several sessions of the TA, each with its own repositories, over the one stored pair:
   `TrustChainTA` and `TeeKeyStore` model the two sides separately.
