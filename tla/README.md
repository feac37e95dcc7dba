# A TLA+ model of HodeauxLedger

HodeauxLedger keeps signed records (R⬢) of a *scope* in a hash chain. The usher
daemon `usherd` keeps the chain; command line tools craft, sign and submit what
goes into it. This project models the daemon and its root scope statement by
statement, the way of a record through the signing tools, and the sessions
between clients and the daemon; it checks the models with TLC and proves their
main invariants with TLAPS. Paths below are relative to `src/`.

## 1. The system

### Components

| Component | State it keeps | Operations | What makes it correct |
|---|---|---|---|
| **Processor** `hl-services/src/process/processor/` | none of its own; a stack of errors per record | `process_rhex`: magic, head, previous hash, scope, nonce, keys, record type and rules, context, signatures, quorum, hash, dispatch | what reaches a handler extends the head it was checked against; every record is answered, refused or cut off |
| **Handlers** `hl-services/src/process/*.rs` | none; they change the cache and the directory | `policy:set`, `key:grant`, `usher:appoint`, `usher:demote`, `record:*`, `scope:genesis`, `scope:request`, `scope:create`, `request:rhex`, `request:head`, `request:scope` | a handler that stops half-way, or runs beside another, does no damage a restart does not repair |
| **Policy rules** `hl-core/src/policy/`, `hl-io/src/db/rule.rs` | the rules of a scope | which rule governs a type, is the quorum reached, are its members entitled | one policy in force at a time; the same decision live and on replay |
| **Cache** `hl-io/src/db/` | `cache.db`: heads, policies, rules, authorities, ushers, scopes, rhex | one SQL statement at a time, autocommitted | after a restart it is a function of the directory |
| **Directory** `hl-io/src/fs/rhex.rs` | `.rhex` files, each named after the `previous_hash` of its record | `DirSink::send`, `DirSource` (a walk from `genesis.rhex`) | the chain that was loaded stays readable and in order |
| **Bootstrap** `usherd/src/bootstrap.rs` | local `head` | flush the cache, walk the directory, process every record with `first_time = false`, set the head row | ends on every directory; restores all that was there |
| **Listeners** `usherd/src/listen.rs`, `httpd.rs` | the connections | accept, decode, process with `first_time = true`, reply | no request is left hanging, a panic in one does not stop the others |
| **Codec, transport** `hl-io/src/net/` | buffered bytes, counters | frames of 4096 bytes padded with zeros; timeouts | what is sent is what is decoded |
| **Client** `usher/` | none | `submit`, `request`: send one record, read replies until 1.5 s of silence or ten replies | learns the outcome of what it sent |
| **Record, keys** `hl-core/src/rhex/`, `key/`, `keymaster/` | signatures of a record | author, usher and quorum signature over one another's hashes, finalize | a finalized record verifies, whatever the order of signatures |
| **Tools** `keytool/`, `rhex-craft/`, `genesis/` | files | craft, sign, finalize, create genesis | produce what the daemon accepts |
| **Clock** `hl-core/src/time/clock.rs` | epoch | wall time to micromarks | monotonic, consistent split |

### How they interact

`usherd listen` runs bootstrap on the main thread, drops its result
(`usherd/src/main.rs:25`), then starts the HTTP server and the TCP listener on
tokio's multi-threaded runtime. Every connection is a task and calls
`process_rhex` without a lock; every call opens its own SQLite connections. No
transaction spans two statements. So tasks interleave between any two SQL
statements and any two file operations; what they share is `cache.db` and the
directory. Bootstrap uses the same `process_rhex`, alone.

`heads` is written by bootstrap after each record and by `scope:request`, and by
nothing else. An append does not move it. During one uptime every accepted
append therefore extends the same tip and is written to the same file, the
*open slot*; the next bootstrap loads what that slot held last. This is the
behaviour the model is built around: it is what the code does, and the
properties say what follows from it.

### What is hard

In the daemon: interleaving of handlers at statement granularity; reads of the
directory during writes; a truncated file after a crash or a failed write; a
live policy that replay never sees; the bound between the head row, the settled
chain and the open slot; termination of bootstrap and of every connection.
Around it: tools that read and write the same files without locks and can be
killed in between, a context replaced after others have signed, clocks that
disagree, unsigned subtraction; clients that give up while their record is still
worked on and send it again, buffers that are full, replies cut by a crash, two
ends that both wait. The list with the lines where each one bites is `hazards`
in PROJECT.json.

## 2. The modules

| Module | What it is |
|---|---|
| `RhexPolicy` | pure decisions on rules, quorum and members |
| `UsherLedger` | bootstrap, processor, handlers, cache and directory of the root scope; properties; inductive invariant |
| `SlotLedger` | what the daemon promises, seen from outside: a log that only a restart extends, by at most one record, and one open slot |
| `UsherClaims` | what the repository says and the code does not do |
| `RhexSigning` | a record on its way through `rhex-craft`, `keytool`, `genesis` and the daemon's countersigning, files and clock included; extends `RhexPolicy` |
| `FrameCodec` | `RhexCodec`: padding, trimming, decoding |
| `WireSession` | client runs, connections and HTTP requests, the listeners; extends `FrameCodec`, and its ledger is that of `SlotLedger` |
| `GTClock` | wall time to micromarks and back |
| `MCUsherLedger`, `MCRhexSigning`, `MCWireSession` | small instances for TLC |
| `UsherLedgerProofs` | theorems about `UsherLedger`: its inductive invariant, and what live connections leave alone |
| `UsherRestartProofs` | what restarts keep; extends `UsherLedgerProofs` |
| `UsherDirectoryProofs` | what readers see, what the directory holds, and the refinement of `SlotLedger`; extends `UsherRestartProofs` |
| `UsherRebuildProofs` | what bootstrap makes of the cache; extends `UsherRestartProofs` |
| `RhexSigningProofs`, `FrameCodecProofs`, `WireSessionProofs`, `GTClockProofs` | theorems about the module of that name |

Two modules look at the daemon, at different depth. `UsherLedger` has every SQL
statement and file operation and no wire; it implements `SlotLedger` (checked by
`usher_ledger` and proved). `WireSession` has the wire, and of the daemon what
`SlotLedger` keeps, the log and the open slot; that it moves them as
`SlotLedger` allows is checked by `session` and proved. `RhexSigning` shares the
quorum decisions of `RhexPolicy` with `UsherLedger`, and looks at what
signatures cover, which the other two take as given.

### State of `UsherLedger`

| Variable | In the code |
|---|---|
| `disk` | the directory `fs_dir`: previous hash of a record (the *slot*; `NoHash` is `genesis.rhex`) to record, `NoFile` or `Torn` (truncated, not or only partly filled) |
| `cache` | the root scope's rows: `head`, whether a policy and a scope row exist, `rules`, `auths`, `ushers`, and `created`, the keys of the rows in table `rhex` |
| `phase` | the process is not running, in bootstrap, listening |
| `cursor`, `bootHead` | the state of bootstrap's `DirSource`; its local `head` |
| `task` | per process (a connection or HTTP request each, and `Boot`): where it is in `process_rhex` or a handler, its record, the statements it still has to issue, the record it writes, its quorum rule, whether `errors` is empty, its walk over the directory, its output |
| `settled`, `sealed` | history variables: the records this bootstrap loaded; the finalized records of the last bootstrap that came to listen |

A record keeps what the code's decisions depend on: its hash, previous hash,
type, number and order of signatures, quorum signers and which of them do not
verify, author, the data of grants and policies. `flaw` stands for everything
that is wrong with a record on its own, whatever the state; there is one value
for each place where the code finds out. Rules keep their types, roles and
quorum size, and the position the primary key index of `rules` gives them,
because `get_rules` has no ORDER BY and the loops keep the last hit.

### Actions of `UsherLedger`

| Action | Code |
|---|---|
| `ReadHead` | magic, `get_head`, previous hash |
| `ReadPolicy` | scope name, nonce, keys, record type, `retrieve_policy` |
| `ReadRules` | `get_rules`, the rule for the append, `get_last_append` |
| `CheckContext` | time window against the policy row, spacial context |
| `CheckSignatures` | the match on the number of signatures; countersigning |
| `ReadQuorumRules`, `ReadAuthorities` | `signature_check_quorum`, first and second read |
| `ReadFails` | a live query fails: `process_rhex` returns its error, or falls back to the rule of a scope without a policy (`validation.rs:184`) |
| `Verdict` | current hash, the error stack, dispatch, or the panic on `get_primary_key().unwrap()` |
| `ExecStatement`, `StatementFails` | one SQL statement of a handler; its failure |
| `OpenFile`, `WriteFile`, `WriteFails` | `fs::write` in its two visible steps |
| `ScopeRequest`, `InsertCreate`, `StoreScope`, `ZeroHead` | `scope_request` |
| `WalkNext`, `WalkEnds` | `request:rhex`, `request:head` |
| `Receive`, `Reply`, `HangUp` | the listeners |
| `BootStart`, `BootLoad`, `BootSettle`, `BootEnd`, `BootPanic` | bootstrap |
| `Crash` | the process ends at any point; files and cache stay |

A SQL statement is atomic, as SQLite makes it. `flush_all` is one step: nothing
else runs then, and the next start repeats it. A query or a statement may
fail live, where the database can be busy; bootstrap runs alone, and its queries and
statements are assumed to succeed (section 5). What
a panic inside `scope_request` and an error there leave behind is the same, so
`StatementFails` stands for both; in `store_scope_full`, which prints its error and
returns `Ok`, it goes on to the head row.

### `RhexSigning`

| Variable | In the code |
|---|---|
| `files` | the record files of the tools: a record, `NoFile`, or `Torn` between the truncation and the end of `fs::write` |
| `tool` | a tool run: the record it made, where it writes it, and how far it is |
| `runs` | how many runs have started, for the bound `MaxRuns` |
| `now` | the clock of the daemons; a signer's clock is at most `Skew` ahead or behind |
| `reply`, `last` | the last record a daemon returned; history: the last one it dispatched, and when |

A signature is its type, its key and what was signed (`author_hash`,
`usher_hash`, `quorum_hash`), a hash is the content that was hashed. `Craft`,
`CreateGenesis`, `SignFile` and `Finalize` read and make the record,
`OpenFile` and `WriteFile` write it, `Kill` ends a run anywhere. `keytool sign`
writes to the file named after the previous hash, whatever it read from.
`SubmitAuthored`, `SubmitUshered` and `SubmitQuorum` are the three branches of
the match on the number of signatures in `process_rhex`, with the checks that
concern signatures, time and hash; `SaveReply` is external, a client that
stores the JSON it got.

### `WireSession` and `FrameCodec`

| Variable | In the code |
|---|---|
| `log`, `open`, `serving` | the chain that a start loads, the file its tip names, whether the daemon is up, as in `SlotLedger` |
| `client` | per connection, the run that uses it: waiting or how it ended, its record, what it has read |
| `task` | `handle_conn` or `append_handler`: reading, in `process_rhex`, between the two steps of the write, sending |
| `up`, `down` | the frame to the daemon; the frames to the client, at most `Capacity`, and how the stream ends |
| `answer` | history: what `process_rhex` returned |

| Action | Code |
|---|---|
| `Connect`, `Post`, `ConnectFails` | `Transport::connect` and `send_rhex`, a POST; nobody listens, or no frame is large enough |
| `ClientRecv`, `ClientEnough`, `ClientTimeout`, `ClientEof` | `recv_next_with_timeout` in the loop of `submit` and `request`; every way out of it |
| `ServerRead`, `ServerEof` | `stream.next()` in `handle_conn` |
| `Refuse`, `Answer`, `Execute`, `Truncate`, `Store` | outcomes of `process_rhex`: an error or a panic; `request:rhex`; a handler that does not come to its file; a write in two steps, which may fail |
| `ServerSend`, `ServerSendsInVain`, `ServerSent`, `HttpReply` | replies, also to a client that has left; the JSON response |
| `FirstStart`, `Restart`, `Crash` | bootstrap, shutdown |

A connection is used again by any number of runs, one after another; a client
that gave up on one connection runs again on another while the daemon is still
at work for the first. An encoding is a sequence of bytes of which the model
knows what CBOR guarantees: none is a prefix of another, none begins with zero.

### `GTClock`

Operators only: `now_micromarks` with the division of `i128`, its `u64`, the
split into turn and offset, and `time_at_micromarks`. Its questions are
arithmetic, for all readings, so it has theorems and no run.

## 3. What the runs check

`usher_ledger` (two connections, five records: genesis, a policy finalized and
in the form its author sends, a grant that needs the policy, a request for the
chain; any number of crashes, restarts and retries):

- `TypeOK`.
- `SettledOnDisk`: whatever connections do, every finalized record that
  bootstrap loaded is still in its file. Violating it takes an append whose
  previous hash is not the tip, checked against a stale head, and a write.
- `RestartKeepsSealed`, an action property: a bootstrap that comes to listen has
  loaded every finalized record that the one before it had loaded, the same record
  at the same place, whatever crashes, torn files, retries and half-done handlers
  lie between. `sealed` is set to what was loaded, shorter or different as it may
  be (to nothing when `genesis.rhex` does not open); the property is that its old
  value is a prefix of the new one.
- `HeadIsSettledTip`: the head row is the tip of an unbroken chain from genesis.
- `DirectoryShape`: no file but the settled chain and the one open slot.
- `RepliesHoldSealed`: a reply collected while another task writes is the
  settled chain in order, plus at most one record, which the open slot held.
- `IInv`: the inductive invariant of the proofs, checked before it was proved.
- `ImplementsSlotLedger`: the refinement, with the log mapped to `sealed`.
- `BootRebuildsCache` (stated below): here the policy whose slot was lost is no
  longer in any file, and only the flush at start removes its rules.

`usher_replay` (one connection, 24 records on a directory with a strict policy:
every handler, scope requests, an append that is accepted after one of them has
reset the head row, and each way a record is refused; fairness):

- `RestartKeepsSealed` again, with the richer records. The scope requests carry a
  hash; what becomes of one that does not is `claim_scope_request`.
- `BootRebuildsCache`: when bootstrap ends, the rules and authorities are those
  of the files it loaded, computed from the sequence of records by a definition
  of its own, whatever was in the cache before.
- `EveryMessageEnds`, `BootstrapEnds`: liveness.

`signing` (two tool runs at a time, six in all, on two records that
extend the same record and so share the file `keytool` writes; one daemon; a
clock of three instants and signers up to one ahead of it or behind):

- `SignaturesVerify`: each signed record that a file, a run, a client or a
  daemon holds passes `keytool verify`, although the usher's run replaces the
  context and although runs overwrite each other's files. A draft, which nobody
  has signed yet, does not pass ("No signatures found", `verify.rs:23`), and
  `Verifies` is false of it.
- `AppendedIsWhole`: what is appended with a quorum has the hash of its contents
  and verifying author's and usher's signatures, none of which
  `signature_check_quorum` looks at; an early `finalize` leaves a stale hash
  behind, which later signatures do not renew.
- `AppendedInTime`: what is appended with a quorum got its time from an usher's
  signature, by the signer's clock no later than now and at most `quorum_ttl`
  ago. A record from a signer whose clock is ahead, whose age `now - at` wraps,
  and one that the daemon countersigned, which carries no time, are not
  appended.
- `TypeOK`: a quorum signature in a record covers the two before it.

`session` (a TCP connection and an HTTP request at a time, any number of them
after one another; five records: a draft, its countersigned form and its
finalized form, a record that follows it, a request for the chain; fairness):

- `HeardAsSaid`: the daemon works on the record that the run sent, and the run
  has read the first of the records that `process_rhex` returned, in order:
  nothing of another run, nothing twice, however the connection was cut.
- `AppendedOnce`: a record sent again after a silence, an `ok: false` or a
  restart, in any form, at the same time too, is in the ledger at most once.
- `ImplementsSlotLedger`: the refinement mentioned above.
- `EveryRunEnds`, `EveryTaskEnds`: no client waits for ever for a reply that an
  append does not have, and no task for ever for a client that stopped to read.
- `TypeOK`: what is in a buffer is a frame of `RHEX_FRAME_SIZE` bytes.

Eight runs are expected to find a violation. Each states what a comment or the
README says and shows a behaviour of the code that does otherwise:

- `claim_append_only`: two appends in one uptime; the second replaces the file
  of the first (`README.md:2`, "append-only").
- `claim_quorum`: a record with only its author's signature is countersigned
  and executed (`processor/mod.rs:67` and `:81`).
- `claim_one_policy`: two `policy:set` at once, both delete before either
  inserts, and the rules of both stay (`policy.rs:31`).
- `claim_bootstrap`: a first `policy:set` relaxes the policy, a second one is
  admitted under it and takes the first one's file; replay finds the second
  without the first, collects an error, and the panic ends the daemon
  (`processor/mod.rs:99`). Each further start ends the same way.
- `claim_scope_request`: a `scope:request` without a hash leads to a
  `scope:create` without a previous hash, whose file is `genesis.rhex`.
- `claim_scope_head`: a `scope:request` sets the head of its own scope to zero,
  and what names the tip is refused from then on (`validation.rs:24`).
- `claim_k_of_n`: under a rule that asks for two quorum signatures, signers who
  never give up and are never disturbed do not get a record appended, because
  `keytool` refuses to sign a record that has a quorum signature, and the daemon
  adds one to records of one or two signatures only (`README.md:2`, "usher
  K-of-N quorum"). The clock stands still there, so nothing expires. With
  `Rule` set to one of one and the usher's key alone the same specification
  satisfies `QuorumGathers`, with a clock that moves too (37,621 distinct
  states): it is the second signature that is out of reach.
- `claim_frame`: a record that fits a frame but ends in a zero byte does not
  arrive (`codec.rs:33`). The last byte is that of the hash, or in a draft that
  of an Ed25519 signature, whose top bits are zero: about one finalized record
  in 256, and one draft in 16. Either end drops the connection; `submit` reports
  success.

### Bounds

`UsherLedger`. Constants are sets of records; there is no bound on the number of
steps, messages, crashes or restarts, so state spaces are explored to the end.
Chains are three or four records long: genesis, a settled record and the open
slot after it, or one settled at the start and one open. Two tasks suffice for
each two-party interleaving; what a third could add is a third writer of the
same open slot. `usher_replay` keeps one task so that all kinds of records fit,
since its questions are about what remains when bootstrap starts, and each
record can be cut at every statement by a crash.

`RhexSigning`. `MaxRuns` is six, enough to craft, sign three times and finalize
one record while another run interferes, or to do half of that with both
records; `MaxTime - StartTime` is more than `TTL` and more than `Skew`, so a
record can expire and be ahead of the clock. `Word` stands for 2^64 and needs
only to be larger than any difference. Deadlock is not checked there: when runs
and time are used up nothing is left to do. Symmetry of tool runs and of records
is used by the run `signing` alone, which has no liveness property. In
`claim_k_of_n` `MaxRuns` is 0, no bound.

`WireSession`. A frame has two bytes and a buffer one frame, so records fit,
fill a frame or do not fit it, and the daemon has to wait after its first reply;
a client reads two records, and the chain grows to three. There is no bound on
runs, retries or crashes.

### Fairness

`UsherLedger`. Weak fairness of a connection's own steps and of bootstrap's: the
runtime and the kernel run what can run. Weak fairness of `BootStart`: the
operator starts the daemon again. Nothing obliges a client to send or the
process to crash. `EveryMessageEnds` does not depend on a crash: a task that is
never interrupted reaches the end of its message by its own steps, which are
finite because a handler's statements are and the chain a walk follows is
acyclic.

`WireSession`. Weak fairness of a client's reads, of which the timeout is one,
and of the steps of a task: runtimes and kernels run what can run. Nothing
obliges anyone to connect, to crash or to start the daemon again. Fairness over
all steps of one actor is enough, since each has one thing to do at a time.

`RhexSigning`. Only `claim_k_of_n` needs fairness, and there strong fairness is
the generous reading: each member signs again and again whenever it can, what
has a quorum signature is finalized and submitted. The more the signers may be
counted on, the more it says that they fail.

## 4. What is proved

`UsherLedgerProofs`, for every value of the constants: any number of
connections, any records, any directory at the start whose files hold records of
their slot.

- `InductiveInvariant`: `Spec => []IInv`.
- `TypeCorrect`: `Spec => []TypeOK`.
- `SettledStays`: `Spec => []SettledOnDisk`, if no record is a `scope:request`.

`SettledOnDisk` alone is not inductive. `IInv` adds `Turns` (which processes run
in which phase), `Admitted` (from the check of the previous hash to the last
write, a record extends the head row *as it stands*), `DirSlots` (a file holds a
record of its slot), `HeadBound` (the head row is at least as deep as every
record that was loaded) and `BootLocals` (bootstrap's variables, the head row
and the settled records agree). The argument: a write goes to the slot of the
head row; a loaded record's slot is strictly less deep than its hash, and its
hash not deeper than the head; so the two slots differ. `HeadBound` needs
`BootLocals`, because it is bootstrap that moves the head.

The argument leans on the head row staying where it is while the daemon is up.
`scope_request` breaks that, which is why the theorem, and the conjuncts
`SettledOnDisk` and `HeadBound` of `IInv`, have the hypothesis
`NoScopeRequests`; `claim_scope_request` shows that it cannot be dropped.

Assumptions on the constants, each evaluated by TLC on every run:
`ConstantsAssumption` (typing, distinct sentinels), `AcyclicAssumption` (a chain
of hashes does not close, `Depth` is the witness), `HashAssumption` (no
collisions), `ScopeAssumption` (the record `scope_request` makes is among the
records), `DiskAssumption`.

Each step of the proof that a step preserves `IInv` goes through one lemma per
action that brings the actions of a process to one form (`WorkStep`).

### Restarts

`UsherRestartProofs`, without `scope:request` records and for any directory at
the start:

- `RestartsKeep`: `Spec => []RestartKeepsSealed`.
- `HeadIsTip`: `Spec => []HeadIsSettledTip`.

What a bootstrap accepts is decided by code that also runs live, one statement
at a time, so the proof first says what a replay *comes to*: `Passes(c, r)`, the
conditions of all the steps that may refuse `r` when the cache is `c`, and
`Replays(c, r, d)`, that `r` passes and leads from `c` to `d`. `Judged` follows
a record through the processor (nothing found wrong so far means that these
conditions hold), and `ReplaysUnique` says that there is one outcome. It needs
that one rule governs a record type, which the primary key of `rules` ensures
(`PosUnique`).

The invariant is `RInv`: every sealed record is in its file (`SealedFiles`, kept
by each write since the slot of the head row is none of theirs);
the head row is the tip of the loaded chain (`HeadAtTip`); while the daemon
listens, what was loaded is what is sealed (`UpSealed`); bootstrap is at the
file after the records it has settled (`BootPlace`); and the sealed records
replay from the empty cache, on a chain on which the running bootstrap is too
(`Replayed`). The last is what makes it inductive: a record was accepted once
from a cache that the records before it determine, and at the next start its
file and those before it are the same, so it is accepted again. A torn or
refused file can only come after.

`RestartsKeep` then looks at the two steps that change `sealed`.
`StartKeepsSealed`: a start never finds `genesis.rhex` unusable once a record is
sealed. `EndKeepsSealed`: a bootstrap cannot end before it has settled all that
is sealed (`EndReachesSealed`), and on the common chain of `Replayed` what it
has settled begins with it.

The two theorems have the hypothesis `NoScopeRequests`: a request without a hash
is written over `genesis.rhex` (`claim_scope_request`), which
`RestartKeepsSealed` would not survive, and every request resets the head row
(`claim_scope_head`). With requests that carry a hash, `usher_replay` checks
`RestartKeepsSealed`, an append after the reset included: it goes to a slot
named after the reset head, which no sealed record has.

### Readers, directory and refinement

`UsherDirectoryProofs`, on top of `IInv` and `RInv`:

- `RepliesSealed`: `Spec => []RepliesHoldSealed`. The invariant `Walks`: a walk
  is at the file after the
  records it has found, and these agree with the sealed ones as far as both go;
  a walk that is over has found all of them, since their files are never torn.
  The invariant `Bounded`: it has found at most one record more, since no file lies
  behind the open slot (`Occupied`, below).
- `DirectoryKept`: `Spec => []DirectoryShape`.
- `ImplementsLedger`: `Spec => ImplementsSlotLedger`, step by step: a live file
  operation is `Truncate`, `Put` or a stutter (`LiveWorkImplements`), the end of
  bootstrap is `FirstStart` or `Restart` (`BootEndImplements`), a start without a
  usable `genesis.rhex` is a `FirstStart` that finds nothing
  (`BootStartImplements`), crash and panic are `Stop` or a stutter.

All three have the hypothesis `NoScopeRequests` and a second one,
`FreshDirectory`: the directory began with `genesis.rhex` alone, as `genesis
create` makes it. It leaves nothing out that the daemon can come to by itself,
since whatever earlier runs left behind is a state of a behaviour that began so.
A directory that someone filled by hand may hold a file that nothing leads to
yet; an append that closes the gap makes a reader find, and the next start load,
two records more, which `SlotLedger` does not allow. The invariant is
`Occupied`. Its less obvious part: when `genesis.rhex` is not accepted, the head
row stays at zero and a live `scope:genesis` opens the daemon for appends into
slot zero; nothing is sealed then, and no bootstrap ever comes to that file.

### Cache

`UsherRebuildProofs`, scope requests included:

- `BootRebuilds`: `Spec => BootRebuildsCache`. The invariant `BInv` says that
  while bootstrap runs the cache is, or is on its way from, one whose rules and
  authorities are `ReplayedRules` and `ReplayedAuths` of the settled records.
  It rests on lemmas about what the statements of a handler come to, one after
  another (`GenesisRuns`, `PolicyRuns`), and about what one record more adds to the
  two definitions (`PolicyAppended`, `GrantAppended`). Hypothesis: `GenesisOnce`,
  at the start no file but `genesis.rhex` holds a `scope:genesis`. `BInv` shows that
  no handler ever writes one (`Puts`, `NoGenesisFiles`). The two definitions know
  of one genesis record, the first.
- `ListingOrder`: two policies with the same rules in another order leave the
  same rows and the same governing rule, only one, for each record type. The loops
  of the processor keep the *last* rule that applies, in the order of the rows' key;
  the order in which a policy lists them decides nothing, as long as no two
  have the same `record_types`.

### Signing

`RhexSigningProofs`, for any keys, records, files, rules and numbers of
overlapping runs, from `SigningAssumption` alone: `SigningTypes`,
`RecordsVerify` (`SignaturesVerify`), `AppendsAreWhole` (`AppendedIsWhole`) and
`AppendsAreInTime` (`AppendedInTime`). The invariant is `Formed`, of every record
anywhere: at most three signatures, author, usher and quorum in this order,
each over the ones before it *as they are now*, and a time that is 0 or an
usher's. Each operation on records keeps it (one lemma each), `finalize` because
sorting what is in order changes nothing. `AppendsAreInTime` then rests on
`TTL + Skew < StartTime` (the epoch is further back than any `quorum_ttl` in use and
than clocks differ): a record without a time is too old, and one that is ahead of
the clock has an age of nearly `Word`. `RecordsVerify` is about records that carry a
signature.

### Codec and sessions

`FrameCodecProofs`, for any encoding that is prefix-free and does not begin with
zero: `RoundTrip`, `TrailingZeroLost`, `NeverMistaken`. Together they say
exactly which records a frame carries: those whose encoding does not end in
zero; the others are lost and never taken for something else.

`WireSessionProofs`, for any connections, records, encodings and sizes of frames
and buffers:

- `SessionTypes`: `Spec => []TypeOK`.
- `SessionImplementsLedger`: `Spec => ImplementsSlotLedger`, and `OneIntentOnce`:
  `Spec => []AppendedOnce`. The invariant `Extended` says that along the log
  predecessors lie deeper and deeper, and that the open slot and every task
  between truncation and write extend its tip: two connections may write at
  once, but only what names the tip. Equal intents have equal predecessors
  (`IntentAssumption`), so equal intents are one entry.
- `Heard`: `Spec => []HeardAsSaid`. The invariant `Carried` accounts for
  everything that `process_rhex` returned: read, on its way as frames, or still
  to be sent, in this order and without gaps while the run waits. It uses
  `NeverMistaken`, so it holds of encodings that end in zero too.

Assumptions: `SessionAssumption`, `IntentAssumption`, `AcyclicAssumption`,
`ChainAssumption` (bootstrap loads a chain) and `CodecAssumption`; TLC evaluates
them on every run of `MCWireSession`.

### Clock

`GTClockProofs`, without assumptions on constants: `MicromarksMonotonic` and
`SplitRoundTrip`, which the unit tests of `clock.rs` sample, and
`ThereAndBack` and `BeforeTheEpoch`. Division towards zero, where
`clock.rs:38` says floor, makes mark 0 last twice as long and changes nothing
else; a clock that is before the epoch dates records after all others once the
mark becomes a `u64`.

### Only model-checked

Liveness: `EveryMessageEnds`, `BootstrapEnds`, `EveryRunEnds` and `EveryTaskEnds`,
which is beyond the prover; they hold of the instances of `usher_replay` and
`session`. With the hypotheses above, every invariant, action property and
refinement that a passing run checks is stated by a theorem. Where the
hypothesis is `NoScopeRequests`, what holds of records that include scope
requests is model-checked only.

## 5. Not modelled

The directory and cache rows of the scope that `scope:request` creates (no
bootstrap ever loads it); `request:scope`, which only reads. Records of scopes
other than the root: the daemon refuses them, since `get_head` finds no row,
except after `scope:request`. A `cache.db` without tables, or a configuration
whose `cache_db` is not `./ledger/cache/cache.db`.

Of the transport `send_many`, `connect_with_timeout` and `account_recv`, which
have no callers; `usher mirror`, a stub. A TCP client that sends several records
on one connection: the daemon would take them one by one, no client of the
repository does it. Of the tools `keytool generate`, `view` and `b64`, and the
empty `rhex-craft design`, `validate` and `genesis`. Key files and their
encryption, configuration, encodings and printing. Ed25519 and BLAKE3 are
symbolic.

Failures that are left out. A query or a statement that fails during bootstrap:
a disk that is full then makes a replay refuse or half execute what it accepted
before, so `RestartKeepsSealed` and `BootRebuildsCache` hold of bootstraps whose
database answers. A peer that vanishes without closing: `listen.rs` reads and
writes without a timeout, so its task waits until the kernel gives the
connection up, and `EveryTaskEnds` is about clients whose end of the connection
is closed when they leave. A frame cut in the middle: its receiver gets an error
at the end of the stream, which `ClientEof` has as an outcome, and the bytes are
not modelled.

The order of the rows of `rules` is that of the index of its primary
key, as SQLite returns it for a query without ORDER BY; the models take it for
granted.

## 6. Plan

Done: `RhexPolicy`, `SlotLedger`, `UsherLedger`, `UsherClaims`; `RhexSigning`,
`FrameCodec`, `WireSession`, `GTClock`; their small instances and proofs.

Proved: every safety property of the passing runs, and both refinements.

Next, in this order:

1. With scope requests: what still holds of `RestartKeepsSealed` and the refinement
   when a request does not reset the head (a weaker hypothesis than
   `NoScopeRequests`).
2. Composition: the steps of `SlotLedger` that `WireSession` and `UsherLedger` take
   are the same ones, so that `AppendedOnce` can be read off the daemon's files.
3. Lemmas on `RhexPolicy`: monotonicity of quorum and members in signatures and
   authorities.
4. `request:scope` and its read of four tables while a policy changes.
