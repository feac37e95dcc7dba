----------------------------- MODULE UsherLedger -----------------------------
(***************************************************************************)
(* The usher daemon and its root scope: bootstrap, the R⬢ processor, the   *)
(* handlers behind it, the SQLite cache and the directory of .rhex files.  *)
(*                                                                         *)
(* usherd serves every TCP connection and every HTTP request in a tokio    *)
(* task of its own on a multi-threaded runtime.  Nothing locks the cache   *)
(* or the directory, and no SQL transaction spans two statements, so two   *)
(* tasks interleave between any two statements or file operations.  One    *)
(* action below is one such step.  Bootstrap runs the same processor, with *)
(* first_time = false, before the listeners start: it is the process Boot. *)
(*                                                                         *)
(* A .rhex file is named after the previous_hash of the record it holds    *)
(* (genesis.rhex when there is none), so disk is a function from previous  *)
(* hashes, the slots, to contents.                                         *)
(***************************************************************************)
EXTENDS RhexPolicy

CONSTANTS
  Records,      \* the R⬢ messages that clients send or that files hold
  Hashes,       \* the values of current_hash
  Zero,         \* [0u8; 32], the head before the first record is loaded
  NoHash,       \* None, of an Option<[u8; 32]>
  Keys,         \* public keys
  Types,        \* record types and patterns
  Roles,        \* role names, "*" included
  UsherKey,     \* the hot key of this usher
  Tasks,        \* connection and HTTP tasks
  Boot,         \* the bootstrap procedure
  NoFile,       \* the file does not exist
  Torn,         \* truncated by fs::write and not yet, or never, written
  NoRow,        \* the heads table has no row for the scope
  NoMsg,        \* a process that holds no message
  InitialDisk,  \* what the genesis tool and earlier runs left in fs_dir
  Depth         \* distance of a hash from the start of its chain

Slots == Hashes \cup {Zero, NoHash}
Procs == Tasks \cup {Boot}

(* The places where a record can be wrong on its own, whatever the state:  *)
(* its magic, its intent (scope name, nonce, keys, record type), its       *)
(* spacial context, its handler data, the genesis of a new scope that it   *)
(* has attached, or the hash it carries.                                   *)
Flaws == {"none", "magic", "intent", "spacial", "data", "port", "genesis",
          "hash"}

RuleType ==
  [pos : Nat, types : SUBSET Types, append : SUBSET Roles,
   k : Nat, quorum : SUBSET Roles]

AuthType == [pk : Keys, roles : SUBSET Roles]

RhexType ==
  [hash : Hashes \cup {NoHash}, prev : Slots, type : Types,
   sigs : Nat,                  \* how many signatures it carries
   ordered : BOOLEAN,           \* author first, usher second
   quorum : Seq(Keys),          \* the signers of the quorum signatures
   forged : SUBSET Keys,        \* those whose signature does not verify
   author : Keys, flaw : Flaws,
   grantee : Keys, roles : SUBSET Roles,  \* data of key:grant, usher:appoint
   rules : Seq(RuleType)]                  \* data of policy:set

(* current_hash is a hash over the intent, previous_hash included, so no   *)
(* chain of previous hashes meets itself again; Depth witnesses that.      *)
ASSUME ConstantsAssumption ==
  /\ Records \subseteq RhexType
  /\ {GenesisType, PolicySetType} \subseteq Types /\ "authority" \in Roles
  /\ UsherKey \in Keys
  /\ Boot \notin Tasks
  /\ Zero \notin Hashes /\ NoHash \notin Hashes /\ Zero # NoHash
  /\ NoRow \notin Slots
  /\ NoFile \notin Records /\ Torn \notin Records /\ NoFile # Torn
  /\ NoMsg \notin Records

ASSUME AcyclicAssumption ==
  /\ Depth \in [Slots -> Nat]
  /\ \A r \in Records : r.hash # NoHash => Depth[r.prev] < Depth[r.hash]

(* blake3 has no collisions, so a hash that fits its record fits no other. *)
ASSUME HashAssumption ==
  \A r, q \in {x \in Records : x.hash # NoHash /\ x.flaw # "hash"} :
    r.hash = q.hash => r = q

(* scope_request makes a scope:create record of its own, which follows the *)
(* request: with no previous hash when the request has no hash yet.        *)
ScopeRequestType == <<"scope", "request">>
ScopeCreateType == <<"scope", "create">>

Creates(r, c) ==
  /\ c.type = ScopeCreateType /\ c.author = UsherKey /\ c.flaw = "none"
  /\ c.prev = r.hash /\ c.hash # NoHash
  /\ c.sigs = 3 /\ c.quorum = <<UsherKey>>

ASSUME ScopeAssumption ==
  \A r \in Records :
    r.type = ScopeRequestType => \E c \in Records : Creates(r, c)

ASSUME DiskAssumption ==
  /\ InitialDisk \in [Slots -> Records \cup {NoFile}]
  /\ \A s \in Slots : InitialDisk[s] \in Records => InitialDisk[s].prev = s

VARIABLES
  disk,      \* fs_dir: slot -> record, NoFile or Torn
  cache,     \* the root scope's rows in cache.db
  phase,     \* "down", "boot" (in bootstrap), "up" (listening)
  cursor,    \* bootstrap's DirSource: the slot it reads next
  bootHead,  \* bootstrap's local variable head
  settled,   \* history: the records this bootstrap loaded, in order
  sealed,    \* history: the finalized records of the last bootstrap that listened
  task       \* what each process is doing

vars == <<disk, cache, phase, cursor, bootHead, settled, sealed, task>>
world == <<disk, cache, phase, cursor, bootHead, settled, sealed>>

-----------------------------------------------------------------------------
(* SQL statements, as a handler issues them one after another.             *)

Op(name) == [op |-> name, rule |-> NoRule, pk |-> UsherKey, roles |-> {}]
PutRule(rule) == [Op("putRule") EXCEPT !.rule = rule]
PutAuth(pk, roles) == [Op("putAuth") EXCEPT !.pk = pk, !.roles = roles]
PutUsher(pk) == [Op("putUsher") EXCEPT !.pk = pk]

OpNames == {"putRule", "putAuth", "putUsher", "putPolicy", "putScope",
            "delRules", "delAuths", "delUshers", "delPolicy", "delScope"}
OpType == [op : OpNames, rule : RuleType, pk : Keys, roles : SUBSET Roles]

CacheType ==
  [head : Hashes \cup {Zero, NoRow}, policy : BOOLEAN, scope : BOOLEAN,
   rules : SUBSET RuleType, auths : SUBSET AuthType, ushers : SUBSET Keys,
   created : SUBSET Slots]  \* previous hashes of the rows of the rhex table

(* flush_all: the cache a bootstrap starts from.                           *)
EmptyCache ==
  [head |-> NoRow, policy |-> FALSE, scope |-> FALSE,
   rules |-> {}, auths |-> {}, ushers |-> {}, created |-> {}]

PutAuthority(c, o) ==
  [c EXCEPT !.auths = {a \in c.auths : a.pk # o.pk}
                        \cup {[pk |-> o.pk, roles |-> o.roles]}]

Apply(o, c) ==
  CASE o.op = "putRule"   -> [c EXCEPT !.rules = Upsert(c.rules, o.rule)]
    [] o.op = "putAuth"   -> PutAuthority(c, o)
    [] o.op = "putUsher"  -> [c EXCEPT !.ushers = c.ushers \cup {o.pk}]
    [] o.op = "putPolicy" -> [c EXCEPT !.policy = TRUE]
    [] o.op = "putScope"  -> [c EXCEPT !.scope = TRUE]
    [] o.op = "delRules"  -> [c EXCEPT !.rules = {}]
    [] o.op = "delAuths"  -> [c EXCEPT !.auths = {}]
    [] o.op = "delUshers" -> [c EXCEPT !.ushers = {}]
    [] o.op = "delPolicy" -> [c EXCEPT !.policy = FALSE]
    [] o.op = "delScope"  -> [c EXCEPT !.scope = FALSE]

(* Mutant: policy_set adds its rules to those in force.                    *)
PolicySetKeepsRules(r) ==
  <<Op("delPolicy"), Op("putPolicy")>>
    \o [i \in DOMAIN r.rules |-> PutRule(r.rules[i])]

(* policy_set: clear_scope_policy deletes the policy row and the rules,    *)
(* clear_scope_rules deletes the rules once more, store_policy_full        *)
(* inserts the policy row and then one rule after another.                 *)
PolicySet(r) ==
  <<Op("delPolicy"), Op("delRules"), Op("delRules"), Op("putPolicy")>>
    \o [i \in DOMAIN r.rules |-> PutRule(r.rules[i])]

KeyGrant(r) == <<PutAuth(r.grantee, r.roles)>>

UsherAppoint(r) == <<PutUsher(r.grantee)>>

(* scope_genesis: flush_scope_full, which leaves the rules in place, then  *)
(* store_scope_full with the author as the one authority.                  *)
ScopeGenesis(r) ==
  <<Op("delScope"), Op("delAuths"), Op("delPolicy"), Op("delUshers"),
    Op("putScope"), PutAuth(r.author, {"authority"}), Op("putPolicy"),
    PutRule(BasicRule)>>

(* The statements the handler of a record issues before it returns or      *)
(* turns to the file system.  The handlers of the other types issue none.  *)
Statements(r) ==
  CASE r.type = PolicySetType        -> PolicySet(r)
    [] r.type = <<"key", "grant">>   -> KeyGrant(r)
    [] r.type = <<"usher", "appoint">> -> UsherAppoint(r)
    [] r.type = GenesisType          -> ScopeGenesis(r)
    [] OTHER                         -> <<>>

(* The handlers that end with DirSink::send when first_time is set.        *)
WritesFile(r) ==
  \/ r.type \in {PolicySetType, <<"key", "grant">>,
                 <<"usher", "appoint">>, <<"usher", "demote">>}
  \/ r.type[1] = "record"

WalksDisk(r) == r.type \in {<<"request", "rhex">>, <<"request", "head">>}

(* Handler data that cannot be read: the handler of key:grant,             *)
(* usher:appoint and scope:request returns Err before it touches anything. *)
(* A port above u16::MAX panics instead.                                   *)
DataUnreadable(r) ==
  /\ r.flaw = "data"
  /\ r.type \in {<<"key", "grant">>, <<"usher", "appoint">>, ScopeRequestType}

PortPanics(r) == r.flaw = "port" /\ r.type = <<"usher", "appoint">>

-----------------------------------------------------------------------------
(* A process.  todo: statements left; put: the record it writes to a file; *)
(* rule: the quorum rule it selected; bad: errors is not empty; at, found: *)
(* its own walk over the directory; out: what it has to send back.         *)

PCs == {"idle", "head", "policy", "rules", "context", "sigs", "quorum",
        "members", "verdict", "exec", "open", "write", "walk",
        "scope", "insert", "store", "zero",
        "done", "failed", "panicked"}

Started(r) ==
  [pc |-> "head", msg |-> r, todo |-> <<>>, put |-> r, rule |-> NoRule,
   bad |-> FALSE, at |-> NoHash, found |-> <<>>, out |-> <<>>]

Idle == [Started(NoMsg) EXCEPT !.pc = "idle"]

FirstTime(p) == p # Boot

Become(p, state) == task' = [task EXCEPT ![p] = state]

Goto(p, pc) == Become(p, [task[p] EXCEPT !.pc = pc])

(* Errors collected so far do not stop the checks; the verdict sees them.  *)
Flag(p, pc) == Become(p, [task[p] EXCEPT !.pc = pc, !.bad = TRUE])

Record(f) == f \notin {NoFile, Torn}

(* Mutant: a previous hash has to be there, whichever it is.               *)
PreviousHashPresent(r, head) ==
  r.prev = NoHash => r.type = GenesisType \/ r.type[1] = "request"

(* validate_intent_previous_hash, against the row that get_head read.      *)
PreviousHashValid(r, head) ==
  /\ r.prev = NoHash => r.type = GenesisType \/ r.type[1] = "request"
  /\ r.prev # NoHash => r.prev = head

(* validate_magic, get_head, validate_intent_previous_hash.  Without a     *)
(* heads row get_head returns Err.                                         *)
ReadHead(p) ==
  /\ task[p].pc = "head"
  /\ LET r == task[p].msg
         ok == /\ r.flaw # "magic"
               /\ cache.head # NoRow
               /\ PreviousHashValid(r, cache.head)
     IN Goto(p, IF ok THEN "policy" ELSE "failed")
  /\ UNCHANGED world

(* The checks of scope name, nonce and keys, then the first statement of   *)
(* validate_intent_record_type, retrieve_policy.  While the scope has no   *)
(* policy a default rule admits scope:genesis only.                        *)
ReadPolicy(p) ==
  /\ task[p].pc = "policy"
  /\ LET r == task[p].msg
         next == IF r.flaw = "intent" THEN "failed"
                 ELSE IF cache.policy THEN "rules"
                 ELSE IF r.type = GenesisType THEN "context" ELSE "failed"
     IN Goto(p, next)
  /\ UNCHANGED world

(* get_rules, the rule that grants the append, and get_last_append, which  *)
(* fails on any row it finds, since its current_hash is NULL.  The rows    *)
(* are the scope:create records of scope_request and no others.            *)
ReadRules(p) ==
  /\ task[p].pc = "rules"
  /\ LET r == task[p].msg
         granted == AppendRule(cache.rules, r.type) # {}
         appended == /\ r.type = ScopeCreateType /\ r.author = UsherKey
                     /\ cache.created # {}
     IN Goto(p, IF granted /\ ~appended THEN "context" ELSE "failed")
  /\ UNCHANGED world

(* validate_context_at and validate_context_spacial, skipped for a single  *)
(* signature.  From three on, and live, the quorum TTL in the policy row   *)
(* decides; the clock may be on either side of it.  The root scope is      *)
(* excused from carrying a time.                                           *)
CheckContext(p) ==
  /\ task[p].pc = "context"
  /\ LET r == task[p].msg
         timed == r.sigs > 2 /\ FirstTime(p)
     IN \E expired \in {FALSE, timed} :
          Goto(p, IF \/ timed /\ (expired \/ ~cache.policy)
                     \/ r.sigs > 1 /\ r.flaw = "spacial"
                  THEN "failed" ELSE "sigs")
  /\ UNCHANGED world

(* signature_usher_and_quorum and signature_quorum: the usher adds what is *)
(* missing to three signatures, its own quorum signature last.             *)
Countersigned(r) ==
  [r EXCEPT !.sigs = 3, !.quorum = Append(r.quorum, UsherKey)]

(* The match on the number of signatures.  Three and more go on to         *)
(* signature_check_quorum.                                                 *)
CheckSignatures(p) ==
  /\ task[p].pc = "sigs"
  /\ LET r == task[p].msg
     IN \/ /\ r.sigs = 0 \/ (r.sigs \in {1, 2} /\ ~r.ordered)
           /\ Flag(p, "verdict")
        \/ /\ r.sigs \in {1, 2} /\ r.ordered
           /\ Become(p, [task[p] EXCEPT !.pc = "verdict",
                                        !.out = <<Countersigned(r)>>])
        \/ /\ r.sigs > 2
           /\ IF r.quorum = <<>> THEN Flag(p, "verdict") ELSE Goto(p, "quorum")
  /\ UNCHANGED world

(* signature_check_quorum as far as the count: get_rules again, the rule   *)
(* for the record type, quorum_k signatures.                               *)
ReadQuorumRules(p) ==
  /\ task[p].pc = "quorum"
  /\ LET r == task[p].msg
         met == {q \in QuorumRule(cache.rules, r.type) :
                   QuorumReached(q, r.quorum)}
     IN \/ \E q \in met :
             Become(p, [task[p] EXCEPT !.pc = "members", !.rule = q])
        \/ met = {} /\ Flag(p, "verdict")
  /\ UNCHANGED world

(* get_authorities and the loop over the quorum signatures.                *)
ReadAuthorities(p) ==
  /\ task[p].pc = "members"
  /\ LET r == task[p].msg
     IN IF MembersAccepted(task[p].rule, cache.auths, r.quorum, r.forged)
        THEN Goto(p, "verdict") ELSE Flag(p, "verdict")
  /\ UNCHANGED world

(* A query that fails ends process_rhex with its error.  Only the policy   *)
(* has a default to fall back on, the one of a scope without a policy; a   *)
(* policy whose rules cannot be read grants nothing.                       *)
ReadFails(p) ==
  /\ FirstTime(p)
  /\ \/ /\ task[p].pc \in {"head", "policy", "rules", "quorum", "members"}
        /\ Goto(p, "failed")
     \/ /\ task[p].pc = "policy" /\ task[p].msg.flaw # "intent"
        /\ task[p].msg.type = GenesisType
        /\ Goto(p, "context")
  /\ UNCHANGED world

(* What dispatch turns to for a record that passed.                        *)
Handler(p, r) ==
  IF PortPanics(r) THEN "panicked"
  ELSE IF DataUnreadable(r) THEN "done"
  ELSE IF Statements(r) # <<>> THEN "exec"
  ELSE IF WritesFile(r) /\ FirstTime(p) THEN "open"
  ELSE IF WalksDisk(r) /\ FirstTime(p) THEN "walk"
  ELSE IF r.type = ScopeRequestType /\ FirstTime(p) THEN "scope"
  ELSE "done"

(* validate_current_hash, then the end of process_rhex: with an empty      *)
(* error stack the record is dispatched, whatever its signature count;     *)
(* otherwise get_primary_key().unwrap() panics, because no code path calls *)
(* set_primary_key.                                                        *)
Verdict(p) ==
  /\ task[p].pc = "verdict"
  /\ LET r == task[p].msg
         missing == r.sigs # 1 /\ r.hash = NoHash
         next == IF task[p].bad \/ missing THEN "panicked" ELSE Handler(p, r)
         pc == IF r.hash # NoHash /\ r.flaw = "hash" THEN "failed" ELSE next
     IN Become(p, [task[p] EXCEPT !.pc = pc,
                                  !.todo = IF pc = "exec" THEN Statements(r)
                                                          ELSE <<>>])
  /\ UNCHANGED world

-----------------------------------------------------------------------------
(* One statement of the handler.  After the last one the handler turns to  *)
(* the file system, live only and never for scope:genesis.                 *)
ExecStatement(p) ==
  /\ task[p].pc = "exec"
  /\ cache' = Apply(Head(task[p].todo), cache)
  /\ LET rest == Tail(task[p].todo)
         writes == WritesFile(task[p].msg) /\ FirstTime(p)
         after == IF writes THEN "open" ELSE "done"
     IN Become(p, [task[p] EXCEPT !.todo = rest,
                                  !.pc = IF rest # <<>> THEN "exec" ELSE after])
  /\ UNCHANGED <<disk, phase, cursor, bootHead, settled, sealed>>

(* A statement that fails (cache.db stays locked past the busy timeout, no *)
(* space left): the handler returns Err, dispatch prints it and goes on    *)
(* with no output of the handler's.  What was done before stays done.      *)
(* store_scope_full prints the failure of its INSERT itself and returns Ok.*)
StatementFails(p) ==
  /\ FirstTime(p)
  /\ \/ /\ task[p].pc \in {"exec", "insert", "store", "zero"}
        /\ Become(p, [task[p] EXCEPT !.pc = "done", !.todo = <<>>])
     \/ task[p].pc = "store" /\ Goto(p, "zero")
  /\ UNCHANGED world

(* Mutant: the file is named after the record's own hash.                  *)
OpenFileByHash(p) ==
  /\ task[p].pc = "open"
  /\ disk' = [disk EXCEPT ![task[p].put.hash] = Torn]
  /\ Goto(p, "write")
  /\ UNCHANGED <<cache, phase, cursor, bootHead, settled, sealed>>

(* fs::write, in its two visible steps: the file is created or truncated,  *)
(* then filled.                                                            *)
OpenFile(p) ==
  /\ task[p].pc = "open"
  /\ disk' = [disk EXCEPT ![task[p].put.prev] = Torn]
  /\ Goto(p, "write")
  /\ UNCHANGED <<cache, phase, cursor, bootHead, settled, sealed>>

(* A scope request writes two files, the request and then scope:create.    *)
WriteFile(p) ==
  /\ task[p].pc = "write"
  /\ disk' = [disk EXCEPT ![task[p].put.prev] = task[p].put]
  /\ LET r == task[p].msg
     IN \/ r.type # ScopeRequestType /\ Goto(p, "done")
        \/ /\ task[p].put.type = ScopeRequestType
           /\ \E c \in Records :
                /\ Creates(r, c)
                /\ Become(p, [task[p] EXCEPT !.pc = "open", !.put = c])
        \/ /\ r.type = ScopeRequestType /\ task[p].put.type # ScopeRequestType
           /\ Goto(p, "insert")
  /\ UNCHANGED <<cache, phase, cursor, bootHead, settled, sealed>>

(* The write fails after the truncation; the error is printed.             *)
WriteFails(p) ==
  /\ task[p].pc = "write"
  /\ Goto(p, "done")
  /\ UNCHANGED world

-----------------------------------------------------------------------------
(* scope_request, live.  The new scope's own directory is not modelled.    *)

(* The attached genesis is validated, the scope must not exist, and its    *)
(* directory is created.  When one of these fails the files are left out.  *)
ScopeRequest(p) ==
  /\ task[p].pc = "scope"
  /\ \/ task[p].msg.flaw # "genesis" /\ Goto(p, "open")
     \/ Goto(p, "store")
  /\ UNCHANGED world

(* CacheSink::send: the primary key is the previous hash, NULL apart.      *)
InsertCreate(p) ==
  /\ task[p].pc = "insert"
  /\ LET h == task[p].put.prev
     IN IF h # NoHash /\ h \in cache.created
        THEN Goto(p, "done") /\ UNCHANGED cache
        ELSE /\ Goto(p, "store")
             /\ cache' = [cache EXCEPT !.created = cache.created \cup {h}]
  /\ UNCHANGED <<disk, phase, cursor, bootHead, settled, sealed>>

(* store_scope_full and set_head are given the scope of the request, which *)
(* is the parent, and run even if the request was found wanting.           *)
StoreScope(p) ==
  /\ task[p].pc = "store"
  /\ cache' = Apply(Op("putScope"), cache)
  /\ Goto(p, "zero")
  /\ UNCHANGED <<disk, phase, cursor, bootHead, settled, sealed>>

ZeroHead(p) ==
  /\ task[p].pc = "zero"
  /\ cache' = [cache EXCEPT !.head = Zero]
  /\ Goto(p, "done")
  /\ UNCHANGED <<disk, phase, cursor, bootHead, settled, sealed>>

-----------------------------------------------------------------------------
(* DirSource: genesis.rhex must be there, decode and carry a hash; then    *)
(* each file is found under the current_hash of the one before and has to  *)
(* name it as its previous_hash.                                           *)

GenesisOpens(d) == Record(d[NoHash]) /\ d[NoHash].hash # NoHash

Links(f, slot) == Record(f) /\ (slot # NoHash => f.prev = slot)

(* The walk is over at a missing file, and after a record without a hash.  *)
Walked(found) == found # <<>> /\ found[Len(found)].hash = NoHash

(* Mutant: new() consumed the genesis record, next() does not yield it.    *)
WalkSkipsGenesis(p) ==
  /\ task[p].pc = "walk" /\ ~Walked(task[p].found)
  /\ LET f == disk[task[p].at]
         ok == Links(f, task[p].at)
         kept == IF task[p].at = NoHash THEN <<>> ELSE Append(task[p].found, f)
     IN /\ task[p].at = NoHash \/ f # NoFile
        /\ IF ok
           THEN Become(p, [task[p] EXCEPT !.found = kept, !.at = f.hash])
           ELSE Become(p, [task[p] EXCEPT !.pc = "done", !.found = <<>>])
  /\ UNCHANGED world

(* request_rhex and request_head read one file after another while other   *)
(* tasks write.  On Err dispatch drops what was found.                     *)
WalkNext(p) ==
  /\ task[p].pc = "walk" /\ ~Walked(task[p].found)
  /\ LET f == disk[task[p].at]
         ok == /\ Links(f, task[p].at)
               /\ task[p].at = NoHash => GenesisOpens(disk)
     IN /\ task[p].at = NoHash \/ f # NoFile
        /\ IF ok
           THEN Become(p, [task[p] EXCEPT !.found = Append(@, f), !.at = f.hash])
           ELSE Become(p, [task[p] EXCEPT !.pc = "done", !.found = <<>>])
  /\ UNCHANGED world

(* At the end request:rhex returns every record it read; request:head      *)
(* unwraps the hash of the last one and returns that.                      *)
WalkEnds(p) ==
  /\ task[p].pc = "walk"
  /\ LET found == task[p].found
         last == found[Len(found)]
         reply == IF task[p].msg.type = <<"request", "head">>
                  THEN <<last>> ELSE found
     IN /\ found # <<>>
        /\ last.hash = NoHash \/ disk[task[p].at] = NoFile
        /\ IF task[p].msg.type = <<"request", "head">> /\ last.hash = NoHash
           THEN Goto(p, "panicked")
           ELSE Become(p, [task[p] EXCEPT !.pc = "done", !.out = @ \o reply])
  /\ UNCHANGED world

Process(p) ==
  \/ ReadHead(p) \/ ReadPolicy(p) \/ ReadRules(p) \/ CheckContext(p)
  \/ CheckSignatures(p) \/ ReadQuorumRules(p) \/ ReadAuthorities(p)
  \/ ReadFails(p) \/ Verdict(p)
  \/ ExecStatement(p) \/ StatementFails(p)
  \/ OpenFile(p) \/ WriteFile(p) \/ WriteFails(p)
  \/ ScopeRequest(p) \/ InsertCreate(p) \/ StoreScope(p) \/ ZeroHead(p)
  \/ WalkNext(p) \/ WalkEnds(p)

-----------------------------------------------------------------------------
(* handle_conn and the HTTP handler.  A client may send any record, again  *)
(* and again.                                                              *)
Receive(t) ==
  /\ phase = "up" /\ task[t].pc = "idle"
  /\ \E r \in Records : Become(t, Started(r))
  /\ UNCHANGED world

(* The replies are sent and the connection waits for the next message.     *)
Reply(t) ==
  /\ task[t].pc = "done"
  /\ Become(t, Idle)
  /\ UNCHANGED world

(* Mutant: a panic is not confined to its task and the task never ends.    *)
HangUpOnError(t) ==
  /\ task[t].pc = "failed"
  /\ Become(t, Idle)
  /\ UNCHANGED world

(* Mutant: the task forgets to drop the message it has dealt with.         *)
HangUpKeepsMessage(t) ==
  /\ task[t].pc \in {"failed", "panicked"}
  /\ Goto(t, "idle")
  /\ UNCHANGED world

(* Err from process_rhex ends the connection, and so does a panic, which   *)
(* tokio confines to the task.                                             *)
HangUp(t) ==
  /\ task[t].pc \in {"failed", "panicked"}
  /\ Become(t, Idle)
  /\ UNCHANGED world

-----------------------------------------------------------------------------
(* A record without a hash ends the walk, so only the last can lack one.   *)
Finalized(seq) ==
  IF seq # <<>> /\ seq[Len(seq)].hash = NoHash
  THEN SubSeq(seq, 1, Len(seq) - 1) ELSE seq

(* Mutant: bootstrap does not flush the cache first.                       *)
BootKeepsCache ==
  /\ phase = "down"
  /\ settled' = <<>> /\ bootHead' = Zero /\ cursor' = NoHash
  /\ phase' = "boot"
  /\ cache' = [cache EXCEPT !.head = Zero,
                            !.rules = Upsert(cache.rules, GenesisRule)]
  /\ UNCHANGED <<disk, sealed, task>>

(* flush_all, DirSource::new, set_head(0) and the rule for scope:genesis.  *)
(* When genesis.rhex does not open, bootstrap returns its error, main      *)
(* drops it, and the daemon listens with the flushed cache.                *)
BootStart ==
  /\ phase = "down"
  /\ settled' = <<>> /\ bootHead' = Zero /\ cursor' = NoHash
  /\ IF GenesisOpens(disk)
     THEN /\ phase' = "boot"
          /\ cache' = [EmptyCache EXCEPT !.head = Zero, !.rules = {GenesisRule}]
          /\ UNCHANGED sealed
     ELSE /\ phase' = "up"
          /\ cache' = EmptyCache
          /\ sealed' = <<>>
  /\ UNCHANGED <<disk, task>>

BootReady == phase = "boot" /\ task[Boot].pc = "idle"

BootDone == settled # <<>> /\ (cursor = NoHash \/ disk[cursor] = NoFile)

(* Mutant: bootstrap leaves its variable head as it was.                   *)
BootForgetsHead ==
  /\ BootReady /\ ~BootDone
  /\ LET f == disk[cursor]
     IN /\ Links(f, cursor)
        /\ Become(Boot, Started(f))
        /\ cursor' = f.hash
  /\ UNCHANGED <<disk, cache, phase, settled, sealed, bootHead>>

(* dir_source.next() yields a record, which goes through process_rhex.     *)
BootLoad ==
  /\ BootReady /\ ~BootDone
  /\ LET f == disk[cursor]
     IN /\ Links(f, cursor)
        /\ Become(Boot, Started(f))
        /\ cursor' = f.hash
        /\ bootHead' = IF f.hash # NoHash THEN f.hash ELSE bootHead
  /\ UNCHANGED <<disk, cache, phase, settled, sealed>>

(* process_rhex returned Ok: set_head.                                     *)
BootSettle ==
  /\ phase = "boot" /\ task[Boot].pc = "done"
  /\ cache' = [cache EXCEPT !.head = bootHead]
  /\ settled' = Append(settled, task[Boot].msg)
  /\ Become(Boot, Idle)
  /\ UNCHANGED <<disk, phase, cursor, bootHead, sealed>>

(* Mutant: a file that does not decode is tried again for ever.            *)
BootEndRetries ==
  /\ phase = "boot"
  /\ \/ task[Boot].pc = "failed"
     \/ task[Boot].pc = "idle" /\ BootDone
  /\ phase' = "up"
  /\ sealed' = Finalized(settled)
  /\ Become(Boot, Idle)
  /\ UNCHANGED <<disk, cache, cursor, bootHead, settled>>

(* The loop ends: no further file, a file that does not decode or link, or *)
(* a record process_rhex refuses.  "Bootstrap complete", and listen.       *)
BootEnd ==
  /\ phase = "boot"
  /\ \/ task[Boot].pc = "failed"
     \/ task[Boot].pc = "idle" /\ BootDone
     \/ task[Boot].pc = "idle" /\ ~BootDone /\ ~Links(disk[cursor], cursor)
  /\ phase' = "up"
  /\ sealed' = Finalized(settled)
  /\ Become(Boot, Idle)
  /\ UNCHANGED <<disk, cache, cursor, bootHead, settled>>

(* A panic on the main thread ends the program.                            *)
BootPanic ==
  /\ phase = "boot" /\ task[Boot].pc = "panicked"
  /\ phase' = "down"
  /\ Become(Boot, Idle)
  /\ UNCHANGED <<disk, cache, cursor, bootHead, settled, sealed>>

(* The process is killed or shut down at any point.  cache.db and the      *)
(* files stay as the last completed step left them.                        *)
Crash ==
  /\ phase # "down"
  /\ phase' = "down"
  /\ task' = [p \in Procs |-> Idle]
  /\ UNCHANGED <<disk, cache, cursor, bootHead, settled, sealed>>

Init ==
  /\ disk = InitialDisk
  /\ cache = EmptyCache
  /\ phase = "down"
  /\ cursor = NoHash /\ bootHead = Zero
  /\ settled = <<>> /\ sealed = <<>>
  /\ task = [p \in Procs |-> Idle]

BootStep == BootLoad \/ BootSettle \/ BootEnd \/ BootPanic

TaskStep(t) == Process(t) \/ Reply(t) \/ HangUp(t)

Next ==
  \/ BootStart \/ BootStep \/ Process(Boot) \/ Crash
  \/ \E t \in Tasks : Receive(t) \/ TaskStep(t)

Spec == Init /\ [][Next]_vars

(* The operator starts the daemon again; the runtime and the kernel run    *)
(* every thread that can run.  Nothing obliges a client to send, or the    *)
(* process to crash.                                                       *)
Fairness ==
  /\ WF_vars(BootStart)
  /\ WF_vars(BootStep \/ Process(Boot))
  /\ \A t \in Tasks : WF_vars(TaskStep(t))

FairSpec == Spec /\ Fairness

-----------------------------------------------------------------------------
(* Type invariant; a process holds a message exactly while it is at work.  *)
TaskType ==
  [pc : PCs, msg : Records \cup {NoMsg}, todo : Seq(OpType),
   put : Records \cup {NoMsg}, rule : RuleType,
   bad : BOOLEAN, at : Slots, found : Seq(Records),
   out : Seq(RhexType)]

TypeOK ==
  /\ disk \in [Slots -> Records \cup {NoFile, Torn}]
  /\ cache \in CacheType
  /\ phase \in {"down", "boot", "up"}
  /\ cursor \in Slots
  /\ bootHead \in Hashes \cup {Zero}
  /\ settled \in Seq(Records)
  /\ sealed \in Seq(Records)
  /\ task \in [Procs -> TaskType]
  /\ \A p \in Procs : task[p].msg = NoMsg <=> task[p].pc = "idle"

(* Whatever connections do while the daemon is up, every finalized record  *)
(* the last bootstrap loaded is still in the file it was loaded from: the  *)
(* writes of live records go elsewhere.                                    *)
SettledOnDisk ==
  \A i \in DOMAIN settled :
    settled[i].hash # NoHash => disk[settled[i].prev] = settled[i]

(* The same across crashes and restarts: a bootstrap that comes to listen  *)
(* has loaded each finalized record that the one before it had loaded, and *)
(* so any before it, at the same place in the chain.                       *)
RestartKeepsSealed ==
  [][\A i \in DOMAIN sealed : i \in DOMAIN sealed' /\ sealed'[i] = sealed[i]]_vars

(* While the daemon listens the head row names the tip of the chain that   *)
(* was loaded, and that chain is unbroken from genesis.rhex on.            *)
HeadIsSettledTip ==
  phase = "up" /\ settled # <<>> =>
    /\ settled[1].prev = NoHash
    /\ \A i \in 2 .. Len(settled) : settled[i].prev = settled[i - 1].hash
    /\ cache.head = sealed[Len(sealed)].hash

(* The directory never holds anything but the settled chain and the one    *)
(* open slot after it, so a torn or refused file costs no settled record.  *)
DirectoryShape ==
  phase = "up" /\ settled # <<>> =>
    {s \in Slots : disk[s] # NoFile}
      \subseteq {sealed[i].prev : i \in DOMAIN sealed} \cup {cache.head}

(* A reply to request:rhex is the settled chain, followed by at most the   *)
(* one record that the open slot held, even when another task writes that  *)
(* slot during the walk.                                                   *)
RepliesHoldSealed ==
  \A t \in Tasks :
    task[t].pc = "done" /\ task[t].found # <<>> =>
      /\ SubSeq(task[t].found, 1, Len(sealed)) = sealed
      /\ Len(task[t].found) <= Len(sealed) + 1
      /\ \A i \in 2 .. Len(task[t].found) :
           task[t].found[i].prev = task[t].found[i - 1].hash

(* The daemon implements SlotLedger: restarts extend the settled chain by  *)
(* at most one record, however many appends were accepted in between, and  *)
(* live writes reach the one slot after it, whole or torn.                 *)
OpenSlot == IF sealed = <<>> THEN NoFile ELSE disk[sealed[Len(sealed)].hash]

Abstract ==
  INSTANCE SlotLedger WITH log <- sealed, open <- OpenSlot,
                           serving <- (phase = "up")

ImplementsSlotLedger == Abstract!Spec

(* What the cache has to hold after the records of seq: the rules of the   *)
(* last policy:set, or those of bootstrap and genesis while there is none; *)
(* of the grants of each key the last, and the genesis author.             *)
ReplayedRules(seq) ==
  LET sets == {i \in DOMAIN seq : seq[i].type = PolicySetType}
      last == CHOOSE i \in sets : \A j \in sets : j <= i
      rs == seq[last].rules
  IN IF sets = {} THEN {GenesisRule, BasicRule}
     ELSE {rs[i] : i \in {j \in DOMAIN rs :
                            \A k \in DOMAIN rs : k > j => rs[k].pos # rs[j].pos}}

ReplayedAuths(seq) ==
  LET grant(i) ==
        IF i = 1 THEN [pk |-> seq[1].author, roles |-> {"authority"}]
                 ELSE [pk |-> seq[i].grantee, roles |-> seq[i].roles]
      grants == {1} \cup {i \in DOMAIN seq : /\ seq[i].type = <<"key", "grant">>
                                             /\ ~DataUnreadable(seq[i])}
  IN {grant(i) : i \in {j \in grants :
                          \A k \in grants : k > j => grant(k).pk # grant(j).pk}}

(* Bootstrap rebuilds the cache from the files alone: nothing of what live *)
(* connections left in it, in whatever order, survives the restart.        *)
BootRebuildsCache ==
  [][phase = "boot" /\ phase' = "up" /\ settled # <<>> =>
       /\ cache'.rules = ReplayedRules(settled)
       /\ cache'.auths = ReplayedAuths(settled)]_vars

(* Every message a task has taken is answered, refused or cut off.         *)
EveryMessageEnds ==
  \A t \in Tasks : task[t].pc # "idle" ~> task[t].pc = "idle"

(* Bootstrap comes to an end, and does not loop on any directory.          *)
BootstrapEnds == phase = "boot" ~> phase # "boot"
-----------------------------------------------------------------------------
(* What makes SettledOnDisk inductive.                                     *)

(* The runtime serves connections only after bootstrap, and after a crash  *)
(* nothing runs.                                                           *)
Turns ==
  /\ phase = "down" => \A p \in Procs : task[p].pc = "idle"
  /\ phase = "boot" => \A t \in Tasks : task[t].pc = "idle"
  /\ phase = "up" => task[Boot].pc = "idle"

(* From the check of its previous hash to its last write a record extends  *)
(* the head row as it stands, unless a scope request may reset that row,   *)
(* and only live records are written, each by its handler.                 *)
Checked == PCs \ {"idle", "head", "done", "failed", "panicked"}

NoScopeRequests == \A r \in Records : r.type # ScopeRequestType

Admissible(p, s) ==
  /\ s.pc \in Checked =>
       /\ NoScopeRequests => PreviousHashValid(s.msg, cache.head)
       /\ s.put \in Records
       /\ s.put = s.msg \/ s.msg.type = ScopeRequestType
  /\ s.pc = "head" => s.put = s.msg
  /\ s.pc = "exec" => s.todo # <<>>
  /\ s.pc \in {"open", "write"} =>
       FirstTime(p) /\ (WritesFile(s.msg) \/ ~NoScopeRequests)
  /\ s.pc \in {"scope", "insert", "store", "zero"} =>
       FirstTime(p) /\ ~NoScopeRequests

Admitted == \A p \in Procs : Admissible(p, task[p])

DirSlots == \A s \in Slots : disk[s] \in Records => disk[s].prev = s

(* The head row is at least as deep as every record that was loaded.       *)
HeadBound ==
  phase # "down" =>
    \A i \in DOMAIN settled :
      settled[i].hash # NoHash =>
        cache.head \in Slots /\ Depth[settled[i].hash] <= Depth[cache.head]

(* The local variables of bootstrap, between two records and during one.   *)
BootBetween ==
  /\ bootHead = cache.head
  /\ cursor \in {NoHash, cache.head}
  /\ settled = <<>> => cursor = NoHash

BootDuring ==
  LET r == task[Boot].msg
  IN /\ disk[r.prev] = r
     /\ cursor = r.hash
     /\ bootHead = IF r.hash # NoHash THEN r.hash ELSE cache.head
     /\ settled # <<>> => r.prev = cache.head

BootLocals ==
  phase = "boot" =>
    IF task[Boot].pc = "idle" THEN BootBetween ELSE BootDuring

IInv ==
  /\ TypeOK /\ Turns /\ Admitted /\ DirSlots /\ BootLocals
  /\ NoScopeRequests => SettledOnDisk /\ HeadBound
=============================================================================
