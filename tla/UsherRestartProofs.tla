------------------------- MODULE UsherRestartProofs -------------------------
(***************************************************************************)
(* What a restart of the usher daemon keeps, for any records, hashes, keys *)
(* and connections, as long as no record is a scope:request.               *)
(*                                                                         *)
(* Bootstrap is deterministic: whether it accepts a record, and what it    *)
(* makes of the cache, depends on the cache and the record alone.  The     *)
(* live writes leave the files of the records that were loaded in place.   *)
(* So every later bootstrap loads them again.                              *)
(***************************************************************************)
EXTENDS UsherLedgerProofs, WellFoundedInduction, SequenceTheorems

-----------------------------------------------------------------------------
(* The replay of a record, as a relation between two states of the cache.  *)

(* The cache bootstrap starts from.                                        *)
StartCache == [EmptyCache EXCEPT !.head = Zero, !.rules = {GenesisRule}]

(* What process_rhex asks of a record while bootstrap runs, one condition  *)
(* per step that may refuse it.                                            *)
HeadPasses(c, r) ==
  r.flaw # "magic" /\ c.head # NoRow /\ PreviousHashValid(r, c.head)

AppendPasses(c, r) ==
  /\ r.flaw # "intent"
  /\ IF c.policy
     THEN /\ AppendRule(c.rules, r.type) # {}
          /\ r.type = ScopeCreateType /\ r.author = UsherKey => c.created = {}
     ELSE r.type = GenesisType

ContextPasses(r) == r.sigs > 1 => r.flaw # "spacial"

QuorumPasses(c, r) ==
  \E q \in QuorumRule(c.rules, r.type) :
    /\ QuorumReached(q, r.quorum)
    /\ MembersAccepted(q, c.auths, r.quorum, r.forged)

SignaturesPass(c, r) ==
  /\ r.sigs # 0
  /\ r.sigs \in {1, 2} => r.ordered
  /\ r.sigs > 2 => r.quorum # <<>> /\ QuorumPasses(c, r)

HashPasses(r) == IF r.hash = NoHash THEN r.sigs = 1 ELSE r.flaw # "hash"

Passes(c, r) ==
  /\ HeadPasses(c, r) /\ AppendPasses(c, r) /\ ContextPasses(r)
  /\ SignaturesPass(c, r) /\ HashPasses(r) /\ ~PortPanics(r)

(* The statements that its handler issues then, and where they lead.       *)
Effects(r) == IF DataUnreadable(r) THEN <<>> ELSE Statements(r)

Runs(todo, c, d) ==
  \E S \in [0 .. Len(todo) -> CacheType] :
    /\ S[0] = c
    /\ \A i \in 1 .. Len(todo) : S[i] = Apply(todo[i], S[i - 1])
    /\ S[Len(todo)] = d

Replays(c, r, d) ==
  /\ Passes(c, r)
  /\ \E e \in CacheType :
       /\ Runs(Effects(r), c, e)
       /\ d = [e EXCEPT !.head = IF r.hash # NoHash THEN r.hash ELSE c.head]

(* The caches before and after each record of a chain.                     *)
Replay(chain, W) ==
  /\ W \in [0 .. Len(chain) -> CacheType]
  /\ W[0] = StartCache
  /\ \A i \in 1 .. Len(chain) : Replays(W[i - 1], chain[i], W[i])

-----------------------------------------------------------------------------
(* A replay has one outcome.                                               *)

LEMMA Least ==
  ASSUME NEW S, S \subseteq Nat, S # {}
  PROVE  \E e \in S : \A n \in S : e <= n
  <1> DEFINE Less == {pair \in Nat \X Nat : pair[1] < pair[2]}
  <1>1. IsWellFoundedOn(Less, Nat)
    BY NatLessThanWellFounded DEF OpToRel
  <1> HIDE DEF Less
  <1>2. PICK e \in S : \A n \in S : ~ (<<n, e>> \in Less)
    BY <1>1, WFMin
  <1>3. \A n \in S : ~ (n < e)
    BY <1>2 DEF Less
  <1> QED
    BY <1>3

LEMMA RunsNothing ==
  ASSUME NEW c \in CacheType
  PROVE  Runs(<<>>, c, c)
  <1> DEFINE S == [i \in 0 .. 0 |-> c]
  <1>1. S \in [0 .. Len(<<>>) -> CacheType] /\ S[0] = c /\ Len(<<>>) = 0
    OBVIOUS
  <1> HIDE DEF S
  <1> QED
    BY <1>1 DEF Runs

(* One statement and then the others.                                      *)
LEMMA RunsOn ==
  ASSUME NEW todo \in Seq(OpType), todo # <<>>, NEW c \in CacheType, NEW d,
         Runs(Tail(todo), Apply(Head(todo), c), d)
  PROVE  Runs(todo, c, d)
  <1> DEFINE n == Len(todo)
             rest == Tail(todo)
  <1>1. n \in Nat /\ n >= 1 /\ Len(rest) = n - 1
    OBVIOUS
  <1>2. \A i \in 1 .. n - 1 : rest[i] = todo[i + 1]
    BY <1>1
  <1>3. PICK S \in [0 .. n - 1 -> CacheType] :
          /\ S[0] = Apply(todo[1], c)
          /\ \A i \in 1 .. n - 1 : S[i] = Apply(rest[i], S[i - 1])
          /\ S[n - 1] = d
    BY <1>1 DEF Runs
  <1> DEFINE T == [i \in 0 .. n |-> IF i = 0 THEN c ELSE S[i - 1]]
  <1> HIDE DEF n, rest
  <1>4. T \in [0 .. n -> CacheType] /\ T[0] = c /\ T[n] = d
    BY <1>1, <1>3
  <1>5. ASSUME NEW i \in 1 .. n PROVE T[i] = Apply(todo[i], T[i - 1])
    <2>1. CASE i = 1
      BY <1>1, <1>3, <2>1
    <2>2. CASE i # 1
      <3>1. i - 1 \in 1 .. n - 1 /\ i \in 0 .. n /\ i - 1 \in 0 .. n /\ i - 1 # 0
        BY <1>1, <2>2
      <3>2. S[i - 1] = Apply(rest[i - 1], S[i - 2])
        BY <1>3, <3>1
      <3>3. rest[i - 1] = todo[i]
        BY <1>1, <1>2, <3>1
      <3>4. T[i] = S[i - 1] /\ T[i - 1] = S[i - 2]
        BY <1>1, <3>1
      <3> QED
        BY <3>2, <3>3, <3>4
    <2> QED
      BY <2>1, <2>2
  <1> HIDE DEF T
  <1> QED
    BY <1>4, <1>5 DEF Runs, n

LEMMA RunsUnique ==
  ASSUME NEW todo \in Seq(OpType), NEW c, NEW d, NEW e,
         Runs(todo, c, d), Runs(todo, c, e)
  PROVE  d = e
  <1> DEFINE n == Len(todo)
  <1>1. n \in Nat
    OBVIOUS
  <1>2. PICK S \in [0 .. n -> CacheType] :
          /\ S[0] = c /\ S[n] = d
          /\ \A i \in 1 .. n : S[i] = Apply(todo[i], S[i - 1])
    BY DEF Runs
  <1>3. PICK T \in [0 .. n -> CacheType] :
          /\ T[0] = c /\ T[n] = e
          /\ \A i \in 1 .. n : T[i] = Apply(todo[i], T[i - 1])
    BY DEF Runs
  <1> HIDE DEF n
  <1> DEFINE Differ == {i \in 0 .. n : S[i] # T[i]}
  <1>4. ASSUME Differ # {} PROVE FALSE
    <2>1. PICK i \in Differ : \A j \in Differ : i <= j
      <3>1. Differ \subseteq Nat
        BY <1>1
      <3> HIDE DEF Differ
      <3> QED
        BY <1>4, <3>1, Least
    <2>2. i \in 1 .. n /\ i - 1 \in 0 .. n /\ i - 1 \notin Differ
      BY <1>1, <1>2, <1>3, <2>1
    <2> QED
      BY <1>2, <1>3, <2>1, <2>2
  <1>5. S[n] = T[n]
    BY <1>1, <1>4
  <1> QED
    BY <1>2, <1>3, <1>5

LEMMA EffectsType ==
  ASSUME NEW r \in Records
  PROVE  Effects(r) \in Seq(OpType)
  BY StatementsType DEF Effects

LEMMA ReplaysUnique ==
  ASSUME NEW r \in Records, NEW c, NEW d, NEW e,
         Replays(c, r, d), Replays(c, r, e)
  PROVE  d = e
  <1>1. PICK x \in CacheType :
          /\ Runs(Effects(r), c, x)
          /\ d = [x EXCEPT !.head = IF r.hash # NoHash THEN r.hash ELSE c.head]
    BY DEF Replays
  <1>2. PICK y \in CacheType :
          /\ Runs(Effects(r), c, y)
          /\ e = [y EXCEPT !.head = IF r.hash # NoHash THEN r.hash ELSE c.head]
    BY DEF Replays
  <1>3. x = y
    BY <1>1, <1>2, EffectsType, RunsUnique
  <1> QED
    BY <1>1, <1>2, <1>3

-----------------------------------------------------------------------------
(* One rule governs a type, since no two rows have the same key.           *)

PosUnique(rules) == \A q, s \in rules : q.pos = s.pos => q = s

LEMMA ApplyUnique ==
  ASSUME NEW c \in CacheType, NEW o \in OpType, PosUnique(c.rules)
  PROVE  PosUnique(Apply(o, c).rules)
  <1>1. o.op \in OpNames
    BY DEF OpType
  <1>2. PosUnique(Upsert(c.rules, o.rule)) /\ PosUnique({})
    BY DEF PosUnique, Upsert
  <1>3. Apply(o, c).rules \in {c.rules, {}, Upsert(c.rules, o.rule)}
    BY <1>1 DEF Apply, PutAuthority, OpNames, CacheType
  <1> QED
    BY <1>2, <1>3

LEMMA QuorumRuleUnique ==
  ASSUME NEW rules \in SUBSET RuleType, PosUnique(rules), NEW type,
         NEW q \in QuorumRule(rules, type), NEW s \in QuorumRule(rules, type)
  PROVE  q = s
  <1>1. q \in RuleType /\ s \in RuleType /\ q \in rules /\ s \in rules
    BY DEF QuorumRule, LastOf
  <1>2. q.pos \in Nat /\ s.pos \in Nat /\ q.pos <= s.pos /\ s.pos <= q.pos
    BY <1>1 DEF QuorumRule, LastOf, RuleType
  <1> QED
    BY <1>1, <1>2 DEF PosUnique

-----------------------------------------------------------------------------
(* What bootstrap has found out about its record so far.  c is the cache   *)
(* before the record, now the cache as it stands.                          *)

Passed == {"policy", "rules", "context", "sigs", "quorum", "members",
           "verdict", "exec", "done"}

Judged(c, s, now) ==
  LET r == s.msg
  IN /\ s.pc \in Passed \cup {"head", "failed", "panicked"}
     /\ s.pc \in {"failed", "panicked"} \/ s.bad => ~Passes(c, r)
     /\ s.pc \notin {"exec", "done"} => now = c
     /\ s.pc \in Passed => HeadPasses(c, r)
     /\ s.pc = "rules" => r.flaw # "intent" /\ c.policy
     /\ s.pc \in Passed \ {"policy", "rules"} => AppendPasses(c, r)
     /\ s.pc \in Passed \ {"policy", "rules", "context"} => ContextPasses(r)
     /\ s.pc \in {"quorum", "members"} => r.sigs > 2 /\ r.quorum # <<>>
     /\ s.pc = "members" => /\ s.rule \in QuorumRule(c.rules, r.type)
                            /\ QuorumReached(s.rule, r.quorum)
     /\ s.pc = "verdict" => s.bad \/ SignaturesPass(c, r)
     /\ s.pc \in {"exec", "done"} =>
          /\ Passes(c, r)
          /\ \A d : Runs(s.todo, now, d) => Runs(Effects(r), c, d)
     /\ s.pc = "done" => s.todo = <<>>

(* A step of bootstrap that leaves the cache alone.                        *)
JudgedStep(c) ==
  task[Boot].pc # "idle" /\ Judged(c, task[Boot], cache)
    /\ PosUnique(c.rules) /\ c \in CacheType /\ TypeOK

LEMMA BootFields ==
  ASSUME NEW c, JudgedStep(c)
  PROVE  /\ Boot \in Procs /\ task[Boot] \in TaskType
         /\ task[Boot].msg \in Records /\ task[Boot].msg \in RhexType
         /\ task[Boot].pc \in PCs /\ ~FirstTime(Boot)
         /\ \A s : Become(Boot, s) => task'[Boot] = s
  <1>1. Boot \in Procs
    BY DEF Procs
  <1>2. task \in [Procs -> TaskType] /\ task[Boot].msg \in Records
    BY <1>1, TaskFields DEF JudgedStep, TypeOK
  <1> QED
    BY <1>1, <1>2, TaskFields, RecordFields
    DEF JudgedStep, FirstTime, Become

LEMMA BootGoes ==
  ASSUME NEW c, JudgedStep(c), NEW pc \in PCs, Goto(Boot, pc) \/ Flag(Boot, pc)
  PROVE  /\ task'[Boot].pc = pc
         /\ task'[Boot].msg = task[Boot].msg
         /\ task'[Boot].rule = task[Boot].rule
         /\ task'[Boot].todo = task[Boot].todo
         /\ Goto(Boot, pc) => task'[Boot].bad = task[Boot].bad
         /\ Flag(Boot, pc) => task'[Boot].bad = TRUE
  <1>1. /\ task[Boot] \in TaskType
        /\ \A s : Become(Boot, s) => task'[Boot] = s
    BY BootFields
  <1>2. Goto(Boot, pc) => task'[Boot] = [task[Boot] EXCEPT !.pc = pc]
    BY <1>1 DEF Goto
  <1>3. Flag(Boot, pc) =>
          task'[Boot] = [task[Boot] EXCEPT !.pc = pc, !.bad = TRUE]
    BY <1>1 DEF Flag
  <1> QED
    BY <1>1, <1>2, <1>3 DEF TaskType

LEMMA ReadHeadJudged ==
  ASSUME NEW c, JudgedStep(c), ReadHead(Boot)
  PROVE  Judged(c, task'[Boot], cache')
  <1> DEFINE r == task[Boot].msg
  <1>1. cache' = cache /\ cache = c /\ task[Boot].pc = "head"
    BY DEF ReadHead, world, JudgedStep, Judged
  <1>2. \/ Goto(Boot, "policy") /\ HeadPasses(c, r)
        \/ Goto(Boot, "failed") /\ ~HeadPasses(c, r)
    BY <1>1 DEF ReadHead, HeadPasses
  <1>3. /\ task'[Boot].msg = r /\ task'[Boot].bad = task[Boot].bad
        /\ \/ task'[Boot].pc = "policy" /\ HeadPasses(c, r)
           \/ task'[Boot].pc = "failed" /\ ~HeadPasses(c, r)
    BY <1>2, BootGoes DEF PCs
  <1> QED
    BY <1>1, <1>3 DEF Judged, JudgedStep, Passes, Passed

LEMMA ReadPolicyJudged ==
  ASSUME NEW c, JudgedStep(c), ReadPolicy(Boot)
  PROVE  Judged(c, task'[Boot], cache')
  <1> DEFINE r == task[Boot].msg
  <1>1. /\ cache' = cache /\ cache = c /\ task[Boot].pc = "policy"
        /\ HeadPasses(c, r)
    BY DEF ReadPolicy, world, JudgedStep, Judged, Passed
  <1>2. \/ Goto(Boot, "failed") /\ ~AppendPasses(c, r)
        \/ Goto(Boot, "rules") /\ r.flaw # "intent" /\ c.policy
        \/ Goto(Boot, "context") /\ AppendPasses(c, r)
    BY <1>1 DEF ReadPolicy, AppendPasses
  <1>3. /\ task'[Boot].msg = r /\ task'[Boot].bad = task[Boot].bad
        /\ \/ task'[Boot].pc = "failed" /\ ~AppendPasses(c, r)
           \/ task'[Boot].pc = "rules" /\ r.flaw # "intent" /\ c.policy
           \/ task'[Boot].pc = "context" /\ AppendPasses(c, r)
    BY <1>2, BootGoes DEF PCs
  <1> QED
    BY <1>1, <1>3 DEF Judged, JudgedStep, Passes, Passed

LEMMA ReadRulesJudged ==
  ASSUME NEW c, JudgedStep(c), ReadRules(Boot)
  PROVE  Judged(c, task'[Boot], cache')
  <1> DEFINE r == task[Boot].msg
  <1>1. /\ cache' = cache /\ cache = c /\ task[Boot].pc = "rules"
        /\ HeadPasses(c, r) /\ r.flaw # "intent" /\ c.policy
    BY DEF ReadRules, world, JudgedStep, Judged, Passed
  <1>2. \/ Goto(Boot, "failed") /\ ~AppendPasses(c, r)
        \/ Goto(Boot, "context") /\ AppendPasses(c, r)
    BY <1>1 DEF ReadRules, AppendPasses
  <1>3. /\ task'[Boot].msg = r /\ task'[Boot].bad = task[Boot].bad
        /\ \/ task'[Boot].pc = "failed" /\ ~AppendPasses(c, r)
           \/ task'[Boot].pc = "context" /\ AppendPasses(c, r)
    BY <1>2, BootGoes DEF PCs
  <1> QED
    BY <1>1, <1>3 DEF Judged, JudgedStep, Passes, Passed

LEMMA CheckContextJudged ==
  ASSUME NEW c, JudgedStep(c), CheckContext(Boot)
  PROVE  Judged(c, task'[Boot], cache')
  <1> DEFINE r == task[Boot].msg
  <1>1. /\ cache' = cache /\ cache = c /\ task[Boot].pc = "context"
        /\ HeadPasses(c, r) /\ AppendPasses(c, r) /\ ~FirstTime(Boot)
    BY BootFields DEF CheckContext, world, JudgedStep, Judged, Passed
  <1>2. \/ Goto(Boot, "failed") /\ ~ContextPasses(r)
        \/ Goto(Boot, "sigs") /\ ContextPasses(r)
    BY <1>1 DEF CheckContext, ContextPasses
  <1>3. /\ task'[Boot].msg = r /\ task'[Boot].bad = task[Boot].bad
        /\ \/ task'[Boot].pc = "failed" /\ ~ContextPasses(r)
           \/ task'[Boot].pc = "sigs" /\ ContextPasses(r)
    BY <1>2, BootGoes DEF PCs
  <1> QED
    BY <1>1, <1>3 DEF Judged, JudgedStep, Passes, Passed

LEMMA CheckSignaturesJudged ==
  ASSUME NEW c, JudgedStep(c), CheckSignatures(Boot)
  PROVE  Judged(c, task'[Boot], cache')
  <1> DEFINE r == task[Boot].msg
             signed == [task[Boot] EXCEPT !.pc = "verdict",
                                          !.out = <<Countersigned(r)>>]
  <1>1. /\ cache' = cache /\ cache = c /\ task[Boot].pc = "sigs"
        /\ HeadPasses(c, r) /\ AppendPasses(c, r) /\ ContextPasses(r)
        /\ r.sigs \in Nat /\ task[Boot] \in TaskType
    BY BootFields DEF CheckSignatures, world, JudgedStep, Judged, Passed, RhexType
  <1>2. \/ Flag(Boot, "verdict") /\ ~SignaturesPass(c, r)
        \/ Become(Boot, signed) /\ SignaturesPass(c, r)
        \/ Goto(Boot, "quorum") /\ r.sigs > 2 /\ r.quorum # <<>>
    BY <1>1 DEF CheckSignatures, SignaturesPass
  <1>3. Become(Boot, signed) => /\ task'[Boot].pc = "verdict"
                                /\ task'[Boot].msg = r
                                /\ task'[Boot].bad = task[Boot].bad
    <2>1. Become(Boot, signed) => task'[Boot] = signed
      BY BootFields
    <2> QED
      BY <1>1, <2>1 DEF TaskType
  <1>4. (task[Boot].bad => ~Passes(c, r)) /\ (Passes(c, r) => SignaturesPass(c, r))
    BY <1>1 DEF JudgedStep, Judged, Passes
  <1>5. CASE Flag(Boot, "verdict") /\ ~SignaturesPass(c, r)
    <2>1. /\ task'[Boot].pc = "verdict" /\ task'[Boot].msg = r
          /\ task'[Boot].bad = TRUE
      BY <1>5, BootGoes DEF PCs
    <2> QED
      BY <1>1, <1>4, <1>5, <2>1 DEF Judged, Passed
  <1>6. CASE Become(Boot, signed) /\ SignaturesPass(c, r)
    BY <1>1, <1>3, <1>4, <1>6 DEF Judged, Passed
  <1>7. CASE Goto(Boot, "quorum") /\ r.sigs > 2 /\ r.quorum # <<>>
    <2>1. /\ task'[Boot].pc = "quorum" /\ task'[Boot].msg = r
          /\ task'[Boot].bad = task[Boot].bad
      BY <1>7, BootGoes DEF PCs
    <2> QED
      BY <1>1, <1>4, <1>7, <2>1 DEF Judged, Passed
  <1> QED
    BY <1>2, <1>5, <1>6, <1>7

LEMMA ReadQuorumRulesJudged ==
  ASSUME NEW c, JudgedStep(c), ReadQuorumRules(Boot)
  PROVE  Judged(c, task'[Boot], cache')
  <1> DEFINE r == task[Boot].msg
  <1>1. /\ cache' = cache /\ cache = c /\ task[Boot].pc = "quorum"
        /\ HeadPasses(c, r) /\ AppendPasses(c, r) /\ ContextPasses(r)
        /\ r.sigs > 2 /\ r.quorum # <<>> /\ task[Boot] \in TaskType
    BY BootFields DEF ReadQuorumRules, world, JudgedStep, Judged, Passed
  <1>2. CASE Flag(Boot, "verdict") /\ {q \in QuorumRule(cache.rules, r.type) :
                                         QuorumReached(q, r.quorum)} = {}
    <2>1. ~SignaturesPass(c, r)
      BY <1>1, <1>2 DEF SignaturesPass, QuorumPasses
    <2>2. /\ task'[Boot].pc = "verdict" /\ task'[Boot].msg = r
          /\ task'[Boot].bad = TRUE
      BY <1>2, BootGoes DEF PCs
    <2> QED
      BY <1>1, <2>1, <2>2 DEF Judged, Passes, Passed
  <1>3. ASSUME NEW q \in QuorumRule(cache.rules, r.type),
               QuorumReached(q, r.quorum),
               Become(Boot, [task[Boot] EXCEPT !.pc = "members", !.rule = q])
        PROVE  Judged(c, task'[Boot], cache')
    <2>1. task'[Boot] = [task[Boot] EXCEPT !.pc = "members", !.rule = q]
      BY <1>3, BootFields
    <2>2. /\ task'[Boot].pc = "members" /\ task'[Boot].msg = r
          /\ task'[Boot].rule = q /\ task'[Boot].bad = task[Boot].bad
      BY <1>1, <2>1 DEF TaskType
    <2> QED
      BY <1>1, <1>3, <2>2 DEF Judged, JudgedStep, Passed
  <1> QED
    BY <1>2, <1>3 DEF ReadQuorumRules

(* The rule that was selected is the only one that governs the type, so    *)
(* its verdict on the signers is the verdict.                              *)
LEMMA ReadAuthoritiesJudged ==
  ASSUME NEW c, JudgedStep(c), ReadAuthorities(Boot)
  PROVE  Judged(c, task'[Boot], cache')
  <1> DEFINE r == task[Boot].msg
             q == task[Boot].rule
             accepted == MembersAccepted(q, c.auths, r.quorum, r.forged)
  <1>1. /\ cache' = cache /\ cache = c /\ task[Boot].pc = "members"
        /\ HeadPasses(c, r) /\ AppendPasses(c, r) /\ ContextPasses(r)
        /\ r.sigs > 2 /\ r.quorum # <<>> /\ r.sigs \in Nat
        /\ q \in QuorumRule(c.rules, r.type) /\ QuorumReached(q, r.quorum)
        /\ c.rules \in SUBSET RuleType /\ PosUnique(c.rules)
    BY BootFields
    DEF ReadAuthorities, world, JudgedStep, Judged, Passed, RhexType, CacheType
  <1>2. \A s \in QuorumRule(c.rules, r.type) : s = q
    BY <1>1, QuorumRuleUnique
  <1>3. QuorumPasses(c, r) <=> accepted
    BY <1>1, <1>2 DEF QuorumPasses
  <1>4. SignaturesPass(c, r) <=> accepted
    BY <1>1, <1>3 DEF SignaturesPass
  <1>5. /\ task'[Boot].pc = "verdict" /\ task'[Boot].msg = r
        /\ task'[Boot].bad = IF accepted THEN task[Boot].bad ELSE TRUE
    BY <1>1, BootGoes DEF ReadAuthorities, PCs
  <1> QED
    BY <1>1, <1>4, <1>5 DEF Judged, JudgedStep, Passes, Passed

LEMMA VerdictJudged ==
  ASSUME NEW c, JudgedStep(c), Verdict(Boot)
  PROVE  Judged(c, task'[Boot], cache')
  <1> DEFINE r == task[Boot].msg
             missing == r.sigs # 1 /\ r.hash = NoHash
             next == IF task[Boot].bad \/ missing THEN "panicked"
                     ELSE Handler(Boot, r)
             pc == IF r.hash # NoHash /\ r.flaw = "hash" THEN "failed" ELSE next
             todo == IF pc = "exec" THEN Statements(r) ELSE <<>>
             s == [task[Boot] EXCEPT !.pc = pc, !.todo = todo]
  <1>1. /\ cache' = cache /\ cache = c /\ task[Boot].pc = "verdict"
        /\ HeadPasses(c, r) /\ AppendPasses(c, r) /\ ContextPasses(r)
        /\ task[Boot].bad \/ SignaturesPass(c, r)
        /\ task[Boot].bad => ~Passes(c, r)
        /\ r \in Records /\ task[Boot] \in TaskType /\ ~FirstTime(Boot)
    BY BootFields DEF Verdict, world, JudgedStep, Judged, Passed
  <1>2. Handler(Boot, r) \in {"panicked", "done", "exec"}
    BY <1>1 DEF Handler
  <1>3. task'[Boot] = s
    BY BootFields DEF Verdict
  <1>4. /\ task'[Boot].pc = pc /\ task'[Boot].msg = r /\ task'[Boot].todo = todo
        /\ task'[Boot].bad = task[Boot].bad
    BY <1>1, <1>3 DEF TaskType
  <1>5. pc \in {"failed", "panicked", "done", "exec"}
    BY <1>2
  <1>6. pc \in {"failed", "panicked"} => ~Passes(c, r)
    BY <1>1 DEF Passes, HashPasses, Handler
  <1>7. ASSUME pc \in {"done", "exec"}
        PROVE  /\ Passes(c, r) /\ ~task[Boot].bad /\ todo = Effects(r)
               /\ pc = "done" => todo = <<>>
    <2>1. ~task[Boot].bad /\ HashPasses(r) /\ pc = Handler(Boot, r)
      BY <1>7 DEF HashPasses
    <2>2. Passes(c, r)
      BY <1>1, <1>7, <2>1 DEF Passes, Handler
    <2>3. todo = Effects(r)
      BY <1>1, <1>7, <2>1 DEF Handler, Effects
    <2> QED
      BY <2>1, <2>2, <2>3
  <1> HIDE DEF pc, todo, s
  <1> QED
    BY <1>1, <1>4, <1>5, <1>6, <1>7 DEF Judged, Passed

LEMMA ExecStatementJudged ==
  ASSUME NEW c, JudgedStep(c), cache \in CacheType, task[Boot].todo # <<>>,
         ExecStatement(Boot)
  PROVE  Judged(c, task'[Boot], cache')
  <1> DEFINE r == task[Boot].msg
             todo == task[Boot].todo
             rest == Tail(todo)
             pc == IF rest # <<>> THEN "exec" ELSE "done"
             s == [task[Boot] EXCEPT !.todo = rest, !.pc = pc]
  <1>1. /\ task[Boot].pc = "exec" /\ Passes(c, r) /\ ~FirstTime(Boot)
        /\ \A d : Runs(todo, cache, d) => Runs(Effects(r), c, d)
        /\ task[Boot] \in TaskType /\ todo \in Seq(OpType)
    BY BootFields DEF ExecStatement, JudgedStep, Judged, TaskType
  <1>2. /\ HeadPasses(c, r) /\ AppendPasses(c, r) /\ ContextPasses(r)
        /\ task[Boot].bad => ~Passes(c, r)
    BY <1>1 DEF JudgedStep, Judged, Passes
  <1>3. cache' = Apply(Head(todo), cache) /\ task'[Boot] = s
    BY <1>1, BootFields DEF ExecStatement
  <1>4. /\ task'[Boot].pc = pc /\ task'[Boot].msg = r /\ task'[Boot].todo = rest
        /\ task'[Boot].bad = task[Boot].bad
    BY <1>1, <1>3 DEF TaskType
  <1>5. \A d : Runs(rest, cache', d) => Runs(todo, cache, d)
    BY <1>1, <1>3, RunsOn
  <1> HIDE DEF pc, rest, s
  <1>6. pc \in {"exec", "done"} /\ (pc = "done" => rest = <<>>)
    BY DEF pc
  <1> QED
    BY <1>1, <1>2, <1>4, <1>5, <1>6 DEF Judged, Passed

-----------------------------------------------------------------------------
(* What a restart keeps, as an invariant on top of IInv.                   *)

NextSlot(seq) == IF seq = <<>> THEN NoHash ELSE seq[Len(seq)].hash

(* A chain from genesis.rhex on, of which only the last may lack a hash.   *)
Linked(seq) ==
  \A i \in 1 .. Len(seq) :
    /\ seq[i].prev = IF i = 1 THEN NoHash ELSE seq[i - 1].hash
    /\ i = 1 \/ i < Len(seq) => seq[i].hash # NoHash

Prefix(a, b) == Len(a) <= Len(b) /\ \A i \in 1 .. Len(a) : a[i] = b[i]

(* Every record that was ever loaded is in its file.                       *)
SealedFiles ==
  /\ Linked(sealed)
  /\ \A i \in 1 .. Len(sealed) :
       sealed[i].hash # NoHash /\ disk[sealed[i].prev] = sealed[i]

HeadAtTip ==
  /\ Linked(settled)
  /\ phase # "down" /\ settled # <<>> =>
       cache.head = NextSlot(Finalized(settled))

UpSealed == phase = "up" => sealed = Finalized(settled)

(* Bootstrap is at the record after those it has settled.                  *)
BootPlace ==
  phase = "boot" =>
    /\ GenesisOpens(disk)
    /\ IF task[Boot].pc = "idle" THEN cursor = NextSlot(settled)
       ELSE /\ task[Boot].msg.prev = NextSlot(settled)
            /\ settled # <<>> => NextSlot(settled) # NoHash

(* The cache is the one the settled records leave, c, or on the way from   *)
(* there to the next one.                                                  *)
Current(c) ==
  /\ PosUnique(c.rules) /\ PosUnique(cache.rules) /\ cache.head = c.head
  /\ IF task[Boot].pc = "idle" THEN cache = c ELSE Judged(c, task[Boot], cache)

(* The sealed records replay from the start, and what bootstrap has        *)
(* settled so far is on the same chain.                                    *)
Replayed ==
  \E chain \in Seq(Records) : \E W \in [0 .. Len(chain) -> CacheType] :
    /\ Prefix(sealed, chain) /\ Replay(chain, W)
    /\ phase = "boot" => Prefix(settled, chain) /\ Current(W[Len(settled)])

RInv == SealedFiles /\ HeadAtTip /\ UpSealed /\ BootPlace /\ Replayed

-----------------------------------------------------------------------------
(* Sequences of records.                                                   *)

LEMMA FinalizedFacts ==
  ASSUME NEW seq \in Seq(Records), Linked(seq)
  PROVE  LET fin == Finalized(seq)
         IN /\ fin \in Seq(Records) /\ Prefix(fin, seq) /\ Linked(fin)
            /\ \A i \in 1 .. Len(fin) : fin[i].hash # NoHash
            /\ \A i \in 1 .. Len(seq) : seq[i].hash # NoHash => i <= Len(fin)
            /\ Len(seq) <= Len(fin) + 1
            /\ seq # <<>> => fin # <<>>
  <1> DEFINE fin == Finalized(seq)
             n == Len(seq)
  <1>1. n \in Nat /\ DOMAIN seq = 1 .. n /\ (seq = <<>> <=> n = 0)
    OBVIOUS
  <1>2. CASE seq # <<>> /\ seq[n].hash = NoHash
    <2>1. fin = SubSeq(seq, 1, n - 1) /\ n >= 2
      BY <1>1, <1>2 DEF Finalized, Linked
    <2>2. /\ fin \in Seq(Records) /\ Len(fin) = n - 1
          /\ \A i \in 1 .. n - 1 : fin[i] = seq[i]
      BY <1>1, <2>1
    <2>6. fin # <<>>
      <3> HIDE DEF fin, n
      <3>1. Len(fin) # 0
        BY <1>1, <2>1, <2>2
      <3> QED
        BY <3>1
    <2>7. Prefix(fin, seq)
      BY <1>1, <2>1, <2>2 DEF Prefix
    <2>8. \A i \in 1 .. n : seq[i].hash # NoHash => i <= n - 1
      BY <1>1, <1>2
    <2> HIDE DEF fin, n
    <2>3. /\ Prefix(fin, seq) /\ n <= Len(fin) + 1 /\ fin # <<>>
          /\ \A i \in 1 .. n : seq[i].hash # NoHash => i <= Len(fin)
      BY <1>1, <2>2, <2>6, <2>7, <2>8
    <2>4. \A i \in 1 .. n - 1 : fin[i].hash # NoHash
      BY <1>1, <2>1, <2>2 DEF Linked, n
    <2>5. Linked(fin)
      BY <1>1, <2>1, <2>2, <2>4 DEF Linked, n
    <2> QED
      BY <2>2, <2>3, <2>4, <2>5 DEF fin, n
  <1>3. CASE ~(seq # <<>> /\ seq[n].hash = NoHash)
    <2>1. fin = seq
      BY <1>3 DEF Finalized
    <2>2. \A i \in 1 .. n : seq[i].hash # NoHash
      BY <1>1, <1>3 DEF Linked
    <2> QED
      BY <1>1, <2>1, <2>2 DEF Prefix
  <1> QED
    BY <1>2, <1>3

LEMMA LinkedAppend ==
  ASSUME NEW seq \in Seq(Records), Linked(seq), NEW r \in Records,
         r.prev = NextSlot(seq), seq # <<>> => NextSlot(seq) # NoHash,
         seq = <<>> => r.hash # NoHash
  PROVE  Linked(Append(seq, r))
  <1> DEFINE n == Len(seq)
             new == Append(seq, r)
  <1>1. /\ n \in Nat /\ Len(new) = n + 1 /\ new[n + 1] = r
        /\ \A i \in 1 .. n : new[i] = seq[i]
        /\ (seq = <<>> <=> n = 0)
    OBVIOUS
  <1>2. /\ r.prev = IF n = 0 THEN NoHash ELSE seq[n].hash
        /\ n # 0 => seq[n].hash # NoHash
        /\ n = 0 => r.hash # NoHash
    BY <1>1 DEF NextSlot
  <1>3. \A i \in 1 .. n : /\ seq[i].prev = IF i = 1 THEN NoHash ELSE seq[i - 1].hash
                          /\ seq[i].hash # NoHash
    BY <1>1, <1>2 DEF Linked
  <1> HIDE DEF new, n
  <1>4. ASSUME NEW i \in 1 .. n + 1
        PROVE  /\ new[i].prev = IF i = 1 THEN NoHash ELSE new[i - 1].hash
               /\ i = 1 \/ i < n + 1 => new[i].hash # NoHash
    <2>1. CASE i \in 1 .. n
      BY <1>1, <1>3, <2>1
    <2>2. CASE i = n + 1
      BY <1>1, <1>2, <2>2
    <2> QED
      BY <1>1, <2>1, <2>2
  <1> QED
    BY <1>1, <1>4 DEF Linked, new

(* A chain replays as far as any part of it from the start.                *)
LEMMA ReplayPrefix ==
  ASSUME NEW chain \in Seq(Records), NEW W, Replay(chain, W),
         NEW seq \in Seq(Records), Prefix(seq, chain)
  PROVE  \E V \in [0 .. Len(seq) -> CacheType] :
           Replay(seq, V) /\ \A i \in 0 .. Len(seq) : V[i] = W[i]
  <1> DEFINE n == Len(seq)
             V == [i \in 0 .. n |-> W[i]]
  <1>1. n \in Nat /\ Len(chain) \in Nat /\ n <= Len(chain)
    BY DEF Prefix
  <1>2. /\ W \in [0 .. Len(chain) -> CacheType] /\ W[0] = StartCache
        /\ \A i \in 1 .. Len(chain) : Replays(W[i - 1], chain[i], W[i])
    BY DEF Replay
  <1>3. \A i \in 1 .. n : seq[i] = chain[i]
    BY DEF Prefix
  <1>4. V \in [0 .. n -> CacheType] /\ V[0] = StartCache
    BY <1>1, <1>2
  <1>5. \A i \in 0 .. n : V[i] = W[i]
    OBVIOUS
  <1>6. \A i \in 1 .. n : i - 1 \in 0 .. n /\ i \in 0 .. n /\ i \in 1 .. Len(chain)
    BY <1>1
  <1> HIDE DEF V, n
  <1>7. \A i \in 1 .. n : Replays(V[i - 1], seq[i], V[i])
    BY <1>2, <1>3, <1>5, <1>6
  <1> QED
    BY <1>4, <1>5, <1>7 DEF Replay, n

LEMMA ReplayAppend ==
  ASSUME NEW seq \in Seq(Records), NEW V, Replay(seq, V),
         NEW r \in Records, NEW d \in CacheType, Replays(V[Len(seq)], r, d)
  PROVE  \E U \in [0 .. Len(seq) + 1 -> CacheType] :
           Replay(Append(seq, r), U) /\ U[Len(seq) + 1] = d
  <1> DEFINE n == Len(seq)
             new == Append(seq, r)
             U == [i \in 0 .. n + 1 |-> IF i = n + 1 THEN d ELSE V[i]]
  <1>1. /\ n \in Nat /\ Len(new) = n + 1 /\ new[n + 1] = r
        /\ \A i \in 1 .. n : new[i] = seq[i]
    OBVIOUS
  <1>2. /\ V \in [0 .. n -> CacheType] /\ V[0] = StartCache
        /\ \A i \in 1 .. n : Replays(V[i - 1], seq[i], V[i])
    BY DEF Replay
  <1>3. /\ U \in [0 .. n + 1 -> CacheType] /\ U[n + 1] = d
        /\ \A i \in 0 .. n : U[i] = V[i]
    BY <1>1, <1>2
  <1>4. Replays(V[n], r, d)
    OBVIOUS
  <1> HIDE DEF U, n, new
  <1>5. ASSUME NEW i \in 1 .. n + 1 PROVE Replays(U[i - 1], new[i], U[i])
    <2>1. CASE i \in 1 .. n
      <3>1. i - 1 \in 0 .. n /\ i \in 0 .. n
        BY <1>1, <2>1
      <3> QED
        BY <1>1, <1>2, <1>3, <2>1, <3>1
    <2>2. CASE i = n + 1
      <3>1. i - 1 = n /\ n \in 0 .. n
        BY <1>1, <2>2
      <3> QED
        BY <1>1, <1>3, <1>4, <2>2, <3>1
    <2> QED
      BY <1>1, <2>1, <2>2
  <1>6. U[0] = StartCache
    BY <1>1, <1>2, <1>3
  <1> QED
    BY <1>1, <1>3, <1>5, <1>6 DEF Replay, n, new

-----------------------------------------------------------------------------
(* Bootstrap under way.                                                    *)

LEMMA BootWorkCurrent ==
  ASSUME IInv, phase = "boot", NEW c \in CacheType, Current(c), Process(Boot)
  PROVE  Current(c)'
  <1>1. Boot \in Procs /\ TypeOK /\ Admissible(Boot, task[Boot])
    BY DEF Procs, IInv, Admitted
  <1>2. WorkStep(Boot)
    BY <1>1, ProcessWorks
  <1>3. task[Boot].pc # "idle"
    BY <1>2 DEF WorkStep
  <1>4. JudgedStep(c)
    BY <1>1, <1>3 DEF Current, JudgedStep
  <1>5. /\ task[Boot].pc \in Passed \cup {"head", "failed", "panicked"}
        /\ cache \in CacheType /\ ~FirstTime(Boot)
        /\ task[Boot].todo \in Seq(OpType)
        /\ task[Boot].pc = "exec" => task[Boot].todo # <<>>
    BY <1>1, <1>4, BootFields, TaskFields
    DEF JudgedStep, Judged, TypeOK, Admissible
  <1>6. task'[Boot].pc # "idle" /\ cache'.head = c.head
    BY <1>2, <1>4, <1>5, BootFields DEF WorkStep, Current
  <1>7. CASE \/ ReadHead(Boot) \/ ReadPolicy(Boot) \/ ReadRules(Boot)
             \/ CheckContext(Boot) \/ CheckSignatures(Boot)
             \/ ReadQuorumRules(Boot) \/ ReadAuthorities(Boot) \/ Verdict(Boot)
    <2>1. Judged(c, task'[Boot], cache')
      BY <1>4, <1>7, ReadHeadJudged, ReadPolicyJudged, ReadRulesJudged,
         CheckContextJudged, CheckSignaturesJudged, ReadQuorumRulesJudged,
         ReadAuthoritiesJudged, VerdictJudged
    <2>2. cache' = cache
      BY <1>7
      DEF ReadHead, ReadPolicy, ReadRules, CheckContext, CheckSignatures,
          ReadQuorumRules, ReadAuthorities, Verdict, world
    <2> QED
      BY <1>6, <2>1, <2>2 DEF Current
  <1>8. CASE ExecStatement(Boot)
    <2>1. task[Boot].pc = "exec" /\ cache' = Apply(Head(task[Boot].todo), cache)
      BY <1>8 DEF ExecStatement
    <2>2. Judged(c, task'[Boot], cache')
      BY <1>4, <1>5, <1>8, <2>1, ExecStatementJudged
    <2>3. Head(task[Boot].todo) \in OpType
      BY <1>5, <2>1
    <2>4. PosUnique(cache'.rules)
      BY <1>5, <2>1, <2>3, ApplyUnique DEF Current
    <2> QED
      BY <1>6, <2>2, <2>4 DEF Current
  <1>9. CASE \/ ReadFails(Boot) \/ StatementFails(Boot) \/ OpenFile(Boot) \/ WriteFile(Boot)
             \/ WriteFails(Boot) \/ ScopeRequest(Boot) \/ InsertCreate(Boot)
             \/ StoreScope(Boot) \/ ZeroHead(Boot) \/ WalkNext(Boot)
             \/ WalkEnds(Boot)
    BY <1>5, <1>9
    DEF Passed, ReadFails, StatementFails, OpenFile, WriteFile, WriteFails, ScopeRequest,
        InsertCreate, StoreScope, ZeroHead, WalkNext, WalkEnds
  <1> QED
    BY <1>7, <1>8, <1>9 DEF Process

LEMMA BootStartCurrent ==
  ASSUME IInv, BootStart, phase' = "boot"
  PROVE  Current(StartCache)'
  <1>1. cache' = StartCache /\ task' = task /\ task[Boot].pc = "idle"
    BY DEF BootStart, StartCache, IInv, Turns, Procs
  <1>2. PosUnique(StartCache.rules)
    BY DEF PosUnique, StartCache, EmptyCache
  <1> QED
    BY <1>1, <1>2 DEF Current

LEMMA BootLoadCurrent ==
  ASSUME IInv, BootLoad, NEW c, Current(c)
  PROVE  Current(c)'
  <1> DEFINE f == disk[cursor]
  <1>1. /\ task[Boot].pc = "idle" /\ Links(f, cursor) /\ cache' = cache
        /\ Become(Boot, Started(f))
    BY DEF BootLoad, BootReady
  <1>2. f \in Records
    BY LinksRecord, <1>1 DEF IInv, TypeOK
  <1>3. task'[Boot] = Started(f)
    BY <1>1 DEF Become, IInv, TypeOK, Procs
  <1>4. task'[Boot].pc = "head" /\ task'[Boot].msg = f /\ task'[Boot].bad = FALSE
    BY <1>2, <1>3, TaskTypes DEF Started
  <1> QED
    BY <1>1, <1>4 DEF Current, Judged, Passed

(* What process_rhex and set_head have made of the cache, when it returned *)
(* Ok, is the outcome of the replay.                                       *)
LEMMA SettleReplays ==
  ASSUME IInv, BootSettle, NEW c \in CacheType, Current(c)
  PROVE  /\ task[Boot].msg \in Records
         /\ \E d \in CacheType : /\ d = cache' /\ Current(d)'
                                /\ Replays(c, task[Boot].msg, d)
  <1> DEFINE r == task[Boot].msg
  <1>1. /\ phase = "boot" /\ task[Boot].pc = "done" /\ Boot \in Procs
        /\ cache' = [cache EXCEPT !.head = bootHead]
        /\ Become(Boot, Idle)
    BY DEF BootSettle, Procs
  <1>2. r \in Records /\ cache \in CacheType /\ cache' \in CacheType
    <2>1. bootHead \in Hashes \cup {Zero} /\ cache \in CacheType
      BY DEF IInv, TypeOK
    <2>2. cache' \in CacheType
      BY <1>1, <2>1 DEF CacheType
    <2> QED
      BY <1>1, <2>1, <2>2, TaskFields DEF IInv, TypeOK
  <1>3. task'[Boot].pc = "idle"
    BY <1>1, TaskTypes DEF Become, IInv, TypeOK
  <1>4. Judged(c, task[Boot], cache)
    BY <1>1 DEF Current
  <1>5. Replays(c, r, cache')
    <2>1. /\ Passes(c, r) /\ task[Boot].todo = <<>>
          /\ \A d : Runs(task[Boot].todo, cache, d) => Runs(Effects(r), c, d)
      BY <1>1, <1>4 DEF Judged
    <2>2. Runs(Effects(r), c, cache)
      BY <1>2, <2>1, RunsNothing
    <2>3. bootHead = IF r.hash # NoHash THEN r.hash ELSE cache.head
      BY <1>1 DEF IInv, BootLocals, BootDuring
    <2>4. cache.head = c.head
      BY DEF Current
    <2> QED
      BY <1>1, <1>2, <2>1, <2>2, <2>3, <2>4 DEF Replays
  <1>6. PosUnique(cache'.rules)
    BY <1>1, <1>2 DEF Current, CacheType
  <1>7. PICK d : d = cache'
    OBVIOUS
  <1>8. Current(d)'
    BY <1>3, <1>6, <1>7 DEF Current
  <1> QED
    BY <1>2, <1>5, <1>7, <1>8

(* The record after the settled ones is the one that was sealed there.     *)
LEMMA NextSealed ==
  ASSUME IInv, RInv, phase = "boot", Len(settled) < Len(sealed)
  PROVE  LET next == sealed[Len(settled) + 1]
         IN /\ next \in Records /\ next.prev = NextSlot(settled)
            /\ disk[NextSlot(settled)] = next
            /\ settled # <<>> => NextSlot(settled) # NoHash
            /\ task[Boot].pc # "idle" => task[Boot].msg = next
  <1> DEFINE n == Len(settled)
             next == sealed[n + 1]
  <1>1. /\ settled \in Seq(Records) /\ sealed \in Seq(Records)
        /\ n \in Nat /\ Len(sealed) \in Nat /\ n + 1 \in 1 .. Len(sealed)
    BY DEF IInv, TypeOK
  <1>2. PICK chain \in Seq(Records) : Prefix(sealed, chain) /\ Prefix(settled, chain)
    BY DEF RInv, Replayed
  <1>3. n # 0 => settled[n] = sealed[n] /\ n \in 1 .. Len(sealed)
    BY <1>1, <1>2 DEF Prefix
  <1>4. /\ next.prev = IF n = 0 THEN NoHash ELSE sealed[n].hash
        /\ n # 0 => sealed[n].hash # NoHash
        /\ disk[next.prev] = next
    BY <1>1, <1>3 DEF RInv, SealedFiles, Linked
  <1>5. NextSlot(settled) = IF n = 0 THEN NoHash ELSE settled[n].hash
    BY <1>1 DEF NextSlot
  <1>6. next \in Records /\ (settled = <<>> <=> n = 0)
    BY <1>1
  <1>7. task[Boot].pc # "idle" =>
          /\ disk[task[Boot].msg.prev] = task[Boot].msg
          /\ task[Boot].msg.prev = NextSlot(settled)
    BY DEF IInv, BootLocals, BootDuring, RInv, BootPlace
  <1> HIDE DEF n, next
  <1> QED
    BY <1>3, <1>4, <1>5, <1>6, <1>7 DEF n, next

(* It cannot fail: it passed before, from the same cache.                  *)
LEMMA SealedPasses ==
  ASSUME IInv, RInv, phase = "boot", Len(settled) < Len(sealed)
  PROVE  task[Boot].pc \notin {"failed", "panicked"}
  <1>1. /\ settled \in Seq(Records) /\ sealed \in Seq(Records)
        /\ Len(settled) \in Nat /\ Len(sealed) \in Nat
    BY DEF IInv, TypeOK
  <1>8. PICK chain \in Seq(Records) :
          \E W \in [0 .. Len(chain) -> CacheType] :
            /\ Prefix(sealed, chain) /\ Replay(chain, W)
            /\ Prefix(settled, chain) /\ Current(W[Len(settled)])
    BY DEF RInv, Replayed
  <1>2. PICK W \in [0 .. Len(chain) -> CacheType] :
          /\ Prefix(sealed, chain) /\ Replay(chain, W)
          /\ Current(W[Len(settled)])
    BY <1>8
  <1> DEFINE n == Len(settled)
  <1>3. n + 1 \in 1 .. Len(chain) /\ n + 1 \in 1 .. Len(sealed)
    BY <1>1, <1>2 DEF Prefix
  <1>4. chain[n + 1] = sealed[n + 1]
    BY <1>2, <1>3 DEF Prefix
  <1>5. Replays(W[n], chain[n + 1], W[n + 1])
    <2>1. \A i \in 1 .. Len(chain) : Replays(W[i - 1], chain[i], W[i])
      BY <1>2 DEF Replay
    <2>2. (n + 1) - 1 = n
      BY <1>1
    <2> HIDE DEF n
    <2> QED
      BY <1>3, <2>1, <2>2
  <1>6. task[Boot].pc # "idle" => task[Boot].msg = chain[n + 1]
    BY <1>4, NextSealed
  <1>7. task[Boot].pc # "idle" => Passes(W[n], task[Boot].msg)
    BY <1>5, <1>6 DEF Replays
  <1> QED
    BY <1>2, <1>7 DEF Current, Judged

-----------------------------------------------------------------------------
(* Every step keeps the invariant.                                         *)

LEMMA RInit == Init => RInv
  <1> SUFFICES ASSUME Init PROVE RInv
    OBVIOUS
  <1> USE DEF Init
  <1> DEFINE W == [i \in 0 .. 0 |-> StartCache]
  <1>1. StartCache \in CacheType
    <2>1. {GenesisRule} \in SUBSET RuleType
      BY RuleTypes
    <2> QED
      BY <2>1 DEF StartCache, EmptyCache, CacheType
  <1>2. <<>> \in Seq(Records) /\ Len(<<>>) = 0 /\ 1 .. 0 = {}
    OBVIOUS
  <1>3. W \in [0 .. 0 -> CacheType] /\ W[0] = StartCache
    BY <1>1
  <1>4. Replay(<<>>, W) /\ Prefix(sealed, <<>>)
    BY <1>2, <1>3 DEF Replay, Prefix
  <1>5. Replayed
    <2> HIDE DEF W
    <2> QED
      BY <1>2, <1>3, <1>4 DEF Replayed
  <1>6. SealedFiles /\ HeadAtTip
    BY <1>2 DEF SealedFiles, HeadAtTip, Linked
  <1> QED
    BY <1>5, <1>6 DEF RInv, UpSealed, BootPlace

(* While the daemon listens, a write hits no sealed record.                *)
LEMMA LiveWorkRestart ==
  ASSUME IInv, RInv, NoScopeRequests, phase = "up", NEW p \in Procs, WorkStep(p)
  PROVE  RInv'
  <1>1. /\ UNCHANGED <<phase, cursor, bootHead, settled, sealed>>
        /\ p # Boot /\ cache'.head = cache.head
        /\ disk' = disk \/ SlotWrite(p)
    BY ConstantsAssumption DEF WorkStep, IInv, Turns
  <1>2. /\ Linked(settled) /\ sealed = Finalized(settled)
        /\ settled \in Seq(Records) /\ sealed \in Seq(Records)
    BY DEF RInv, HeadAtTip, UpSealed, IInv, TypeOK
  <1>3. SealedFiles'
    <2> SUFFICES ASSUME NEW i \in 1 .. Len(sealed)
                 PROVE  disk'[sealed[i].prev] = sealed[i]
      BY <1>1 DEF RInv, SealedFiles
    <2>1. disk[sealed[i].prev] = sealed[i] /\ sealed[i].hash # NoHash
      BY DEF RInv, SealedFiles
    <2>2. CASE SlotWrite(p)
      <3>1. Prefix(sealed, settled)
        BY <1>2, FinalizedFacts
      <3>2. i \in DOMAIN settled /\ settled[i] = sealed[i]
        BY <1>2, <3>1 DEF Prefix
      <3>3. settled[i].prev # task[p].put.prev
        BY <2>1, <2>2, <3>2, WriteMisses DEF SlotWrite
      <3>4. PICK f : disk' = [disk EXCEPT ![task[p].put.prev] = f]
        BY <2>2 DEF SlotWrite
      <3>5. disk'[sealed[i].prev] = disk[sealed[i].prev]
        BY <3>2, <3>3, <3>4 DEF IInv, TypeOK
      <3> QED
        BY <2>1, <3>5
    <2> QED
      BY <1>1, <2>1, <2>2
  <1>4. HeadAtTip' /\ UpSealed' /\ BootPlace'
    BY <1>1 DEF RInv, HeadAtTip, UpSealed, BootPlace
  <1>5. Replayed'
    BY <1>1 DEF RInv, Replayed
  <1> QED
    BY <1>3, <1>4, <1>5 DEF RInv

LEMMA BootWorkRestart ==
  ASSUME IInv, RInv, phase = "boot", Process(Boot)
  PROVE  RInv'
  <1>1. WorkStep(Boot) /\ Boot \in Procs /\ ~FirstTime(Boot)
    BY ProcessWorks DEF IInv, Admitted, Procs, FirstTime
  <1>2. /\ UNCHANGED <<phase, cursor, bootHead, settled, sealed>>
        /\ cache'.head = cache.head /\ disk' = disk
    <2>1. ~SlotWrite(Boot)
      BY <1>1, WriterFacts DEF SlotWrite, IInv, Admitted
    <2> QED
      BY <1>1, <2>1 DEF WorkStep
  <1>3. /\ task[Boot].pc # "idle" /\ task'[Boot].pc # "idle"
        /\ task'[Boot].msg = task[Boot].msg
    <2>1. \A s : Become(Boot, s) => task'[Boot] = s
      BY <1>1 DEF Become, IInv, TypeOK
    <2> QED
      BY <1>1, <2>1 DEF WorkStep
  <1>4. SealedFiles' /\ HeadAtTip' /\ UpSealed'
    BY <1>2 DEF RInv, SealedFiles, HeadAtTip, UpSealed
  <1>5. BootPlace'
    BY <1>2, <1>3 DEF RInv, BootPlace
  <1>6. Replayed'
    <2>1. PICK chain \in Seq(Records) :
            \E W \in [0 .. Len(chain) -> CacheType] :
              /\ Prefix(sealed, chain) /\ Replay(chain, W)
              /\ Prefix(settled, chain) /\ Current(W[Len(settled)])
      BY DEF RInv, Replayed
    <2>2. PICK W \in [0 .. Len(chain) -> CacheType] :
            /\ Prefix(sealed, chain) /\ Replay(chain, W)
            /\ Prefix(settled, chain) /\ Current(W[Len(settled)])
      BY <2>1
    <2>3. W[Len(settled)] \in CacheType
      BY <2>2 DEF Prefix, IInv, TypeOK
    <2>4. PICK c \in CacheType : c = W[Len(settled)]
      BY <2>3
    <2>5. Current(c)'
      BY <2>2, <2>4, BootWorkCurrent
    <2>6. c = W[Len(settled')]
      BY <1>2, <2>4
    <2> QED
      BY <1>2, <2>2, <2>5, <2>6 DEF Replayed
  <1> QED
    BY <1>4, <1>5, <1>6 DEF RInv

(* The chain as far as the sealed records, in any phase.                   *)
LEMMA SealedReplay ==
  ASSUME IInv, RInv
  PROVE  \E W \in [0 .. Len(sealed) -> CacheType] : Replay(sealed, W)
  <1>1. PICK chain \in Seq(Records) :
          \E W \in [0 .. Len(chain) -> CacheType] :
            Prefix(sealed, chain) /\ Replay(chain, W)
    BY DEF RInv, Replayed
  <1>2. sealed \in Seq(Records)
    BY DEF IInv, TypeOK
  <1> QED
    BY <1>1, <1>2, ReplayPrefix

LEMMA PrefixSelf ==
  ASSUME NEW seq \in Seq(Records)
  PROVE  Prefix(seq, seq) /\ Prefix(<<>>, seq)
  BY DEF Prefix

(* The first bootstrap that finds no genesis.rhex is not a later one.      *)
LEMMA SealedOpens ==
  ASSUME IInv, RInv, sealed # <<>>
  PROVE  GenesisOpens(disk)
  <1>1. sealed \in Seq(Records) /\ 1 \in 1 .. Len(sealed) /\ sealed[1] \in Records
    BY DEF IInv, TypeOK
  <1>2. /\ sealed[1].prev = NoHash /\ sealed[1].hash # NoHash
        /\ disk[sealed[1].prev] = sealed[1]
    BY <1>1 DEF RInv, SealedFiles, Linked
  <1> QED
    BY <1>1, <1>2, RecordFields DEF GenesisOpens, Record

LEMMA StartKeepsSealed ==
  ASSUME IInv, RInv, BootStart
  PROVE  sealed' = sealed
  BY SealedOpens DEF BootStart

LEMMA BootStartRestart ==
  ASSUME IInv, RInv, BootStart
  PROVE  RInv'
  <1>1. /\ UNCHANGED <<disk, sealed, task>> /\ settled' = <<>> /\ cursor' = NoHash
        /\ \/ phase' = "boot" /\ GenesisOpens(disk) /\ cache' = StartCache
           \/ phase' = "up" /\ ~GenesisOpens(disk)
    BY StartKeepsSealed DEF BootStart, StartCache
  <1>2. task[Boot].pc = "idle" /\ sealed \in Seq(Records)
    BY DEF BootStart, IInv, Turns, Procs, TypeOK
  <1>3. SealedFiles'
    BY <1>1 DEF RInv, SealedFiles
  <1>4. HeadAtTip'
    BY <1>1 DEF HeadAtTip, Linked
  <1>5. UpSealed'
    BY <1>1, SealedOpens DEF UpSealed, Finalized
  <1>6. BootPlace'
    BY <1>1, <1>2 DEF BootPlace, GenesisOpens, NextSlot
  <1>7. Replayed'
    <2>1. PICK W \in [0 .. Len(sealed) -> CacheType] : Replay(sealed, W)
      BY SealedReplay
    <2>2. Prefix(sealed, sealed) /\ Prefix(<<>>, sealed) /\ Len(<<>>) = 0
      BY <1>2, PrefixSelf
    <2>3. phase' = "boot" => Current(W[0])'
      <3>1. W[0] = StartCache
        BY <2>1 DEF Replay
      <3> QED
        BY <3>1, BootStartCurrent
    <2> QED
      BY <1>1, <1>2, <2>1, <2>2, <2>3 DEF Replayed
  <1> QED
    BY <1>3, <1>4, <1>5, <1>6, <1>7 DEF RInv

LEMMA BootLoadRestart ==
  ASSUME IInv, RInv, BootLoad
  PROVE  RInv'
  <1> DEFINE f == disk[cursor]
  <1>1. /\ phase = "boot" /\ task[Boot].pc = "idle" /\ ~BootDone
        /\ Links(f, cursor) /\ Become(Boot, Started(f))
        /\ UNCHANGED <<disk, cache, phase, settled, sealed>>
    BY DEF BootLoad, BootReady
  <1>2. f \in Records /\ f.prev = cursor
    BY LinksRecord, <1>1 DEF IInv, TypeOK, DirSlots
  <1>3. cursor = NextSlot(settled) /\ (settled # <<>> => cursor # NoHash)
    BY <1>1 DEF RInv, BootPlace, BootDone
  <1>4. task'[Boot] = Started(f)
    BY <1>1 DEF Become, IInv, TypeOK, Procs
  <1>5. /\ task'[Boot].pc = "head" /\ task'[Boot].msg = f
        /\ task'[Boot].bad = FALSE
    BY <1>2, <1>4, TaskTypes DEF Started
  <1>6. SealedFiles' /\ HeadAtTip' /\ UpSealed'
    BY <1>1 DEF RInv, SealedFiles, HeadAtTip, UpSealed
  <1>7. BootPlace'
    BY <1>1, <1>2, <1>3, <1>5 DEF RInv, BootPlace
  <1>8. \A c : Current(c) => Current(c)'
    BY BootLoadCurrent
  <1>9. Replayed'
    BY <1>1, <1>8 DEF RInv, Replayed
  <1> QED
    BY <1>6, <1>7, <1>9 DEF RInv

(* Where the record bootstrap has processed takes the chain.               *)
LEMMA SettleReplayed ==
  ASSUME IInv, RInv, BootSettle
  PROVE  Replayed'
  <1> DEFINE r == task[Boot].msg
  <1>1. /\ phase = "boot" /\ task[Boot].pc = "done"
        /\ settled' = Append(settled, r)
        /\ UNCHANGED <<phase, sealed>>
    BY DEF BootSettle
  <1>2. PICK n : n = Len(settled)
    OBVIOUS
  <1>3. PICK chain \in Seq(Records) :
          \E W \in [0 .. Len(chain) -> CacheType] :
            /\ Prefix(sealed, chain) /\ Replay(chain, W)
            /\ Prefix(settled, chain) /\ Current(W[n])
    BY <1>1, <1>2 DEF RInv, Replayed
  <1>4. PICK W \in [0 .. Len(chain) -> CacheType] :
          /\ Prefix(sealed, chain) /\ Replay(chain, W)
          /\ Prefix(settled, chain) /\ Current(W[n])
    BY <1>3
  <1>5. /\ settled \in Seq(Records) /\ sealed \in Seq(Records)
        /\ n \in Nat /\ Len(sealed) \in Nat
    BY <1>2 DEF IInv, TypeOK
  <1>6. W[n] \in CacheType
    BY <1>2, <1>4, <1>5 DEF Prefix
  <1>7. r \in Records /\ \E d \in CacheType : Replays(W[n], r, d) /\ Current(d)'
    BY <1>4, <1>6, SettleReplays
  <1>8. PICK d \in CacheType : Replays(W[n], r, d) /\ Current(d)'
    BY <1>7
  <1>9. /\ Len(settled') = n + 1 /\ settled' \in Seq(Records)
        /\ settled'[n + 1] = r /\ \A i \in 1 .. n : settled'[i] = settled[i]
    BY <1>1, <1>2, <1>5, <1>7
  <1>10. CASE n < Len(sealed)
    <2>1. r = sealed[n + 1]
      BY <1>1, <1>2, <1>5, <1>10, NextSealed
    <2>2. /\ n + 1 \in 1 .. Len(sealed) /\ n + 1 \in 1 .. Len(chain)
          /\ (n + 1) - 1 = n
      BY <1>5, <1>4, <1>10 DEF Prefix
    <2>3. chain[n + 1] = r
      BY <1>4, <2>1, <2>2 DEF Prefix
    <2>4. Replays(W[n], r, W[n + 1])
      <3>1. \A i \in 1 .. Len(chain) : Replays(W[i - 1], chain[i], W[i])
        BY <1>4 DEF Replay
      <3> QED
        BY <2>2, <2>3, <3>1
    <2>5. W[n + 1] = d
      BY <1>7, <1>8, <2>4, ReplaysUnique
    <2>6. Prefix(settled', chain)
      <3>1. \A i \in 1 .. n : settled[i] = chain[i]
        BY <1>2, <1>4 DEF Prefix
      <3>2. ASSUME NEW i \in 1 .. n + 1 PROVE settled'[i] = chain[i]
        <4>1. i \in 1 .. n \/ i = n + 1
          BY <1>5
        <4> QED
          BY <1>9, <2>3, <3>1, <4>1
      <3>3. Len(chain) \in Nat /\ n + 1 <= Len(chain)
        BY <2>2
      <3> QED
        BY <1>9, <3>2, <3>3 DEF Prefix
    <2>7. Current(W[Len(settled)])'
      BY <1>8, <1>9, <2>5
    <2> QED
      BY <1>1, <1>4, <2>6, <2>7 DEF Replayed
  <1>11. CASE Len(sealed) <= n
    <2>1. PICK V \in [0 .. n -> CacheType] :
            Replay(settled, V) /\ \A i \in 0 .. n : V[i] = W[i]
      BY <1>2, <1>4, <1>5, ReplayPrefix
    <2>2. V[n] = W[n]
      BY <1>5, <2>1
    <2>3. Replays(V[Len(settled)], r, d)
      BY <1>2, <1>8, <2>2
    <2>4. PICK U \in [0 .. n + 1 -> CacheType] :
            Replay(Append(settled, r), U) /\ U[n + 1] = d
      BY <1>2, <1>5, <1>7, <2>1, <2>3, ReplayAppend
    <2>5. Prefix(sealed, settled')
      <3>1. \A i \in 1 .. Len(sealed) : i \in 1 .. n
        BY <1>5, <1>11
      <3>2. \A i \in 1 .. Len(sealed) : sealed[i] = settled[i]
        BY <1>2, <1>4, <3>1 DEF Prefix
      <3>3. \A i \in 1 .. Len(sealed) : sealed[i] = settled'[i]
        BY <1>9, <3>1, <3>2
      <3>4. Len(sealed) <= Len(settled')
        BY <1>5, <1>9, <1>11
      <3> QED
        BY <3>3, <3>4 DEF Prefix
    <2>6. Prefix(settled', settled')
      BY <1>9, PrefixSelf
    <2>7. Current(U[Len(settled)])'
      BY <1>8, <1>9, <2>4
    <2>8. Replay(settled', U)
      BY <1>1, <2>4
    <2> QED
      BY <1>1, <1>9, <2>4, <2>5, <2>6, <2>7, <2>8 DEF Replayed
  <1> QED
    BY <1>5, <1>10, <1>11

LEMMA FinalizedAppend ==
  ASSUME NEW seq \in Seq(Records), NEW r \in Records
  PROVE  Finalized(Append(seq, r)) = IF r.hash = NoHash THEN seq ELSE Append(seq, r)
  <1> DEFINE new == Append(seq, r)
             n == Len(seq)
  <1>1. n \in Nat /\ Len(new) = n + 1 /\ new[n + 1] = r /\ new # <<>>
    OBVIOUS
  <1>2. SubSeq(new, 1, n) = seq
    <2>1. SubSeq(new, 1, n) \in Seq(Records) /\ Len(SubSeq(new, 1, n)) = n
      BY <1>1
    <2>2. \A i \in 1 .. n : SubSeq(new, 1, n)[i] = seq[i]
      BY <1>1
    <2> QED
      BY <2>1, <2>2, SeqEqual
  <1> HIDE DEF new, n
  <1>3. (n + 1) - 1 = n
    BY <1>1
  <1> QED
    BY <1>1, <1>2, <1>3 DEF Finalized, new

LEMMA BootSettleRestart ==
  ASSUME IInv, RInv, BootSettle
  PROVE  RInv'
  <1> DEFINE r == task[Boot].msg
  <1>1. /\ phase = "boot" /\ task[Boot].pc = "done" /\ Boot \in Procs
        /\ cache' = [cache EXCEPT !.head = bootHead]
        /\ settled' = Append(settled, r) /\ Become(Boot, Idle)
        /\ UNCHANGED <<disk, phase, cursor, sealed>>
    BY DEF BootSettle, Procs
  <1>2. /\ settled \in Seq(Records) /\ r \in Records /\ cache \in CacheType
        /\ Linked(settled) /\ GenesisOpens(disk)
    BY <1>1, TaskFields DEF IInv, TypeOK, RInv, HeadAtTip, BootPlace
  <1>3. /\ disk[r.prev] = r /\ cursor = r.hash
        /\ bootHead = IF r.hash # NoHash THEN r.hash ELSE cache.head
        /\ r.prev = NextSlot(settled)
        /\ settled # <<>> => NextSlot(settled) # NoHash
    BY <1>1 DEF IInv, BootLocals, BootDuring, RInv, BootPlace
  <1>4. settled = <<>> => r.hash # NoHash
    BY <1>2, <1>3 DEF NextSlot, GenesisOpens
  <1>5. task'[Boot].pc = "idle" /\ cache'.head = bootHead
    BY <1>1, <1>2, TaskTypes DEF Become, IInv, TypeOK, CacheType
  <1>6. NextSlot(Append(settled, r)) = r.hash
    <2>1. Len(settled) \in Nat /\ Len(Append(settled, r)) = Len(settled) + 1
      BY <1>2
    <2>2. Append(settled, r)[Len(settled) + 1] = r /\ Append(settled, r) # <<>>
      BY <1>2
    <2> QED
      BY <2>1, <2>2 DEF NextSlot
  <1>7. HeadAtTip'
    <2>1. Linked(settled')
      BY <1>1, <1>2, <1>3, <1>4, LinkedAppend
    <2>2. cache'.head = NextSlot(Finalized(settled'))
      <3>1. CASE r.hash # NoHash
        BY <1>1, <1>2, <1>3, <1>5, <1>6, <3>1, FinalizedAppend
      <3>2. CASE r.hash = NoHash
        <4>1. cache.head = NextSlot(Finalized(settled)) /\ NextSlot(settled) # NoHash
          BY <1>1, <1>3, <1>4, <3>2 DEF RInv, HeadAtTip
        <4>2. Finalized(settled) = settled
          BY <4>1 DEF Finalized, NextSlot
        <4> QED
          BY <1>1, <1>2, <1>3, <1>5, <3>2, <4>1, <4>2, FinalizedAppend
      <3> QED
        BY <3>1, <3>2
    <2> QED
      BY <2>1, <2>2 DEF HeadAtTip
  <1>8. SealedFiles' /\ UpSealed'
    BY <1>1 DEF RInv, SealedFiles, UpSealed
  <1>9. BootPlace'
    BY <1>1, <1>2, <1>3, <1>5, <1>6 DEF BootPlace
  <1> QED
    BY <1>7, <1>8, <1>9, SettleReplayed DEF RInv

(* A bootstrap that ends has come at least as far as any before it.        *)
LEMMA EndReachesSealed ==
  ASSUME IInv, RInv, BootEnd
  PROVE  Len(sealed) <= Len(settled)
  <1>1. /\ phase = "boot"
        /\ settled \in Seq(Records) /\ sealed \in Seq(Records)
        /\ Len(settled) \in Nat /\ Len(sealed) \in Nat
    BY DEF BootEnd, IInv, TypeOK
  <1> SUFFICES ASSUME Len(settled) < Len(sealed) PROVE FALSE
    BY <1>1
  <1> DEFINE next == sealed[Len(settled) + 1]
             slot == NextSlot(settled)
  <1>2. /\ next \in Records /\ next.prev = slot /\ disk[slot] = next
        /\ settled # <<>> => slot # NoHash
    BY <1>1, NextSealed
  <1>3. task[Boot].pc # "failed"
    BY <1>1, SealedPasses
  <1>4. task[Boot].pc = "idle" /\ cursor = slot
    BY <1>1, <1>3 DEF BootEnd, RInv, BootPlace
  <1>5. Links(disk[cursor], cursor) /\ disk[cursor] # NoFile
    BY <1>2, <1>4, RecordFields DEF Links, Record
  <1>6. ~BootDone
    BY <1>2, <1>4, <1>5 DEF BootDone
  <1> QED
    BY <1>3, <1>5, <1>6 DEF BootEnd

(* What it has loaded begins with what was sealed before.                  *)
LEMMA EndKeepsSealed ==
  ASSUME IInv, RInv, BootEnd
  PROVE  Prefix(sealed, sealed')
  <1> DEFINE fin == Finalized(settled)
  <1>1. /\ phase = "boot" /\ sealed' = fin
        /\ settled \in Seq(Records) /\ sealed \in Seq(Records)
        /\ Len(settled) \in Nat /\ Len(sealed) \in Nat /\ Linked(settled)
    BY DEF BootEnd, IInv, TypeOK, RInv, HeadAtTip
  <1>2. /\ fin \in Seq(Records) /\ Prefix(fin, settled)
        /\ \A i \in 1 .. Len(settled) : settled[i].hash # NoHash => i <= Len(fin)
    BY <1>1, FinalizedFacts
  <1>3. PICK chain \in Seq(Records) : Prefix(sealed, chain) /\ Prefix(settled, chain)
    BY <1>1 DEF RInv, Replayed
  <1>4. Len(sealed) <= Len(settled)
    BY EndReachesSealed
  <1> HIDE DEF fin
  <1>5. \A i \in 1 .. Len(sealed) : /\ i \in 1 .. Len(settled)
                                    /\ sealed[i] = settled[i]
                                    /\ settled[i].hash # NoHash
    BY <1>1, <1>3, <1>4 DEF Prefix, RInv, SealedFiles
  <1>6. Len(sealed) <= Len(fin) /\ Len(fin) \in Nat
    <2>1. Len(fin) \in Nat
      BY <1>2
    <2>2. Len(sealed) # 0 => Len(sealed) \in 1 .. Len(sealed)
      BY <1>1
    <2> QED
      BY <1>1, <1>2, <1>5, <2>1, <2>2
  <1>7. \A i \in 1 .. Len(sealed) : sealed[i] = fin[i]
    BY <1>1, <1>2, <1>5, <1>6 DEF Prefix
  <1> QED
    BY <1>1, <1>6, <1>7 DEF Prefix

LEMMA BootEndRestart ==
  ASSUME IInv, RInv, NoScopeRequests, BootEnd
  PROVE  RInv'
  <1> DEFINE fin == Finalized(settled)
  <1>1. /\ phase = "boot" /\ phase' = "up" /\ sealed' = fin
        /\ UNCHANGED <<disk, cache, cursor, bootHead, settled>>
        /\ settled \in Seq(Records) /\ Len(settled) \in Nat /\ Linked(settled)
    BY DEF BootEnd, IInv, TypeOK, RInv, HeadAtTip
  <1>2. /\ fin \in Seq(Records) /\ Prefix(fin, settled) /\ Linked(fin)
        /\ \A i \in 1 .. Len(fin) : fin[i].hash # NoHash
    BY <1>1, FinalizedFacts
  <1>3. PICK chain \in Seq(Records) :
          \E W \in [0 .. Len(chain) -> CacheType] :
            Replay(chain, W) /\ Prefix(settled, chain)
    BY <1>1 DEF RInv, Replayed
  <1>4. PICK W \in [0 .. Len(chain) -> CacheType] : Replay(chain, W)
    BY <1>3
  <1> HIDE DEF fin
  <1>5. Len(fin) \in Nat
    BY <1>2
  <1>6. SealedFiles'
    <2> SUFFICES ASSUME NEW i \in 1 .. Len(fin)
                 PROVE  disk[fin[i].prev] = fin[i]
      BY <1>1, <1>2 DEF SealedFiles
    <2>1. i \in DOMAIN settled /\ fin[i] = settled[i] /\ fin[i].hash # NoHash
      BY <1>1, <1>2, <1>5 DEF Prefix
    <2> QED
      BY <2>1 DEF IInv, SettledOnDisk
  <1>7. HeadAtTip' /\ UpSealed' /\ BootPlace'
    BY <1>1 DEF RInv, HeadAtTip, UpSealed, BootPlace, fin
  <1>8. Prefix(fin, chain)
    <2>1. Len(chain) \in Nat /\ Len(fin) <= Len(chain)
      BY <1>1, <1>2, <1>3, <1>5 DEF Prefix
    <2>2. \A i \in 1 .. Len(fin) : fin[i] = chain[i]
      BY <1>1, <1>2, <1>3, <1>5 DEF Prefix
    <2> QED
      BY <2>1, <2>2 DEF Prefix
  <1>9. Replayed'
    BY <1>1, <1>4, <1>8 DEF Replayed
  <1> QED
    BY <1>6, <1>7, <1>9 DEF RInv, fin

(* Bootstrap panics, or the program is killed.                             *)
LEMMA StopRestart ==
  ASSUME IInv, RInv, BootPanic \/ Crash
  PROVE  RInv'
  <1>1. phase' = "down" /\ UNCHANGED <<disk, cache, cursor, bootHead, settled, sealed>>
    BY DEF BootPanic, Crash
  <1>2. SealedFiles' /\ HeadAtTip' /\ UpSealed' /\ BootPlace' /\ Replayed'
    BY <1>1 DEF RInv, SealedFiles, HeadAtTip, UpSealed, BootPlace, Replayed
  <1> QED
    BY <1>2 DEF RInv

(* A step that bootstrap does not see.                                     *)
LEMMA IdleRestart ==
  ASSUME RInv, UNCHANGED world, task'[Boot] = task[Boot]
  PROVE  RInv'
  <1>1. SealedFiles' /\ HeadAtTip' /\ UpSealed' /\ BootPlace' /\ Replayed'
    BY DEF RInv, SealedFiles, HeadAtTip, UpSealed, BootPlace, Replayed, Current,
           world
  <1> QED
    BY <1>1 DEF RInv

LEMMA StepRestart ==
  ASSUME NoScopeRequests
  PROVE  IInv /\ RInv /\ [Next]_vars => RInv'
  <1> SUFFICES ASSUME IInv, RInv, [Next]_vars PROVE RInv'
    OBVIOUS
  <1>1. CASE Process(Boot)
    <2>1. WorkStep(Boot) /\ Boot \in Procs
      BY <1>1, ProcessWorks DEF IInv, Admitted, Procs
    <2>2. phase = "boot"
      BY <2>1, WhoseTurn, ConstantsAssumption DEF WorkStep, IInv, TypeOK
    <2> QED
      BY <1>1, <2>2, BootWorkRestart
  <1>2. CASE BootStart
    BY <1>2, BootStartRestart
  <1>3. CASE BootStep
    BY <1>3, BootLoadRestart, BootSettleRestart, BootEndRestart, StopRestart
    DEF BootStep
  <1>4. CASE Crash
    BY <1>4, StopRestart
  <1>5. ASSUME NEW t \in Tasks, Receive(t) \/ TaskStep(t) PROVE RInv'
    <2>1. t \in Procs /\ t # Boot /\ Boot \in Procs
      BY ConstantsAssumption DEF Procs
    <2>2. CASE Process(t)
      <3>1. WorkStep(t)
        BY <2>1, <2>2, ProcessWorks DEF IInv, Admitted
      <3>2. phase = "up"
        BY <2>1, <3>1, WhoseTurn DEF WorkStep, IInv, TypeOK
      <3> QED
        BY <2>1, <3>1, <3>2, LiveWorkRestart
    <2>3. CASE Receive(t) \/ Reply(t) \/ HangUp(t)
      <3>1. \E s : Become(t, s)
        BY <2>3 DEF Receive, Reply, HangUp
      <3>2. UNCHANGED world /\ task'[Boot] = task[Boot]
        BY <2>1, <2>3, <3>1
        DEF Receive, Reply, HangUp, Become, IInv, TypeOK
      <3> QED
        BY <3>2, IdleRestart
    <2> QED
      BY <1>5, <2>2, <2>3 DEF TaskStep
  <1>6. CASE UNCHANGED vars
    BY <1>6, IdleRestart DEF vars, world
  <1> QED
    BY <1>1, <1>2, <1>3, <1>4, <1>5, <1>6 DEF Next

LEMMA RestartInvariant ==
  ASSUME NoScopeRequests
  PROVE  Spec => [](IInv /\ RInv)
  <1>1. IInv /\ RInv /\ [Next]_vars => RInv'
    BY StepRestart
  <1> QED
    BY <1>1, InductiveInvariant, RInit, PTL DEF Spec

-----------------------------------------------------------------------------
(* A bootstrap that comes to listen has loaded every finalized record that *)
(* the one before it had loaded, at the same place in the chain, whatever  *)
(* connections sent, and wherever the program was killed, in between:      *)
(* nothing that was once accepted at a start is lost, refused or replaced  *)
(* at a later one.                                                         *)
THEOREM RestartsKeep ==
  ASSUME NoScopeRequests
  PROVE  Spec => RestartKeepsSealed
  <1> DEFINE Keeps == \A i \in DOMAIN sealed :
                        i \in DOMAIN sealed' /\ sealed'[i] = sealed[i]
  <1>1. IInv /\ RInv /\ [Next]_vars => [Keeps]_vars
    <2> SUFFICES ASSUME IInv, RInv, [Next]_vars PROVE Keeps
      OBVIOUS
    <2>1. ASSUME sealed' = sealed PROVE Keeps
      BY <2>1
    <2>2. CASE BootStart
      BY <2>1, <2>2, StartKeepsSealed
    <2>3. CASE BootEnd
      <3>1. /\ sealed \in Seq(Records) /\ sealed' \in Seq(Records)
            /\ Prefix(sealed, sealed')
        BY <2>3, EndKeepsSealed, StopPreserves DEF IInv, TypeOK
      <3> QED
        BY <3>1 DEF Prefix
    <2>4. CASE BootLoad \/ BootSettle \/ BootPanic \/ Crash
      BY <2>1, <2>4 DEF BootLoad, BootReady, BootSettle, BootPanic, Crash
    <2>5. ASSUME NEW p \in Procs, Process(p) PROVE Keeps
      BY <2>1, <2>5, ProcessWorks DEF IInv, Admitted, WorkStep
    <2>6. ASSUME NEW t \in Tasks, Receive(t) \/ Reply(t) \/ HangUp(t) PROVE Keeps
      BY <2>1, <2>6 DEF Receive, Reply, HangUp, world
    <2>7. CASE UNCHANGED vars
      BY <2>1, <2>7 DEF vars
    <2> QED
      BY <2>2, <2>3, <2>4, <2>5, <2>6, <2>7 DEF Next, BootStep, TaskStep, Procs
  <1> QED
    BY <1>1, RestartInvariant, PTL DEF Spec, RestartKeepsSealed

(* While the daemon listens the loaded records are an unbroken chain from  *)
(* genesis.rhex on, and the head row names its tip, so that the next       *)
(* append goes to the slot after it.                                       *)
THEOREM HeadIsTip ==
  ASSUME NoScopeRequests
  PROVE  Spec => []HeadIsSettledTip
  <1>1. IInv /\ RInv => HeadIsSettledTip
    <2> SUFFICES ASSUME IInv, RInv, phase = "up", settled # <<>>
                 PROVE  /\ settled[1].prev = NoHash
                        /\ \A i \in 2 .. Len(settled) :
                             settled[i].prev = settled[i - 1].hash
                        /\ cache.head = sealed[Len(sealed)].hash
      BY DEF HeadIsSettledTip
    <2>1. /\ settled \in Seq(Records) /\ Linked(settled)
          /\ sealed = Finalized(settled) /\ cache.head = NextSlot(sealed)
      BY DEF IInv, TypeOK, RInv, HeadAtTip, UpSealed
    <2>2. sealed # <<>>
      BY <2>1, FinalizedFacts
    <2>3. 1 \in 1 .. Len(settled) /\ 2 .. Len(settled) \subseteq 1 .. Len(settled)
      BY <2>1
    <2> QED
      BY <2>1, <2>2, <2>3 DEF Linked, NextSlot
  <1> QED
    BY <1>1, RestartInvariant, PTL
=============================================================================
