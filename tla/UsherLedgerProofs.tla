------------------------- MODULE UsherLedgerProofs -------------------------
(***************************************************************************)
(* Proofs about UsherLedger, for any set of records, hashes, keys and      *)
(* connections that satisfy its assumptions: the types are kept, and no    *)
(* live connection ever touches a file that bootstrap loaded.              *)
(***************************************************************************)
EXTENDS UsherLedger, TLAPS

-----------------------------------------------------------------------------
(* Types of the data.                                                      *)

LEMMA RuleTypes ==
  NoRule \in RuleType /\ GenesisRule \in RuleType /\ BasicRule \in RuleType
  <1>1. /\ {} \in SUBSET Types
        /\ {GenesisType} \in SUBSET Types
        /\ {PolicySetType} \in SUBSET Types
    BY ConstantsAssumption
  <1>2. {} \in SUBSET Roles /\ {"authority"} \in SUBSET Roles
    BY ConstantsAssumption
  <1>3. \A T \in SUBSET Types, A, Q \in SUBSET Roles, n, k \in Nat :
          [pos |-> n, types |-> T, append |-> A, k |-> k, quorum |-> Q]
            \in RuleType
    BY DEF RuleType
  <1> QED
    BY <1>1, <1>2, <1>3 DEF NoRule, GenesisRule, BasicRule

LEMMA OpTypes ==
  /\ \A n \in OpNames : Op(n) \in OpType
  /\ \A q \in RuleType : PutRule(q) \in OpType
  /\ \A k \in Keys, R \in SUBSET Roles : PutAuth(k, R) \in OpType
  /\ \A k \in Keys : PutUsher(k) \in OpType
  BY RuleTypes, ConstantsAssumption
  DEF Op, PutRule, PutAuth, PutUsher, OpType, OpNames

LEMMA RecordFields ==
  ASSUME NEW r \in Records
  PROVE  /\ r \in RhexType
         /\ r.hash \in Hashes \cup {NoHash} /\ r.prev \in Slots
         /\ r.type \in Types
         /\ r.quorum \in Seq(Keys) /\ r.rules \in Seq(RuleType)
         /\ r.author \in Keys /\ r.grantee \in Keys
         /\ r.roles \in SUBSET Roles
         /\ r.hash \in Slots
         /\ r # NoMsg /\ r # NoFile /\ r # Torn
  BY ConstantsAssumption DEF RhexType, Slots

(* A statement of a handler never touches the head row.                    *)
LEMMA ApplyType ==
  ASSUME NEW c \in CacheType, NEW o \in OpType
  PROVE  Apply(o, c) \in CacheType /\ Apply(o, c).head = c.head
  <1>1. /\ o.rule \in RuleType /\ o.pk \in Keys /\ o.roles \in SUBSET Roles
        /\ o.op \in OpNames
    BY DEF OpType
  <1>2. /\ c.rules \in SUBSET RuleType /\ c.auths \in SUBSET AuthType
        /\ c.ushers \in SUBSET Keys
    BY DEF CacheType
  <1>3. Upsert(c.rules, o.rule) \in SUBSET RuleType
    BY <1>1, <1>2 DEF Upsert
  <1>4. {a \in c.auths : a.pk # o.pk} \cup {[pk |-> o.pk, roles |-> o.roles]}
          \in SUBSET AuthType
    BY <1>1, <1>2 DEF AuthType
  <1>5. PutAuthority(c, o) \in CacheType /\ PutAuthority(c, o).head = c.head
    BY <1>4 DEF CacheType, PutAuthority
  <1>6. CASE o.op = "putRule"
    BY <1>3, <1>6 DEF Apply, CacheType
  <1>7. CASE o.op = "putAuth"
    BY <1>5, <1>7 DEF Apply
  <1>8. CASE o.op \notin {"putRule", "putAuth"}
    BY <1>1, <1>2, <1>8 DEF Apply, CacheType, OpNames
  <1> QED
    BY <1>6, <1>7, <1>8

LEMMA PolicySetType_ ==
  ASSUME NEW r \in Records
  PROVE  PolicySet(r) \in Seq(OpType) /\ PolicySet(r) # <<>>
  <1> DEFINE first == <<Op("delPolicy"), Op("delRules"), Op("delRules"),
                        Op("putPolicy")>>
             rest == [i \in DOMAIN r.rules |-> PutRule(r.rules[i])]
  <1>1. first \in Seq(OpType)
    BY OpTypes DEF OpNames
  <1>2. r.rules \in Seq(RuleType)
    BY RecordFields
  <1>3. rest \in Seq(OpType)
    BY <1>2, OpTypes
  <1>4. first \o rest \in Seq(OpType) /\ Len(first \o rest) = 4 + Len(rest)
    BY <1>1, <1>3
  <1>5. first \o rest # <<>>
    BY <1>3, <1>4
  <1> QED
    BY <1>4, <1>5 DEF PolicySet

LEMMA StatementsType ==
  ASSUME NEW r \in Records
  PROVE  Statements(r) \in Seq(OpType)
  <1>1. KeyGrant(r) \in Seq(OpType) /\ UsherAppoint(r) \in Seq(OpType)
    BY RecordFields, OpTypes DEF KeyGrant, UsherAppoint
  <1>2. ScopeGenesis(r) \in Seq(OpType)
    <2>1. /\ Op("delScope") \in OpType /\ Op("delAuths") \in OpType
          /\ Op("delPolicy") \in OpType /\ Op("delUshers") \in OpType
          /\ Op("putScope") \in OpType /\ Op("putPolicy") \in OpType
      BY OpTypes DEF OpNames
    <2>2. PutAuth(r.author, {"authority"}) \in OpType
      BY RecordFields, OpTypes, ConstantsAssumption
    <2>3. PutRule(BasicRule) \in OpType
      BY RuleTypes, OpTypes
    <2> QED
      BY <2>1, <2>2, <2>3 DEF ScopeGenesis
  <1>3. <<>> \in Seq(OpType)
    OBVIOUS
  <1> QED
    BY <1>1, <1>2, <1>3, PolicySetType_ DEF Statements

LEMMA CountersignedType ==
  ASSUME NEW r \in Records
  PROVE  Countersigned(r) \in RhexType
  <1>1. Append(r.quorum, UsherKey) \in Seq(Keys)
    BY RecordFields, ConstantsAssumption
  <1> QED
    BY <1>1, RecordFields DEF Countersigned, RhexType

LEMMA TaskTypes ==
  /\ Idle \in TaskType /\ Idle.pc = "idle" /\ Idle.msg = NoMsg
  /\ \A r \in Records : Started(r) \in TaskType /\ Started(r).pc = "head"
                        /\ Started(r).msg = r /\ Started(r).put = r
  <1>1. /\ <<>> \in Seq(OpType) /\ <<>> \in Seq(Records)
        /\ <<>> \in Seq(RhexType) /\ NoHash \in Slots
    BY DEF Slots
  <1>2. \A r \in Records \cup {NoMsg} :
          /\ Started(r) \in TaskType /\ Started(r).pc = "head"
          /\ Started(r).msg = r /\ Started(r).put = r
    BY <1>1, RuleTypes DEF Started, TaskType, PCs
  <1>3. Idle \in TaskType /\ Idle.pc = "idle" /\ Idle.msg = NoMsg
    <2> DEFINE s == Started(NoMsg)
    <2>1. s \in TaskType /\ s.msg = NoMsg
      BY <1>2
    <2>2. Idle = [s EXCEPT !.pc = "idle"]
      BY DEF Idle
    <2> HIDE DEF s
    <2> QED
      BY <2>1, <2>2 DEF TaskType, PCs
  <1> QED
    BY <1>2, <1>3

-----------------------------------------------------------------------------
(* One step of the processor or of a handler, whichever it is: the process *)
(* keeps its message, the head row stays but for scope requests, and a     *)
(* file changes only in the slot of a record that a connection is writing. *)

SlotWrite(p) ==
  /\ task[p].pc \in {"open", "write"}
  /\ \E f \in {Torn, task[p].put} : disk' = [disk EXCEPT ![task[p].put.prev] = f]

WorkStep(p) ==
  /\ task[p].pc # "idle"
  /\ \E s \in TaskType :
       /\ Become(p, s)
       /\ s.pc # "idle" /\ s.msg = task[p].msg
       /\ Admissible(p, s)
  /\ cache' \in CacheType
  /\ cache'.head = cache.head \/ (FirstTime(p) /\ ~NoScopeRequests)
  /\ disk' = disk \/ SlotWrite(p)
  /\ UNCHANGED <<phase, cursor, bootHead, settled, sealed>>

LEMMA TaskFields ==
  ASSUME TypeOK, NEW p \in Procs
  PROVE  /\ task[p] \in TaskType /\ task[p].pc \in PCs
         /\ task[p].msg \in Records \cup {NoMsg}
         /\ task[p].put \in Records \cup {NoMsg}
         /\ task[p].todo \in Seq(OpType) /\ task[p].rule \in RuleType
         /\ task[p].at \in Slots /\ task[p].found \in Seq(Records)
         /\ task[p].out \in Seq(RhexType)
         /\ task[p].pc # "idle" => task[p].msg \in Records
  BY DEF TypeOK, TaskType

ScopePCs == {"scope", "insert", "store", "zero"}

(* A step of a checked record that leaves the world alone.                 *)
LEMMA MoveWorks ==
  ASSUME TypeOK, NEW p \in Procs, Admissible(p, task[p]),
         task[p].pc \in Checked, UNCHANGED world,
         NEW s \in TaskType, Become(p, s),
         s.msg = task[p].msg, s.put = task[p].put, s.pc \notin {"idle", "head"},
         s.pc = "exec" => s.todo # <<>>,
         s.pc \in {"open", "write"} =>
           FirstTime(p) /\ (WritesFile(s.msg) \/ ~NoScopeRequests),
         s.pc \in ScopePCs => FirstTime(p) /\ ~NoScopeRequests
  PROVE  WorkStep(p)
  <1>1. Admissible(p, s)
    BY DEF Admissible, ScopePCs
  <1> QED
    BY <1>1 DEF WorkStep, world, TypeOK, Checked

(* The same for a step that only moves on, possibly with an error.         *)
LEMMA GotoWorks ==
  ASSUME TypeOK, NEW p \in Procs, Admissible(p, task[p]),
         task[p].pc \in Checked, UNCHANGED world,
         NEW c \in PCs \ {"idle", "head", "exec"},
         Goto(p, c) \/ Flag(p, c),
         c \in {"open", "write"} =>
           FirstTime(p) /\ (WritesFile(task[p].msg) \/ ~NoScopeRequests),
         c \in ScopePCs => FirstTime(p) /\ ~NoScopeRequests
  PROVE  WorkStep(p)
  <1>1. task[p] \in TaskType
    BY TaskFields
  <1>2. CASE Goto(p, c)
    <2> DEFINE s == [task[p] EXCEPT !.pc = c]
    <2>1. s \in TaskType /\ s.pc = c /\ s.msg = task[p].msg /\ s.put = task[p].put
      BY <1>1 DEF TaskType
    <2>2. Become(p, s)
      BY <1>2 DEF Goto
    <2> QED
      BY <2>1, <2>2, MoveWorks
  <1>3. CASE Flag(p, c)
    <2> DEFINE s == [task[p] EXCEPT !.pc = c, !.bad = TRUE]
    <2>1. s \in TaskType /\ s.pc = c /\ s.msg = task[p].msg /\ s.put = task[p].put
      BY <1>1 DEF TaskType
    <2>2. Become(p, s)
      BY <1>3 DEF Flag
    <2> QED
      BY <2>1, <2>2, MoveWorks
  <1> QED
    BY <1>2, <1>3

LEMMA ReadHeadWorks ==
  ASSUME TypeOK, NEW p \in Procs, Admissible(p, task[p]), ReadHead(p)
  PROVE  WorkStep(p)
  <1>1. PICK c \in {"policy", "failed"} :
          Goto(p, c) /\ (c = "policy" => PreviousHashValid(task[p].msg, cache.head))
    BY DEF ReadHead
  <1> DEFINE s == [task[p] EXCEPT !.pc = c]
  <1>2. /\ task[p] \in TaskType /\ task[p].pc = "head"
        /\ task[p].msg \in Records /\ task[p].put = task[p].msg
    BY TaskFields DEF ReadHead, Admissible
  <1>3. /\ s \in TaskType /\ s.pc = c /\ s.msg = task[p].msg
        /\ s.put = task[p].msg
    BY <1>2 DEF TaskType, PCs
  <1>4. Admissible(p, s)
    BY <1>1, <1>2, <1>3 DEF Admissible, Checked
  <1> QED
    BY <1>1, <1>2, <1>3, <1>4 DEF ReadHead, Goto, WorkStep, world, TypeOK

LEMMA ReadPolicyWorks ==
  ASSUME TypeOK, NEW p \in Procs, Admissible(p, task[p]), ReadPolicy(p)
  PROVE  WorkStep(p)
  <1>1. PICK c \in {"failed", "rules", "context"} : Goto(p, c)
    BY DEF ReadPolicy
  <1> QED
    BY <1>1, GotoWorks DEF ReadPolicy, PCs, Checked, ScopePCs

LEMMA ReadRulesWorks ==
  ASSUME TypeOK, NEW p \in Procs, Admissible(p, task[p]), ReadRules(p)
  PROVE  WorkStep(p)
  <1>1. PICK c \in {"failed", "context"} : Goto(p, c)
    BY DEF ReadRules
  <1> QED
    BY <1>1, GotoWorks DEF ReadRules, PCs, Checked, ScopePCs

LEMMA CheckContextWorks ==
  ASSUME TypeOK, NEW p \in Procs, Admissible(p, task[p]), CheckContext(p)
  PROVE  WorkStep(p)
  <1>1. PICK c \in {"failed", "sigs"} : Goto(p, c)
    BY DEF CheckContext
  <1> QED
    BY <1>1, GotoWorks DEF CheckContext, PCs, Checked, ScopePCs

LEMMA CheckSignaturesWorks ==
  ASSUME TypeOK, NEW p \in Procs, Admissible(p, task[p]), CheckSignatures(p)
  PROVE  WorkStep(p)
  <1> DEFINE r == task[p].msg
  <1>1. /\ task[p] \in TaskType /\ r \in Records
        /\ task[p].pc \in Checked /\ UNCHANGED world
    BY TaskFields DEF CheckSignatures, Checked, PCs
  <1>2. CASE Flag(p, "verdict") \/ Goto(p, "quorum")
    BY <1>1, <1>2, GotoWorks DEF PCs, ScopePCs
  <1>3. CASE Become(p, [task[p] EXCEPT !.pc = "verdict",
                                       !.out = <<Countersigned(r)>>])
    <2> DEFINE s == [task[p] EXCEPT !.pc = "verdict",
                                    !.out = <<Countersigned(r)>>]
    <2>1. <<Countersigned(r)>> \in Seq(RhexType)
      BY <1>1, CountersignedType
    <2>2. s \in TaskType /\ s.pc = "verdict" /\ s.msg = r /\ s.put = task[p].put
      BY <1>1, <2>1 DEF TaskType, PCs
    <2> QED
      BY <1>1, <1>3, <2>2, MoveWorks DEF ScopePCs
  <1> QED
    BY <1>2, <1>3 DEF CheckSignatures

LEMMA ReadQuorumRulesWorks ==
  ASSUME TypeOK, NEW p \in Procs, Admissible(p, task[p]), ReadQuorumRules(p)
  PROVE  WorkStep(p)
  <1> DEFINE r == task[p].msg
  <1>1. /\ task[p] \in TaskType /\ task[p].pc \in Checked /\ UNCHANGED world
    BY TaskFields DEF ReadQuorumRules, Checked, PCs
  <1>2. CASE Flag(p, "verdict")
    BY <1>1, <1>2, GotoWorks DEF PCs, ScopePCs
  <1>3. ASSUME NEW q \in QuorumRule(cache.rules, r.type),
               Become(p, [task[p] EXCEPT !.pc = "members", !.rule = q])
        PROVE  WorkStep(p)
    <2> DEFINE s == [task[p] EXCEPT !.pc = "members", !.rule = q]
    <2>1. q \in RuleType
      BY DEF QuorumRule, LastOf, TypeOK, CacheType
    <2>2. s \in TaskType /\ s.pc = "members" /\ s.msg = r /\ s.put = task[p].put
      BY <1>1, <2>1 DEF TaskType, PCs
    <2> QED
      BY <1>1, <1>3, <2>2, MoveWorks DEF ScopePCs
  <1> QED
    BY <1>2, <1>3 DEF ReadQuorumRules

LEMMA ReadAuthoritiesWorks ==
  ASSUME TypeOK, NEW p \in Procs, Admissible(p, task[p]), ReadAuthorities(p)
  PROVE  WorkStep(p)
  <1>1. Goto(p, "verdict") \/ Flag(p, "verdict")
    BY DEF ReadAuthorities
  <1> QED
    BY <1>1, GotoWorks DEF ReadAuthorities, PCs, Checked, ScopePCs

LEMMA ReadFailsWorks ==
  ASSUME TypeOK, NEW p \in Procs, Admissible(p, task[p]), ReadFails(p)
  PROVE  WorkStep(p)
  <1>1. task[p].pc # "idle" /\ UNCHANGED world
    BY DEF ReadFails
  <1>2. CASE Goto(p, "failed")
    <2> DEFINE s == [task[p] EXCEPT !.pc = "failed"]
    <2>1. task[p] \in TaskType /\ task[p].msg \in Records
      BY <1>1, TaskFields
    <2>2. /\ s \in TaskType /\ s.pc = "failed" /\ s.msg = task[p].msg
      BY <2>1 DEF TaskType, PCs
    <2>3. Admissible(p, s)
      BY <2>2 DEF Admissible, Checked
    <2> QED
      BY <1>1, <1>2, <2>2, <2>3 DEF Goto, WorkStep, world, TypeOK
  <1>3. CASE task[p].pc = "policy" /\ Goto(p, "context")
    BY <1>1, <1>3, GotoWorks DEF PCs, Checked, ScopePCs
  <1> QED
    BY <1>2, <1>3 DEF ReadFails

LEMMA HandlerPlaces ==
  ASSUME NEW p, NEW r \in Records
  PROVE  /\ Handler(p, r) \in {"panicked", "done", "exec", "open", "walk", "scope"}
         /\ Handler(p, r) = "exec" => Statements(r) # <<>>
         /\ Handler(p, r) = "open" => FirstTime(p) /\ WritesFile(r)
         /\ Handler(p, r) = "scope" => FirstTime(p) /\ ~NoScopeRequests
  BY DEF Handler, NoScopeRequests

LEMMA VerdictWorks ==
  ASSUME TypeOK, NEW p \in Procs, Admissible(p, task[p]), Verdict(p)
  PROVE  WorkStep(p)
  <1> DEFINE r == task[p].msg
  <1>1. /\ task[p] \in TaskType /\ r \in Records
        /\ task[p].pc \in Checked /\ UNCHANGED world
    BY TaskFields DEF Verdict, Checked, PCs
  <1>2. PICK pc \in {"panicked", "failed", Handler(p, r)} :
          Become(p, [task[p] EXCEPT !.pc = pc,
                                    !.todo = IF pc = "exec" THEN Statements(r)
                                                            ELSE <<>>])
    BY DEF Verdict
  <1> DEFINE todo == IF pc = "exec" THEN Statements(r) ELSE <<>>
             s == [task[p] EXCEPT !.pc = pc, !.todo = todo]
  <1>3. todo \in Seq(OpType)
    BY <1>1, StatementsType
  <1>4. pc \in {"panicked", "failed", "done", "exec", "open", "walk", "scope"}
    BY <1>1, HandlerPlaces
  <1>5. /\ s \in TaskType /\ s.pc = pc /\ s.msg = r /\ s.todo = todo
        /\ s.put = task[p].put
    BY <1>1, <1>3, <1>4 DEF TaskType, PCs
  <1>6. /\ pc = "exec" => todo # <<>>
        /\ pc \in {"open", "write"} => FirstTime(p) /\ WritesFile(r)
        /\ pc \in ScopePCs => FirstTime(p) /\ ~NoScopeRequests
    BY <1>1, <1>4, HandlerPlaces DEF ScopePCs
  <1>7. Become(p, s)
    BY <1>2
  <1> HIDE DEF s, todo
  <1> QED
    BY <1>1, <1>4, <1>5, <1>6, <1>7, MoveWorks

LEMMA ExecStatementWorks ==
  ASSUME TypeOK, NEW p \in Procs, Admissible(p, task[p]), ExecStatement(p)
  PROVE  WorkStep(p)
  <1> DEFINE r == task[p].msg
             rest == Tail(task[p].todo)
             pc == IF rest # <<>> THEN "exec"
                   ELSE IF WritesFile(r) /\ FirstTime(p) THEN "open" ELSE "done"
             s == [task[p] EXCEPT !.todo = rest, !.pc = pc]
  <1>1. /\ task[p] \in TaskType /\ task[p].pc = "exec" /\ task[p].pc \in Checked
        /\ task[p].todo \in Seq(OpType) /\ task[p].todo # <<>>
    BY TaskFields DEF ExecStatement, Admissible, Checked, PCs
  <1>2. rest \in Seq(OpType) /\ Head(task[p].todo) \in OpType
    BY <1>1
  <1>3. /\ s \in TaskType /\ s.pc = pc /\ s.msg = r /\ s.todo = rest
        /\ s.put = task[p].put
    BY <1>1, <1>2 DEF TaskType, PCs
  <1>4. cache' \in CacheType /\ cache'.head = cache.head
    BY <1>2, ApplyType DEF ExecStatement, TypeOK
  <1>5. Become(p, s)
    BY DEF ExecStatement
  <1>6. /\ pc \in {"exec", "open", "done"}
        /\ pc = "exec" => rest # <<>>
        /\ pc = "open" => FirstTime(p) /\ WritesFile(r)
    OBVIOUS
  <1> HIDE DEF s, pc, rest
  <1>7. s.pc # "idle" /\ Admissible(p, s)
    BY <1>1, <1>3, <1>6 DEF Admissible
  <1> QED
    BY <1>1, <1>3, <1>4, <1>5, <1>7 DEF ExecStatement, WorkStep

LEMMA StatementFailsWorks ==
  ASSUME TypeOK, NEW p \in Procs, Admissible(p, task[p]), StatementFails(p)
  PROVE  WorkStep(p)
  <1> DEFINE s == [task[p] EXCEPT !.pc = "done", !.todo = <<>>]
             z == [task[p] EXCEPT !.pc = "zero"]
  <1>1. task[p] \in TaskType /\ task[p].pc \in Checked
    BY TaskFields DEF StatementFails, Checked, PCs
  <1>2. <<>> \in Seq(OpType)
    OBVIOUS
  <1>3. CASE Become(p, s)
    <2>1. /\ s \in TaskType /\ s.pc = "done" /\ s.msg = task[p].msg
          /\ s.put = task[p].put
      BY <1>1, <1>2 DEF TaskType, PCs
    <2> QED
      BY <1>1, <1>3, <2>1, MoveWorks DEF StatementFails, ScopePCs
  <1>4. CASE task[p].pc = "store" /\ Become(p, z)
    <2>1. /\ z \in TaskType /\ z.pc = "zero" /\ z.msg = task[p].msg
          /\ z.put = task[p].put
      BY <1>1 DEF TaskType, PCs
    <2>2. FirstTime(p) /\ ~NoScopeRequests
      BY <1>4 DEF Admissible
    <2> QED
      BY <1>1, <1>4, <2>1, <2>2, MoveWorks DEF StatementFails, ScopePCs
  <1> QED
    BY <1>3, <1>4 DEF StatementFails, Goto

LEMMA WriterFacts ==
  ASSUME TypeOK, NEW p \in Procs, Admissible(p, task[p]),
         task[p].pc \in {"open", "write"}
  PROVE  /\ task[p] \in TaskType /\ task[p].pc \in Checked
         /\ task[p].msg \in Records /\ task[p].put \in Records
         /\ FirstTime(p)
         /\ NoScopeRequests =>
              /\ task[p].put = task[p].msg /\ WritesFile(task[p].msg)
              /\ PreviousHashValid(task[p].msg, cache.head)
  BY TaskFields DEF Admissible, Checked, PCs, NoScopeRequests

LEMMA OpenFileWorks ==
  ASSUME TypeOK, NEW p \in Procs, Admissible(p, task[p]), OpenFile(p)
  PROVE  WorkStep(p)
  <1> DEFINE s == [task[p] EXCEPT !.pc = "write"]
  <1>1. /\ task[p] \in TaskType /\ task[p].pc = "open" /\ task[p].pc \in Checked
    BY WriterFacts DEF OpenFile
  <1>2. /\ s \in TaskType /\ s.pc = "write" /\ s.msg = task[p].msg
        /\ s.put = task[p].put
    BY <1>1 DEF TaskType, PCs
  <1>3. Admissible(p, s)
    BY <1>1, <1>2 DEF Admissible
  <1>4. SlotWrite(p)
    BY DEF OpenFile, SlotWrite
  <1> QED
    BY <1>1, <1>2, <1>3, <1>4 DEF OpenFile, Goto, WorkStep, TypeOK

LEMMA WriteFileWorks ==
  ASSUME TypeOK, NEW p \in Procs, Admissible(p, task[p]), WriteFile(p)
  PROVE  WorkStep(p)
  <1> DEFINE r == task[p].msg
  <1>1. /\ task[p] \in TaskType /\ task[p].pc = "write" /\ task[p].pc \in Checked
        /\ r \in Records /\ FirstTime(p)
    BY WriterFacts DEF WriteFile
  <1>2. SlotWrite(p) /\ UNCHANGED <<cache, phase, cursor, bootHead, settled, sealed>>
    BY DEF WriteFile, SlotWrite
  <1>3. \/ Goto(p, "done")
        \/ r.type = ScopeRequestType /\ Goto(p, "insert")
        \/ /\ r.type = ScopeRequestType \/ task[p].put.type = ScopeRequestType
           /\ \E c \in Records :
                Become(p, [task[p] EXCEPT !.pc = "open", !.put = c])
    BY DEF WriteFile
  <1>4. r.type = ScopeRequestType => ~NoScopeRequests
    BY <1>1 DEF NoScopeRequests
  <1>5. task[p].put.type = ScopeRequestType => r.type = ScopeRequestType
    BY <1>1 DEF Admissible
  <1>6. ASSUME NEW c \in {"done", "insert"}, Goto(p, c),
               c = "insert" => r.type = ScopeRequestType
        PROVE  WorkStep(p)
    <2> DEFINE s == [task[p] EXCEPT !.pc = c]
    <2>1. s \in TaskType /\ s.pc = c /\ s.msg = r /\ s.put = task[p].put
      BY <1>1 DEF TaskType, PCs
    <2>2. Admissible(p, s)
      BY <1>1, <1>4, <1>6, <2>1 DEF Admissible
    <2> QED
      BY <1>1, <1>2, <1>6, <2>1, <2>2 DEF Goto, WorkStep, TypeOK
  <1>7. ASSUME NEW c \in Records, r.type = ScopeRequestType,
               Become(p, [task[p] EXCEPT !.pc = "open", !.put = c])
        PROVE  WorkStep(p)
    <2> DEFINE s == [task[p] EXCEPT !.pc = "open", !.put = c]
    <2>1. s \in TaskType /\ s.pc = "open" /\ s.msg = r /\ s.put = c
      BY <1>1 DEF TaskType, PCs
    <2>2. Admissible(p, s)
      BY <1>1, <1>4, <1>7, <2>1 DEF Admissible
    <2> QED
      BY <1>1, <1>2, <1>7, <2>1, <2>2 DEF WorkStep, TypeOK
  <1> QED
    BY <1>3, <1>5, <1>6, <1>7

LEMMA WriteFailsWorks ==
  ASSUME TypeOK, NEW p \in Procs, Admissible(p, task[p]), WriteFails(p)
  PROVE  WorkStep(p)
  BY GotoWorks DEF WriteFails, PCs, Checked, ScopePCs

(* The steps of a scope request, which alone may reset the head row.       *)
LEMMA ScopeStepsWork ==
  ASSUME TypeOK, NEW p \in Procs, Admissible(p, task[p]),
         ScopeRequest(p) \/ InsertCreate(p) \/ StoreScope(p) \/ ZeroHead(p)
  PROVE  WorkStep(p)
  <1>1. /\ task[p].pc \in ScopePCs /\ task[p].pc \in Checked
        /\ task[p] \in TaskType /\ FirstTime(p) /\ ~NoScopeRequests
        /\ task[p].put \in Records
    BY TaskFields
    DEF ScopeRequest, InsertCreate, StoreScope, ZeroHead, Admissible, ScopePCs,
        Checked, PCs
  <1>2. PICK c \in {"open", "store", "zero", "done"} : Goto(p, c)
    BY DEF ScopeRequest, InsertCreate, StoreScope, ZeroHead
  <1> DEFINE s == [task[p] EXCEPT !.pc = c]
  <1>3. s \in TaskType /\ s.pc = c /\ s.msg = task[p].msg /\ s.put = task[p].put
    BY <1>1 DEF TaskType, PCs
  <1>4. Admissible(p, s)
    BY <1>1, <1>3 DEF Admissible
  <1>5. cache' \in CacheType
    <2>1. cache \in CacheType
      BY DEF TypeOK
    <2>2. CASE ScopeRequest(p)
      BY <2>1, <2>2 DEF ScopeRequest, world
    <2>3. CASE InsertCreate(p)
      <3>1. task[p].put.prev \in Slots
        BY <1>1, RecordFields
      <3> QED
        BY <2>1, <2>3, <3>1 DEF InsertCreate, CacheType
    <2>4. CASE StoreScope(p)
      BY <2>1, <2>4, ApplyType, OpTypes DEF StoreScope, OpNames
    <2>5. CASE ZeroHead(p)
      BY <2>1, <2>5 DEF ZeroHead, CacheType
    <2> QED
      BY <2>2, <2>3, <2>4, <2>5
  <1>6. UNCHANGED <<disk, phase, cursor, bootHead, settled, sealed>>
    BY DEF ScopeRequest, InsertCreate, StoreScope, ZeroHead, world
  <1> QED
    BY <1>1, <1>2, <1>3, <1>4, <1>5, <1>6 DEF Goto, WorkStep, Checked

(* What a slot holds, once it links, is a record.                          *)
LEMMA LinksRecord ==
  ASSUME TypeOK, NEW s \in Slots, Links(disk[s], s)
  PROVE  disk[s] \in Records /\ disk[s].hash \in Slots
  BY RecordFields DEF TypeOK, Links, Record

LEMMA WalkNextWorks ==
  ASSUME TypeOK, NEW p \in Procs, Admissible(p, task[p]), WalkNext(p)
  PROVE  WorkStep(p)
  <1> DEFINE f == disk[task[p].at]
             more == [task[p] EXCEPT !.found = Append(@, f), !.at = f.hash]
             stop == [task[p] EXCEPT !.pc = "done", !.found = <<>>]
  <1>1. /\ task[p] \in TaskType /\ task[p].pc = "walk"
        /\ task[p].pc \in Checked /\ UNCHANGED world
    BY TaskFields DEF WalkNext, Checked, PCs
  <1>2. ASSUME Links(f, task[p].at), Become(p, more)
        PROVE  WorkStep(p)
    <2>1. Append(task[p].found, f) \in Seq(Records) /\ f.hash \in Slots
      BY <1>2, TaskFields, LinksRecord
    <2>2. /\ more \in TaskType /\ more.pc = "walk" /\ more.msg = task[p].msg
          /\ more.put = task[p].put
      BY <1>1, <2>1 DEF TaskType
    <2> QED
      BY <1>1, <1>2, <2>2, MoveWorks DEF ScopePCs
  <1>3. ASSUME Become(p, stop)
        PROVE  WorkStep(p)
    <2>1. <<>> \in Seq(Records)
      OBVIOUS
    <2>2. /\ stop \in TaskType /\ stop.pc = "done" /\ stop.msg = task[p].msg
          /\ stop.put = task[p].put
      BY <1>1, <2>1 DEF TaskType, PCs
    <2> QED
      BY <1>1, <1>3, <2>2, MoveWorks DEF ScopePCs
  <1> QED
    BY <1>2, <1>3 DEF WalkNext

LEMMA WalkEndsWorks ==
  ASSUME TypeOK, NEW p \in Procs, Admissible(p, task[p]), WalkEnds(p)
  PROVE  WorkStep(p)
  <1> DEFINE found == task[p].found
             last == found[Len(found)]
             reply == IF task[p].msg.type = <<"request", "head">>
                      THEN <<last>> ELSE found
             s == [task[p] EXCEPT !.pc = "done", !.out = @ \o reply]
  <1>1. /\ task[p] \in TaskType /\ task[p].pc \in Checked /\ UNCHANGED world
    BY TaskFields DEF WalkEnds, Checked, PCs
  <1>2. Goto(p, "panicked") \/ Become(p, s)
    BY DEF WalkEnds
  <1>3. CASE Goto(p, "panicked")
    BY <1>1, <1>3, GotoWorks DEF PCs, ScopePCs
  <1>4. CASE Become(p, s)
    <2>1. found \in Seq(Records) /\ found # <<>> /\ task[p].out \in Seq(RhexType)
      BY TaskFields DEF WalkEnds
    <2>2. last \in Records /\ found \in Seq(RhexType)
      BY <2>1, ConstantsAssumption
    <2>3. reply \in Seq(RhexType)
      BY <2>2, RecordFields
    <2>4. task[p].out \o reply \in Seq(RhexType)
      BY <2>1, <2>3
    <2> HIDE DEF reply
    <2>5. /\ s \in TaskType /\ s.pc = "done" /\ s.msg = task[p].msg
          /\ s.put = task[p].put
      BY <1>1, <2>4 DEF TaskType, PCs
    <2> QED
      BY <1>1, <1>4, <2>5, MoveWorks DEF ScopePCs
  <1> QED
    BY <1>2, <1>3, <1>4

LEMMA ProcessWorks ==
  ASSUME TypeOK, NEW p \in Procs, Admissible(p, task[p]), Process(p)
  PROVE  WorkStep(p)
  BY ReadHeadWorks, ReadPolicyWorks, ReadRulesWorks, CheckContextWorks,
     CheckSignaturesWorks, ReadQuorumRulesWorks, ReadAuthoritiesWorks,
     ReadFailsWorks, VerdictWorks, ExecStatementWorks, StatementFailsWorks, OpenFileWorks,
     WriteFileWorks, WriteFailsWorks, ScopeStepsWork, WalkNextWorks,
     WalkEndsWorks
  DEF Process

-----------------------------------------------------------------------------
(* Every step keeps the inductive invariant.                               *)

LEMMA Replaced ==
  ASSUME TypeOK, NEW p \in Procs, NEW s \in TaskType, Become(p, s),
         s.msg = NoMsg <=> s.pc = "idle"
  PROVE  /\ task' \in [Procs -> TaskType]
         /\ \A q \in Procs : task'[q].msg = NoMsg <=> task'[q].pc = "idle"
         /\ task'[p] = s
         /\ \A q \in Procs \ {p} : task'[q] = task[q]
  BY DEF TypeOK, Become

LEMMA WhoseTurn ==
  ASSUME Turns, NEW p \in Procs, task[p].pc # "idle",
         phase \in {"down", "boot", "up"}
  PROVE  (phase = "up" /\ p \in Tasks) \/ (phase = "boot" /\ p = Boot)
  BY ConstantsAssumption DEF Turns, Procs

(* A record that its handler writes to a file is written next to the head. *)
LEMMA WriterSlot ==
  ASSUME NEW r, NEW h, WritesFile(r), PreviousHashValid(r, h)
  PROVE  r.prev = h
  <1>1. r.type # GenesisType /\ r.type[1] # "request"
    BY DEF WritesFile, GenesisType, PolicySetType
  <1> QED
    BY <1>1 DEF PreviousHashValid

(* The hazard: no live write hits the file of a record that was loaded.    *)
LEMMA WriteMisses ==
  ASSUME IInv, NoScopeRequests,
         NEW p \in Procs, task[p].pc \in {"open", "write"},
         NEW i \in DOMAIN settled, settled[i].hash # NoHash
  PROVE  settled[i].prev # task[p].put.prev
  <1>1. /\ FirstTime(p) /\ WritesFile(task[p].msg)
        /\ task[p].put = task[p].msg
        /\ PreviousHashValid(task[p].msg, cache.head)
    BY WriterFacts DEF IInv, Admitted
  <1>2. task[p].put.prev = cache.head
    BY <1>1, WriterSlot
  <1>3. phase = "up"
    BY <1>1, WhoseTurn DEF IInv, TypeOK, FirstTime
  <1>4. settled[i] \in Records
    BY DEF IInv, TypeOK
  <1>5. /\ settled[i].prev \in Slots /\ settled[i].hash \in Slots
        /\ Depth[settled[i].prev] < Depth[settled[i].hash]
    BY <1>4, RecordFields, AcyclicAssumption
  <1>6. cache.head \in Slots /\ Depth[settled[i].hash] <= Depth[cache.head]
    BY <1>3 DEF IInv, HeadBound
  <1>7. /\ Depth[settled[i].prev] \in Nat /\ Depth[settled[i].hash] \in Nat
        /\ Depth[cache.head] \in Nat
    BY <1>5, <1>6, AcyclicAssumption
  <1> QED
    BY <1>2, <1>5, <1>6, <1>7

LEMMA WorkPreserves ==
  ASSUME IInv, NEW p \in Procs, WorkStep(p)
  PROVE  IInv'
  <1> USE DEF IInv
  <1>1. PICK s \in TaskType :
          /\ Become(p, s)
          /\ s.pc # "idle" /\ s.msg = task[p].msg
          /\ Admissible(p, s)
    BY DEF WorkStep
  <1>2. /\ task[p].pc # "idle" /\ task[p].msg \in Records
        /\ cache' \in CacheType
        /\ cache'.head = cache.head \/ (FirstTime(p) /\ ~NoScopeRequests)
        /\ disk' = disk \/ SlotWrite(p)
        /\ UNCHANGED <<phase, cursor, bootHead, settled, sealed>>
    BY TaskFields DEF WorkStep
  <1>3. /\ task' \in [Procs -> TaskType]
        /\ \A q \in Procs : task'[q].msg = NoMsg <=> task'[q].pc = "idle"
        /\ task'[p] = s
        /\ \A q \in Procs \ {p} : task'[q] = task[q]
    BY <1>1, <1>2, Replaced, RecordFields
  <1>4. (phase = "up" /\ p \in Tasks) \/ (phase = "boot" /\ p = Boot)
    BY <1>2, WhoseTurn DEF TypeOK
  <1>5. SlotWrite(p) => /\ task[p].put \in Records /\ task[p].put.prev \in Slots
                        /\ FirstTime(p)
    BY WriterFacts, RecordFields DEF SlotWrite, Admitted
  <1>6. disk' \in [Slots -> Records \cup {NoFile, Torn}]
    BY <1>2, <1>5 DEF TypeOK, SlotWrite
  <1>7. TypeOK'
    BY <1>2, <1>3, <1>6 DEF TypeOK
  <1>8. Turns'
    BY <1>2, <1>3, <1>4, ConstantsAssumption DEF Turns, Procs
  <1>9. Admitted'
    <2>1. Admissible(p, task[p])'
      BY <1>1, <1>2, <1>3 DEF Admissible, PreviousHashValid
    <2>2. \A q \in Procs \ {p} : Admissible(q, task[q])'
      BY <1>2, <1>3 DEF Admitted, Admissible, PreviousHashValid
    <2> QED
      BY <2>1, <2>2 DEF Admitted
  <1>10. DirSlots'
    BY <1>2, <1>5, ConstantsAssumption DEF DirSlots, SlotWrite, TypeOK
  <1>11. NoScopeRequests => SettledOnDisk'
    <2> SUFFICES ASSUME NoScopeRequests,
                        NEW i \in DOMAIN settled, settled[i].hash # NoHash
                 PROVE  disk'[settled[i].prev] = settled[i]
      BY <1>2 DEF SettledOnDisk
    <2>1. disk[settled[i].prev] = settled[i]
      BY DEF SettledOnDisk
    <2>2. CASE disk' = disk
      BY <2>1, <2>2
    <2>3. CASE SlotWrite(p)
      <3>1. settled[i].prev # task[p].put.prev
        BY <2>3, WriteMisses DEF SlotWrite
      <3> QED
        BY <2>1, <2>3, <3>1 DEF SlotWrite, TypeOK
    <2> QED
      BY <1>2, <2>2, <2>3
  <1>12. NoScopeRequests => HeadBound'
    BY <1>2 DEF HeadBound
  <1>13. BootLocals'
    <2> SUFFICES ASSUME phase = "boot"
                 PROVE  BootLocals'
      BY <1>2 DEF BootLocals
    <2>1. p = Boot /\ ~FirstTime(p)
      BY <1>4, ConstantsAssumption DEF FirstTime, Turns
    <2>2. disk' = disk /\ cache'.head = cache.head
      BY <1>2, <1>5, <2>1
    <2>3. task'[Boot].pc # "idle" /\ task'[Boot].msg = task[Boot].msg
      BY <1>1, <1>3, <2>1
    <2> QED
      BY <1>2, <2>1, <2>2, <2>3 DEF BootLocals, BootDuring
  <1> QED
    BY <1>7, <1>8, <1>9, <1>10, <1>11, <1>12, <1>13 DEF NoScopeRequests

LEMMA InitInvariant == Init => IInv
  <1> SUFFICES ASSUME Init PROVE IInv
    OBVIOUS
  <1> USE DEF Init
  <1>1. EmptyCache \in CacheType
    BY DEF EmptyCache, CacheType
  <1>2. /\ task \in [Procs -> TaskType]
        /\ \A p \in Procs : task[p].pc = "idle" /\ task[p].msg = NoMsg
    BY TaskTypes
  <1>3. <<>> \in Seq(Records) /\ DOMAIN settled = {}
    OBVIOUS
  <1>4. TypeOK
    BY <1>1, <1>2, <1>3, DiskAssumption DEF TypeOK, Slots
  <1>5. Turns /\ Admitted
    BY <1>2 DEF Turns, Admitted, Admissible, Checked, PCs, Procs
  <1>6. DirSlots /\ SettledOnDisk /\ HeadBound /\ BootLocals
    BY <1>3, DiskAssumption DEF DirSlots, SettledOnDisk, HeadBound, BootLocals
  <1> QED
    BY <1>4, <1>5, <1>6 DEF IInv, NoScopeRequests

(* A connection takes a message, answers it, or hangs up.                  *)
LEMMA ConnectionPreserves ==
  ASSUME IInv, NEW t \in Tasks, Receive(t) \/ Reply(t) \/ HangUp(t)
  PROVE  IInv'
  <1> USE DEF IInv
  <1>1. t \in Procs /\ t # Boot
    BY ConstantsAssumption DEF Procs
  <1>2. PICK s \in TaskType :
          /\ Become(t, s)
          /\ s.msg = NoMsg <=> s.pc = "idle"
          /\ s.pc \in {"idle", "head"}
          /\ s.pc = "head" => phase = "up" /\ s.put = s.msg
    <2>1. CASE Receive(t)
      BY <2>1, TaskTypes, RecordFields DEF Receive
    <2>2. CASE Reply(t) \/ HangUp(t)
      BY <2>2, TaskTypes DEF Reply, HangUp
    <2> QED
      BY <2>1, <2>2
  <1>3. UNCHANGED world
    BY DEF Receive, Reply, HangUp
  <1>4. /\ task' \in [Procs -> TaskType]
        /\ \A q \in Procs : task'[q].msg = NoMsg <=> task'[q].pc = "idle"
        /\ task'[t] = s
        /\ \A q \in Procs \ {t} : task'[q] = task[q]
    BY <1>1, <1>2, Replaced
  <1>5. TypeOK'
    BY <1>3, <1>4 DEF TypeOK, world
  <1>6. Turns'
    BY <1>1, <1>2, <1>3, <1>4 DEF Turns, world, Procs
  <1>7. Admitted'
    BY <1>2, <1>3, <1>4
    DEF Admitted, Admissible, Checked, PreviousHashValid, world
  <1>8. DirSlots' /\ (NoScopeRequests => SettledOnDisk' /\ HeadBound')
    BY <1>3 DEF DirSlots, SettledOnDisk, HeadBound, world
  <1>9. task'[Boot] = task[Boot]
    BY <1>1, <1>4 DEF Procs
  <1>10. BootLocals'
    BY <1>3, <1>9 DEF BootLocals, BootBetween, BootDuring, world
  <1> QED
    BY <1>5, <1>6, <1>7, <1>8, <1>10 DEF NoScopeRequests

LEMMA BootStartPreserves ==
  ASSUME IInv, BootStart
  PROVE  IInv'
  <1> USE DEF IInv, BootStart
  <1>1. \A p \in Procs : task[p].pc = "idle"
    BY DEF Turns
  <1>2. /\ cache' \in CacheType /\ cache'.head \in {Zero, NoRow}
        /\ phase' = "boot" => cache'.head = Zero
    <2> DEFINE c == [EmptyCache EXCEPT !.head = Zero, !.rules = {GenesisRule}]
    <2>1. EmptyCache \in CacheType /\ EmptyCache.head = NoRow
      BY DEF EmptyCache, CacheType
    <2>2. {GenesisRule} \in SUBSET RuleType
      BY RuleTypes
    <2>3. c \in CacheType /\ c.head = Zero
      BY <2>1, <2>2 DEF CacheType
    <2>4. \/ phase' = "boot" /\ cache' = c
          \/ phase' = "up" /\ cache' = EmptyCache
      OBVIOUS
    <2> QED
      BY <2>1, <2>3, <2>4
  <1>3. settled' \in Seq(Records) /\ DOMAIN settled' = {}
    OBVIOUS
  <1>4. TypeOK'
    BY <1>2, <1>3 DEF TypeOK, Slots
  <1>5. Turns' /\ Admitted'
    BY <1>1 DEF Turns, Admitted, Admissible, Checked, PCs, Procs
  <1>6. DirSlots' /\ SettledOnDisk' /\ HeadBound'
    BY <1>3 DEF DirSlots, SettledOnDisk, HeadBound
  <1>7. BootLocals'
    BY <1>1, <1>2 DEF BootLocals, BootBetween, Procs
  <1> QED
    BY <1>4, <1>5, <1>6, <1>7 DEF NoScopeRequests

LEMMA BootLoadPreserves ==
  ASSUME IInv, BootLoad
  PROVE  IInv'
  <1> USE DEF IInv
  <1> DEFINE f == disk[cursor]
  <1>1. /\ phase = "boot" /\ task[Boot].pc = "idle" /\ Boot \in Procs
        /\ Links(f, cursor) /\ ~BootDone
    BY DEF BootLoad, BootReady, Procs
  <1>2. f \in Records /\ f.hash \in Slots /\ f.hash \in Hashes \cup {NoHash}
    BY <1>1, LinksRecord, RecordFields DEF TypeOK
  <1>3. f.prev = cursor
    BY <1>2 DEF DirSlots, TypeOK
  <1>4. BootBetween
    BY <1>1 DEF BootLocals
  <1>5. settled # <<>> => cursor = cache.head
    BY <1>1, <1>4 DEF BootBetween, BootDone
  <1>6. /\ Become(Boot, Started(f)) /\ cursor' = f.hash
        /\ bootHead' = IF f.hash # NoHash THEN f.hash ELSE bootHead
        /\ UNCHANGED <<disk, cache, phase, settled, sealed>>
    BY DEF BootLoad
  <1>7. /\ Started(f) \in TaskType /\ Started(f).pc = "head"
        /\ Started(f).msg = f /\ f # NoMsg
    BY <1>2, TaskTypes, RecordFields
  <1>8. /\ task' \in [Procs -> TaskType]
        /\ \A q \in Procs : task'[q].msg = NoMsg <=> task'[q].pc = "idle"
        /\ task'[Boot] = Started(f)
        /\ \A q \in Procs \ {Boot} : task'[q] = task[q]
    BY <1>1, <1>6, <1>7, Replaced
  <1>9. TypeOK'
    BY <1>2, <1>6, <1>8 DEF TypeOK
  <1>10. Turns'
    BY <1>1, <1>6, <1>8, ConstantsAssumption DEF Turns, Procs
  <1>11. Admitted'
    <2>1. Started(f).put = Started(f).msg
      BY <1>2, <1>7, TaskTypes
    <2>2. Admissible(Boot, task[Boot])'
      BY <1>7, <1>8, <2>1 DEF Admissible, Checked
    <2>3. \A q \in Procs \ {Boot} : Admissible(q, task[q])'
      BY <1>6, <1>8 DEF Admitted, Admissible, PreviousHashValid
    <2> QED
      BY <1>8, <2>2, <2>3 DEF Admitted
  <1>12. DirSlots' /\ (NoScopeRequests => SettledOnDisk' /\ HeadBound')
    BY <1>6 DEF DirSlots, SettledOnDisk, HeadBound
  <1>13. BootDuring'
    BY <1>3, <1>4, <1>5, <1>6, <1>7, <1>8 DEF BootDuring, BootBetween
  <1>14. BootLocals'
    BY <1>7, <1>8, <1>13 DEF BootLocals
  <1> QED
    BY <1>9, <1>10, <1>11, <1>12, <1>14 DEF NoScopeRequests

(* The head row moves to the record that was loaded, or stays where it is  *)
(* when that record carries no hash: never below an earlier one.           *)
LEMMA BootSettlePreserves ==
  ASSUME IInv, BootSettle
  PROVE  IInv'
  <1> USE DEF IInv
  <1> DEFINE r == task[Boot].msg
  <1>1. /\ phase = "boot" /\ task[Boot].pc = "done" /\ Boot \in Procs
        /\ cache' = [cache EXCEPT !.head = bootHead]
        /\ settled' = Append(settled, r) /\ Become(Boot, Idle)
        /\ UNCHANGED <<disk, phase, cursor, bootHead, sealed>>
    BY DEF BootSettle, Procs
  <1>2. r \in Records /\ r.prev \in Slots /\ r.hash \in Slots
    BY <1>1, TaskFields, RecordFields
  <1>3. BootDuring
    BY <1>1 DEF BootLocals
  <1>4. /\ bootHead \in Slots /\ cache' \in CacheType /\ cache'.head = bootHead
    BY <1>1 DEF TypeOK, CacheType, Slots
  <1>5. /\ settled' \in Seq(Records) /\ settled' # <<>>
        /\ \A i \in DOMAIN settled' :
             \/ i \in DOMAIN settled /\ settled'[i] = settled[i]
             \/ settled'[i] = r
    BY <1>1, <1>2 DEF TypeOK
  <1>6. /\ task' \in [Procs -> TaskType]
        /\ \A q \in Procs : task'[q].msg = NoMsg <=> task'[q].pc = "idle"
        /\ task'[Boot] = Idle
        /\ \A q \in Procs \ {Boot} : task'[q] = task[q]
    BY <1>1, TaskTypes, Replaced
  <1>7. TypeOK'
    BY <1>1, <1>4, <1>5, <1>6 DEF TypeOK
  <1>8. Turns'
    BY <1>1, <1>6, ConstantsAssumption DEF Turns, Procs
  <1>9. \A q \in Procs : task'[q].pc = "idle"
    BY <1>1, <1>6, TaskTypes DEF Turns, Procs
  <1>10. Admitted'
    BY <1>9 DEF Admitted, Admissible, Checked
  <1>11. DirSlots'
    BY <1>1 DEF DirSlots
  <1>12. NoScopeRequests => SettledOnDisk'
    BY <1>1, <1>3, <1>5 DEF SettledOnDisk, BootDuring
  <1>13. NoScopeRequests => HeadBound'
    <2> SUFFICES ASSUME NoScopeRequests,
                        NEW i \in DOMAIN settled', settled'[i].hash # NoHash
                 PROVE  Depth[settled'[i].hash] <= Depth[bootHead]
      BY <1>4 DEF HeadBound
    <2>1. CASE settled'[i] = r
      <3>1. bootHead = r.hash /\ Depth[r.hash] \in Nat
        BY <1>2, <1>3, <2>1, AcyclicAssumption DEF BootDuring
      <3> QED
        BY <2>1, <3>1
    <2>2. CASE i \in DOMAIN settled /\ settled'[i] = settled[i]
      <3>1. /\ settled[i] \in Records /\ settled[i].hash \in Slots
            /\ settled # <<>>
        BY <2>2, RecordFields DEF TypeOK
      <3>2. cache.head \in Slots /\ Depth[settled[i].hash] <= Depth[cache.head]
        BY <1>1, <2>2 DEF HeadBound
      <3>3. /\ Depth[settled[i].hash] \in Nat /\ Depth[cache.head] \in Nat
            /\ Depth[bootHead] \in Nat
        BY <1>4, <3>1, <3>2, AcyclicAssumption
      <3>4. Depth[cache.head] <= Depth[bootHead]
        <4>1. CASE r.hash # NoHash
          BY <1>2, <1>3, <3>1, <3>3, <4>1, AcyclicAssumption DEF BootDuring
        <4>2. CASE r.hash = NoHash
          BY <1>3, <3>3, <4>2 DEF BootDuring
        <4> QED
          BY <4>1, <4>2
      <3> QED
        BY <2>2, <3>2, <3>3, <3>4
    <2> QED
      BY <1>5, <2>1, <2>2
  <1>14. BootLocals'
    BY <1>1, <1>3, <1>4, <1>5, <1>6, <1>9
    DEF BootLocals, BootBetween, BootDuring
  <1> QED
    BY <1>7, <1>8, <1>10, <1>11, <1>12, <1>13, <1>14 DEF NoScopeRequests

LEMMA SealedType ==
  ASSUME TypeOK
  PROVE  Finalized(settled) \in Seq(Records)
  <1>1. SubSeq(settled, 1, Len(settled) - 1) \in Seq(Records)
    BY DEF TypeOK
  <1> QED
    BY <1>1 DEF TypeOK, Finalized

(* Bootstrap ends, well or in a panic, or the program is killed.           *)
LEMMA StopPreserves ==
  ASSUME IInv, BootEnd \/ BootPanic \/ Crash
  PROVE  IInv'
  <1> USE DEF IInv
  <1>1. /\ task' \in [Procs -> TaskType]
        /\ \A q \in Procs : task'[q].msg = NoMsg <=> task'[q].pc = "idle"
        /\ \A q \in Procs : task'[q].pc = "idle"
    <2>1. CASE Crash
      BY <2>1, TaskTypes DEF Crash
    <2>2. CASE BootEnd \/ BootPanic
      <3>1. Become(Boot, Idle) /\ Boot \in Procs /\ phase = "boot"
        BY <2>2 DEF BootEnd, BootPanic, Procs
      <3>2. \A q \in Procs \ {Boot} : task[q].pc = "idle"
        BY <3>1 DEF Turns, Procs
      <3>3. /\ task' \in [Procs -> TaskType]
            /\ \A q \in Procs : task'[q].msg = NoMsg <=> task'[q].pc = "idle"
            /\ task'[Boot] = Idle
            /\ \A q \in Procs \ {Boot} : task'[q] = task[q]
        BY <3>1, TaskTypes, Replaced
      <3> QED
        BY <3>2, <3>3, TaskTypes
    <2> QED
      BY <2>1, <2>2
  <1>2. /\ phase' \in {"up", "down"} /\ sealed' \in Seq(Records)
        /\ UNCHANGED <<disk, cache, cursor, bootHead, settled>>
    BY SealedType DEF BootEnd, BootPanic, Crash, TypeOK
  <1>3. TypeOK'
    BY <1>1, <1>2 DEF TypeOK
  <1>4. Turns' /\ Admitted'
    BY <1>1, <1>2 DEF Turns, Admitted, Admissible, Checked, Procs
  <1>5. DirSlots' /\ (NoScopeRequests => SettledOnDisk')
    BY <1>2 DEF DirSlots, SettledOnDisk
  <1>6. NoScopeRequests => HeadBound'
    BY <1>2 DEF HeadBound, BootEnd, BootPanic, Crash
  <1>7. BootLocals'
    BY <1>2 DEF BootLocals
  <1> QED
    BY <1>3, <1>4, <1>5, <1>6, <1>7 DEF NoScopeRequests

LEMMA StepInvariant == IInv /\ [Next]_vars => IInv'
  <1> SUFFICES ASSUME IInv, [Next]_vars PROVE IInv'
    OBVIOUS
  <1>1. ASSUME NEW p \in Procs, Process(p) PROVE IInv'
    BY <1>1, ProcessWorks, WorkPreserves DEF IInv, Admitted
  <1>2. CASE BootStart
    BY <1>2, BootStartPreserves
  <1>3. CASE BootStep
    BY <1>3, BootLoadPreserves, BootSettlePreserves, StopPreserves DEF BootStep
  <1>4. CASE Crash
    BY <1>4, StopPreserves
  <1>5. ASSUME NEW t \in Tasks, Receive(t) \/ TaskStep(t) PROVE IInv'
    BY <1>1, <1>5, ConnectionPreserves DEF TaskStep, Procs
  <1>6. CASE UNCHANGED vars
    BY <1>6
    DEF IInv, vars, TypeOK, Turns, Admitted, Admissible, PreviousHashValid,
        NoScopeRequests, DirSlots, SettledOnDisk, HeadBound, BootLocals,
        BootBetween, BootDuring
  <1> QED
    BY <1>1, <1>2, <1>3, <1>4, <1>5, <1>6 DEF Next, Procs

THEOREM InductiveInvariant == Spec => []IInv
  BY InitInvariant, StepInvariant, PTL DEF Spec

(* Types are kept, and a process holds a message exactly while at work.    *)
THEOREM TypeCorrect == Spec => []TypeOK
  BY InductiveInvariant, PTL DEF IInv

(* Whatever any number of connections send while the daemon is up, every   *)
(* finalized record that bootstrap loaded stays in its file, as long as no *)
(* scope:request is among what they send: StoreScope and ZeroHead would    *)
(* move the head row back to where the next append meets a loaded record.  *)
THEOREM SettledStays ==
  ASSUME NoScopeRequests
  PROVE  Spec => []SettledOnDisk
  <1>1. IInv => SettledOnDisk
    BY DEF IInv
  <1> QED
    BY <1>1, InductiveInvariant, PTL
=============================================================================
