------------------------ MODULE UsherDirectoryProofs ------------------------
(***************************************************************************)
(* What readers of the directory see, and what the directory comes to      *)
(* hold, for any records, hashes, keys and connections, as long as no      *)
(* record is a scope:request.                                              *)
(*                                                                         *)
(* A reader opens one file after another while other connections write.    *)
(* The sealed files do not move under it, so its reply holds them all.     *)
(* In a directory that started with genesis.rhex alone the writes have     *)
(* only one place to go, the slot after the sealed records; from there a   *)
(* restart takes at most one record.  That is SlotLedger.                  *)
(***************************************************************************)
EXTENDS UsherRestartProofs

-----------------------------------------------------------------------------
(* Readers.                                                                *)

(* A walk is at the file after the records it found; these are linked and  *)
(* agree with the sealed ones, and a walk that is over has them all.       *)
WalkPlace(s, log) ==
  /\ s.pc \notin {"walk", "done", "panicked"} => s.found = <<>>
  /\ s.pc \notin {"done", "panicked"} => s.at = NextSlot(s.found)
  /\ \A i \in 2 .. Len(s.found) : s.found[i].prev = s.found[i - 1].hash
  /\ \A i \in 1 .. Len(s.found) : i <= Len(log) => s.found[i] = log[i]
  /\ s.pc = "done" /\ s.found # <<>> => Len(log) <= Len(s.found)

Walks == \A p \in Procs : WalkPlace(task[p], sealed)

LEMMA WalkNotBegun ==
  ASSUME NEW s, NEW log, s.found = <<>>, s.at = NoHash
  PROVE  WalkPlace(s, log)
  <1>1. Len(<<>>) = 0 /\ 1 .. 0 = {} /\ 2 .. 0 = {}
    OBVIOUS
  <1> QED
    BY <1>1 DEF WalkPlace, NextSlot

(* Every step of the processor but the two of a walk happens before one.   *)
LEMMA StepBeforeWalk ==
  ASSUME TypeOK, NEW p \in Procs, Process(p), ~WalkNext(p), ~WalkEnds(p)
  PROVE  /\ task[p].pc \notin {"idle", "walk", "done", "panicked"}
         /\ task'[p].found = task[p].found /\ task'[p].at = task[p].at
  <1>1. /\ task[p] \in TaskType
        /\ \A s : Become(p, s) => task'[p] = s
    BY TaskFields DEF TypeOK, Become
  <1> DEFINE Same == /\ task[p].pc \notin {"idle", "walk", "done", "panicked"}
                     /\ task'[p].found = task[p].found
                     /\ task'[p].at = task[p].at
  <1>2. ASSUME NEW pc, Goto(p, pc) \/ Flag(p, pc)
        PROVE  task'[p].found = task[p].found /\ task'[p].at = task[p].at
    <2>1. \/ task'[p] = [task[p] EXCEPT !.pc = pc]
          \/ task'[p] = [task[p] EXCEPT !.pc = pc, !.bad = TRUE]
      BY <1>1, <1>2 DEF Goto, Flag
    <2> QED
      BY <1>1, <2>1 DEF TaskType
  <1>3. CASE \/ ReadHead(p) \/ ReadPolicy(p) \/ ReadRules(p) \/ CheckContext(p)
             \/ ReadAuthorities(p)
    BY <1>2, <1>3
    DEF ReadHead, ReadPolicy, ReadRules, CheckContext, ReadAuthorities
  <1>4. CASE CheckSignatures(p)
    BY <1>1, <1>2, <1>4 DEF CheckSignatures, TaskType
  <1>5. CASE ReadQuorumRules(p)
    BY <1>1, <1>2, <1>5 DEF ReadQuorumRules, TaskType
  <1>6. CASE Verdict(p) \/ ReadFails(p)
    BY <1>1, <1>2, <1>6 DEF Verdict, ReadFails, TaskType
  <1>7. CASE ExecStatement(p) \/ StatementFails(p)
    BY <1>1, <1>2, <1>7 DEF ExecStatement, StatementFails, TaskType
  <1>8. CASE OpenFile(p) \/ WriteFails(p)
    BY <1>2, <1>8 DEF OpenFile, WriteFails
  <1>9. CASE WriteFile(p)
    BY <1>1, <1>2, <1>9 DEF WriteFile, TaskType
  <1>10. CASE ScopeRequest(p) \/ InsertCreate(p) \/ StoreScope(p) \/ ZeroHead(p)
    BY <1>2, <1>10 DEF ScopeRequest, InsertCreate, StoreScope, ZeroHead
  <1> QED
    BY <1>3, <1>4, <1>5, <1>6, <1>7, <1>8, <1>9, <1>10 DEF Process

(* The file after i sealed records is the next sealed one.                 *)
LEMMA SealedAt ==
  ASSUME IInv, RInv, NEW i \in Nat, i < Len(sealed), NEW slot,
         slot = IF i = 0 THEN NoHash ELSE sealed[i].hash
  PROVE  /\ sealed[i + 1] \in Records /\ disk[slot] = sealed[i + 1]
         /\ i # 0 => sealed[i].hash # NoHash
  <1>1. sealed \in Seq(Records) /\ i + 1 \in 1 .. Len(sealed)
    BY DEF IInv, TypeOK
  <1>2. i # 0 => i \in 1 .. Len(sealed)
    BY <1>1
  <1>3. (i + 1) - 1 = i /\ (i + 1 = 1 <=> i = 0)
    OBVIOUS
  <1> QED
    BY <1>1, <1>2, <1>3 DEF RInv, SealedFiles, Linked

LEMMA WalkNextPlaced ==
  ASSUME IInv, RInv, NEW p \in Procs, WalkPlace(task[p], sealed), WalkNext(p)
  PROVE  WalkPlace(task'[p], sealed)
  <1> DEFINE found == task[p].found
             f == disk[task[p].at]
             new == Append(found, f)
             n == Len(found)
             more == [task[p] EXCEPT !.found = Append(@, f), !.at = f.hash]
             stop == [task[p] EXCEPT !.pc = "done", !.found = <<>>]
  <1>1. /\ task[p] \in TaskType /\ found \in Seq(Records) /\ n \in Nat
        /\ \A s : Become(p, s) => task'[p] = s
        /\ task[p].pc = "walk" /\ ~Walked(found)
        /\ sealed \in Seq(Records) /\ Len(sealed) \in Nat
    BY TaskFields DEF IInv, TypeOK, Become, WalkNext
  <1>2. CASE Become(p, stop)
    <2>1. task'[p].found = <<>> /\ task'[p].pc = "done"
      BY <1>1, <1>2 DEF TaskType
    <2>2. Len(<<>>) = 0 /\ 1 .. 0 = {} /\ 2 .. 0 = {}
      OBVIOUS
    <2> QED
      BY <2>1, <2>2 DEF WalkPlace
  <1>3. CASE Links(f, task[p].at) /\ Become(p, more)
    <2>1. f \in Records
      BY <1>3, LinksRecord, TaskFields DEF IInv
    <2>2. /\ task'[p].found = new /\ task'[p].at = f.hash
          /\ task'[p].pc = "walk"
      BY <1>1, <1>3 DEF TaskType
    <2>3. /\ new \in Seq(Records) /\ Len(new) = n + 1 /\ new[n + 1] = f
          /\ \A i \in 1 .. n : new[i] = found[i]
          /\ (found = <<>> <=> n = 0) /\ new # <<>>
      BY <1>1, <2>1
    <2>4. NextSlot(new) = f.hash
      BY <2>3 DEF NextSlot
    <2>5. task[p].at = IF n = 0 THEN NoHash ELSE found[n].hash
      BY <1>1, <2>3 DEF WalkPlace, NextSlot
    <2>6. n # 0 => f.prev = found[n].hash
      BY <1>1, <1>3, <2>3, <2>5 DEF Walked, Links
    <2> HIDE DEF new, n
    <2>7. ASSUME NEW i \in 2 .. n + 1 PROVE new[i].prev = new[i - 1].hash
      <3>1. CASE i = n + 1
        <4>1. i - 1 = n /\ n \in 1 .. n /\ n # 0
          BY <1>1, <3>1
        <4> QED
          BY <2>3, <2>6, <3>1, <4>1
      <3>2. CASE i # n + 1
        <4>1. i \in 2 .. n /\ i \in 1 .. n /\ i - 1 \in 1 .. n
          BY <1>1, <3>2
        <4> QED
          BY <2>3, <4>1 DEF WalkPlace, n
      <3> QED
        BY <3>1, <3>2
    <2>8. ASSUME NEW i \in 1 .. n + 1, i <= Len(sealed) PROVE new[i] = sealed[i]
      <3>1. CASE i = n + 1
        <4>1. n < Len(sealed) /\ (n # 0 => n \in 1 .. n /\ n <= Len(sealed))
          BY <1>1, <2>8, <3>1
        <4>2. n # 0 => found[n] = sealed[n]
          BY <4>1 DEF WalkPlace, n
        <4>3. f = sealed[n + 1]
          BY <1>1, <2>5, <4>1, <4>2, SealedAt
        <4> QED
          BY <2>3, <3>1, <4>3
      <3>2. CASE i # n + 1
        <4>1. i \in 1 .. n
          BY <1>1, <3>2
        <4> QED
          BY <2>3, <2>8, <4>1 DEF WalkPlace, n
      <3> QED
        BY <3>1, <3>2
    <2> QED
      BY <2>2, <2>3, <2>4, <2>7, <2>8 DEF WalkPlace
  <1> QED
    BY <1>2, <1>3 DEF WalkNext

LEMMA WalkEndsPlaced ==
  ASSUME IInv, RInv, NEW p \in Procs, WalkPlace(task[p], sealed), WalkEnds(p)
  PROVE  WalkPlace(task'[p], sealed)
  <1> DEFINE found == task[p].found
             n == Len(found)
  <1>1. /\ task[p] \in TaskType /\ found \in Seq(Records) /\ n \in Nat
        /\ \A s : Become(p, s) => task'[p] = s
        /\ task[p].pc = "walk" /\ found # <<>>
        /\ found[n].hash = NoHash \/ disk[task[p].at] = NoFile
        /\ sealed \in Seq(Records) /\ Len(sealed) \in Nat
    BY TaskFields DEF IInv, TypeOK, Become, WalkEnds
  <1>2. task'[p].found = found
    BY <1>1 DEF WalkEnds, Goto, TaskType
  <1>3. task'[p].pc \in {"done", "panicked"}
    BY <1>1 DEF WalkEnds, Goto, TaskType
  <1>4. n # 0 /\ n \in 1 .. n
    BY <1>1
  <1>5. task[p].at = found[n].hash
    BY <1>1 DEF WalkPlace, NextSlot
  <1>6. Len(sealed) <= n
    <2> SUFFICES ASSUME n < Len(sealed) PROVE FALSE
      BY <1>1
    <2>1. found[n] = sealed[n]
      BY <1>1, <1>4 DEF WalkPlace
    <2>2. /\ sealed[n + 1] \in Records /\ disk[task[p].at] = sealed[n + 1]
          /\ sealed[n].hash # NoHash
      BY <1>1, <1>4, <1>5, <2>1, SealedAt
    <2> QED
      BY <1>1, <2>1, <2>2, RecordFields
  <1> QED
    BY <1>2, <1>3, <1>6 DEF WalkPlace

(* Every step outside of the processor leaves a walk alone or ends it, and *)
(* none is under way when what is sealed changes.                          *)
LEMMA WalkLeft ==
  ASSUME IInv, Walks, [Next]_vars, \A p \in Procs : ~Process(p)
  PROVE  \A p \in Procs :
           \/ task'[p].found = <<>> /\ task'[p].at = NoHash
           \/ task'[p] = task[p] /\ sealed' = sealed
  <1> DEFINE Left(p) == \/ task'[p].found = <<>> /\ task'[p].at = NoHash
                        \/ task'[p] = task[p] /\ sealed' = sealed
  <1>1. \A p \in Procs : task[p].pc = "idle" =>
          task[p].found = <<>> /\ task[p].at = NoHash
    BY DEF Walks, WalkPlace, NextSlot
  <1>2. /\ Idle.found = <<>> /\ Idle.at = NoHash
        /\ \A r : Started(r).found = <<>> /\ Started(r).at = NoHash
    BY DEF Idle, Started
  <1>3. ASSUME NEW p \in Procs, NEW s, Become(p, s), s.found = <<>>, s.at = NoHash,
               UNCHANGED sealed
        PROVE  \A q \in Procs : Left(q)
    BY <1>3 DEF Become, IInv, TypeOK
  <1>4. CASE BootStart \/ Crash \/ BootEnd
    <2>1. \A p \in Procs : task'[p] = Idle \/ (task'[p] = task[p] /\ task[p].pc = "idle")
      <3>1. CASE BootStart
        BY <3>1 DEF BootStart, IInv, Turns
      <3>2. CASE Crash
        BY <3>2 DEF Crash
      <3>3. CASE BootEnd
        BY <3>3 DEF BootEnd, Become, IInv, TypeOK, Turns, Procs
      <3> QED
        BY <1>4, <3>1, <3>2, <3>3
    <2> QED
      BY <1>1, <1>2, <2>1
  <1>5. CASE BootLoad \/ BootSettle \/ BootPanic
    <2>1. Boot \in Procs /\ UNCHANGED sealed
      BY <1>5 DEF Procs, BootLoad, BootSettle, BootPanic
    <2>2. \E s : Become(Boot, s) /\ s.found = <<>> /\ s.at = NoHash
      BY <1>2, <1>5 DEF BootLoad, BootSettle, BootPanic
    <2> QED
      BY <1>3, <2>1, <2>2
  <1>6. ASSUME NEW t \in Tasks, Receive(t) \/ Reply(t) \/ HangUp(t)
        PROVE  \A q \in Procs : Left(q)
    <2>1. t \in Procs /\ UNCHANGED sealed
      BY <1>6 DEF Procs, Receive, Reply, HangUp, world
    <2>2. \E s : Become(t, s) /\ s.found = <<>> /\ s.at = NoHash
      BY <1>2, <1>6 DEF Receive, Reply, HangUp
    <2> QED
      BY <1>3, <2>1, <2>2
  <1>7. CASE UNCHANGED vars
    BY <1>7 DEF vars
  <1> QED
    BY <1>4, <1>5, <1>6, <1>7 DEF Next, BootStep, TaskStep, Procs

LEMMA StepWalks ==
  ASSUME IInv, RInv, Walks, [Next]_vars
  PROVE  Walks'
  <1>1. ASSUME NEW p \in Procs, Process(p) PROVE Walks'
    <2>1. WorkStep(p)
      BY <1>1, ProcessWorks DEF IInv, Admitted
    <2>2. sealed' = sealed /\ \A q \in Procs \ {p} : task'[q] = task[q]
      BY <2>1 DEF WorkStep, Become, IInv, TypeOK
    <2>3. WalkPlace(task'[p], sealed)
      <3>1. CASE WalkNext(p) \/ WalkEnds(p)
        BY <3>1, WalkNextPlaced, WalkEndsPlaced DEF Walks
      <3>2. CASE ~WalkNext(p) /\ ~WalkEnds(p)
        <4>1. /\ task[p].pc \notin {"idle", "walk", "done", "panicked"}
              /\ task'[p].found = task[p].found /\ task'[p].at = task[p].at
          BY <1>1, <3>2, StepBeforeWalk DEF IInv
        <4>2. task[p].found = <<>> /\ task[p].at = NoHash
          BY <4>1 DEF Walks, WalkPlace, NextSlot
        <4> QED
          BY <4>1, <4>2, WalkNotBegun
      <3> QED
        BY <3>1, <3>2
    <2> QED
      BY <2>2, <2>3 DEF Walks
  <1>2. CASE \A p \in Procs : ~Process(p)
    BY <1>2, WalkLeft, WalkNotBegun DEF Walks
  <1> QED
    BY <1>1, <1>2

LEMMA WalksInvariant ==
  ASSUME NoScopeRequests
  PROVE  Spec => [](IInv /\ RInv /\ Walks)
  <1>1. Init => Walks
    BY WalkNotBegun DEF Init, Walks, Idle, Started
  <1>2. IInv /\ RInv /\ Walks /\ [Next]_vars => Walks'
    BY StepWalks
  <1> QED
    BY <1>1, <1>2, RestartInvariant, PTL DEF Spec

-----------------------------------------------------------------------------
(* Writers.                                                                *)

(* The genesis tool has just made the directory.                           *)
FreshDirectory == \A s \in Slots \ {NoHash} : InitialDisk[s] = NoFile

GenesisPasses == Passes(StartCache, disk[NoHash])

(* The one slot that a live write can reach.                               *)
OpenPlace == IF sealed = <<>> THEN Zero ELSE NextSlot(sealed)

(* While genesis.rhex is not accepted the head row stays at zero, and a    *)
(* live scope:genesis may let writes go there; nothing is ever sealed then *)
(* and the file 000..0.rhex is never read by a bootstrap.                  *)
Occupied ==
  /\ \A s \in Slots : disk[s] # NoFile =>
       s \in {NoHash, OpenPlace} \/ \E i \in 1 .. Len(sealed) : s = sealed[i].prev
  /\ disk[Zero] # NoFile => ~GenesisPasses
  /\ phase = "up" /\ settled = <<>> =>
       cache.head \in {Zero, NoRow} /\ (cache.head = Zero => ~GenesisPasses)

LEMMA WriterAtHead ==
  ASSUME IInv, NoScopeRequests, NEW p \in Procs, task[p].pc \in {"open", "write"}
  PROVE  /\ phase = "up" /\ task[p].put \in Records
         /\ task[p].put.prev = cache.head
         /\ cache.head \in Slots /\ cache.head # NoHash
  <1>1. /\ FirstTime(p) /\ WritesFile(task[p].msg) /\ task[p].put \in Records
        /\ task[p].put = task[p].msg
        /\ PreviousHashValid(task[p].msg, cache.head)
    BY WriterFacts DEF IInv, Admitted
  <1>2. task[p].put.prev = cache.head
    BY <1>1, WriterSlot
  <1>3. phase = "up"
    BY <1>1, WhoseTurn DEF IInv, TypeOK, FirstTime
  <1>4. cache.head \in Slots
    BY <1>1, <1>2, RecordFields
  <1>5. cache.head # NoHash
    BY <1>4, ConstantsAssumption DEF IInv, TypeOK, CacheType
  <1> QED
    BY <1>1, <1>2, <1>3, <1>4, <1>5

(* While the daemon listens the slot after the head row is the open one.   *)
LEMMA HeadIsOpen ==
  ASSUME IInv, RInv, Occupied, phase = "up", cache.head \in Slots
  PROVE  /\ cache.head = OpenPlace
         /\ sealed = <<>> <=> settled = <<>>
         /\ cache.head = Zero <=> sealed = <<>>
  <1>1. /\ settled \in Seq(Records) /\ sealed \in Seq(Records)
        /\ Linked(settled) /\ sealed = Finalized(settled)
        /\ settled # <<>> => cache.head = NextSlot(sealed)
    BY DEF IInv, TypeOK, RInv, HeadAtTip, UpSealed
  <1>2. sealed = <<>> <=> settled = <<>>
    BY <1>1, FinalizedFacts DEF Finalized
  <1>3. CASE sealed = <<>>
    BY <1>2, <1>3, ConstantsAssumption DEF Occupied, OpenPlace, Slots
  <1>4. CASE sealed # <<>>
    <2>1. Len(sealed) \in 1 .. Len(sealed) /\ sealed[Len(sealed)] \in Records
      BY <1>1, <1>4
    <2>2. sealed[Len(sealed)].hash \in Hashes
      BY <2>1, RecordFields DEF RInv, SealedFiles
    <2> QED
      BY <1>1, <1>2, <1>4, <2>2, ConstantsAssumption DEF OpenPlace, NextSlot
  <1> QED
    BY <1>2, <1>3, <1>4

(* Bootstrap settles nothing before it has accepted genesis.rhex.          *)
LEMMA SettledPasses ==
  ASSUME IInv, RInv, NoScopeRequests, phase = "boot", settled # <<>>
  PROVE  GenesisPasses /\ settled[1].prev = NoHash
  <1>1. PICK chain \in Seq(Records) :
          \E W \in [0 .. Len(chain) -> CacheType] :
            Replay(chain, W) /\ Prefix(settled, chain)
    BY DEF RInv, Replayed
  <1>2. PICK W \in [0 .. Len(chain) -> CacheType] : Replay(chain, W)
    BY <1>1
  <1>3. settled \in Seq(Records) /\ 1 \in 1 .. Len(settled) /\ 1 \in 1 .. Len(chain)
    BY <1>1 DEF IInv, TypeOK, Prefix
  <1>4. chain[1] = settled[1] /\ settled[1].prev = NoHash /\ settled[1].hash # NoHash
    BY <1>1, <1>3 DEF Prefix, RInv, HeadAtTip, Linked
  <1>5. disk[NoHash] = settled[1]
    BY <1>3, <1>4 DEF IInv, SettledOnDisk
  <1>6. Replays(W[0], chain[1], W[1]) /\ W[0] = StartCache
    BY <1>2, <1>3 DEF Replay
  <1> QED
    BY <1>4, <1>5, <1>6 DEF Replays, GenesisPasses

LEMMA LiveWorkOccupied ==
  ASSUME IInv, RInv, NoScopeRequests, Occupied, NEW p \in Procs, WorkStep(p)
  PROVE  Occupied'
  <1>1. /\ UNCHANGED <<phase, settled, sealed>>
        /\ cache'.head = cache.head
        /\ disk' = disk \/ SlotWrite(p)
    BY DEF WorkStep
  <1>2. CASE disk' = disk
    BY <1>1, <1>2 DEF Occupied, OpenPlace, GenesisPasses
  <1>3. CASE SlotWrite(p)
    <2>1. PICK f : disk' = [disk EXCEPT ![task[p].put.prev] = f]
      BY <1>3 DEF SlotWrite
    <2>2. /\ phase = "up" /\ task[p].put.prev = cache.head
          /\ cache.head \in Slots /\ cache.head # NoHash
      BY <1>3, WriterAtHead DEF SlotWrite
    <2>3. \A s \in Slots : s # cache.head => disk'[s] = disk[s]
      BY <2>1, <2>2 DEF IInv, TypeOK
    <2>4. NoHash \in Slots /\ Zero \in Slots
      BY DEF Slots
    <2>5. GenesisPasses' <=> GenesisPasses
      BY <2>2, <2>3, <2>4 DEF GenesisPasses
    <2>6. OpenPlace' = OpenPlace /\ cache.head = OpenPlace
      BY <1>1, <2>2, HeadIsOpen DEF OpenPlace
    <2>7. cache.head = Zero => ~GenesisPasses
      BY <2>2, HeadIsOpen DEF Occupied
    <2>8. disk'[Zero] # NoFile => ~GenesisPasses
      BY <2>3, <2>4, <2>7 DEF Occupied
    <2>9. ASSUME NEW s \in Slots, disk'[s] # NoFile
          PROVE  \/ s \in {NoHash, OpenPlace}
                 \/ \E i \in 1 .. Len(sealed) : s = sealed[i].prev
      BY <2>3, <2>6, <2>9 DEF Occupied
    <2> QED
      BY <1>1, <2>5, <2>6, <2>8, <2>9 DEF Occupied
  <1> QED
    BY <1>1, <1>2, <1>3

LEMMA BootStartOccupied ==
  ASSUME IInv, RInv, Occupied, BootStart
  PROVE  Occupied'
  <1>1. /\ UNCHANGED <<disk, sealed>>
        /\ phase' = "up" => cache'.head = NoRow
    BY StartKeepsSealed DEF BootStart, EmptyCache
  <1>2. NoRow # Zero
    BY ConstantsAssumption DEF Slots
  <1>3. OpenPlace' = OpenPlace /\ (GenesisPasses' <=> GenesisPasses)
    BY <1>1 DEF OpenPlace, GenesisPasses
  <1> QED
    BY <1>1, <1>2, <1>3 DEF Occupied

(* A bootstrap that settled nothing found genesis.rhex wanting.            *)
LEMMA NothingSettled ==
  ASSUME IInv, RInv, BootEnd, settled = <<>>
  PROVE  cache.head = Zero /\ ~GenesisPasses
  <1>1. phase = "boot" /\ Len(settled) = 0
    BY DEF BootEnd
  <1>2. PICK chain \in Seq(Records) :
          \E W \in [0 .. Len(chain) -> CacheType] :
            Replay(chain, W) /\ Current(W[0])
    BY <1>1 DEF RInv, Replayed
  <1>3. Current(StartCache)
    BY <1>2 DEF Replay
  <1>4. GenesisOpens(disk)
    BY <1>1 DEF RInv, BootPlace
  <1>5. task[Boot].pc # "idle"
    <2> SUFFICES ASSUME task[Boot].pc = "idle" PROVE FALSE
      OBVIOUS
    <2>1. cursor = NoHash
      BY <1>1 DEF RInv, BootPlace, NextSlot
    <2> QED
      BY <1>4, <2>1 DEF BootEnd, BootDone, Links, GenesisOpens
  <1>6. task[Boot].pc = "failed" /\ disk[NoHash] = task[Boot].msg
    BY <1>1, <1>5
    DEF BootEnd, IInv, BootLocals, BootDuring, RInv, BootPlace, NextSlot
  <1>7. cache.head = Zero
    BY <1>3 DEF Current, StartCache, EmptyCache
  <1> QED
    BY <1>3, <1>6, <1>7 DEF Current, Judged, GenesisPasses

(* What bootstrap seals continues what was sealed before.                  *)
LEMMA SealedGrows ==
  ASSUME IInv, RInv, BootEnd
  PROVE  /\ \A i \in 1 .. Len(sealed) : sealed'[i] = sealed[i]
         /\ sealed' = sealed \/ (Len(sealed) < Len(sealed') /\ sealed' # <<>>)
  <1>1. /\ sealed \in Seq(Records) /\ sealed' \in Seq(Records)
        /\ Len(sealed) \in Nat /\ Len(sealed') \in Nat
    BY StopPreserves DEF IInv, TypeOK
  <1>2. /\ Len(sealed) <= Len(sealed')
        /\ \A i \in 1 .. Len(sealed) : sealed'[i] = sealed[i]
    BY EndKeepsSealed DEF Prefix
  <1>3. Len(sealed) = Len(sealed') => sealed' = sealed
    BY <1>1, <1>2, SeqEqual
  <1>4. sealed' = <<>> => Len(sealed') = 0
    OBVIOUS
  <1> QED
    BY <1>1, <1>2, <1>3, <1>4

LEMMA BootEndOccupied ==
  ASSUME IInv, RInv, NoScopeRequests, Occupied, BootEnd
  PROVE  Occupied'
  <1>1. /\ phase = "boot" /\ phase' = "up" /\ UNCHANGED <<disk, cache, settled>>
        /\ settled \in Seq(Records) /\ sealed \in Seq(Records)
        /\ Len(sealed) \in Nat /\ Linked(settled)
    BY DEF BootEnd, IInv, TypeOK, RInv, HeadAtTip
  <1>2. sealed' = Finalized(settled) /\ SealedFiles'
    BY BootEndRestart DEF BootEnd, RInv
  <1>3. /\ sealed' \in Seq(Records) /\ Prefix(sealed', settled)
        /\ sealed' = <<>> <=> settled = <<>>
    BY <1>1, <1>2, FinalizedFacts DEF Finalized
  <1>4. GenesisPasses' <=> GenesisPasses
    BY <1>1 DEF GenesisPasses
  <1>5. settled = <<>> => cache.head = Zero /\ ~GenesisPasses
    BY NothingSettled
  <1>6. settled # <<>> => disk[Zero] = NoFile
    BY <1>1, SettledPasses DEF Occupied
  <1>7. sealed' = sealed \/ (Len(sealed) < Len(sealed') /\ sealed' # <<>>)
    BY SealedGrows
  <1>8. ASSUME NEW s \in Slots, disk[s] # NoFile
        PROVE  \/ s \in {NoHash, OpenPlace'}
               \/ \E i \in 1 .. Len(sealed') : s = sealed'[i].prev
    <2>1. CASE sealed' = sealed
      BY <1>8, <2>1 DEF Occupied, OpenPlace
    <2>2. CASE Len(sealed) < Len(sealed') /\ sealed = <<>>
      BY <1>3, <1>6, <1>8, <2>2 DEF Occupied, OpenPlace
    <2>3. CASE Len(sealed) < Len(sealed') /\ sealed # <<>>
      <3>1. Len(sealed') \in Nat /\ Len(sealed) # 0
        BY <1>1, <1>3, <2>3
      <3>2. /\ Len(sealed) + 1 \in 1 .. Len(sealed') /\ Len(sealed) + 1 # 1
            /\ (Len(sealed) + 1) - 1 = Len(sealed)
        BY <1>1, <2>3, <3>1
      <3>3. sealed'[Len(sealed) + 1].prev = sealed'[Len(sealed)].hash
        BY <1>2, <3>2 DEF SealedFiles, Linked
      <3>4. \A i \in 1 .. Len(sealed) : sealed'[i] = sealed[i]
        BY SealedGrows
      <3>5. OpenPlace = sealed'[Len(sealed) + 1].prev
        BY <1>1, <2>3, <3>1, <3>3, <3>4 DEF OpenPlace, NextSlot
      <3>6. \A i \in 1 .. Len(sealed) : i \in 1 .. Len(sealed')
        BY <1>1, <2>3, <3>1
      <3> QED
        BY <1>8, <3>2, <3>4, <3>5, <3>6 DEF Occupied
    <2> QED
      BY <1>7, <2>1, <2>2, <2>3
  <1>9. disk[Zero] # NoFile => ~GenesisPasses
    BY DEF Occupied
  <1> QED
    BY <1>1, <1>4, <1>5, <1>8, <1>9 DEF Occupied

LEMMA StepOccupied ==
  ASSUME IInv, RInv, NoScopeRequests, Occupied, [Next]_vars
  PROVE  Occupied'
  <1>1. ASSUME NEW p \in Procs, Process(p) PROVE Occupied'
    BY <1>1, ProcessWorks, LiveWorkOccupied DEF IInv, Admitted
  <1>2. CASE BootStart
    BY <1>2, BootStartOccupied
  <1>3. CASE BootEnd
    BY <1>3, BootEndOccupied
  <1>4. CASE BootLoad \/ BootSettle \/ BootPanic \/ Crash
    <2>1. UNCHANGED <<disk, sealed>> /\ phase' # "up"
      BY <1>4 DEF BootLoad, BootReady, BootSettle, BootPanic, Crash
    <2> QED
      BY <2>1 DEF Occupied, OpenPlace, GenesisPasses
  <1>5. ASSUME NEW t \in Tasks, Receive(t) \/ Reply(t) \/ HangUp(t) PROVE Occupied'
    BY <1>5 DEF Receive, Reply, HangUp, world, Occupied, OpenPlace, GenesisPasses
  <1>6. CASE UNCHANGED vars
    BY <1>6 DEF vars, Occupied, OpenPlace, GenesisPasses
  <1> QED
    BY <1>1, <1>2, <1>3, <1>4, <1>5, <1>6 DEF Next, BootStep, TaskStep, Procs

LEMMA DirectoryInvariant ==
  ASSUME NoScopeRequests, FreshDirectory
  PROVE  Spec => [](IInv /\ RInv /\ Occupied)
  <1>1. Init => Occupied
    <2>1. NoHash # Zero /\ Zero \in Slots
      BY ConstantsAssumption DEF Slots
    <2> QED
      BY <2>1 DEF Init, Occupied, FreshDirectory
  <1>2. IInv /\ RInv /\ Occupied /\ [Next]_vars => Occupied'
    BY StepOccupied
  <1> QED
    BY <1>1, <1>2, RestartInvariant, PTL DEF Spec

(* In a directory that began with genesis.rhex alone there is never        *)
(* anything but the sealed files and the one after them, in which every    *)
(* append of an uptime lands: a torn or a refused file costs no sealed     *)
(* record and leaves no other behind.                                      *)
THEOREM DirectoryKept ==
  ASSUME NoScopeRequests, FreshDirectory
  PROVE  Spec => []DirectoryShape
  <1>1. IInv /\ RInv /\ Occupied => DirectoryShape
    <2> SUFFICES ASSUME IInv, RInv, Occupied, phase = "up", settled # <<>>,
                        NEW s \in Slots, disk[s] # NoFile
                 PROVE  s \in {sealed[i].prev : i \in DOMAIN sealed} \cup {cache.head}
      BY DEF DirectoryShape
    <2>1. /\ settled \in Seq(Records) /\ sealed \in Seq(Records)
          /\ Linked(settled) /\ sealed = Finalized(settled)
          /\ cache.head = NextSlot(sealed)
      BY DEF IInv, TypeOK, RInv, HeadAtTip, UpSealed
    <2>2. sealed # <<>>
      BY <2>1, FinalizedFacts
    <2>3. cache.head = OpenPlace
      BY <2>1, <2>2 DEF OpenPlace
    <2>4. 1 \in 1 .. Len(sealed) /\ DOMAIN sealed = 1 .. Len(sealed)
      BY <2>1, <2>2
    <2>5. sealed[1].prev = NoHash
      BY <2>4 DEF RInv, SealedFiles, Linked
    <2> QED
      BY <2>3, <2>4, <2>5 DEF Occupied
  <1> QED
    BY <1>1, DirectoryInvariant, PTL

(* Previous hashes run ahead: a slot of the chain is never named again.    *)
LEMMA ChainDeepens ==
  ASSUME NEW seq \in Seq(Records), Linked(seq),
         \A i \in 1 .. Len(seq) : seq[i].hash # NoHash,
         NEW i \in 1 .. Len(seq), NEW j \in i .. Len(seq)
  PROVE  seq[i].prev # seq[j].hash
  <1>1. Len(seq) \in Nat /\ i \in Nat /\ j \in Nat
    OBVIOUS
  <1>2. \A k \in 1 .. Len(seq) :
          /\ Depth[seq[k].prev] \in Nat /\ Depth[seq[k].hash] \in Nat
          /\ Depth[seq[k].prev] < Depth[seq[k].hash]
    <2> SUFFICES ASSUME NEW k \in 1 .. Len(seq)
                 PROVE  /\ Depth[seq[k].prev] \in Nat /\ Depth[seq[k].hash] \in Nat
                        /\ Depth[seq[k].prev] < Depth[seq[k].hash]
      OBVIOUS
    <2>1. seq[k] \in Records /\ seq[k].hash # NoHash
      OBVIOUS
    <2>2. seq[k].prev \in Slots /\ seq[k].hash \in Slots
      BY <2>1, RecordFields
    <2> QED
      BY <2>1, <2>2, AcyclicAssumption
  <1>3. \A k \in 2 .. Len(seq) : seq[k].prev = seq[k - 1].hash
    BY <1>1 DEF Linked
  <1> DEFINE Bad == {k \in i .. Len(seq) :
                       ~(Depth[seq[i].prev] < Depth[seq[k].hash])}
  <1>4. ASSUME Bad # {} PROVE FALSE
    <2>1. Bad \subseteq Nat
      BY <1>1
    <2>2. PICK k \in Bad : \A n \in Bad : k <= n
      <3> HIDE DEF Bad
      <3> QED
        BY <1>4, <2>1, Least
    <2>3. k # i /\ k - 1 \in i .. Len(seq) /\ k - 1 \notin Bad /\ k \in 2 .. Len(seq)
      BY <1>1, <1>2, <2>2
    <2>4. Depth[seq[i].prev] < Depth[seq[k - 1].hash] /\ k - 1 \in 1 .. Len(seq)
      BY <1>1, <2>3
    <2>5. Depth[seq[k - 1].hash] < Depth[seq[k].hash]
      BY <1>1, <1>2, <1>3, <2>3
    <2>6. ~(Depth[seq[i].prev] < Depth[seq[k].hash]) /\ k \in 1 .. Len(seq)
      BY <1>1, <2>2
    <2> QED
      BY <1>1, <1>2, <2>4, <2>5, <2>6
  <1>5. Depth[seq[i].prev] < Depth[seq[j].hash]
    BY <1>4
  <1>6. Depth[seq[i].prev] \in Nat /\ j \in 1 .. Len(seq)
    BY <1>1, <1>2
  <1> QED
    BY <1>2, <1>5, <1>6

-----------------------------------------------------------------------------
(* How far a reader gets.                                                  *)

Bounded == \A p \in Procs : Len(task[p].found) <= Len(sealed) + 1

(* Past the open slot there is no file to read.                            *)
LEMMA WalkNextBounded ==
  ASSUME IInv, RInv, Occupied, NEW p \in Procs, WalkPlace(task[p], sealed),
         Len(task[p].found) = Len(sealed) + 1, WalkNext(p)
  PROVE  FALSE
  <1> DEFINE found == task[p].found
             n == Len(found)
             at == task[p].at
  <1>1. /\ found \in Seq(Records) /\ sealed \in Seq(Records)
        /\ Len(sealed) \in Nat /\ n \in Nat /\ n = Len(sealed) + 1
        /\ n \in 1 .. n /\ n # 0 /\ found # <<>> /\ n - 1 = Len(sealed)
    BY TaskFields DEF IInv, TypeOK
  <1>2. /\ at = found[n].hash /\ found[n] \in Records
        /\ found[n].hash # NoHash /\ at \in Slots /\ at \in Hashes
    <2>1. at = found[n].hash /\ found[n] \in Records
      BY <1>1 DEF WalkNext, WalkPlace, NextSlot
    <2>2. found[n].hash # NoHash
      BY <1>1 DEF WalkNext, Walked
    <2> QED
      BY <2>1, <2>2, RecordFields
  <1>3. disk[at] # NoFile
    BY <1>2 DEF WalkNext
  <1>4. at # Zero
    BY <1>2, ConstantsAssumption
  <1>5. CASE sealed = <<>>
    BY <1>2, <1>3, <1>4, <1>5 DEF Occupied, OpenPlace
  <1>6. CASE sealed # <<>>
    <2>1. \A i \in 1 .. Len(sealed) : i \in 1 .. n /\ found[i] = sealed[i]
      BY <1>1 DEF WalkPlace
    <2>2. 1 \in 1 .. Len(sealed) /\ Len(sealed) \in 1 .. Len(sealed)
      BY <1>1, <1>6
    <2>3. /\ sealed[1].prev = NoHash
          /\ \A i \in 1 .. Len(sealed) : sealed[i].hash # NoHash
      BY <2>2 DEF RInv, SealedFiles, Linked
    <2>4. \A i \in 1 .. n : i \in 1 .. Len(sealed) \/ i = n
      BY <1>1
    <2>5. \A i \in 1 .. n : found[i].hash # NoHash
      BY <1>2, <2>1, <2>3, <2>4
    <2>6. \A i \in 2 .. n : found[i].prev = found[i - 1].hash
      BY DEF WalkPlace
    <2>7. found[1].prev = NoHash
      BY <2>1, <2>2, <2>3
    <2>8. Linked(found)
      BY <1>1, <2>5, <2>6, <2>7 DEF Linked
    <2>9. \A i \in 1 .. n : found[i].prev # at
      BY <1>1, <1>2, <2>5, <2>8, ChainDeepens
    <2>10. found[n].prev = OpenPlace
      <3>1. n \in 2 .. n
        BY <1>1, <2>2
      <3>2. found[n].prev = found[n - 1].hash
        BY <2>6, <3>1
      <3> QED
        BY <1>1, <1>6, <2>1, <2>2, <3>2 DEF OpenPlace, NextSlot
    <2> QED
      BY <1>1, <1>2, <1>3, <2>1, <2>9, <2>10 DEF Occupied
  <1> QED
    BY <1>5, <1>6

LEMMA StepBounded ==
  ASSUME IInv, RInv, Occupied, Walks, Bounded, [Next]_vars
  PROVE  Bounded'
  <1>1. sealed \in Seq(Records) /\ sealed' \in Seq(Records)
    BY StepInvariant DEF IInv, TypeOK
  <1>2. ASSUME NEW p \in Procs, Process(p) PROVE Bounded'
    <2>1. sealed' = sealed /\ \A q \in Procs \ {p} : task'[q] = task[q]
      BY <1>2, ProcessWorks DEF IInv, Admitted, WorkStep, Become, TypeOK
    <2>2. /\ task[p] \in TaskType /\ task[p].found \in Seq(Records)
          /\ \A s : Become(p, s) => task'[p] = s
      BY TaskFields DEF IInv, TypeOK, Become
    <2>3. CASE WalkNext(p)
      <3>1. Len(task[p].found) # Len(sealed) + 1
        BY <2>3, WalkNextBounded DEF Walks
      <3>2. Len(task[p].found) <= Len(sealed)
        BY <1>1, <2>2, <3>1 DEF Bounded
      <3>3. \/ task'[p].found = <<>>
            \/ task'[p].found = Append(task[p].found, disk[task[p].at])
        BY <2>2, <2>3 DEF WalkNext, TaskType
      <3>4. Len(task'[p].found) <= Len(sealed) + 1
        BY <1>1, <2>2, <3>2, <3>3
      <3> QED
        BY <2>1, <3>4 DEF Bounded
    <2>4. CASE WalkEnds(p)
      <3>1. task'[p].found = task[p].found
        BY <2>2, <2>4 DEF WalkEnds, Goto, TaskType
      <3> QED
        BY <2>1, <3>1 DEF Bounded
    <2>5. CASE ~WalkNext(p) /\ ~WalkEnds(p)
      <3>1. task'[p].found = task[p].found
        BY <1>2, <2>5, StepBeforeWalk DEF IInv
      <3> QED
        BY <2>1, <3>1 DEF Bounded
    <2> QED
      BY <2>3, <2>4, <2>5
  <1>3. CASE \A p \in Procs : ~Process(p)
    <2>1. Len(<<>>) <= Len(sealed') + 1
      BY <1>1
    <2> QED
      BY <1>3, <2>1, WalkLeft DEF Bounded
  <1> QED
    BY <1>2, <1>3

(* A reply to request:rhex starts with every sealed record, in order, and  *)
(* is a chain as far as it goes, even when other connections truncate or   *)
(* fill the slot after the sealed records while the reader walks.          *)
LEMMA RepliesExtend ==
  ASSUME IInv, Walks, NEW t \in Tasks, task[t].pc = "done", task[t].found # <<>>
  PROVE  /\ SubSeq(task[t].found, 1, Len(sealed)) = sealed
         /\ \A i \in 2 .. Len(task[t].found) :
              task[t].found[i].prev = task[t].found[i - 1].hash
  <1> DEFINE found == task[t].found
             head == SubSeq(found, 1, Len(sealed))
  <1>1. WalkPlace(task[t], sealed) /\ t \in Procs
    BY DEF Walks, Procs
  <1>2. /\ found \in Seq(Records) /\ sealed \in Seq(Records)
        /\ Len(found) \in Nat /\ Len(sealed) \in Nat
    BY <1>1, TaskFields DEF IInv, TypeOK
  <1>3. Len(sealed) <= Len(found)
    BY <1>1 DEF WalkPlace
  <1>4. /\ head \in Seq(Records) /\ Len(head) = Len(sealed)
        /\ \A i \in 1 .. Len(sealed) : head[i] = found[i]
    BY <1>2, <1>3
  <1>5. \A i \in 1 .. Len(sealed) : head[i] = sealed[i]
    BY <1>1, <1>2, <1>3, <1>4 DEF WalkPlace
  <1>6. head = sealed
    BY <1>2, <1>4, <1>5, SeqEqual
  <1> QED
    BY <1>1, <1>6 DEF WalkPlace

(* In a directory that began with genesis.rhex alone it goes at most one   *)
(* record further, to what the open slot held when the reader came by.     *)
THEOREM RepliesSealed ==
  ASSUME NoScopeRequests, FreshDirectory
  PROVE  Spec => []RepliesHoldSealed
  <1>1. Init => Bounded
    <2>1. Len(<<>>) <= Len(<<>>) + 1
      OBVIOUS
    <2> QED
      BY <2>1 DEF Init, Bounded, Idle, Started
  <1>2. IInv /\ RInv /\ Occupied /\ Walks /\ Bounded /\ [Next]_vars => Bounded'
    BY StepBounded
  <1>3. IInv /\ Walks /\ Bounded => RepliesHoldSealed
    BY RepliesExtend DEF RepliesHoldSealed, Bounded, Procs
  <1> QED
    BY <1>1, <1>2, <1>3, WalksInvariant, DirectoryInvariant, PTL DEF Spec

-----------------------------------------------------------------------------
(* The refinement of SlotLedger.                                           *)

LEMMA ChainedLog ==
  ASSUME NEW seq \in Seq(Records), Linked(seq)
  PROVE  Abstract!Chained(seq)
  BY DEF Linked, Abstract!Chained

LEMMA OpenContents ==
  ASSUME IInv, RInv
  PROVE  OpenSlot \in Abstract!Contents
  <1>1. CASE sealed = <<>>
    BY <1>1 DEF OpenSlot, Abstract!Contents
  <1>2. CASE sealed # <<>>
    <2>1. sealed \in Seq(Records) /\ Len(sealed) \in 1 .. Len(sealed)
      BY <1>2 DEF IInv, TypeOK
    <2>2. sealed[Len(sealed)].hash \in Slots
      BY <2>1, RecordFields
    <2> QED
      BY <1>2, <2>2 DEF OpenSlot, Abstract!Contents, IInv, TypeOK
  <1> QED
    BY <1>1, <1>2

(* A live write is the truncation or the filling of the open slot, or goes *)
(* unseen while nothing is sealed.                                         *)
LEMMA LiveWorkImplements ==
  ASSUME IInv, RInv, NoScopeRequests, Occupied, NEW p \in Procs, WorkStep(p)
  PROVE  [Abstract!Next]_(Abstract!vars)
  <1>1. UNCHANGED <<phase, sealed>> /\ (disk' = disk \/ SlotWrite(p))
    BY DEF WorkStep
  <1>2. CASE disk' = disk \/ sealed = <<>>
    BY <1>1, <1>2 DEF OpenSlot, Abstract!vars
  <1>3. CASE SlotWrite(p) /\ sealed # <<>>
    <2>1. /\ phase = "up" /\ task[p].put \in Records
          /\ task[p].put.prev = cache.head /\ cache.head \in Slots
      BY <1>3, WriterAtHead DEF SlotWrite
    <2>2. cache.head = sealed[Len(sealed)].hash
      BY <1>3, <2>1, HeadIsOpen DEF OpenPlace, NextSlot
    <2>3. PICK f \in {Torn, task[p].put} : disk' = [disk EXCEPT ![cache.head] = f]
      BY <1>3, <2>1 DEF SlotWrite
    <2>4. OpenSlot' = f
      BY <1>1, <1>3, <2>1, <2>2, <2>3 DEF OpenSlot, IInv, TypeOK
    <2>5. CASE f = Torn
      BY <1>1, <1>3, <2>1, <2>4, <2>5 DEF Abstract!Next, Abstract!Truncate
    <2>6. CASE f = task[p].put
      BY <1>1, <1>3, <2>1, <2>2, <2>4, <2>6
      DEF Abstract!Next, Abstract!Put, Abstract!Tip
    <2> QED
      BY <2>5, <2>6
  <1> QED
    BY <1>1, <1>2, <1>3

(* A start without genesis.rhex is a first start that finds nothing.       *)
LEMMA BootStartImplements ==
  ASSUME IInv, RInv, BootStart
  PROVE  [Abstract!Next]_(Abstract!vars)
  <1>1. UNCHANGED <<disk, sealed>> /\ phase = "down" /\ phase' \in {"boot", "up"}
    BY StartKeepsSealed DEF BootStart
  <1>2. CASE phase' = "boot"
    BY <1>1, <1>2 DEF OpenSlot, Abstract!vars
  <1>3. CASE phase' = "up"
    <2>1. sealed = <<>>
      BY <1>3, SealedOpens DEF BootStart
    <2>2. sealed' \in Seq(Records) /\ Abstract!Chained(sealed')
      <3>1. <<>> \in Seq(Records) /\ Linked(<<>>)
        BY DEF Linked
      <3> QED
        BY <1>1, <2>1, <3>1, ChainedLog
    <2>3. OpenSlot' \in Abstract!Contents
      BY <1>1, <2>1 DEF OpenSlot, Abstract!Contents
    <2> QED
      BY <1>1, <1>3, <2>1, <2>2, <2>3 DEF Abstract!Next, Abstract!FirstStart
  <1> QED
    BY <1>1, <1>2, <1>3

(* A bootstrap that gets to the end is a start.  Were it to take two       *)
(* records, the second would lie in a slot other than the open one.        *)
LEMMA BootEndImplements ==
  ASSUME IInv, RInv, NoScopeRequests, Occupied, BootEnd
  PROVE  [Abstract!Next]_(Abstract!vars)
  <1>1. /\ phase = "boot" /\ phase' = "up" /\ UNCHANGED disk
        /\ sealed \in Seq(Records) /\ Len(sealed) \in Nat
        /\ disk \in [Slots -> Records \cup {NoFile, Torn}]
    BY DEF BootEnd, IInv, TypeOK
  <1>2. SealedFiles' /\ sealed' \in Seq(Records) /\ Linked(sealed')
    <2>1. RInv' /\ sealed' \in Seq(Records)
      BY BootEndRestart, StopPreserves DEF IInv, TypeOK
    <2> QED
      BY <2>1 DEF RInv, SealedFiles
  <1>3. PICK log : log = sealed'
    OBVIOUS
  <1>4. /\ log \in Seq(Records) /\ Linked(log) /\ Len(log) \in Nat
        /\ \A i \in 1 .. Len(log) : log[i].hash # NoHash /\ disk[log[i].prev] = log[i]
    BY <1>1, <1>2, <1>3 DEF SealedFiles
  <1>5. /\ \A i \in 1 .. Len(sealed) : log[i] = sealed[i]
        /\ log = sealed \/ (Len(sealed) < Len(log) /\ log # <<>>)
    BY <1>3, SealedGrows
  <1>6. log # <<>> => log[Len(log)].hash \in Slots
    BY <1>4, RecordFields
  <1>7. OpenSlot' = IF log = <<>> THEN NoFile ELSE disk[log[Len(log)].hash]
    BY <1>1, <1>3 DEF OpenSlot
  <1>8. CASE sealed = <<>>
    <2>1. OpenSlot' \in Abstract!Contents
      BY <1>1, <1>6, <1>7 DEF Abstract!Contents
    <2>2. Abstract!Chained(log)
      BY <1>4, ChainedLog
    <2> QED
      BY <1>1, <1>3, <1>4, <1>8, <2>1, <2>2 DEF Abstract!Next, Abstract!FirstStart
  <1>9. CASE sealed # <<>> /\ log = sealed
    <2>1. UNCHANGED <<sealed, OpenSlot>>
      BY <1>1, <1>3, <1>7, <1>9 DEF OpenSlot
    <2> QED
      BY <1>1, <1>9, <2>1 DEF Abstract!Next, Abstract!Restart
  <1>10. CASE sealed # <<>> /\ log # sealed
    <2> DEFINE k == Len(sealed)
               r == log[k + 1]
    <2>1. /\ k \in 1 .. Len(log) /\ k + 1 \in 1 .. Len(log) /\ k + 1 # 1
          /\ (k + 1) - 1 = k /\ k # 0
      BY <1>1, <1>4, <1>5, <1>10
    <2>2. r \in Records /\ r.hash # NoHash /\ disk[r.prev] = r
      BY <1>4, <2>1
    <2>3. /\ log[k] = sealed[k] /\ r.prev = log[k].hash
          /\ OpenPlace = r.prev /\ OpenSlot = r
      BY <1>1, <1>4, <1>5, <1>10, <2>1, <2>2 DEF Linked, OpenPlace, NextSlot, OpenSlot
    <2>4. \A i \in 1 .. k : sealed[i] = log[i] /\ i \in 1 .. Len(log)
      BY <1>4, <1>5, <2>1
    <2> HIDE DEF k, r
    (* No file carries the name of a hash from r on.                       *)
    <2>5. ASSUME NEW j \in k + 1 .. Len(log) PROVE disk[log[j].hash] = NoFile
      <3>1. j \in 1 .. Len(log) /\ log[j] \in Records
        BY <1>4, <2>1
      <3>2. log[j].hash \in Slots /\ log[j].hash # NoHash
        BY <1>4, <3>1, RecordFields
      <3>3. ASSUME NEW i \in 1 .. k PROVE log[j].hash # sealed[i].prev
        <4>1. i \in 1 .. Len(log) /\ j \in i .. Len(log)
          BY <1>4, <2>1, <2>4, <3>1
        <4> QED
          BY <1>4, <2>4, <4>1, ChainDeepens
      <3>4. log[j].hash # OpenPlace
        BY <1>4, <2>1, <2>3, ChainDeepens DEF r
      <3> QED
        BY <3>2, <3>3, <3>4 DEF Occupied, k
    <2>6. Len(log) = k + 1
      <3> SUFFICES ASSUME k + 2 \in 1 .. Len(log), k + 2 # 1 PROVE FALSE
        BY <1>4, <2>1
      <3>1. log[k + 2].prev = r.hash
        <4>1. (k + 2) - 1 = k + 1
          BY <2>1
        <4> QED
          BY <1>4, <4>1 DEF Linked, r
      <3>2. disk[r.hash] = NoFile
        BY <1>4, <2>1, <2>5 DEF r
      <3>3. disk[r.hash] = log[k + 2] /\ log[k + 2] \in Records
        BY <1>4, <3>1
      <3> QED
        BY <3>2, <3>3, RecordFields
    <2>7. OpenSlot' = NoFile
      BY <1>5, <1>7, <1>10, <2>1, <2>5, <2>6
    <2>8. log = Append(sealed, r)
      <3>1. /\ Append(sealed, r) \in Seq(Records) /\ Len(Append(sealed, r)) = k + 1
            /\ \A i \in 1 .. k : Append(sealed, r)[i] = sealed[i]
            /\ Append(sealed, r)[k + 1] = r
        BY <1>1, <2>2 DEF k
      <3>2. \A i \in 1 .. k + 1 : log[i] = Append(sealed, r)[i]
        <4> TAKE i \in 1 .. k + 1
        <4>1. CASE i = k + 1
          BY <3>1, <4>1 DEF r
        <4>2. CASE i # k + 1
          <5>1. i \in 1 .. k
            BY <2>1, <4>2
          <5> QED
            BY <2>4, <3>1, <5>1
        <4> QED
          BY <4>1, <4>2
      <3> QED
        BY <1>4, <2>6, <3>1, <3>2, SeqEqual
    <2> QED
      BY <1>1, <1>3, <1>10, <2>2, <2>3, <2>7, <2>8
      DEF Abstract!Next, Abstract!Restart
  <1> QED
    BY <1>8, <1>9, <1>10

(* Seen from outside, whatever the connections send and wherever the       *)
(* program is killed, the daemon is SlotLedger: a log that only a restart  *)
(* extends, by at most one record, and a single open slot after it.        *)
THEOREM ImplementsLedger ==
  ASSUME NoScopeRequests, FreshDirectory
  PROVE  Spec => ImplementsSlotLedger
  <1>1. Init => Abstract!Init
    BY DEF Init, Abstract!Init, OpenSlot
  <1>2. IInv /\ RInv /\ Occupied /\ [Next]_vars => [Abstract!Next]_(Abstract!vars)
    <2> SUFFICES ASSUME IInv, RInv, Occupied, [Next]_vars
                 PROVE  [Abstract!Next]_(Abstract!vars)
      OBVIOUS
    <2>1. ASSUME NEW p \in Procs, Process(p)
          PROVE  [Abstract!Next]_(Abstract!vars)
      BY <2>1, ProcessWorks, LiveWorkImplements DEF IInv, Admitted
    <2>2. CASE BootStart
      BY <2>2, BootStartImplements
    <2>3. CASE BootEnd
      BY <2>3, BootEndImplements
    <2>4. CASE BootLoad \/ BootSettle \/ BootPanic
      <3>1. UNCHANGED <<disk, sealed>> /\ phase # "up" /\ phase' # "up"
        BY <2>4 DEF BootLoad, BootReady, BootSettle, BootPanic
      <3> QED
        BY <3>1 DEF OpenSlot, Abstract!vars
    <2>5. CASE Crash
      <3>1. UNCHANGED <<disk, sealed>> /\ phase' = "down"
        BY <2>5 DEF Crash
      <3> QED
        BY <3>1 DEF OpenSlot, Abstract!vars, Abstract!Next, Abstract!Stop
    <2>6. ASSUME NEW t \in Tasks, Receive(t) \/ Reply(t) \/ HangUp(t)
          PROVE  [Abstract!Next]_(Abstract!vars)
      BY <2>6 DEF Receive, Reply, HangUp, world, OpenSlot, Abstract!vars
    <2>7. CASE UNCHANGED vars
      BY <2>7 DEF vars, OpenSlot, Abstract!vars
    <2> QED
      BY <2>1, <2>2, <2>3, <2>4, <2>5, <2>6, <2>7
      DEF Next, BootStep, TaskStep, Procs
  <1> QED
    BY <1>1, <1>2, DirectoryInvariant, PTL DEF Spec, ImplementsSlotLedger, Abstract!Spec
=============================================================================
