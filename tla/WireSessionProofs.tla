------------------------- MODULE WireSessionProofs -------------------------
(***************************************************************************)
(* Theorems about WireSession, for any connections, any records and any    *)
(* encoding, any sizes of frames and buffers.                              *)
(***************************************************************************)
EXTENDS WireSession, FrameCodecProofs

-----------------------------------------------------------------------------
(* Why a record is in the ledger once.                                     *)

(* The records of the log build on one another, and the open slot and the  *)
(* tasks that write to it extend the last of them.                         *)
Ordered(seq) ==
  /\ \A n \in DOMAIN seq : seq[n].hash # NoHash
  /\ \A m, n \in DOMAIN seq : m < n => Depth[seq[m].prev] < Depth[seq[n].prev]
  /\ \A n \in DOMAIN seq : Depth[seq[n].prev] < Depth[seq[Len(seq)].hash]

Extended ==
  /\ serving => log # <<>>
  /\ ~serving => \A k \in Conns : task[k].pc = "none"
  /\ Ordered(log)
  /\ open \in Records => log # <<>> /\ open.prev = Tip
  /\ \A k \in Conns : task[k].pc = "store" => Extends(task[k].msg)

LedgerInv == TypeOK /\ Extended

-----------------------------------------------------------------------------
(* A chain of records builds up: otherwise take the first record that does *)
(* not build on the m-th; the one before it does, and it builds on that.   *)
LEMMA Least ==
  ASSUME NEW S, S \subseteq Nat, S # {}
  PROVE  \E e \in S : \A n \in S : e <= n
<1> DEFINE Less == {pair \in Nat \X Nat : pair[1] < pair[2]}
<1>1. IsWellFoundedOn(Less, Nat)
  BY NatLessThanWellFounded DEF OpToRel
<1> HIDE DEF Less
<1>2. PICK e \in S : \A n \in S : ~ (<<n, e>> \in Less)
  BY <1>1, WFMin
<1>3. \A n \in S : ~ (n < e)
  BY <1>2 DEF Less
<1> QED
  BY <1>3

LEMMA RecordFields ==
  \A r \in Records :
    /\ r.intent \in Intents
    /\ r.prev \in Hashes \cup {NoHash} /\ r.hash \in Hashes \cup {NoHash}
    /\ Depth[r.prev] \in Nat /\ Depth[r.hash] \in Nat
    /\ r.hash # NoHash => Depth[r.prev] < Depth[r.hash]
BY SessionAssumption, AcyclicAssumption

LEMMA ChainOrdered == Ordered(Chain)
<1> DEFINE d(n) == Depth[Chain[n].prev]
           last == Len(Chain)
<1>1. last \in Nat /\ last >= 1 /\ DOMAIN Chain = 1 .. last
  BY ChainAssumption
<1>2. \A n \in 1 .. last : Chain[n] \in Records /\ Chain[n].hash # NoHash
  BY <1>1, ChainAssumption
<1>3. \A n \in 1 .. last : d(n) \in Nat /\ d(n) < Depth[Chain[n].hash]
                           /\ Depth[Chain[n].hash] \in Nat
  BY <1>2, RecordFields
<1>4. \A n \in 2 .. last : d(n) = Depth[Chain[n - 1].hash]
  <2>1. \A n \in 2 .. last : Chain[n].prev = Chain[n - 1].hash
    BY <1>1, ChainAssumption
  <2> QED
    BY <2>1
<1> HIDE DEF d, last
<1>5. \A n \in 2 .. last : d(n - 1) < d(n)
  <2>1. \A n \in 2 .. last : n - 1 \in 1 .. last
    BY <1>1
  <2> QED
    BY <1>3, <1>4, <2>1
<1>6. ASSUME NEW m \in 1 .. last, NEW n \in 1 .. last, m < n, ~ (d(m) < d(n))
      PROVE  FALSE
  <2> DEFINE S == {i \in 1 .. last : m < i /\ ~ (d(m) < d(i))}
  <2>1. S \subseteq Nat /\ S # {}
    BY <1>1, <1>6
  <2>2. PICK e \in S : \A i \in S : e <= i
    <3> HIDE DEF S
    <3> QED
      BY <2>1, Least
  <2>3. e \in 2 .. last /\ e - 1 \in 1 .. last /\ e - 1 \notin S /\ m <= e - 1
    BY <1>1, <2>2
  <2>4. d(m) <= d(e - 1)
    BY <1>1, <1>3, <2>3
  <2>5. d(m) < d(e)
    BY <1>3, <1>5, <2>3, <2>4
  <2> QED
    BY <2>2, <2>5
<1>7. \A m, n \in 1 .. last : m < n => d(m) < d(n)
  BY <1>6
<1>8. ASSUME NEW n \in 1 .. last PROVE d(n) < Depth[Chain[last].hash]
  <2>1. last \in 1 .. last /\ (n = last \/ n < last)
    BY <1>1
  <2>2. d(n) = d(last) \/ d(n) < d(last)
    BY <1>7, <2>1
  <2> QED
    BY <1>3, <2>1, <2>2
<1> QED
  BY <1>1, <1>2, <1>7, <1>8 DEF Ordered, d, last

(* A record that names the last one of an ordered log can follow it.       *)
LEMMA AppendOrdered ==
  ASSUME NEW seq \in Seq(Records), seq # <<>>, Ordered(seq),
         NEW r \in Records, r.hash # NoHash, r.prev = seq[Len(seq)].hash
  PROVE  Ordered(Append(seq, r))
<1> DEFINE new == Append(seq, r)
           l == Len(seq)
<1>1. l \in Nat /\ l >= 1 /\ DOMAIN seq = 1 .. l
  OBVIOUS
<1>2. /\ DOMAIN new = 1 .. l + 1 /\ Len(new) = l + 1 /\ new[l + 1] = r
      /\ \A n \in 1 .. l : new[n] = seq[n] /\ seq[n] \in Records
  OBVIOUS
<1> HIDE DEF new, l
<1>3. /\ \A n \in 1 .. l : seq[n].hash # NoHash
      /\ \A m, n \in 1 .. l : m < n => Depth[seq[m].prev] < Depth[seq[n].prev]
      /\ \A n \in 1 .. l : Depth[seq[n].prev] < Depth[r.prev]
  BY <1>1 DEF Ordered, l
<1>4. /\ Depth[r.prev] < Depth[r.hash]
      /\ Depth[r.prev] \in Nat /\ Depth[r.hash] \in Nat
      /\ \A n \in 1 .. l : Depth[seq[n].prev] \in Nat
  BY <1>2, RecordFields
<1>5. \A n \in 1 .. l + 1 : n \in 1 .. l \/ n = l + 1
  BY <1>1
<1>6. \A n \in 1 .. l + 1 : new[n].hash # NoHash
  BY <1>2, <1>3, <1>5
<1>7. \A m, n \in 1 .. l + 1 :
        m < n => Depth[new[m].prev] < Depth[new[n].prev]
  BY <1>1, <1>2, <1>3, <1>5
<1>8. \A n \in 1 .. l + 1 : Depth[new[n].prev] < Depth[new[l + 1].hash]
  BY <1>2, <1>3, <1>4, <1>5
<1> QED
  BY <1>2, <1>6, <1>7, <1>8 DEF Ordered, new

-----------------------------------------------------------------------------
(* Types.                                                                  *)

LEMMA DecodeTypes == \A f \in Frames : Decode(f) \in Records \cup {Undecodable}
BY DEF Decode, FromCbor

LEMMA EncodeTypes == \A r \in Records : Fits(r) => Encode(r) \in Frames
BY FrameBytes

LEMMA SignedTypes ==
  \A r \in Records : Signed(r) \in Seq(Records)
<1>1. \A r \in Records : Countersigned(r) \in Records
  BY SessionAssumption
<1>2. ASSUME NEW r \in Records PROVE <<Countersigned(r)>> \in Seq(Records)
  <2>1. PICK c \in Records : c = Countersigned(r)
    BY <1>1
  <2>2. <<c>> \in Seq(Records)
    OBVIOUS
  <2> QED
    BY <2>1, <2>2
<1>3. <<>> \in Seq(Records)
  OBVIOUS
<1> QED
  BY <1>2, <1>3 DEF Signed

LEMMA WalkTypes == TypeOK => Walk \in Seq(Records)
BY DEF TypeOK, Walk

LEMMA SentTypes == (CHOOSE r \in Sent : TRUE) \in Records
BY SessionAssumption

(* What the actions make of the state of a connection.                     *)
LEMMA ClientTypes ==
  ASSUME NEW c \in ClientType, NEW r \in Records, NEW got \in Seq(Records),
         NEW pc \in {"idle", "waiting", "success", "error"}
  PROVE  /\ [pc |-> pc, rec |-> r, got |-> <<>>] \in ClientType
         /\ [c EXCEPT !.pc = pc] \in ClientType
         /\ [c EXCEPT !.got = Append(@, r)] \in ClientType
         /\ [c EXCEPT !.got = got, !.pc = pc] \in ClientType
<1>1. Append(c.got, r) \in Seq(Records) /\ <<>> \in Seq(Records)
  BY DEF ClientType
<1> QED
  BY <1>1 DEF ClientType

LEMMA TaskTypes ==
  ASSUME NEW t \in TaskType, NEW r \in Records, NEW out \in Seq(Records),
         NEW pc \in {"none", "read", "work", "store", "send"}
  PROVE  /\ NoTask \in TaskType
         /\ [NoTask EXCEPT !.pc = pc] \in TaskType
         /\ [NoTask EXCEPT !.pc = pc, !.msg = r] \in TaskType
         /\ [t EXCEPT !.pc = pc] \in TaskType
         /\ [t EXCEPT !.pc = pc, !.msg = r] \in TaskType
         /\ [t EXCEPT !.pc = pc, !.out = out] \in TaskType
         /\ t.out # <<>> => [t EXCEPT !.out = Tail(@)] \in TaskType
<1>1. NoTask \in TaskType
  BY SentTypes DEF NoTask, TaskType
<1>2. t.out # <<>> => Tail(t.out) \in Seq(Records)
  BY DEF TaskType
<1> QED
  BY <1>1, <1>2 DEF TaskType

LEMMA DownTypes ==
  ASSUME NEW d \in DownType, NEW f \in Frames
  PROVE  /\ Quiet \in DownType
         /\ [d EXCEPT !.frames = <<>>] \in DownType
         /\ [d EXCEPT !.frames = Append(@, f)] \in DownType
         /\ d.frames # <<>> => [d EXCEPT !.frames = Tail(@)] \in DownType
         /\ [d EXCEPT !.end = "eof"] \in DownType
<1>1. d.frames # <<>> => Tail(d.frames) \in Seq(Frames)
  BY DEF DownType
<1>2. Append(d.frames, f) \in Seq(Frames) /\ <<>> \in Seq(Frames)
  BY DEF DownType
<1> QED
  BY <1>1, <1>2 DEF DownType, Quiet

LEMMA ConnTypes ==
  ASSUME TypeOK, NEW k \in Conns
  PROVE  /\ client[k] \in ClientType /\ task[k] \in TaskType
         /\ down[k] \in DownType
         /\ client[k].rec \in Records /\ client[k].got \in Seq(Records)
         /\ task[k].msg \in Records /\ task[k].out \in Seq(Records)
         /\ down[k].frames \in Seq(Frames) /\ answer[k] \in Seq(Records)
         /\ up[k] # NoFrame => up[k] \in Frames
BY DEF TypeOK, ClientType, TaskType, DownType

LEMMA TypeInit == Init => TypeOK
<1> SUFFICES ASSUME Init PROVE TypeOK
  OBVIOUS
<1>1. <<>> \in Seq(Records) /\ <<>> \in Seq(Frames)
  OBVIOUS
<1> QED
  BY <1>1, SentTypes
     DEF Init, TypeOK, NoRun, NoTask, Quiet, ClientType, TaskType, DownType

LEMMA TypeRuns ==
  ASSUME TypeOK, NEW k \in Conns, Runs(k)
  PROVE  TypeOK'
<1>1. ASSUME NEW r \in Sent, NEW pc \in {"waiting", "error"}, Begin(k, r, pc),
             NEW t \in TaskType, task' \in {task, [task EXCEPT ![k] = t]},
             up' \in [Conns -> Frames \cup {NoFrame}]
      PROVE  TypeOK'
  <2>1. r \in Records
    BY SessionAssumption
  <2>2. [pc |-> pc, rec |-> r, got |-> <<>>] \in ClientType
    BY <2>1 DEF ClientType
  <2>3. Quiet \in DownType
    BY DEF DownType, Quiet
  <2>4. client' \in [Conns -> ClientType] /\ down' \in [Conns -> DownType]
    BY <1>1, <2>2, <2>3 DEF TypeOK, Begin
  <2>5. answer' \in [Conns -> Seq(Records)]
    BY <1>1 DEF TypeOK, Begin
  <2> QED
    BY <1>1, <2>4, <2>5 DEF TypeOK, Begin, ledger
<1>2. NoTask \in TaskType
  BY SentTypes DEF NoTask, TaskType
<1>3. CASE Connect(k)
  <2>1. PICK r \in Sent : Fits(r) /\ Begin(k, r, "waiting")
                        /\ up' = [up EXCEPT ![k] = Encode(r)]
    BY <1>3 DEF Connect
  <2>2. Encode(r) \in Frames
    BY <2>1, SessionAssumption, EncodeTypes
  <2>3. up' \in [Conns -> Frames \cup {NoFrame}]
    BY <2>1, <2>2 DEF TypeOK
  <2>4. [NoTask EXCEPT !.pc = "read"] \in TaskType
    BY <1>2 DEF TaskType
  <2>5. task' = [task EXCEPT ![k] = [NoTask EXCEPT !.pc = "read"]]
    BY <1>3 DEF Connect
  <2> QED
    BY <1>1, <2>1, <2>3, <2>4, <2>5
<1>4. CASE Post(k)
  <2>1. PICK r \in Sent :
          /\ Begin(k, r, "waiting")
          /\ task' = [task EXCEPT ![k] =
                        [NoTask EXCEPT !.pc = "work", !.msg = r]]
          /\ UNCHANGED up
    BY <1>4 DEF Post
  <2>2. [NoTask EXCEPT !.pc = "work", !.msg = r] \in TaskType
    BY <1>2, SessionAssumption DEF TaskType
  <2> QED
    BY <1>1, <2>1, <2>2 DEF TypeOK
<1>5. CASE ConnectFails(k)
  <2>1. PICK r \in Sent : Begin(k, r, "error") /\ UNCHANGED <<task, up>>
    BY <1>5 DEF ConnectFails
  <2> QED
    BY <1>1, <1>2, <2>1 DEF TypeOK
<1> QED
  BY <1>3, <1>4, <1>5 DEF Runs

LEMMA TypeLeave ==
  ASSUME TypeOK, NEW k \in Conns, NEW outcome \in {"success", "error"},
         Leave(k, outcome)
  PROVE  TypeOK'
<1>1. [client[k] EXCEPT !.pc = outcome] \in ClientType
  BY ConnTypes DEF ClientType
<1>0. [down[k] EXCEPT !.frames = <<>>] \in DownType
  <2>1. <<>> \in Seq(Frames) /\ down[k] \in DownType
    BY ConnTypes
  <2> QED
    BY <2>1 DEF DownType
<1>2. client' \in [Conns -> ClientType] /\ down' \in [Conns -> DownType]
  BY <1>0, <1>1 DEF TypeOK, Leave
<1> QED
  BY <1>2 DEF TypeOK, Leave, ledger

LEMMA TypeReads ==
  ASSUME TypeOK, NEW k \in Conns, Reads(k) \/ HttpGivesUp(k)
  PROVE  TypeOK'
<1>1. CASE ClientRecv(k)
  <2> DEFINE r == Decode(Head(down[k].frames))
  <2>1. CASE r = Undecodable
    BY <1>1, <2>1, TypeLeave DEF ClientRecv
  <2>2. CASE r # Undecodable
    <3>1. down[k].frames \in Seq(Frames) /\ down[k].frames # <<>>
      BY <1>1, ConnTypes DEF ClientRecv
    <3>2. Head(down[k].frames) \in Frames
      BY <3>1
    <3>3. r \in Records
      BY <2>2, <3>2, DecodeTypes
    <3>4. /\ client' = [client EXCEPT ![k].got = Append(@, r)]
          /\ down' = [down EXCEPT ![k].frames = Tail(@)]
          /\ UNCHANGED <<ledger, task, up, answer>>
      BY <1>1, <2>2 DEF ClientRecv
    <3> HIDE DEF r
    <3>5. /\ [client[k] EXCEPT !.got = Append(@, r)] \in ClientType
          /\ [down[k] EXCEPT !.frames = Tail(@)] \in DownType
      BY <3>1, <3>3, ConnTypes, ClientTypes, DownTypes, <3>2
    <3>6. client' \in [Conns -> ClientType] /\ down' \in [Conns -> DownType]
      BY <3>4, <3>5 DEF TypeOK
    <3> QED
      BY <3>4, <3>6 DEF TypeOK, ledger
  <2> QED
    BY <2>1, <2>2
<1>2. CASE ClientEnough(k)
  BY <1>2, TypeLeave DEF ClientEnough
<1>3. CASE ClientTimeout(k)
  BY <1>3, TypeLeave DEF ClientTimeout
<1>4. CASE ClientEof(k)
  BY <1>4, TypeLeave DEF ClientEof
<1>5. CASE HttpGivesUp(k)
  BY <1>5, TypeLeave DEF HttpGivesUp
<1> QED
  BY <1>1, <1>2, <1>3, <1>4, <1>5 DEF Reads

LEMMA TypeEnd ==
  ASSUME TypeOK, NEW k \in Conns, End(k)
  PROVE  TypeOK'
<1>1. NoTask \in TaskType /\ [down[k] EXCEPT !.end = "eof"] \in DownType
  BY SentTypes, ConnTypes DEF NoTask, TaskType, DownType
<1>2. task' \in [Conns -> TaskType] /\ down' \in [Conns -> DownType]
  BY <1>1 DEF TypeOK, End
<1>3. up' \in [Conns -> Frames \cup {NoFrame}]
  BY DEF TypeOK, End
<1> QED
  BY <1>2, <1>3 DEF TypeOK, End, ledger

(* Steps that change the task of a connection and the open slot at most.   *)
LEMMA TypeWork ==
  ASSUME TypeOK, NEW k \in Conns, NEW t \in TaskType, Work(k, t),
         open' \in Records \cup {NoFile, Torn}, UNCHANGED <<log, serving>>,
         answer' \in [Conns -> Seq(Records)]
  PROVE  TypeOK'
<1>1. task' \in [Conns -> TaskType]
  BY DEF TypeOK, Work
<1> QED
  BY <1>1 DEF TypeOK, Work

LEMMA TypeReturned ==
  ASSUME TypeOK, NEW k \in Conns, NEW out \in Seq(Records), Returned(k, out),
         open' \in Records \cup {NoFile, Torn}, UNCHANGED <<log, serving>>
  PROVE  TypeOK'
<1>1. [task[k] EXCEPT !.pc = "send", !.out = out] \in TaskType
  BY ConnTypes DEF TaskType
<1>2. answer' \in [Conns -> Seq(Records)]
  BY DEF TypeOK, Returned
<1> QED
  BY <1>1, <1>2, TypeWork DEF Returned

LEMMA TypeServes ==
  ASSUME TypeOK, NEW k \in Conns, Serves(k)
  PROVE  TypeOK'
<1>0. /\ task[k] \in TaskType /\ task[k].msg \in Records
      /\ task[k].out \in Seq(Records) /\ client[k] \in ClientType
      /\ down[k] \in DownType
  BY ConnTypes
<1>1. CASE ServerRead(k)
  <2> DEFINE r == Decode(up[k])
  <2>1. CASE r = Undecodable
    BY <1>1, <2>1, TypeEnd DEF ServerRead
  <2>2. CASE r # Undecodable
    <3>1. up[k] \in Frames
      BY <1>1, ConnTypes DEF ServerRead
    <3>2. r \in Records
      BY <2>2, <3>1, DecodeTypes
    <3>3. /\ task' = [task EXCEPT ![k].pc = "work", ![k].msg = r]
          /\ up' = [up EXCEPT ![k] = NoFrame]
          /\ UNCHANGED <<ledger, client, down, answer>>
      BY <1>1, <2>2 DEF ServerRead
    <3> HIDE DEF r
    <3>4. [task[k] EXCEPT !.pc = "work", !.msg = r] \in TaskType
      BY <1>0, <3>2 DEF TaskType
    <3>5. task' \in [Conns -> TaskType]
      BY <3>3, <3>4 DEF TypeOK
    <3> QED
      BY <3>3, <3>5 DEF TypeOK, ledger
  <2> QED
    BY <2>1, <2>2
<1>2. CASE ServerEof(k)
  BY <1>2, TypeEnd DEF ServerEof
<1>3. CASE Refuse(k)
  BY <1>3, TypeEnd DEF Refuse
<1>4. CASE Answer(k)
  <2>1. Signed(task[k].msg) \in Seq(Records) /\ Walk \in Seq(Records)
    BY <1>0, SignedTypes, WalkTypes
  <2>2. Signed(task[k].msg) \o Walk \in Seq(Records)
    BY <2>1
  <2> QED
    BY <1>4, <2>2, TypeReturned DEF Answer, ledger, TypeOK
<1>11. CASE Execute(k)
  BY <1>0, <1>11, SignedTypes, TypeReturned DEF Execute, ledger, TypeOK
<1>5. CASE Truncate(k)
  <2>1. [task[k] EXCEPT !.pc = "store"] \in TaskType
    BY <1>0 DEF TaskType
  <2> QED
    BY <1>5, <2>1, TypeWork DEF Truncate, TypeOK
<1>6. CASE Store(k)
  <2>1. Signed(task[k].msg) \in Seq(Records)
    BY <1>0, SignedTypes
  <2>2. open' \in Records \cup {NoFile, Torn}
    BY <1>0, <1>6 DEF Store, TypeOK
  <2> QED
    BY <1>6, <2>1, <2>2, TypeReturned DEF Store
<1>7. CASE ServerSend(k)
  <2> DEFINE r == Head(task[k].out)
  <2>1. CASE ~Fits(r)
    BY <1>7, <2>1, TypeEnd DEF ServerSend
  <2>2. CASE Fits(r)
    <3>1. task[k].out # <<>>
      BY <1>7 DEF ServerSend
    <3>2. r \in Records
      BY <1>0, <3>1
    <3>3. Encode(r) \in Frames
      BY <2>2, <3>2, EncodeTypes
    <3>4. /\ down' = [down EXCEPT ![k].frames = Append(@, Encode(r))]
          /\ task' = [task EXCEPT ![k].out = Tail(@)]
          /\ UNCHANGED <<ledger, client, up, answer>>
      BY <1>7, <2>2 DEF ServerSend
    <3> HIDE DEF r
    <3>5. /\ [down[k] EXCEPT !.frames = Append(@, Encode(r))] \in DownType
          /\ [task[k] EXCEPT !.out = Tail(@)] \in TaskType
      BY <1>0, <3>1, <3>2, <3>3, DownTypes, TaskTypes
    <3>6. task' \in [Conns -> TaskType] /\ down' \in [Conns -> DownType]
      BY <3>4, <3>5 DEF TypeOK
    <3> QED
      BY <3>4, <3>6 DEF TypeOK, ledger
  <2> QED
    BY <2>1, <2>2
<1>8. CASE ServerSendsInVain(k)
  <2>1. task[k].out # <<>>
    BY <1>8 DEF ServerSendsInVain
  <2>2. [task[k] EXCEPT !.out = Tail(@)] \in TaskType
    BY <1>0, <2>1, TaskTypes
  <2>3. CASE End(k)
    BY <2>3, TypeEnd
  <2>4. CASE /\ Work(k, [task[k] EXCEPT !.out = Tail(@)])
             /\ UNCHANGED <<ledger, answer>>
    BY <2>2, <2>4, TypeWork DEF TypeOK, ledger
  <2> QED
    BY <1>8, <2>3, <2>4 DEF ServerSendsInVain
<1>9. CASE ServerSent(k)
  <2>1. [task[k] EXCEPT !.pc = "read"] \in TaskType
    BY <1>0 DEF TaskType
  <2> QED
    BY <1>9, <2>1, TypeWork DEF ServerSent, TypeOK, ledger
<1>10. CASE HttpReply(k)
  <2> DEFINE pc == IF task[k].out = <<>> THEN "error" ELSE "success"
  <2>1. NoTask \in TaskType
    BY SentTypes DEF NoTask, TaskType
  <2>2. pc \in {"error", "success"}
    OBVIOUS
  <2>3. client' \in {client,
          [client EXCEPT ![k].got = task[k].out, ![k].pc = pc]}
    BY <1>10 DEF HttpReply
  <2> HIDE DEF pc
  <2>4. [client[k] EXCEPT !.got = task[k].out, !.pc = pc] \in ClientType
    BY <1>0, <2>2 DEF ClientType
  <2>5. client' \in [Conns -> ClientType]
    BY <2>3, <2>4 DEF TypeOK
  <2>6. task' \in [Conns -> TaskType]
    BY <1>10, <2>1 DEF TypeOK, HttpReply
  <2> QED
    BY <1>10, <2>5, <2>6 DEF TypeOK, HttpReply, ledger
<1> QED
  BY <1>1, <1>2, <1>3, <1>4, <1>5, <1>6, <1>7, <1>8, <1>9, <1>10, <1>11
     DEF Serves

(* What a crash leaves of the frames on their way.                         *)
LEMMA CutFrames ==
  ASSUME NEW f \in Seq(Frames), NEW n \in Nat
  PROVE  LET cut == SubSeq(f, 1, IF n < Len(f) THEN n ELSE Len(f))
         IN /\ cut \in Seq(Frames) /\ Len(cut) <= Len(f)
            /\ \A m \in 1 .. Len(cut) : cut[m] = f[m]
<1> DEFINE l == IF n < Len(f) THEN n ELSE Len(f)
           cut == SubSeq(f, 1, l)
<1>1. l \in Nat /\ l <= Len(f)
  OBVIOUS
<1> HIDE DEF l
<1>2. Len(cut) = l /\ \A m \in 1 .. l : cut[m] = f[m] /\ f[m] \in Frames
  BY <1>1
<1>3. cut \in Seq(Frames)
  BY <1>1
<1> QED
  BY <1>1, <1>2, <1>3 DEF l

LEMMA TypeDaemon ==
  ASSUME TypeOK, FirstStart \/ Restart \/ Crash
  PROVE  TypeOK'
<1>1. CASE FirstStart
  BY <1>1, ChainAssumption DEF FirstStart, TypeOK, wire
<1>2. CASE Restart
  <2>1. log' \in Seq(Records) /\ open' \in Records \cup {NoFile, Torn}
    <3>1. CASE UNCHANGED <<log, open>>
      BY <3>1 DEF TypeOK
    <3>2. CASE open \in Records /\ log' = Append(log, open) /\ open' = NoFile
      <4>1. log \in Seq(Records)
        BY DEF TypeOK
      <4> QED
        BY <3>2, <4>1
    <3> QED
      BY <1>2, <3>1, <3>2 DEF Restart, Ledger!Restart
  <2>2. serving' \in BOOLEAN
    BY <1>2 DEF Restart, Ledger!Restart
  <2> QED
    BY <1>2, <2>1, <2>2 DEF Restart, TypeOK, wire
<1>3. CASE Crash
  <2>1. PICK end \in {"eof", "reset"}, n \in 0 .. Capacity :
       down' = [k \in Conns |->
                  IF ~Waiting(k) THEN down[k] ELSE
                  [frames |-> SubSeq(down[k].frames, 1,
                                IF n < Len(down[k].frames)
                                THEN n ELSE Len(down[k].frames)),
                   end |-> IF down[k].end = "open" THEN end ELSE down[k].end]]
    BY <1>3 DEF Crash
  <2>2. n \in Nat
    BY SessionAssumption
  <2>3. ASSUME NEW k \in Conns PROVE down'[k] \in DownType
    <3>1. down[k] \in DownType /\ down[k].frames \in Seq(Frames)
      BY ConnTypes
    <3> DEFINE cut == SubSeq(down[k].frames, 1, IF n < Len(down[k].frames)
                                           THEN n ELSE Len(down[k].frames))
    <3>2. cut \in Seq(Frames)
      BY <2>2, <3>1, CutFrames
    <3>3. down'[k] = IF ~Waiting(k) THEN down[k] ELSE
            [frames |-> cut,
             end |-> IF down[k].end = "open" THEN end ELSE down[k].end]
      BY <2>1
    <3> HIDE DEF cut
    <3> QED
      BY <3>1, <3>2, <3>3 DEF DownType
  <2>4. down' \in [Conns -> DownType]
    BY <2>1, <2>3
  <2>5. NoTask \in TaskType
    BY SentTypes DEF NoTask, TaskType
  <2> QED
    BY <1>3, <2>4, <2>5 DEF Crash, TypeOK
<1> QED
  BY <1>1, <1>2, <1>3

LEMMA TypeStep ==
  ASSUME TypeOK, [Next]_vars
  PROVE  TypeOK'
<1>1. CASE UNCHANGED vars
  BY <1>1 DEF vars, TypeOK
<1>2. CASE Next
  BY <1>2, TypeRuns, TypeReads, TypeServes, TypeDaemon DEF Next
<1> QED
  BY <1>1, <1>2

(* Types are kept; in particular no frame but a whole one is ever under    *)
(* way, and what is decoded is a record.                                   *)
THEOREM SessionTypes == Spec => []TypeOK
<1>1. TypeOK /\ [Next]_vars => TypeOK'
  BY TypeStep
<1> QED
  BY TypeInit, <1>1, PTL DEF Spec

-----------------------------------------------------------------------------
(* The ledger.                                                             *)

LEMMA ExtendedInit == Init => Extended
<1> SUFFICES ASSUME Init PROVE Extended
  OBVIOUS
<1>1. Ordered(log)
  <2>1. log = <<>> /\ DOMAIN log = {}
    BY DEF Init
  <2> QED
    BY <2>1 DEF Ordered
<1>2. open \notin Records
  BY SessionAssumption DEF Init
<1> QED
  BY <1>1, <1>2 DEF Init, Extended, NoTask

LEMMA ExtendedSame ==
  ASSUME Extended, UNCHANGED <<ledger, task>>
  PROVE  Extended'
BY DEF Extended, ledger, Extends, Tip

(* A step of one task, which is not on its way to Store afterwards.        *)
LEMMA ExtendedTask ==
  ASSUME TypeOK, Extended, serving, UNCHANGED ledger,
         NEW k \in Conns, task'[k].pc # "store",
         \A j \in Conns \ {k} : UNCHANGED task[j]
  PROVE  Extended'
<1>1. UNCHANGED log /\ UNCHANGED open /\ UNCHANGED serving /\ UNCHANGED Tip
  BY DEF ledger, Tip
<1>2. ASSUME NEW j \in Conns, task'[j].pc = "store"
      PROVE  Extends(task[j].msg)'
  <2>1. j \in Conns \ {k}
    BY <1>2
  <2>2. Extends(task[j].msg)
    BY <1>2, <2>1 DEF Extended
  <2> QED
    BY <1>1, <2>1, <2>2 DEF Extends
<1> QED
  BY <1>1, <1>2 DEF Extended

LEMMA ExtendedRuns ==
  ASSUME TypeOK, Extended, NEW k \in Conns, Runs(k)
  PROVE  Extended' /\ UNCHANGED ledger
<1>1. CASE Connect(k)
  <2>1. /\ task'[k].pc = "read" /\ \A j \in Conns \ {k} : UNCHANGED task[j]
    BY <1>1 DEF Connect, TypeOK, NoTask
  <2> QED
    BY <1>1, <2>1, ExtendedTask DEF Connect, Begin
<1>2. CASE Post(k)
  <2>1. /\ task'[k].pc = "work" /\ \A j \in Conns \ {k} : UNCHANGED task[j]
    BY <1>2 DEF Post, TypeOK, NoTask
  <2> QED
    BY <1>2, <2>1, ExtendedTask DEF Post, Begin
<1>3. CASE ConnectFails(k)
  BY <1>3, ExtendedSame DEF ConnectFails, Begin
<1> QED
  BY <1>1, <1>2, <1>3 DEF Runs

LEMMA ExtendedReads ==
  ASSUME TypeOK, Extended, NEW k \in Conns, Reads(k) \/ HttpGivesUp(k)
  PROVE  Extended' /\ UNCHANGED ledger
<1>1. UNCHANGED <<ledger, task>>
  BY DEF Reads, ClientRecv, ClientEnough, ClientTimeout, ClientEof,
         HttpGivesUp, Leave
<1> QED
  BY <1>1, ExtendedSame DEF ledger

LEMMA ExtendedServes ==
  ASSUME TypeOK, Extended, NEW k \in Conns, Serves(k)
  PROVE  /\ Extended'
         /\ UNCHANGED ledger \/ Ledger!Truncate \/ Ledger!Put
<1>0. task[k] \in TaskType /\ task[k].msg \in Records
  BY ConnTypes
<1>1. ASSUME task[k].pc # "none"
      PROVE  serving /\ log # <<>>
  BY <1>1 DEF Extended
<1>2. ASSUME task[k].pc # "none", UNCHANGED ledger, NEW t, t.pc # "store",
             task' = [task EXCEPT ![k] = t]
      PROVE  Extended'
  <2>1. task'[k].pc # "store" /\ \A j \in Conns \ {k} : UNCHANGED task[j]
    BY <1>2 DEF TypeOK
  <2> QED
    BY <1>1, <1>2, <2>1, ExtendedTask
<1>3. ASSUME task[k].pc # "none", End(k)
      PROVE  Extended' /\ UNCHANGED ledger
  BY <1>2, <1>3 DEF End, NoTask
<1>4. ASSUME task[k].pc # "none", NEW out, Returned(k, out), UNCHANGED ledger
      PROVE  Extended'
  <2>1. [task[k] EXCEPT !.pc = "send", !.out = out].pc = "send"
    BY <1>0 DEF TaskType
  <2> QED
    BY <1>2, <1>4, <2>1 DEF Returned, Work
<1>5. CASE ServerRead(k)
  <2> DEFINE r == Decode(up[k])
  <2>1. CASE r = Undecodable
    BY <1>3, <1>5, <2>1 DEF ServerRead
  <2>2. CASE r # Undecodable
    <3>1. /\ task' = [task EXCEPT ![k].pc = "work", ![k].msg = r]
          /\ task[k].pc = "read" /\ UNCHANGED ledger
      BY <1>5, <2>2 DEF ServerRead
    <3> HIDE DEF r
    <3>2. [task[k] EXCEPT !.pc = "work", !.msg = r].pc = "work"
      BY <1>0 DEF TaskType
    <3>3. task' = [task EXCEPT ![k] =
                     [task[k] EXCEPT !.pc = "work", !.msg = r]]
      BY <3>1
    <3> QED
      BY <1>2, <3>1, <3>2, <3>3
  <2> QED
    BY <2>1, <2>2
<1>6. CASE ServerEof(k)
  BY <1>3, <1>6 DEF ServerEof
<1>7. CASE Refuse(k)
  BY <1>3, <1>7 DEF Refuse
<1>8. CASE Answer(k)
  BY <1>4, <1>8 DEF Answer
<1>15. CASE Execute(k)
  BY <1>4, <1>15 DEF Execute
<1>9. CASE Truncate(k)
  <2>1. /\ task' = [task EXCEPT ![k] = [task[k] EXCEPT !.pc = "store"]]
        /\ open' = Torn /\ UNCHANGED <<log, serving>>
        /\ Extends(task[k].msg)
    BY <1>9 DEF Truncate, Work
  <2>2. serving /\ log # <<>>
    BY <1>1, <1>9 DEF Truncate
  <2>3. task'[k].msg = task[k].msg /\ \A j \in Conns \ {k} : UNCHANGED task[j]
    BY <1>0, <2>1 DEF TypeOK, TaskType
  <2>4. UNCHANGED Tip
    BY <2>1 DEF Tip
  <2>5. ASSUME NEW j \in Conns, task'[j].pc = "store"
        PROVE  Extends(task[j].msg)'
    <3>1. Extends(task[j].msg)
      BY <2>1, <2>3, <2>5 DEF Extended
    <3> QED
      BY <2>3, <2>4, <3>1 DEF Extends
  <2>6. Extended'
    BY <2>1, <2>2, <2>5, SessionAssumption DEF Extended
  <2> QED
    BY <2>1, <2>2, <2>6 DEF Ledger!Truncate
<1>10. CASE Store(k)
  <2>1. /\ Returned(k, Signed(task[k].msg))
        /\ open' \in {task[k].msg, open} /\ UNCHANGED <<log, serving>>
        /\ Extends(task[k].msg) /\ task[k].pc = "store"
    BY <1>10 DEF Store, Extended
  <2>2. serving /\ log # <<>>
    BY <1>1, <2>1
  <2>3. task'[k].pc = "send" /\ \A j \in Conns \ {k} : UNCHANGED task[j]
    BY <1>0, <2>1 DEF Returned, Work, TypeOK, TaskType
  <2>4. UNCHANGED Tip
    BY <2>1 DEF Tip
  <2>5. ASSUME NEW j \in Conns, task'[j].pc = "store"
        PROVE  Extends(task[j].msg)'
    <3>1. j \in Conns \ {k} /\ Extends(task[j].msg)
      BY <2>3, <2>5 DEF Extended
    <3> QED
      BY <2>3, <2>4, <3>1 DEF Extends
  <2>6. open' \in Records => open'.prev = Tip
    BY <2>1, <2>2 DEF Extended, Extends
  <2>7. Extended'
    BY <2>1, <2>2, <2>4, <2>5, <2>6 DEF Extended
  <2>8. CASE open' = open
    BY <2>1, <2>7, <2>8 DEF ledger
  <2>9. CASE open' = task[k].msg
    <3>1. open' \in Records /\ open'.prev = Ledger!Tip
      BY <1>0, <2>1, <2>9 DEF Extends, Tip, Ledger!Tip
    <3> QED
      BY <2>1, <2>2, <2>7, <3>1 DEF Ledger!Put
  <2> QED
    BY <2>1, <2>8, <2>9
<1>11. CASE ServerSend(k)
  <2> DEFINE r == Head(task[k].out)
  <2>1. CASE ~Fits(r)
    BY <1>3, <1>11, <2>1 DEF ServerSend
  <2>2. CASE Fits(r)
    <3>1. /\ task' = [task EXCEPT ![k] = [task[k] EXCEPT !.out = Tail(@)]]
          /\ task[k].pc = "send" /\ UNCHANGED ledger
      BY <1>11, <2>2 DEF ServerSend
    <3>2. [task[k] EXCEPT !.out = Tail(@)].pc = "send"
      BY <1>0, <3>1 DEF TaskType
    <3> QED
      BY <1>2, <3>1, <3>2
  <2> QED
    BY <2>1, <2>2
<1>12. CASE ServerSendsInVain(k)
  <2>1. CASE End(k)
    BY <1>3, <1>12, <2>1 DEF ServerSendsInVain
  <2>2. CASE /\ Work(k, [task[k] EXCEPT !.out = Tail(@)])
             /\ UNCHANGED <<ledger, answer>>
    <3>1. [task[k] EXCEPT !.out = Tail(@)].pc = "send"
      BY <1>0, <1>12 DEF TaskType, ServerSendsInVain
    <3> QED
      BY <1>2, <1>12, <2>2, <3>1 DEF ServerSendsInVain, Work
  <2> QED
    BY <1>12, <2>1, <2>2 DEF ServerSendsInVain
<1>13. CASE ServerSent(k)
  <2>1. [task[k] EXCEPT !.pc = "read"].pc = "read"
    BY <1>0 DEF TaskType
  <2> QED
    BY <1>2, <1>13, <2>1 DEF ServerSent, Work
<1>14. CASE HttpReply(k)
  BY <1>2, <1>14 DEF HttpReply, NoTask
<1> QED
  BY <1>5, <1>6, <1>7, <1>8, <1>9, <1>10, <1>11, <1>12, <1>13, <1>14, <1>15
     DEF Serves

(* A start of the daemon or a crash: SlotLedger does the same.             *)
LEMMA ExtendedDaemon ==
  ASSUME TypeOK, Extended, FirstStart \/ Restart \/ Crash
  PROVE  Extended' /\ (Ledger!FirstStart \/ Ledger!Restart \/ Ledger!Stop)
<1>1. CASE FirstStart
  <2>1. /\ log' = Chain /\ serving' /\ UNCHANGED <<open, task>>
        /\ log = <<>> /\ ~serving
    BY <1>1 DEF FirstStart, wire
  <2>2. Chain # <<>> /\ Chain \in Seq(Records) /\ Ordered(Chain)
    BY ChainAssumption, ChainOrdered
  <2>3. Ledger!Chained(Chain)
    BY ChainAssumption DEF Ledger!Chained
  <2>4. open \notin Records /\ open \in Ledger!Contents
    BY <2>1 DEF Extended, TypeOK, Ledger!Contents
  <2>5. Extended'
    <3>1. \A j \in Conns : task'[j].pc # "store"
      BY <2>1 DEF Extended
    <3>2. Ordered(log)'
      BY <2>1, <2>2 DEF Ordered
    <3> QED
      BY <2>1, <2>2, <2>4, <3>1, <3>2 DEF Extended
  <2>6. Ledger!FirstStart
    BY <2>1, <2>2, <2>3, <2>4 DEF Ledger!FirstStart
  <2> QED
    BY <2>5, <2>6
<1>2. CASE Restart
  <2>1. /\ Ledger!Restart /\ UNCHANGED task /\ ~serving /\ serving'
        /\ log # <<>>
    BY <1>2 DEF Restart, Ledger!Restart, wire
  <2>2. \A j \in Conns : task'[j].pc # "store"
    BY <2>1 DEF Extended
  <2>3. CASE UNCHANGED <<log, open>>
    BY <2>1, <2>2, <2>3 DEF Extended, Tip, Ordered
  <2>4. CASE /\ open \in Records /\ open.hash # NoHash
             /\ log' = Append(log, open) /\ open' = NoFile
    <3>1. log \in Seq(Records) /\ Ordered(log) /\ open.prev = log[Len(log)].hash
      BY <2>4 DEF TypeOK, Extended, Tip
    <3>2. Ordered(Append(log, open))
      BY <2>1, <2>4, <3>1, AppendOrdered
    <3>3. Append(log, open) # <<>> /\ open' \notin Records
      BY <2>4, <3>1, SessionAssumption
    <3>4. Ordered(log)'
      BY <2>4, <3>2 DEF Ordered
    <3> QED
      BY <2>1, <2>2, <2>4, <3>3, <3>4 DEF Extended
  <2> QED
    BY <2>1, <2>3, <2>4 DEF Ledger!Restart
<1>3. CASE Crash
  <2>1. \A j \in Conns : task'[j].pc = "none"
    BY <1>3 DEF Crash, NoTask
  <2>2. serving /\ ~serving' /\ UNCHANGED <<log, open>>
    BY <1>3 DEF Crash
  <2> QED
    BY <2>1, <2>2 DEF Extended, Tip, Ordered, Ledger!Stop
<1> QED
  BY <1>1, <1>2, <1>3

LEMMA LedgerStep ==
  ASSUME LedgerInv, [Next]_vars
  PROVE  LedgerInv' /\ [Ledger!Next]_<<log, open, serving>>
<1>1. TypeOK /\ Extended /\ TypeOK'
  BY TypeStep DEF LedgerInv
<1>2. CASE UNCHANGED vars
  <2>1. UNCHANGED <<ledger, task>>
    BY <1>2 DEF vars, ledger
  <2> QED
    BY <1>1, <2>1, ExtendedSame DEF LedgerInv, ledger
<1>3. CASE Next
  <2>1. ASSUME NEW k \in Conns,
               Runs(k) \/ Reads(k) \/ HttpGivesUp(k) \/ Serves(k)
        PROVE  /\ Extended'
               /\ UNCHANGED ledger \/ Ledger!Truncate \/ Ledger!Put
    BY <1>1, <2>1, ExtendedRuns, ExtendedReads, ExtendedServes
  <2>2. CASE FirstStart \/ Restart \/ Crash
    BY <1>1, <2>2, ExtendedDaemon DEF LedgerInv, Ledger!Next
  <2> QED
    BY <1>1, <1>3, <2>1, <2>2 DEF Next, LedgerInv, Ledger!Next, ledger
<1> QED
  BY <1>2, <1>3

LEMMA LedgerInductive == Spec => []LedgerInv
<1>1. Init => LedgerInv
  BY TypeInit, ExtendedInit DEF LedgerInv
<1>2. LedgerInv /\ [Next]_vars => LedgerInv'
  BY LedgerStep
<1> QED
  BY <1>1, <1>2, PTL DEF Spec

(* What clients do to the ledger through the wire, whatever they repeat    *)
(* and whenever the daemon dies, SlotLedger allows.                        *)
THEOREM SessionImplementsLedger == Spec => ImplementsSlotLedger
<1>1. Init => Ledger!Init
  BY DEF Init, Ledger!Init
<1>2. LedgerInv /\ [Next]_vars => [Ledger!Next]_(Ledger!vars)
  BY LedgerStep DEF Ledger!vars
<1> QED
  BY <1>1, <1>2, LedgerInductive, PTL DEF Spec, Ledger!Spec, ImplementsSlotLedger

(* Two records of the same intent name the same predecessor, and along the *)
(* log and its open slot every predecessor builds on more than the last.   *)
THEOREM OneIntentOnce == Spec => []AppendedOnce
<1>1. ASSUME LedgerInv PROVE AppendedOnce
  <2>1. log \in Seq(Records) /\ Ordered(log)
    BY <1>1 DEF LedgerInv, TypeOK, Extended
  <2>2. Stored \in Seq(Records)
    BY <2>1 DEF Stored
  <2>3. \A m, n \in DOMAIN Stored :
          m < n => Depth[Stored[m].prev] < Depth[Stored[n].prev]
    <3>1. CASE open \notin Records
      BY <2>1, <3>1 DEF Stored, Ordered
    <3>2. CASE open \in Records
      <4> DEFINE l == Len(log)
      <4>1. /\ l \in Nat /\ DOMAIN log = 1 .. l /\ DOMAIN Stored = 1 .. l + 1
            /\ Stored[l + 1] = open /\ \A n \in 1 .. l : Stored[n] = log[n]
        BY <2>1, <3>2 DEF Stored
      <4>2. \A n \in 1 .. l : Depth[log[n].prev] < Depth[open.prev]
        BY <1>1, <2>1, <3>2, <4>1 DEF Ordered, LedgerInv, Extended, Tip
      <4>3. \A m, n \in 1 .. l : m < n => Depth[log[m].prev] < Depth[log[n].prev]
        BY <2>1, <4>1 DEF Ordered
      <4> HIDE DEF l
      <4> QED
        BY <4>1, <4>2, <4>3
    <3> QED
      BY <3>1, <3>2
  <2>4. DOMAIN Stored = 1 .. Len(Stored) /\ Len(Stored) \in Nat
        /\ \A n \in DOMAIN Stored : Stored[n] \in Records
    BY <2>2
  <2>5. \A n \in DOMAIN Stored : Depth[Stored[n].prev] \in Nat
    BY <2>4, RecordFields
  <2>6. ASSUME NEW i \in DOMAIN Stored, NEW j \in DOMAIN Stored,
               Stored[i].intent = Stored[j].intent
        PROVE  i = j
    <3>1. Stored[i].prev = Stored[j].prev
      BY <2>4, <2>6, IntentAssumption
    <3>2. ~ (i < j) /\ ~ (j < i)
      BY <2>3, <2>5, <3>1
    <3> QED
      BY <2>4, <3>2
  <2> QED
    BY <2>6 DEF AppendedOnce
<1> QED
  BY <1>1, LedgerInductive, PTL

-----------------------------------------------------------------------------
(* What connections carry.                                                 *)

(* What has been read and what is on its way are, one after the other, the *)
(* first of the records that process_rhex returned.                        *)
Delivered(got, frames, a) ==
  /\ Len(got) + Len(frames) <= Len(a)
  /\ \A n \in 1 .. Len(got) : got[n] = a[n]
  /\ \A n \in 1 .. Len(frames) :
       /\ Fits(a[Len(got) + n])
       /\ frames[n] = Encode(a[Len(got) + n])

(* What the task still has to send are the others.                         *)
Left(got, frames, out, a) ==
  /\ Len(got) + Len(frames) + Len(out) = Len(a)
  /\ \A n \in 1 .. Len(out) : out[n] = a[Len(got) + Len(frames) + n]

(* A frame on its way up is the run's record; before process_rhex returns  *)
(* nothing has come down; to an HTTP client all records come at once.      *)
Carry(k, c, t, u, d, a) ==
  /\ t.pc \in {"work", "store", "send"} => t.msg = c.rec
  /\ u # NoFrame => t.pc = "read" /\ Fits(c.rec) /\ u = Encode(c.rec)
  /\ u # NoFrame \/ t.pc \in {"work", "store"} =>
       c.got = <<>> /\ d.frames = <<>>
  /\ k \in Http => d.frames = <<>> /\ (c.pc = "waiting" => c.got = <<>>)
  /\ Delivered(c.got, d.frames, a)
  /\ c.pc = "waiting" /\ t.pc = "send" => Left(c.got, d.frames, t.out, a)

Carried(k) == Carry(k, client[k], task[k], up[k], down[k], answer[k])

CarriedInv == TypeOK /\ \A k \in Conns : Carried(k)

LEMMA NothingDelivered ==
  \A a \in Seq(Records) : Delivered(<<>>, <<>>, a) /\ Left(<<>>, <<>>, a, a)
<1>1. Len(<<>>) = 0 /\ 1 .. 0 = {}
  OBVIOUS
<1>2. ASSUME NEW a \in Seq(Records)
      PROVE  Delivered(<<>>, <<>>, a) /\ Left(<<>>, <<>>, a, a)
  <2>1. Len(a) \in Nat
    OBVIOUS
  <2>2. Delivered(<<>>, <<>>, a)
    BY <1>1, <2>1 DEF Delivered
  <2>3. \A n \in 1 .. Len(a) : 0 + 0 + n = n
    OBVIOUS
  <2>4. Left(<<>>, <<>>, a, a)
    BY <1>1, <2>1, <2>3 DEF Left
  <2> QED
    BY <2>2, <2>4
<1> QED
  BY <1>2

(* Reading a frame delivers the next record, or fails.                     *)
LEMMA ReadDelivers ==
  ASSUME NEW got \in Seq(Records), NEW frames \in Seq(Frames),
         NEW a \in Seq(Records), Delivered(got, frames, a), frames # <<>>,
         NEW r, r = Decode(Head(frames)), r # Undecodable
  PROVE  /\ r \in Records
         /\ Delivered(Append(got, r), Tail(frames), a)
         /\ \A out \in Seq(Records) : Left(got, frames, out, a) =>
              Left(Append(got, r), Tail(frames), out, a)
<1> DEFINE g == Len(got)
           f == Len(frames)
           more == Append(got, r)
           rest == Tail(frames)
<1>1. g \in Nat /\ f \in Nat /\ f >= 1 /\ Len(a) \in Nat /\ Head(frames) = frames[1]
  OBVIOUS
<1>2. g + f <= Len(a) /\ \A n \in 1 .. g : got[n] = a[n]
  BY DEF Delivered
<1>3. \A n \in 1 .. f : Fits(a[g + n]) /\ frames[n] = Encode(a[g + n])
  BY DEF Delivered
<1>4. Len(rest) = f - 1 /\ \A n \in 1 .. f - 1 : rest[n] = frames[n + 1]
  OBVIOUS
<1>5. Len(more) = g + 1 /\ more[g + 1] = r /\ \A n \in 1 .. g : more[n] = got[n]
  OBVIOUS
<1>6. g + 1 \in 1 .. Len(a) => a[g + 1] \in Records
  OBVIOUS
<1>7. Len(more) + Len(rest) = g + f
  BY <1>1, <1>4, <1>5
<1> HIDE DEF g, f, more, rest
<1>8. a[g + 1] \in Records
  BY <1>1, <1>2, <1>6
<1>9. Fits(a[g + 1]) /\ Head(frames) = Encode(a[g + 1])
  <2>1. 1 \in 1 .. f
    BY <1>1
  <2> QED
    BY <1>1, <1>3, <2>1
<1>10. r = a[g + 1]
  BY <1>8, <1>9, NeverMistaken
<1>11. ASSUME NEW n \in 1 .. f - 1
       PROVE  Fits(a[g + 1 + n]) /\ rest[n] = Encode(a[g + 1 + n])
  <2>1. n + 1 \in 1 .. f /\ g + (n + 1) = g + 1 + n
    BY <1>1
  <2>2. Fits(a[g + (n + 1)]) /\ frames[n + 1] = Encode(a[g + (n + 1)])
    BY <1>3, <2>1
  <2> QED
    BY <1>4, <2>1, <2>2
<1>12. \A n \in 1 .. g + 1 : more[n] = a[n]
  <2>1. \A n \in 1 .. g + 1 : n \in 1 .. g \/ n = g + 1
    BY <1>1
  <2> QED
    BY <1>2, <1>5, <1>10, <2>1
<1>13. Delivered(more, rest, a)
  <2>1. Len(more) + Len(rest) <= Len(a)
    BY <1>2, <1>7
  <2> QED
    BY <1>4, <1>5, <1>11, <1>12, <2>1 DEF Delivered
<1>14. ASSUME NEW out \in Seq(Records), Left(got, frames, out, a)
       PROVE  Left(more, rest, out, a)
  BY <1>7, <1>14 DEF Left, g, f
<1> QED
  BY <1>8, <1>10, <1>13, <1>14 DEF more, rest

(* Frames that are dropped from the end make no difference to the others.  *)
LEMMA CutDelivers ==
  ASSUME NEW got \in Seq(Records), NEW frames \in Seq(Frames),
         NEW a \in Seq(Records), Delivered(got, frames, a),
         NEW cut \in Seq(Frames), Len(cut) <= Len(frames),
         \A m \in 1 .. Len(cut) : cut[m] = frames[m]
  PROVE  Delivered(got, cut, a)
<1> DEFINE g == Len(got)
           f == Len(frames)
           c == Len(cut)
<1>1. g \in Nat /\ f \in Nat /\ c \in Nat /\ c <= f /\ Len(a) \in Nat
  OBVIOUS
<1>2. g + f <= Len(a) /\ \A n \in 1 .. g : got[n] = a[n]
  BY DEF Delivered
<1>3. \A n \in 1 .. f : Fits(a[g + n]) /\ frames[n] = Encode(a[g + n])
  BY DEF Delivered
<1>4. \A n \in 1 .. c : cut[n] = frames[n]
  OBVIOUS
<1> HIDE DEF g, f, c
<1>5. g + c <= Len(a) /\ \A n \in 1 .. c : n \in 1 .. f
  BY <1>1, <1>2
<1> QED
  BY <1>2, <1>3, <1>4, <1>5 DEF Delivered, g, c

(* Sending a record moves it from what is left to what is on its way.      *)
LEMMA SendDelivers ==
  ASSUME NEW got \in Seq(Records), NEW frames \in Seq(Frames),
         NEW out \in Seq(Records), NEW a \in Seq(Records),
         Delivered(got, frames, a), Left(got, frames, out, a), out # <<>>,
         NEW r, r = Head(out), Fits(r)
  PROVE  /\ Delivered(got, Append(frames, Encode(r)), a)
         /\ Left(got, Append(frames, Encode(r)), Tail(out), a)
<1> DEFINE g == Len(got)
           f == Len(frames)
           o == Len(out)
           more == Append(frames, Encode(r))
           rest == Tail(out)
<1>1. /\ g \in Nat /\ f \in Nat /\ o \in Nat /\ o >= 1 /\ Len(a) \in Nat
      /\ r = out[1] /\ r \in Records
  OBVIOUS
<1>2. Encode(r) \in Frames
  BY <1>1, EncodeTypes
<1>3. g + f <= Len(a) /\ \A n \in 1 .. g : got[n] = a[n]
  BY DEF Delivered
<1>4. \A n \in 1 .. f : Fits(a[g + n]) /\ frames[n] = Encode(a[g + n])
  BY DEF Delivered
<1>5. g + f + o = Len(a) /\ \A n \in 1 .. o : out[n] = a[g + f + n]
  BY DEF Left
<1>6. Len(rest) = o - 1 /\ \A n \in 1 .. o - 1 : rest[n] = out[n + 1]
  OBVIOUS
<1>7. /\ Len(more) = f + 1 /\ more[f + 1] = Encode(r)
      /\ \A n \in 1 .. f : more[n] = frames[n]
  BY <1>2
<1> HIDE DEF g, f, o, more, rest
<1>8. r = a[g + (f + 1)]
  <2>1. 1 \in 1 .. o /\ g + f + 1 = g + (f + 1)
    BY <1>1
  <2> QED
    BY <1>1, <1>5, <2>1
<1>9. \A n \in 1 .. f + 1 : Fits(a[g + n]) /\ more[n] = Encode(a[g + n])
  <2>1. \A n \in 1 .. f + 1 : n \in 1 .. f \/ n = f + 1
    BY <1>1
  <2> QED
    BY <1>4, <1>7, <1>8, <2>1
<1>10. ASSUME NEW n \in 1 .. o - 1 PROVE rest[n] = a[g + (f + 1) + n]
  <2>1. n + 1 \in 1 .. o /\ g + f + (n + 1) = g + (f + 1) + n
    BY <1>1
  <2>2. out[n + 1] = a[g + f + (n + 1)]
    BY <1>5, <2>1
  <2> QED
    BY <1>6, <2>1, <2>2
<1>11. g + (f + 1) <= Len(a) /\ g + (f + 1) + (o - 1) = Len(a)
  <2>1. g + f + o = Len(a)
    BY <1>5
  <2>2. g + (f + 1) <= g + f + o /\ g + (f + 1) + (o - 1) = g + f + o
    BY <1>1
  <2> QED
    BY <2>1, <2>2
<1> QED
  BY <1>3, <1>6, <1>7, <1>9, <1>10, <1>11 DEF Delivered, Left, g, more, rest

(* An HTTP response has all that is left.                                  *)
LEMMA AllDelivered ==
  ASSUME NEW out \in Seq(Records), NEW a \in Seq(Records),
         Left(<<>>, <<>>, out, a)
  PROVE  Delivered(out, <<>>, a)
<1>1. Len(<<>>) = 0 /\ Len(out) \in Nat /\ Len(a) \in Nat
  OBVIOUS
<1>2. Len(out) = Len(a) /\ \A n \in 1 .. Len(out) : out[n] = a[n]
  BY <1>1 DEF Left
<1> QED
  BY <1>1, <1>2 DEF Delivered

-----------------------------------------------------------------------------
(* Each step, on the connection that it is about.                          *)

Same(k) ==
  UNCHANGED <<client[k], task[k], up[k], down[k], answer[k]>>

LEMMA CarriedSame ==
  ASSUME NEW k \in Conns, Carried(k), Same(k)
  PROVE  Carried(k)'
BY DEF Carried, Same

LEMMA CarriedInit == Init => \A k \in Conns : Carried(k)
<1>1. <<>> \in Seq(Records)
  OBVIOUS
<1>2. Delivered(<<>>, <<>>, <<>>)
  BY <1>1, NothingDelivered
<1> QED
  BY <1>2 DEF Init, Carried, Carry, NoRun, NoTask, Quiet

LEMMA CarriedRuns ==
  ASSUME TypeOK, NEW k \in Conns, Carried(k), Runs(k)
  PROVE  Carried(k)' /\ \A j \in Conns \ {k} : Same(j)
<1>0. Delivered(<<>>, <<>>, <<>>)
  <2>1. <<>> \in Seq(Records)
    OBVIOUS
  <2> QED
    BY <2>1, NothingDelivered
<1>1. ASSUME NEW r \in Sent, NEW pc \in {"waiting", "error"}, Begin(k, r, pc)
      PROVE  /\ client'[k].pc = pc /\ client'[k].rec = r
             /\ client'[k].got = <<>> /\ down'[k].frames = <<>>
             /\ answer'[k] = <<>>
             /\ \A j \in Conns \ {k} :
                  UNCHANGED <<client[j], down[j], answer[j]>>
             /\ task[k].pc = "none" /\ up[k] = NoFrame
  BY <1>1 DEF Begin, TypeOK, Quiet, Carried, Carry
<1>2. CASE Connect(k)
  <2>1. PICK r \in Sent : Fits(r) /\ Begin(k, r, "waiting")
                        /\ up' = [up EXCEPT ![k] = Encode(r)]
    BY <1>2 DEF Connect
  <2>2. task' = [task EXCEPT ![k] = [NoTask EXCEPT !.pc = "read"]]
    BY <1>2 DEF Connect
  <2>3. /\ up'[k] = Encode(r) /\ task'[k].pc = "read" /\ k \notin Http
        /\ \A j \in Conns \ {k} : UNCHANGED <<task[j], up[j]>>
    BY <1>2, <2>1, <2>2 DEF Connect, NoTask, TypeOK
  <2>4. Carried(k)'
    BY <1>0, <1>1, <2>1, <2>3 DEF Carried, Carry
  <2> QED
    BY <1>1, <2>1, <2>3, <2>4 DEF Same
<1>3. CASE Post(k)
  <2>1. PICK r \in Sent :
          /\ Begin(k, r, "waiting")
          /\ task' = [task EXCEPT ![k] =
                        [NoTask EXCEPT !.pc = "work", !.msg = r]]
          /\ UNCHANGED up
    BY <1>3 DEF Post
  <2>2. /\ task'[k].pc = "work" /\ task'[k].msg = r
        /\ \A j \in Conns \ {k} : UNCHANGED <<task[j], up[j]>>
    BY <2>1 DEF NoTask, TypeOK
  <2>3. Carried(k)'
    BY <1>0, <1>1, <2>1, <2>2 DEF Carried, Carry
  <2> QED
    BY <1>1, <2>1, <2>2, <2>3 DEF Same
<1>4. CASE ConnectFails(k)
  <2>1. PICK r \in Sent : Begin(k, r, "error") /\ UNCHANGED <<task, up>>
    BY <1>4 DEF ConnectFails
  <2>2. Carried(k)'
    BY <1>0, <1>1, <2>1 DEF Carried, Carry
  <2> QED
    BY <1>1, <2>1, <2>2 DEF Same
<1> QED
  BY <1>2, <1>3, <1>4 DEF Runs

LEMMA CarriedLeave ==
  ASSUME TypeOK, NEW k \in Conns, Carried(k),
         NEW outcome \in {"success", "error"}, Leave(k, outcome)
  PROVE  Carried(k)' /\ \A j \in Conns \ {k} : Same(j)
<1>1. /\ client'[k].got = client[k].got /\ client'[k].rec = client[k].rec
      /\ client'[k].pc = outcome /\ down'[k].frames = <<>>
      /\ UNCHANGED <<task, up, answer>>
      /\ \A j \in Conns \ {k} : UNCHANGED <<client[j], down[j]>>
  BY DEF Leave, TypeOK, ClientType, DownType
<1>2. Delivered(client[k].got, <<>>, answer[k])
  <2>1. /\ client[k].got \in Seq(Records) /\ down[k].frames \in Seq(Frames)
        /\ answer[k] \in Seq(Records)
    BY ConnTypes
  <2>2. <<>> \in Seq(Frames) /\ Len(<<>>) = 0 /\ Len(down[k].frames) \in Nat
    BY <2>1
  <2>3. Len(<<>>) <= Len(down[k].frames) /\ 1 .. Len(<<>>) = {}
    BY <2>2
  <2>4. Delivered(client[k].got, down[k].frames, answer[k])
    BY DEF Carried, Carry
  <2> QED
    BY <2>1, <2>2, <2>3, <2>4, CutDelivers
<1>3. Carried(k)'
  BY <1>1, <1>2 DEF Carried, Carry
<1> QED
  BY <1>1, <1>3 DEF Same

LEMMA CarriedReads ==
  ASSUME TypeOK, NEW k \in Conns, Carried(k), Reads(k) \/ HttpGivesUp(k)
  PROVE  Carried(k)' /\ \A j \in Conns \ {k} : Same(j)
<1>1. CASE ClientRecv(k)
  <2> DEFINE r == Decode(Head(down[k].frames))
  <2>1. CASE r = Undecodable
    BY <1>1, <2>1, CarriedLeave DEF ClientRecv
  <2>2. CASE r # Undecodable
    <3>1. /\ down[k].frames \in Seq(Frames) /\ down[k].frames # <<>>
          /\ client[k].got \in Seq(Records) /\ answer[k] \in Seq(Records)
          /\ task[k].out \in Seq(Records)
      BY <1>1, ConnTypes DEF ClientRecv
    <3>2. /\ client' = [client EXCEPT ![k].got = Append(@, r)]
          /\ down' = [down EXCEPT ![k].frames = Tail(@)]
          /\ UNCHANGED <<ledger, task, up, answer>>
      BY <1>1, <2>2 DEF ClientRecv
    <3>3. Delivered(client[k].got, down[k].frames, answer[k])
      BY DEF Carried, Carry
    <3>4. /\ Delivered(Append(client[k].got, r), Tail(down[k].frames), answer[k])
          /\ \A out \in Seq(Records) :
               Left(client[k].got, down[k].frames, out, answer[k]) =>
               Left(Append(client[k].got, r), Tail(down[k].frames), out, answer[k])
      BY <2>2, <3>1, <3>3, ReadDelivers
    <3> HIDE DEF r
    <3>5. /\ client'[k].got = Append(client[k].got, r)
          /\ client'[k].pc = client[k].pc /\ client'[k].rec = client[k].rec
          /\ down'[k].frames = Tail(down[k].frames)
          /\ \A j \in Conns \ {k} : UNCHANGED <<client[j], down[j]>>
      BY <3>2 DEF TypeOK, ClientType, DownType
    <3>6. k \notin Http /\ up[k] = NoFrame /\ task[k].pc \notin {"work", "store"}
      BY <3>1 DEF Carried, Carry
    <3>7. Carried(k)'
      BY <3>1, <3>2, <3>4, <3>5, <3>6 DEF Carried, Carry
    <3> QED
      BY <3>2, <3>5, <3>7 DEF Same
  <2> QED
    BY <2>1, <2>2
<1>2. CASE ClientEnough(k)
  BY <1>2, CarriedLeave DEF ClientEnough
<1>3. CASE ClientTimeout(k)
  BY <1>3, CarriedLeave DEF ClientTimeout
<1>4. CASE ClientEof(k)
  BY <1>4, CarriedLeave DEF ClientEof
<1>5. CASE HttpGivesUp(k)
  BY <1>5, CarriedLeave DEF HttpGivesUp
<1> QED
  BY <1>1, <1>2, <1>3, <1>4, <1>5 DEF Reads

LEMMA CarriedEnd ==
  ASSUME TypeOK, NEW k \in Conns, Carried(k), End(k)
  PROVE  Carried(k)' /\ \A j \in Conns \ {k} : Same(j)
<1>1. /\ task'[k].pc = "none" /\ up'[k] = NoFrame
      /\ down'[k].frames = down[k].frames /\ UNCHANGED <<client, answer>>
      /\ \A j \in Conns \ {k} : UNCHANGED <<task[j], up[j], down[j]>>
  BY DEF End, NoTask, TypeOK, DownType
<1>2. Carried(k)'
  BY <1>1 DEF Carried, Carry
<1> QED
  BY <1>1, <1>2 DEF Same

(* What process_rhex returns is left to send, all of it.                   *)
LEMMA CarriedReturned ==
  ASSUME TypeOK, NEW k \in Conns, Carried(k), task[k].pc \in {"work", "store"},
         NEW out \in Seq(Records), Returned(k, out)
  PROVE  Carried(k)' /\ \A j \in Conns \ {k} : Same(j)
<1>1. /\ task'[k].pc = "send" /\ task'[k].msg = task[k].msg
      /\ task'[k].out = out /\ answer'[k] = out
      /\ UNCHANGED <<client, up, down>>
      /\ \A j \in Conns \ {k} : UNCHANGED <<task[j], answer[j]>>
  BY DEF Returned, Work, TypeOK, TaskType
<1>2. up[k] = NoFrame /\ client[k].got = <<>> /\ down[k].frames = <<>>
  BY DEF Carried, Carry
<1>3. Delivered(<<>>, <<>>, out) /\ Left(<<>>, <<>>, out, out)
  BY NothingDelivered
<1>4. Carried(k)'
  BY <1>1, <1>2, <1>3 DEF Carried, Carry
<1> QED
  BY <1>1, <1>4 DEF Same

(* Steps of the task that send nothing to a client that waits.             *)
LEMMA CarriedWork ==
  ASSUME TypeOK, NEW k \in Conns, Carried(k), NEW t, Work(k, t),
         UNCHANGED answer, t.msg = task[k].msg, up[k] = NoFrame,
         \/ t.pc = "store" /\ task[k].pc = "work"
         \/ t.pc = "send" /\ task[k].pc = "send" /\ ~Waiting(k)
         \/ t.pc = "read"
  PROVE  Carried(k)' /\ \A j \in Conns \ {k} : Same(j)
<1>1. /\ task'[k] = t /\ UNCHANGED <<client, up, down, answer>>
      /\ \A j \in Conns \ {k} : UNCHANGED task[j]
  BY DEF Work, TypeOK
<1>2. Carried(k)'
  BY <1>1 DEF Carried, Carry, Waiting
<1> QED
  BY <1>1, <1>2 DEF Same

LEMMA CarriedServes ==
  ASSUME TypeOK, NEW k \in Conns, Carried(k), Serves(k)
  PROVE  Carried(k)' /\ \A j \in Conns \ {k} : Same(j)
<1>0. /\ client[k] \in ClientType /\ task[k] \in TaskType
      /\ down[k] \in DownType
      /\ client[k].rec \in Records /\ client[k].got \in Seq(Records)
      /\ task[k].msg \in Records /\ task[k].out \in Seq(Records)
      /\ down[k].frames \in Seq(Frames) /\ answer[k] \in Seq(Records)
      /\ up[k] # NoFrame => up[k] \in Frames
  BY ConnTypes
<1>1. CASE ServerRead(k)
  <2> DEFINE r == Decode(up[k])
  <2>1. CASE r = Undecodable
    BY <1>1, <2>1, CarriedEnd DEF ServerRead
  <2>2. CASE r # Undecodable
    <3>1. /\ task' = [task EXCEPT ![k].pc = "work", ![k].msg = r]
          /\ up' = [up EXCEPT ![k] = NoFrame]
          /\ UNCHANGED <<ledger, client, down, answer>> /\ up[k] # NoFrame
      BY <1>1, <2>2 DEF ServerRead
    <3>2. /\ Fits(client[k].rec) /\ up[k] = Encode(client[k].rec)
          /\ client[k].got = <<>> /\ down[k].frames = <<>>
      BY <3>1 DEF Carried, Carry
    <3>3. r = client[k].rec
      BY <1>0, <2>2, <3>2, NeverMistaken
    <3> HIDE DEF r
    <3>4. /\ task'[k].pc = "work" /\ task'[k].msg = r /\ up'[k] = NoFrame
          /\ \A j \in Conns \ {k} : UNCHANGED <<task[j], up[j]>>
      BY <1>0, <3>1 DEF TypeOK, TaskType
    <3>5. Carried(k)'
      BY <3>1, <3>2, <3>3, <3>4 DEF Carried, Carry
    <3> QED
      BY <3>1, <3>4, <3>5 DEF Same
  <2> QED
    BY <2>1, <2>2
<1>2. CASE ServerEof(k)
  BY <1>2, CarriedEnd DEF ServerEof
<1>3. CASE Refuse(k)
  BY <1>3, CarriedEnd DEF Refuse
<1>4. CASE Answer(k)
  <2>1. Signed(task[k].msg) \in Seq(Records) /\ Walk \in Seq(Records)
    BY <1>0, SignedTypes, WalkTypes
  <2>2. Signed(task[k].msg) \o Walk \in Seq(Records)
    BY <2>1
  <2> QED
    BY <1>4, <2>2, CarriedReturned DEF Answer
<1>11. CASE Execute(k)
  BY <1>0, <1>11, SignedTypes, CarriedReturned DEF Execute
<1>5. CASE Truncate(k)
  <2>1. /\ Work(k, [task[k] EXCEPT !.pc = "store"]) /\ UNCHANGED answer
        /\ task[k].pc = "work" /\ up[k] = NoFrame
    BY <1>5 DEF Truncate, Carried, Carry
  <2>2. /\ [task[k] EXCEPT !.pc = "store"].pc = "store"
        /\ [task[k] EXCEPT !.pc = "store"].msg = task[k].msg
    BY <1>0 DEF TaskType
  <2> QED
    BY <2>1, <2>2, CarriedWork
<1>6. CASE Store(k)
  <2>1. Signed(task[k].msg) \in Seq(Records)
    BY <1>0, SignedTypes
  <2> QED
    BY <1>6, <2>1, CarriedReturned DEF Store
<1>7. CASE ServerSend(k)
  <2> DEFINE r == Head(task[k].out)
  <2>1. CASE ~Fits(r)
    BY <1>7, <2>1, CarriedEnd DEF ServerSend
  <2>2. CASE Fits(r)
    <3>1. /\ down' = [down EXCEPT ![k].frames = Append(@, Encode(r))]
          /\ task' = [task EXCEPT ![k].out = Tail(@)]
          /\ UNCHANGED <<ledger, client, up, answer>>
          /\ task[k].pc = "send" /\ k \notin Http /\ task[k].out # <<>>
          /\ Waiting(k)
      BY <1>7, <2>2 DEF ServerSend
    <3>2. /\ Delivered(client[k].got, down[k].frames, answer[k])
          /\ Left(client[k].got, down[k].frames, task[k].out, answer[k])
          /\ up[k] = NoFrame
      BY <3>1 DEF Carried, Carry, Waiting
    <3>3. /\ Delivered(client[k].got, Append(down[k].frames, Encode(r)),
                       answer[k])
          /\ Left(client[k].got, Append(down[k].frames, Encode(r)),
                  Tail(task[k].out), answer[k])
      BY <1>0, <2>2, <3>1, <3>2, SendDelivers
    <3> HIDE DEF r
    <3>4. /\ down'[k].frames = Append(down[k].frames, Encode(r))
          /\ task'[k].out = Tail(task[k].out)
          /\ task'[k].pc = task[k].pc /\ task'[k].msg = task[k].msg
          /\ \A j \in Conns \ {k} : UNCHANGED <<task[j], down[j]>>
      BY <1>0, <3>1 DEF TypeOK, TaskType, DownType
    <3>5. Carried(k)'
      BY <3>1, <3>2, <3>3, <3>4 DEF Carried, Carry
    <3> QED
      BY <3>1, <3>4, <3>5 DEF Same
  <2> QED
    BY <2>1, <2>2
<1>8. CASE ServerSendsInVain(k)
  <2>1. CASE End(k)
    BY <2>1, CarriedEnd
  <2>2. CASE /\ Work(k, [task[k] EXCEPT !.out = Tail(@)])
             /\ UNCHANGED <<ledger, answer>>
    <3>1. task[k].pc = "send" /\ ~Waiting(k) /\ up[k] = NoFrame
      BY <1>8 DEF ServerSendsInVain, Carried, Carry
    <3>2. /\ [task[k] EXCEPT !.out = Tail(@)].pc = "send"
          /\ [task[k] EXCEPT !.out = Tail(@)].msg = task[k].msg
      BY <1>0, <3>1 DEF TaskType
    <3> QED
      BY <2>2, <3>1, <3>2, CarriedWork
  <2> QED
    BY <1>8, <2>1, <2>2 DEF ServerSendsInVain
<1>9. CASE ServerSent(k)
  <2>1. /\ Work(k, [task[k] EXCEPT !.pc = "read"]) /\ UNCHANGED answer
        /\ up[k] = NoFrame
    BY <1>9 DEF ServerSent, Carried, Carry
  <2>2. /\ [task[k] EXCEPT !.pc = "read"].pc = "read"
        /\ [task[k] EXCEPT !.pc = "read"].msg = task[k].msg
    BY <1>0 DEF TaskType
  <2> QED
    BY <2>1, <2>2, CarriedWork
<1>10. CASE HttpReply(k)
  <2>1. /\ task[k].pc = "send" /\ k \in Http
        /\ task'[k].pc = "none" /\ UNCHANGED <<up, down, answer>>
        /\ \A j \in Conns \ {k} : UNCHANGED task[j]
    BY <1>10 DEF HttpReply, NoTask, TypeOK
  <2>2. up[k] = NoFrame /\ down[k].frames = <<>>
    BY <2>1 DEF Carried, Carry
  <2>3. CASE ~Waiting(k)
    <3>1. UNCHANGED client
      BY <1>10, <2>3 DEF HttpReply
    <3>2. Carried(k)'
      BY <2>1, <2>2, <3>1 DEF Carried, Carry
    <3> QED
      BY <2>1, <3>1, <3>2 DEF Same
  <2>4. CASE Waiting(k)
    <3>1. client' = [client EXCEPT
                       ![k].got = task[k].out,
                       ![k].pc = IF task[k].out = <<>> THEN "error"
                                                      ELSE "success"]
      BY <1>10, <2>4 DEF HttpReply
    <3>2. /\ client'[k].got = task[k].out /\ client'[k].pc # "waiting"
          /\ \A j \in Conns \ {k} : UNCHANGED client[j]
      BY <1>0, <3>1 DEF TypeOK, ClientType
    <3>3. Left(<<>>, <<>>, task[k].out, answer[k])
      BY <2>1, <2>2, <2>4 DEF Carried, Carry, Waiting
    <3>4. Delivered(task[k].out, <<>>, answer[k])
      BY <1>0, <3>3, AllDelivered
    <3>5. Carried(k)'
      BY <2>1, <2>2, <3>2, <3>4 DEF Carried, Carry
    <3> QED
      BY <2>1, <3>2, <3>5 DEF Same
  <2> QED
    BY <2>3, <2>4
<1> QED
  BY <1>1, <1>2, <1>3, <1>4, <1>5, <1>6, <1>7, <1>8, <1>9, <1>10, <1>11
     DEF Serves

LEMMA CarriedCrash ==
  ASSUME TypeOK, NEW k \in Conns, Carried(k), Crash
  PROVE  Carried(k)'
<1>1. PICK end \in {"eof", "reset"}, n \in 0 .. Capacity :
       down' = [j \in Conns |->
                  IF ~Waiting(j) THEN down[j] ELSE
                  [frames |-> SubSeq(down[j].frames, 1,
                                IF n < Len(down[j].frames)
                                THEN n ELSE Len(down[j].frames)),
                   end |-> IF down[j].end = "open" THEN end ELSE down[j].end]]
  BY DEF Crash
<1> DEFINE f == down[k].frames
           cut == SubSeq(f, 1, IF n < Len(f) THEN n ELSE Len(f))
<1>2. /\ task'[k].pc = "none" /\ up'[k] = NoFrame
      /\ UNCHANGED <<client, answer>>
  BY DEF Crash, NoTask
<1>3. /\ client[k].got \in Seq(Records) /\ f \in Seq(Frames)
      /\ answer[k] \in Seq(Records) /\ n \in Nat
      /\ Delivered(client[k].got, f, answer[k])
  BY ConnTypes, SessionAssumption DEF Carried, Carry
<1>4. /\ cut \in Seq(Frames) /\ Len(cut) <= Len(f)
      /\ \A m \in 1 .. Len(cut) : cut[m] = f[m]
  BY <1>3, CutFrames
<1>5. down'[k].frames = f \/ down'[k].frames = cut
  BY <1>1
<1>6. f = <<>> => cut = <<>>
  <2>1. ASSUME f = <<>> PROVE cut = <<>>
    <3>1. Len(f) = 0
      BY <2>1
    <3>2. Len(cut) = 0
      BY <1>3, <1>4, <3>1
    <3> HIDE DEF cut
    <3> QED
      BY <1>4, <3>2
  <2> QED
    BY <2>1
<1> HIDE DEF f, cut
<1>7. Delivered(client[k].got, cut, answer[k])
  BY <1>3, <1>4, CutDelivers
<1>8. k \in Http => down'[k].frames = <<>>
  <2>1. k \in Http => f = <<>>
    BY DEF Carried, Carry, f
  <2> QED
    BY <1>5, <1>6, <2>1
<1>9. k \in Http => (client[k].pc = "waiting" => client[k].got = <<>>)
  BY DEF Carried, Carry
<1> QED
  BY <1>2, <1>3, <1>5, <1>7, <1>8, <1>9 DEF Carried, Carry

LEMMA CarriedStep ==
  ASSUME CarriedInv, [Next]_vars
  PROVE  CarriedInv'
<1>1. TypeOK /\ TypeOK'
  BY TypeStep DEF CarriedInv
<1> SUFFICES ASSUME NEW k \in Conns PROVE Carried(k)'
  BY <1>1 DEF CarriedInv
<1>2. Carried(k)
  BY DEF CarriedInv
<1>3. CASE UNCHANGED vars
  BY <1>2, <1>3, CarriedSame DEF vars, Same
<1>4. ASSUME NEW j \in Conns,
             Runs(j) \/ Reads(j) \/ HttpGivesUp(j) \/ Serves(j)
      PROVE  Carried(k)'
  <2>1. Carried(j)
    BY DEF CarriedInv
  <2>2. Carried(j)' /\ \A i \in Conns \ {j} : Same(i)
    BY <1>1, <1>4, <2>1, CarriedRuns, CarriedReads, CarriedServes
  <2>3. CASE k = j
    BY <2>2, <2>3
  <2>4. CASE k # j
    BY <1>2, <2>2, <2>4, CarriedSame
  <2> QED
    BY <2>3, <2>4
<1>5. CASE FirstStart \/ Restart
  BY <1>2, <1>5, CarriedSame DEF FirstStart, Restart, wire, Same
<1>6. CASE Crash
  BY <1>1, <1>2, <1>6, CarriedCrash
<1> QED
  BY <1>3, <1>4, <1>5, <1>6 DEF Next

(* Nothing that a client has read is another run's, cut, repeated or out   *)
(* of order: what was read, what is under way and what is left to send     *)
(* make up what process_rhex returned, and no frame decodes as a record    *)
(* other than the one it was made of.                                      *)
THEOREM Heard == Spec => []HeardAsSaid
<1>1. Init => CarriedInv
  BY TypeInit, CarriedInit DEF CarriedInv
<1>2. CarriedInv /\ [Next]_vars => CarriedInv'
  BY CarriedStep
<1>3. ASSUME CarriedInv PROVE HeardAsSaid
  <2>1. ASSUME NEW k \in Conns
        PROVE  IsPrefixOf(client[k].got, answer[k])
    <3>1. Delivered(client[k].got, down[k].frames, answer[k])
      BY <1>3 DEF CarriedInv, Carried, Carry
    <3>2. /\ client[k].got \in Seq(Records) /\ down[k].frames \in Seq(Frames)
          /\ answer[k] \in Seq(Records)
      BY <1>3, ConnTypes DEF CarriedInv
    <3>3. /\ Len(client[k].got) \in Nat /\ Len(down[k].frames) \in Nat
          /\ Len(answer[k]) \in Nat
          /\ DOMAIN client[k].got = 1 .. Len(client[k].got)
      BY <3>2
    <3>4. Len(client[k].got) + Len(down[k].frames) <= Len(answer[k])
      BY <3>1 DEF Delivered
    <3>5. Len(client[k].got) <= Len(answer[k])
      <4>1. \A x, y, z \in Nat : x + y <= z => x <= z
        OBVIOUS
      <4> QED
        BY <3>3, <3>4, <4>1
    <3> QED
      BY <3>1, <3>3, <3>5 DEF Delivered, IsPrefixOf
  <2>2. ASSUME NEW k \in Conns, task[k].pc \in {"work", "store", "send"}
        PROVE  task[k].msg = client[k].rec
    BY <1>3, <2>2 DEF CarriedInv, Carried, Carry
  <2> QED
    BY <2>1, <2>2 DEF HeardAsSaid
<1> QED
  BY <1>1, <1>2, <1>3, PTL DEF Spec
=============================================================================
