----------------------------- MODULE WireSession -----------------------------
(***************************************************************************)
(* Clients and the listeners of the daemon: a client connects, sends one   *)
(* record in a frame and reads frames until it has heard nothing for a     *)
(* while, or enough, or the connection ends.  A client that wonders what   *)
(* became of its record sends it again on another connection, while the    *)
(* task of the first may still be at work.  Over HTTP the same record is   *)
(* one request and has one response.                                       *)
(*                                                                         *)
(* What the daemon keeps is the log and the open slot of SlotLedger, which *)
(* UsherLedger implements; what its checks say of a record, beyond the     *)
(* previous hash, is left open.                                            *)
(***************************************************************************)
EXTENDS FrameCodec

CONSTANTS
  Intents,   \* what tells the intents of records apart
  Hashes,    \* hashes of records
  Depth,     \* hash -> how many records it builds on
  Sent,      \* the records that clients send
  Conns,     \* connections, used one after another by any number of runs
  Http,      \* those of them that are HTTP requests
  Chain,     \* the records that the first start of the daemon finds
  Capacity,  \* bound: frames that the buffers of a connection hold
  MaxRecv,   \* how many records a client reads, 10 in the code
  NoHash,    \* None, of an Option<[u8; 32]>
  NoFile,    \* the file does not exist
  Torn,      \* truncated and not yet, or never, filled
  NoFrame    \* nothing was sent, or it was read

(* What a daemon returns for a record of fewer than three signatures.      *)
Countersigned(r) == [r EXCEPT !.sigs = 3]

ASSUME SessionAssumption ==
  /\ Sent \subseteq Records /\ Sent # {} /\ Http \subseteq Conns
  /\ Records \subseteq [intent : Intents, prev : Hashes \cup {NoHash},
                        hash : Hashes \cup {NoHash}, sigs : 1 .. 3,
                        request : BOOLEAN]
  /\ \A r \in Records : Countersigned(r) \in Records
  /\ Capacity \in Nat \ {0} /\ MaxRecv \in Nat \ {0}
  /\ NoFile \notin Records /\ Torn \notin Records /\ NoFile # Torn
  /\ NoFrame \notin Frames

(* The previous hash is part of the intent, and the hash of a record is    *)
(* over its previous hash.                                                 *)
ASSUME IntentAssumption ==
  \A r, s \in Records : r.intent = s.intent => r.prev = s.prev

ASSUME AcyclicAssumption ==
  /\ Depth \in [Hashes \cup {NoHash} -> Nat]
  /\ \A r \in Records : r.hash # NoHash => Depth[r.prev] < Depth[r.hash]

(* What bootstrap can load: each record names the one before it.           *)
ASSUME ChainAssumption ==
  /\ Chain \in Seq(Records) /\ Chain # <<>>
  /\ \A n \in DOMAIN Chain :
       /\ Chain[n].hash # NoHash
       /\ Chain[n].prev = IF n = 1 THEN NoHash ELSE Chain[n - 1].hash

VARIABLES
  log,      \* the records that every start of the daemon loads
  open,     \* the file that the tip of the log names
  serving,  \* whether the daemon is up
  client,   \* connection -> the client run that uses it
  task,     \* connection -> the daemon's task for it
  up,       \* connection -> the frame on its way to the daemon
  down,     \* connection -> the frames on their way to the client
  answer    \* history: what process_rhex returned to the task

ledger == <<log, open, serving>>
wire == <<client, task, up, down, answer>>
vars == <<log, open, serving, client, task, up, down, answer>>

Tip == log[Len(log)].hash

Waiting(k) == client[k].pc = "waiting"

NoRun == [pc |-> "idle", rec |-> CHOOSE r \in Sent : TRUE, got |-> <<>>]
NoTask == [pc |-> "none", msg |-> CHOOSE r \in Sent : TRUE, out |-> <<>>]
Quiet == [frames |-> <<>>, end |-> "open"]

Init ==
  /\ log = <<>> /\ open = NoFile /\ serving = FALSE
  /\ client = [k \in Conns |-> NoRun]
  /\ task = [k \in Conns |-> NoTask]
  /\ up = [k \in Conns |-> NoFrame]
  /\ down = [k \in Conns |-> Quiet]
  /\ answer = [k \in Conns |-> <<>>]

-----------------------------------------------------------------------------
(* Clients.                                                                *)

Begin(k, r, pc) ==
  /\ ~Waiting(k) /\ task[k].pc = "none"
  /\ client' = [client EXCEPT ![k] = [pc |-> pc, rec |-> r, got |-> <<>>]]
  /\ down' = [down EXCEPT ![k] = Quiet]
  /\ answer' = [answer EXCEPT ![k] = <<>>]
  /\ UNCHANGED ledger

(* Connect and send.  accept_loop spawns a task per connection.            *)
Connect(k) ==
  /\ serving /\ k \notin Http
  /\ \E r \in {s \in Sent : Fits(s)} :
       /\ Begin(k, r, "waiting")
       /\ up' = [up EXCEPT ![k] = Encode(r)]
       /\ task' = [task EXCEPT ![k] = [NoTask EXCEPT !.pc = "read"]]

Post(k) ==
  /\ serving /\ k \in Http
  /\ \E r \in Sent :
       /\ Begin(k, r, "waiting")
       /\ task' = [task EXCEPT ![k] = [NoTask EXCEPT !.pc = "work", !.msg = r]]
       /\ UNCHANGED up

(* Nobody listens, or the record is too large for a frame.                 *)
ConnectFails(k) ==
  \E r \in Sent :
    /\ ~serving \/ (k \notin Http /\ ~Fits(r))
    /\ Begin(k, r, "error")
    /\ UNCHANGED <<task, up>>

(* The run is over and prints Success or an error; its end of the          *)
(* connection is closed.                                                   *)
Leave(k, outcome) ==
  /\ client' = [client EXCEPT ![k].pc = outcome]
  /\ down' = [down EXCEPT ![k].frames = <<>>]
  /\ UNCHANGED <<ledger, task, up, answer>>

ClientRecv(k) ==
  /\ Waiting(k) /\ down[k].frames # <<>> /\ Len(client[k].got) < MaxRecv
  /\ LET r == Decode(Head(down[k].frames))
     IN IF r = Undecodable
        THEN Leave(k, "error")
        ELSE /\ client' = [client EXCEPT ![k].got = Append(@, r)]
             /\ down' = [down EXCEPT ![k].frames = Tail(@)]
             /\ UNCHANGED <<ledger, task, up, answer>>

ClientEnough(k) ==
  Waiting(k) /\ Len(client[k].got) = MaxRecv /\ Leave(k, "success")

(* Mutant: recv_next in place of recv_next_with_timeout.                   *)
ClientStays(k) == FALSE

(* 1.5 s without a frame: Ok(None), the same as when the peer closes.      *)
ClientTimeout(k) ==
  /\ Waiting(k) /\ k \notin Http
  /\ down[k] = Quiet
  /\ Leave(k, "success")

(* A reset, or a part of a frame that EOF cuts off, is an error.           *)
ClientEof(k) ==
  /\ Waiting(k) /\ down[k].frames = <<>> /\ down[k].end # "open"
  /\ Leave(k, IF k \notin Http /\ down[k].end = "eof" THEN "success" ELSE "error")

(* A client of the HTTP interface has timeouts of its own.                 *)
HttpGivesUp(k) ==
  Waiting(k) /\ k \in Http /\ down[k] = Quiet /\ Leave(k, "error")

-----------------------------------------------------------------------------
(* The daemon: handle_conn and append_handler.                             *)

Work(k, t) == task' = [task EXCEPT ![k] = t] /\ UNCHANGED <<client, up, down>>

(* Err, a panic or the end of the loop: the task drops the connection.     *)
End(k) ==
  /\ task' = [task EXCEPT ![k] = NoTask]
  /\ up' = [up EXCEPT ![k] = NoFrame]
  /\ down' = [down EXCEPT ![k].end = "eof"]
  /\ UNCHANGED <<ledger, client, answer>>

ServerRead(k) ==
  /\ task[k].pc = "read" /\ up[k] # NoFrame
  /\ LET r == Decode(up[k])
     IN IF r = Undecodable
        THEN End(k)
        ELSE /\ task' = [task EXCEPT ![k].pc = "work", ![k].msg = r]
             /\ up' = [up EXCEPT ![k] = NoFrame]
             /\ UNCHANGED <<ledger, client, down, answer>>

(* Mutant: a client that has heard nothing is still there.                 *)
ServerWaits(k) ==
  /\ task[k].pc = "read" /\ up[k] = NoFrame /\ ~Waiting(k)
  /\ client[k].got # <<>>
  /\ End(k)

ServerEof(k) ==
  /\ task[k].pc = "read" /\ up[k] = NoFrame /\ ~Waiting(k)
  /\ End(k)

(* process_rhex returns Err or panics.                                     *)
Refuse(k) == task[k].pc = "work" /\ End(k)

Returned(k, out) ==
  /\ Work(k, [task[k] EXCEPT !.pc = "send", !.out = out])
  /\ answer' = [answer EXCEPT ![k] = out]

Signed(r) == IF r.sigs < 3 THEN <<Countersigned(r)>> ELSE <<>>

(* The walk over the directory fails at a torn file and returns nothing.   *)
Walk ==
  IF open = Torn THEN <<>>
                 ELSE IF open = NoFile THEN log ELSE Append(log, open)

(* But for a record of one signature there has to be a hash.               *)
Hashed(r) == r.sigs = 1 \/ r.hash # NoHash

(* request:rhex.                                                           *)
Answer(k) ==
  /\ task[k].pc = "work" /\ task[k].msg.request /\ Hashed(task[k].msg)
  /\ Returned(k, Signed(task[k].msg) \o Walk)
  /\ UNCHANGED ledger

(* Mutant: a previous hash is not looked at.                               *)
ExtendsAny(r) == Hashed(r)

(* validate_intent_previous_hash.                                          *)
Extends(r) == r.prev = Tip /\ Hashed(r)

(* The handler of another record fails in the cache before it comes to its *)
(* file, or has none to write, as that of scope:genesis.  dispatch returns *)
(* Ok all the same.                                                        *)
Execute(k) ==
  /\ task[k].pc = "work" /\ ~task[k].msg.request
  /\ task[k].msg.prev \in {Tip, NoHash} /\ Hashed(task[k].msg)
  /\ Returned(k, Signed(task[k].msg))
  /\ UNCHANGED ledger

(* It is written to the directory, one with the author's signature alone   *)
(* included.                                                               *)
Truncate(k) ==
  /\ task[k].pc = "work" /\ ~task[k].msg.request /\ Extends(task[k].msg)
  /\ open' = Torn
  /\ Work(k, [task[k] EXCEPT !.pc = "store"])
  /\ UNCHANGED <<log, serving, answer>>

(* When this fails dispatch still returns Ok.                              *)
Store(k) ==
  /\ task[k].pc = "store"
  /\ open' \in {task[k].msg, open}
  /\ Returned(k, Signed(task[k].msg))
  /\ UNCHANGED <<log, serving>>

(* Mutant: replies leave in the reverse order.                             *)
SendLast(k) ==
  /\ task[k].pc = "send" /\ k \notin Http /\ task[k].out # <<>>
  /\ Waiting(k) /\ Len(down[k].frames) < Capacity
  /\ LET out == task[k].out
     IN /\ Fits(out[Len(out)])
        /\ down' = [down EXCEPT ![k].frames = Append(@, Encode(out[Len(out)]))]
        /\ task' = [task EXCEPT ![k].out = SubSeq(out, 1, Len(out) - 1)]
  /\ UNCHANGED <<ledger, client, up, answer>>

(* Mutant: encode does not enforce the size of a frame.                    *)
SendAnySize(k) ==
  /\ task[k].pc = "send" /\ k \notin Http /\ task[k].out # <<>>
  /\ Waiting(k) /\ Len(down[k].frames) < Capacity
  /\ down' = [down EXCEPT ![k].frames = Append(@, Cbor[Head(task[k].out)])]
  /\ task' = [task EXCEPT ![k].out = Tail(@)]
  /\ UNCHANGED <<ledger, client, up, answer>>

(* A frame that does not fit the buffers has to wait.                      *)
ServerSend(k) ==
  /\ task[k].pc = "send" /\ k \notin Http /\ task[k].out # <<>>
  /\ Waiting(k) /\ Len(down[k].frames) < Capacity
  /\ LET r == Head(task[k].out)
     IN IF ~Fits(r)
        THEN End(k)
        ELSE /\ down' = [down EXCEPT ![k].frames = Append(@, Encode(r))]
             /\ task' = [task EXCEPT ![k].out = Tail(@)]
             /\ UNCHANGED <<ledger, client, up, answer>>

(* To a client that has left a frame may still be sent, and the next       *)
(* attempt fails.                                                          *)
ServerSendsInVain(k) ==
  /\ task[k].pc = "send" /\ k \notin Http /\ task[k].out # <<>>
  /\ ~Waiting(k)
  /\ \/ End(k)
     \/ /\ Work(k, [task[k] EXCEPT !.out = Tail(@)])
        /\ UNCHANGED <<ledger, answer>>

ServerSent(k) ==
  /\ task[k].pc = "send" /\ k \notin Http /\ task[k].out = <<>>
  /\ Work(k, [task[k] EXCEPT !.pc = "read"])
  /\ UNCHANGED <<ledger, answer>>

(* ok: true and the records; an empty result is reported as an error.      *)
HttpReply(k) ==
  /\ task[k].pc = "send" /\ k \in Http
  /\ task' = [task EXCEPT ![k] = NoTask]
  /\ client' = IF ~Waiting(k) THEN client ELSE
               [client EXCEPT
                  ![k].got = task[k].out,
                  ![k].pc = IF task[k].out = <<>> THEN "error" ELSE "success"]
  /\ UNCHANGED <<ledger, up, down, answer>>

-----------------------------------------------------------------------------
(* The life of the daemon, as in SlotLedger.                               *)

Ledger == INSTANCE SlotLedger

FirstStart ==
  /\ ~serving /\ log = <<>>
  /\ log' = Chain /\ serving' = TRUE
  /\ UNCHANGED <<open, wire>>

Restart == Ledger!Restart /\ UNCHANGED wire

(* Tasks are gone.  A client that waits gets some of the frames, and then  *)
(* an orderly end or a reset.                                              *)
Crash ==
  /\ serving /\ serving' = FALSE
  /\ task' = [k \in Conns |-> NoTask]
  /\ up' = [k \in Conns |-> NoFrame]
  /\ \E end \in {"eof", "reset"}, n \in 0 .. Capacity :
       down' = [k \in Conns |->
                  IF ~Waiting(k) THEN down[k] ELSE
                  [frames |-> SubSeq(down[k].frames, 1,
                                IF n < Len(down[k].frames)
                                THEN n ELSE Len(down[k].frames)),
                   end |-> IF down[k].end = "open" THEN end ELSE down[k].end]]
  /\ UNCHANGED <<log, open, client, answer>>

-----------------------------------------------------------------------------
Runs(k) == Connect(k) \/ Post(k) \/ ConnectFails(k)

Reads(k) ==
  ClientRecv(k) \/ ClientEnough(k) \/ ClientTimeout(k) \/ ClientEof(k)

Serves(k) ==
  \/ ServerRead(k) \/ ServerEof(k)
  \/ Refuse(k) \/ Answer(k) \/ Execute(k) \/ Truncate(k) \/ Store(k)
  \/ ServerSend(k) \/ ServerSendsInVain(k) \/ ServerSent(k) \/ HttpReply(k)

Next ==
  \/ \E k \in Conns : Runs(k) \/ Reads(k) \/ HttpGivesUp(k) \/ Serves(k)
  \/ FirstStart \/ Restart \/ Crash

Spec == Init /\ [][Next]_vars

(* The runtimes and the kernel run what can run.  Nobody has to connect,   *)
(* to crash or to start the daemon again.                                  *)
Fairness == \A k \in Conns : WF_vars(Reads(k)) /\ WF_vars(Serves(k))

FairSpec == Spec /\ Fairness

-----------------------------------------------------------------------------
ClientType == [pc : {"idle", "waiting", "success", "error"},
               rec : Records, got : Seq(Records)]
TaskType == [pc : {"none", "read", "work", "store", "send"},
             msg : Records, out : Seq(Records)]
DownType == [frames : Seq(Frames), end : {"open", "eof", "reset"}]

TypeOK ==
  /\ log \in Seq(Records) /\ open \in Records \cup {NoFile, Torn}
  /\ serving \in BOOLEAN
  /\ client \in [Conns -> ClientType]
  /\ task \in [Conns -> TaskType]
  /\ up \in [Conns -> Frames \cup {NoFrame}]
  /\ down \in [Conns -> DownType]
  /\ answer \in [Conns -> Seq(Records)]

(* What is heard is what was said: the daemon works on the record that the *)
(* client run of this connection sent, and the run has read the first of   *)
(* the records that process_rhex returned for it, in their order.  It does *)
(* not get another run's records, nor part of its own twice, whatever was  *)
(* cut, lost in a crash or too large, and however long ago the run left.   *)
HeardAsSaid ==
  \A k \in Conns :
    /\ task[k].pc \in {"work", "store", "send"} => task[k].msg = client[k].rec
    /\ IsPrefixOf(client[k].got, answer[k])

Stored == IF open \in Records THEN Append(log, open) ELSE log

(* A record is in the ledger at most once, however often clients that were *)
(* told nothing, or ok: false, send it again, at the same time or after a  *)
(* restart, finalized or in the form that its author signed.               *)
AppendedOnce ==
  \A i, j \in DOMAIN Stored : Stored[i].intent = Stored[j].intent => i = j

(* The daemon that clients see does to the ledger what SlotLedger allows,  *)
(* which UsherLedger was shown to implement in detail.                     *)
ImplementsSlotLedger == Ledger!Spec

(* Every client run ends, although the daemon answers a successful append  *)
(* with nothing and goes on to wait for another record of the client.      *)
EveryRunEnds == \A k \in Conns : Waiting(k) ~> ~Waiting(k)

(* Every task of the daemon ends, although the client may stop to read     *)
(* while the daemon has more to send than the connection's buffers hold.   *)
EveryTaskEnds == \A k \in Conns : task[k].pc # "none" ~> task[k].pc = "none"

-----------------------------------------------------------------------------
(* Claim, codec.rs:33, "this assumes padding is all zeros and CBOR does    *)
(* not require trailing zeros": a record that fits a frame is decoded at   *)
(* the other end.                                                          *)
FittingRecordArrives ==
  \A k \in Conns :
    /\ up[k] # NoFrame => Decode(up[k]) # Undecodable
    /\ \A n \in DOMAIN down[k].frames : Decode(down[k].frames[n]) # Undecodable
=============================================================================
