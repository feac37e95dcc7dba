----------------------------- MODULE SlotLedger -----------------------------
(***************************************************************************)
(* What the usher daemon promises of its root scope, seen from outside: a  *)
(* log that only a restart extends, by at most one record, and a single    *)
(* open slot after it, which every append of an uptime overwrites.         *)
(***************************************************************************)
EXTENDS Naturals, Sequences

CONSTANTS Records, NoHash, NoFile, Torn

VARIABLES
  log,      \* the records every later start will load first
  open,     \* content of the slot that the tip of the log names
  serving   \* whether the daemon takes messages

vars == <<log, open, serving>>

Contents == Records \cup {NoFile, Torn}

Tip == log[Len(log)].hash

Chained(seq) ==
  \A i \in DOMAIN seq :
    seq[i].prev = IF i = 1 THEN NoHash ELSE seq[i - 1].hash

Init == log = <<>> /\ open = NoFile /\ serving = FALSE

(* The first start finds whatever chain the directory holds.               *)
FirstStart ==
  /\ ~serving /\ log = <<>>
  /\ log' \in Seq(Records) /\ Chained(log')
  /\ open' \in Contents
  /\ serving' = TRUE

Restart ==
  /\ ~serving /\ log # <<>>
  /\ \/ UNCHANGED <<log, open>>
     \/ /\ open \in Records /\ open.hash # NoHash
        /\ log' = Append(log, open)
        /\ open' = NoFile
  /\ serving' = TRUE

Truncate ==
  /\ serving /\ log # <<>>
  /\ open' = Torn
  /\ UNCHANGED <<log, serving>>

Put ==
  /\ serving /\ log # <<>>
  /\ open' \in Records /\ open'.prev = Tip
  /\ UNCHANGED <<log, serving>>

Stop == serving /\ serving' = FALSE /\ UNCHANGED <<log, open>>

Next == FirstStart \/ Restart \/ Truncate \/ Put \/ Stop

Spec == Init /\ [][Next]_vars
=============================================================================
