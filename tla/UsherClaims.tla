---------------------------- MODULE UsherClaims ----------------------------
(***************************************************************************)
(* What the README and the comments of the code say of the daemon and the  *)
(* code does not do.  Each of these is checked by a run that is expected   *)
(* to find a counterexample; the README of this project tells the stories. *)
(***************************************************************************)
EXTENDS UsherLedger

(* README.md:2, "an append-only, cryptographically signed record model":   *)
(* a file that holds a finalized record keeps it.                          *)
AppendOnly ==
  [][\A s \in Slots :
       Record(disk[s]) /\ disk[s].hash # NoHash => disk'[s] = disk[s]]_vars

(* processor/mod.rs:81, "3+, we have full quorum, we are looking to        *)
(* append", and :67, "We should have an author sig and be looking for      *)
(* usher sig and first quorum": a record with fewer signatures is signed   *)
(* and returned, it does not change the cache or the directory.            *)
QuorumBeforeEffect ==
  \A p \in Procs :
    task[p].pc \in {"exec", "open", "write"} => task[p].msg.sigs > 2

(* policy.rs:31, "Flush what we had before this policy in the cache": once *)
(* the policy:set handlers are through, the rules in the cache, those of a *)
(* bootstrap or a genesis apart, are those of one policy, or a part of     *)
(* them where a statement failed.                                          *)
OnePolicyInForce ==
  phase = "up" /\ (\A p \in Procs : task[p].pc # "exec") =>
    LET added == cache.rules \ {GenesisRule, BasicRule}
    IN added # {} =>
         \E r \in Records :
           /\ r.type = PolicySetType
           /\ added \subseteq {r.rules[i] : i \in DOMAIN r.rules}

(* processor/mod.rs:99, "All done checking the R⬢ for stability. Either    *)
(* process or show the list of errors": bootstrap survives a record in the *)
(* directory whose checks collected an error.                              *)
BootstrapShowsErrors == task[Boot].pc # "panicked"
=============================================================================
