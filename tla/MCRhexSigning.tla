--------------------------- MODULE MCRhexSigning ---------------------------
(***************************************************************************)
(* Small instances of RhexSigning: two records that follow the same        *)
(* record, so that keytool writes both to one file, and tools that all     *)
(* use the key of the usher, which is also the member of the quorum.       *)
(***************************************************************************)
EXTENDS RhexSigning, TLC

CONSTANTS usher, member, draft, slot, p1, p2, n1, n2

MCPaths == {draft, slot}

Record(n) == [nonce |-> n, path |-> slot, usher |-> usher, valid |-> TRUE]

MCIntents == {Record(n) : n \in Nonces}

MCAuths ==
  {[pk |-> key, roles |-> {"authority"}] : key \in Keys}

RuleFor(k) ==
  [pos |-> 1, types |-> {AnyType}, append |-> {"authority"}, k |-> k,
   quorum |-> {"authority"}]

OneOfOne == RuleFor(1)
TwoOfTwo == RuleFor(2)

(* Overlapping runs are alike, and so are the records.                     *)
Alike == Permutations(Tools) \cup Permutations(Nonces)
=============================================================================
