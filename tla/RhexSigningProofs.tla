------------------------- MODULE RhexSigningProofs -------------------------
(***************************************************************************)
(* Proofs about RhexSigning, for any number of intents, keys, files and    *)
(* overlapping runs and for any clock: every signed record that can be     *)
(* read passes keytool verify, and what a daemon appends with a quorum is  *)
(* whole and was signed in time.                                           *)
(***************************************************************************)
EXTENDS RhexSigning, TLAPS

(* The shape that records really have: the author's signature first, the   *)
(* usher's second, one of a quorum member third, and no more.              *)
Shape(r) ==
  /\ r \in Rhex
  /\ Len(r.sigs) <= 3
  /\ Len(r.sigs) >= 1 => /\ r.sigs[1] \in AuthorSig
                         /\ r.sigs[1].over = [intent |-> r.intent]
  /\ Len(r.sigs) >= 2 =>
       /\ r.sigs[2] \in UsherSig
       /\ r.sigs[2].over = [author |-> r.sigs[1], at |-> r.at]
  /\ Len(r.sigs) >= 3 =>
       /\ r.sigs[3] \in QuorumSig
       /\ r.sigs[3].over = [author |-> r.sigs[1], usher |-> r.sigs[2]]

(* No time, or that of an usher's signature.                               *)
Dated(r) == r.at = 0 \/ r.at \in StartTime - Skew .. MaxTime + Skew

Formed(r) == Shape(r) /\ Dated(r)

LEMMA RhexFields ==
  ASSUME NEW r \in Rhex
  PROVE  /\ r.intent \in Intents /\ r.at \in Nat /\ r.sigs \in Seq(Signature)
         /\ r.hash \in HashType \cup {NoHash}
         /\ r = [intent |-> r.intent, at |-> r.at, sigs |-> r.sigs,
                 hash |-> r.hash]
         /\ r # NoFile /\ r # Torn
  BY SigningAssumption DEF Rhex

LEMMA SigFields ==
  /\ \A s \in AuthorSig : s.type = "author" /\ s.key \in Keys
  /\ \A s \in UsherSig : s.type = "usher" /\ s.key \in Keys
  /\ \A s \in QuorumSig : s.type = "quorum" /\ s.key \in Keys
  BY DEF AuthorSig, UsherSig, QuorumSig

LEMMA AppendFacts ==
  ASSUME NEW S, NEW n \in Nat, NEW t \in Seq(S), Len(t) = n, NEW e \in S
  PROVE  /\ Append(t, e) \in Seq(S)
         /\ Len(Append(t, e)) = n + 1
         /\ \A m \in 1 .. n : Append(t, e)[m] = t[m]
         /\ Append(t, e)[n + 1] = e
  OBVIOUS

LEMMA AppendSecond ==
  ASSUME NEW S, NEW t \in Seq(S), Len(t) = 1, NEW e \in S
  PROVE  /\ Append(t, e) \in Seq(S) /\ Len(Append(t, e)) = 2
         /\ Append(t, e)[1] = t[1] /\ Append(t, e)[2] = e
  <1>1. PICK n \in Nat : n = 1
    OBVIOUS
  <1>0. Len(t) = n
    BY <1>1
  <1>2. /\ Append(t, e) \in Seq(S) /\ Len(Append(t, e)) = n + 1
        /\ \A m \in 1 .. n : Append(t, e)[m] = t[m]
        /\ Append(t, e)[n + 1] = e
    BY <1>0, AppendFacts
  <1> QED
    BY <1>1, <1>2

LEMMA AppendThird ==
  ASSUME NEW S, NEW t \in Seq(S), Len(t) = 2, NEW e \in S
  PROVE  /\ Append(t, e) \in Seq(S) /\ Len(Append(t, e)) = 3
         /\ Append(t, e)[1] = t[1] /\ Append(t, e)[2] = t[2]
         /\ Append(t, e)[3] = e
  <1>1. PICK n \in Nat : n = 2
    OBVIOUS
  <1>0. Len(t) = n
    BY <1>1
  <1>2. /\ Append(t, e) \in Seq(S) /\ Len(Append(t, e)) = n + 1
        /\ \A m \in 1 .. n : Append(t, e)[m] = t[m]
        /\ Append(t, e)[n + 1] = e
    BY <1>0, AppendFacts
  <1> QED
    BY <1>1, <1>2

LEMMA UpTo == \A n \in Nat : n <= 3 => n \in 0 .. 3
  OBVIOUS

(* The types of the signatures of a record, at their places.               *)
LEMMA Places ==
  ASSUME NEW r, Shape(r)
  PROVE  /\ DOMAIN r.sigs = 1 .. Len(r.sigs)
         /\ Len(r.sigs) \in 0 .. 3
         /\ 1 \in DOMAIN r.sigs => r.sigs[1].type = "author"
         /\ 2 \in DOMAIN r.sigs => r.sigs[2].type = "usher"
         /\ 3 \in DOMAIN r.sigs => r.sigs[3].type = "quorum"
         /\ DOMAIN r.sigs \subseteq {1, 2, 3}
  <1>1. r.sigs \in Seq(Signature)
    BY RhexFields DEF Shape
  <1>2. DOMAIN r.sigs = 1 .. Len(r.sigs) /\ Len(r.sigs) \in Nat
    BY <1>1
  <1>3. Len(r.sigs) \in 0 .. 3
    <2>1. Len(r.sigs) <= 3
      BY DEF Shape
    <2> QED
      BY <1>2, <2>1, UpTo
  <1>4. \A n \in DOMAIN r.sigs : n \in Nat /\ 1 <= n /\ n <= Len(r.sigs)
    BY <1>2
  <1>5. DOMAIN r.sigs \subseteq {1, 2, 3}
    BY <1>3, <1>4
  <1>6. 1 \in DOMAIN r.sigs => r.sigs[1].type = "author"
    BY <1>3, <1>4, SigFields DEF Shape
  <1>7. 2 \in DOMAIN r.sigs => r.sigs[2].type = "usher"
    BY <1>3, <1>4, SigFields DEF Shape
  <1>8. 3 \in DOMAIN r.sigs => r.sigs[3].type = "quorum"
    BY <1>3, <1>4, SigFields DEF Shape
  <1> QED
    BY <1>2, <1>3, <1>5, <1>6, <1>7, <1>8

(* The first signature of a type is the one at the place of that type.     *)
LEMMA FirstAuthor ==
  ASSUME NEW r, Shape(r), Len(r.sigs) >= 1
  PROVE  First(r, "author") = r.sigs[1]
  <1> DEFINE P(n) == /\ n \in DOMAIN r.sigs /\ r.sigs[n].type = "author"
                     /\ \A m \in DOMAIN r.sigs :
                          r.sigs[m].type = "author" => n <= m
  <1>1. P(1)
    BY Places
  <1>2. \A n \in DOMAIN r.sigs : P(n) => n = 1
    BY Places
  <1>3. (CHOOSE n \in DOMAIN r.sigs :
           /\ r.sigs[n].type = "author"
           /\ \A m \in DOMAIN r.sigs : r.sigs[m].type = "author" => n <= m)
          = 1
    BY <1>1, <1>2
  <1> QED
    BY <1>3 DEF First

LEMMA FirstUsher ==
  ASSUME NEW r, Shape(r), Len(r.sigs) >= 2
  PROVE  First(r, "usher") = r.sigs[2]
  <1> DEFINE P(n) == /\ n \in DOMAIN r.sigs /\ r.sigs[n].type = "usher"
                     /\ \A m \in DOMAIN r.sigs :
                          r.sigs[m].type = "usher" => n <= m
  <1>1. P(2)
    BY Places
  <1>2. \A n \in DOMAIN r.sigs : P(n) => n = 2
    BY Places
  <1>3. (CHOOSE n \in DOMAIN r.sigs :
           /\ r.sigs[n].type = "usher"
           /\ \A m \in DOMAIN r.sigs : r.sigs[m].type = "usher" => n <= m)
          = 2
    BY <1>1, <1>2
  <1> QED
    BY <1>3 DEF First

LEMMA Preimages ==
  ASSUME NEW r, Shape(r)
  PROVE  /\ Preimage(r, "author") = [intent |-> r.intent]
         /\ Len(r.sigs) >= 1 =>
              Preimage(r, "usher") = [author |-> r.sigs[1], at |-> r.at]
         /\ Len(r.sigs) >= 2 =>
              Preimage(r, "quorum")
                = [author |-> r.sigs[1], usher |-> r.sigs[2]]
  <1>1. Len(r.sigs) \in Nat
    BY Places
  <1>2. Len(r.sigs) >= 2 => Len(r.sigs) >= 1
    BY <1>1
  <1> QED
    BY <1>2, FirstAuthor, FirstUsher DEF Preimage

LEMMA ShapeVerifies ==
  ASSUME NEW r, Shape(r), r.sigs # <<>>
  PROVE  Verifies(r)
  <1> SUFFICES ASSUME NEW n \in DOMAIN r.sigs
               PROVE  r.sigs[n].over = Preimage(r, r.sigs[n].type)
    BY DEF Verifies
  <1>1. n \in {1, 2, 3} /\ n <= Len(r.sigs) /\ Len(r.sigs) \in 0 .. 3
    BY Places
  <1>2. CASE n = 1
    BY <1>1, <1>2, Places, Preimages DEF Shape
  <1>3. CASE n = 2
    BY <1>1, <1>3, Places, Preimages DEF Shape
  <1>4. CASE n = 3
    BY <1>1, <1>4, Places, Preimages DEF Shape
  <1> QED
    BY <1>1, <1>2, <1>3, <1>4

(* One signature more, of the type that is due.                            *)
LEMMA AddAuthorSig ==
  ASSUME NEW r, Shape(r), r.sigs = <<>>, NEW key \in Keys
  PROVE  /\ Shape(AddSig(r, "author", key))
         /\ Len(AddSig(r, "author", key).sigs) = 1
         /\ AddSig(r, "author", key).at = r.at
         /\ AddSig(r, "author", key).intent = r.intent
  <1> DEFINE s == [type |-> "author", key |-> key,
                   over |-> [intent |-> r.intent]]
  <1>1. r \in Rhex /\ s \in AuthorSig /\ s \in Signature
    BY RhexFields DEF Shape, AuthorSig, Signature
  <1>2. AddSig(r, "author", key)
          = [intent |-> r.intent, at |-> r.at, sigs |-> <<s>>,
             hash |-> r.hash]
    BY <1>1, RhexFields, Preimages DEF AddSig
  <1>3. <<s>> \in Seq(Signature)
    BY <1>1
  <1> QED
    BY <1>1, <1>2, <1>3, RhexFields DEF Shape, Rhex

LEMMA AddUsherSig ==
  ASSUME NEW r, Shape(r), Len(r.sigs) = 1, NEW key \in Keys
  PROVE  /\ Shape(AddSig(r, "usher", key))
         /\ Len(AddSig(r, "usher", key).sigs) = 2
         /\ AddSig(r, "usher", key).at = r.at
         /\ AddSig(r, "usher", key).intent = r.intent
  <1> DEFINE o == [author |-> r.sigs[1], at |-> r.at]
             s == [type |-> "usher", key |-> key, over |-> o]
             q == Append(r.sigs, s)
             x == AddSig(r, "usher", key)
  <1>1. r \in Rhex /\ s \in UsherSig /\ s \in Signature /\ s.over = o
    BY RhexFields DEF Shape, UsherSig, Signature
  <1>2. /\ q \in Seq(Signature) /\ Len(q) = 2
        /\ q[1] = r.sigs[1] /\ q[2] = s
    <2>1. PICK t \in Seq(Signature) : t = r.sigs
      BY <1>1, RhexFields
    <2>2. Len(t) = 1
      BY <2>1
    <2> QED
      BY <1>1, <2>1, <2>2, AppendSecond
  <1>3. Preimage(r, "usher") = o
    BY Preimages
  <1>4. x = [r EXCEPT !.sigs = q]
    BY <1>3 DEF AddSig
  <1> HIDE DEF x, q, s
  <1>5. /\ x.intent = r.intent /\ x.at = r.at /\ x.sigs = q
        /\ x \in Rhex
    BY <1>1, <1>2, <1>4 DEF Rhex
  <1>6. Shape(x)
    <2>1. /\ r.sigs[1] \in AuthorSig
          /\ r.sigs[1].over = [intent |-> r.intent]
      BY DEF Shape
    <2>2. Len(x.sigs) = 2 /\ x.sigs[1] = q[1] /\ x.sigs[2] = q[2]
      BY <1>2, <1>5
    <2>3. x.sigs[1] \in AuthorSig /\ x.sigs[1].over = [intent |-> x.intent]
      BY <1>2, <1>5, <2>1, <2>2
    <2>4. /\ x.sigs[2] \in UsherSig
          /\ x.sigs[2].over = [author |-> x.sigs[1], at |-> x.at]
      BY <1>1, <1>2, <1>5, <2>1, <2>2
    <2> QED
      BY <1>5, <2>2, <2>3, <2>4 DEF Shape
  <1> QED
    BY <1>2, <1>5, <1>6 DEF x

LEMMA AddQuorumSig ==
  ASSUME NEW r, Shape(r), Len(r.sigs) = 2, NEW key \in Keys
  PROVE  /\ Shape(AddSig(r, "quorum", key))
         /\ Len(AddSig(r, "quorum", key).sigs) = 3
         /\ AddSig(r, "quorum", key).at = r.at
         /\ AddSig(r, "quorum", key).intent = r.intent
  <1> DEFINE o == [author |-> r.sigs[1], usher |-> r.sigs[2]]
             s == [type |-> "quorum", key |-> key, over |-> o]
             q == Append(r.sigs, s)
             x == AddSig(r, "quorum", key)
  <1>1. r \in Rhex /\ s \in QuorumSig /\ s \in Signature /\ s.over = o
    BY RhexFields DEF Shape, QuorumSig, Signature
  <1>2. /\ q \in Seq(Signature) /\ Len(q) = 3
        /\ q[1] = r.sigs[1] /\ q[2] = r.sigs[2] /\ q[3] = s
    <2>1. PICK t \in Seq(Signature) : t = r.sigs
      BY <1>1, RhexFields
    <2>2. Len(t) = 2
      BY <2>1
    <2> QED
      BY <1>1, <2>1, <2>2, AppendThird
  <1>3. Preimage(r, "quorum") = o
    BY Preimages
  <1>4. x = [r EXCEPT !.sigs = q]
    BY <1>3 DEF AddSig
  <1> HIDE DEF x, q, s
  <1>5. /\ x.intent = r.intent /\ x.at = r.at /\ x.sigs = q
        /\ x \in Rhex
    BY <1>1, <1>2, <1>4 DEF Rhex
  <1>6. Shape(x)
    <2>1. /\ r.sigs[1] \in AuthorSig
          /\ r.sigs[1].over = [intent |-> r.intent]
          /\ r.sigs[2] \in UsherSig
          /\ r.sigs[2].over = [author |-> r.sigs[1], at |-> r.at]
      BY DEF Shape
    <2>2. Len(x.sigs) = 3 /\ x.sigs[1] = q[1] /\ x.sigs[2] = q[2]
      BY <1>2, <1>5
    <2>3. x.sigs[1] \in AuthorSig /\ x.sigs[1].over = [intent |-> x.intent]
      BY <1>2, <1>5, <2>1, <2>2
    <2>4. /\ x.sigs[2] \in UsherSig
          /\ x.sigs[2].over = [author |-> x.sigs[1], at |-> x.at]
      BY <1>1, <1>2, <1>5, <2>1, <2>2
    <2>5. /\ x.sigs[3] \in QuorumSig
          /\ x.sigs[3].over = [author |-> x.sigs[1], usher |-> x.sigs[2]]
      BY <1>1, <1>2, <1>5, <2>2
    <2> QED
      BY <1>5, <2>2, <2>3, <2>4, <2>5 DEF Shape
  <1> QED
    BY <1>2, <1>5, <1>6 DEF x

(* sort_signatures leaves the signatures where they are.                   *)
LEMMA SortedKeeps ==
  ASSUME NEW r, Shape(r)
  PROVE  Sorted(r.sigs) = r.sigs
  <1> DEFINE D == DOMAIN r.sigs
             P(f) == /\ f \in Bijection(D, D)
                     /\ \A m, n \in D :
                          m <= n => Rank[r.sigs[f[m]].type]
                                      <= Rank[r.sigs[f[n]].type]
             id == [n \in D |-> n]
  <1>1. \A n \in D : n \in {1, 2, 3} /\ Rank[r.sigs[n].type] = n
    BY Places DEF Rank
  <1>2. P(id)
    <2>1. id \in Bijection(D, D)
      BY DEF Bijection, Injection, Surjection, IsInjective
    <2> QED
      BY <1>1, <2>1
  <1>3. ASSUME NEW f, P(f)
        PROVE  \A n \in D : f[n] = n
    <2>1. /\ f \in [D -> D]
          /\ \A w \in D : \E v \in D : f[v] = w
      BY <1>3 DEF Bijection, Injection, Surjection
    <2>2. \A m, n \in D : m <= n => f[m] <= f[n]
      <3> SUFFICES ASSUME NEW m \in D, NEW n \in D, m <= n
                   PROVE  f[m] <= f[n]
        OBVIOUS
      <3>1. f[m] \in D /\ f[n] \in D
        BY <2>1
      <3>2. Rank[r.sigs[f[m]].type] <= Rank[r.sigs[f[n]].type]
        BY <1>3
      <3> HIDE DEF D, P
      <3> QED
        BY <1>1, <3>1, <3>2
    <2>3. D \in {{}, {1}, {1, 2}, {1, 2, 3}}
      <3>1. D = 1 .. Len(r.sigs) /\ Len(r.sigs) \in 0 .. 3
        BY Places
      <3>2. 1 .. 0 = {} /\ 1 .. 1 = {1} /\ 1 .. 2 = {1, 2}
            /\ 1 .. 3 = {1, 2, 3}
        OBVIOUS
      <3>3. \A n \in 0 .. 3 : n = 0 \/ n = 1 \/ n = 2 \/ n = 3
        OBVIOUS
      <3>4. Len(r.sigs) = 0 \/ Len(r.sigs) = 1 \/ Len(r.sigs) = 2
            \/ Len(r.sigs) = 3
        BY <3>1, <3>3, Zenon
      <3> QED
        BY <3>1, <3>2, <3>4
    <2> HIDE DEF D
    <2>4. CASE D = {} \/ D = {1}
      BY <2>1, <2>4
    <2>5. CASE D = {1, 2}
      BY <2>1, <2>2, <2>5
    <2>6. CASE D = {1, 2, 3}
      BY <2>1, <2>2, <2>6
    <2> QED
      BY <2>3, <2>4, <2>5, <2>6
  <1> DEFINE order == CHOOSE f \in Bijection(D, D) :
                        \A m, n \in D :
                          m <= n => Rank[r.sigs[f[m]].type]
                                      <= Rank[r.sigs[f[n]].type]
  <1>4. P(order)
    BY <1>2
  <1>5. \A n \in D : order[n] = n
    BY <1>3, <1>4
  <1>6. Sorted(r.sigs) = [n \in D |-> r.sigs[order[n]]]
    BY DEF Sorted
  <1>7. r.sigs = [n \in D |-> r.sigs[n]]
    BY RhexFields DEF Shape
  <1> HIDE DEF order, D
  <1> QED
    BY <1>5, <1>6, <1>7

LEMMA FinalizedFormed ==
  ASSUME NEW r, Formed(r)
  PROVE  Formed(Finalized(r))
  <1>1. r \in Rhex /\ Sorted(r.sigs) = r.sigs
    BY SortedKeeps DEF Formed, Shape
  <1>2. [r EXCEPT !.sigs = Sorted(r.sigs)] = r
    BY <1>1, RhexFields
  <1>3. Finalized(r) = [r EXCEPT !.hash = Contents(r)]
    BY <1>2 DEF Finalized
  <1>4. Contents(r) \in HashType
    BY <1>1, RhexFields DEF Contents, HashType
  <1> DEFINE x == Finalized(r)
  <1>5. /\ x \in Rhex /\ x.intent = r.intent /\ x.at = r.at
        /\ x.sigs = r.sigs
    BY <1>1, <1>3, <1>4 DEF Rhex
  <1> HIDE DEF x
  <1>6. Formed(x)
    BY <1>5 DEF Formed, Shape, Dated
  <1> QED
    BY <1>6 DEF x

LEMMA DraftFormed ==
  ASSUME NEW i \in Intents
  PROVE  Formed(Draft(i)) /\ Draft(i).sigs = <<>>
  BY DEF Formed, Shape, Dated, Draft, Rhex

LEMMA CountersignFormed ==
  ASSUME NEW r, Formed(r), Len(r.sigs) = 1, NEW key \in Keys
  PROVE  Formed(Countersign(r, key))
  <1> DEFINE u == AddSig(r, "usher", key)
  <1>1. Shape(u) /\ Len(u.sigs) = 2 /\ u.at = r.at
    BY AddUsherSig DEF Formed
  <1> HIDE DEF u
  <1>2. Shape(AddSig(u, "quorum", key)) /\ AddSig(u, "quorum", key).at = u.at
    BY <1>1, AddQuorumSig
  <1> QED
    BY <1>1, <1>2 DEF Formed, Dated, Countersign, u

LEMMA GenesisFormed ==
  ASSUME NEW i \in Intents, NEW key \in Keys
  PROVE  Formed(Genesis(i, key))
  <1> DEFINE a == AddSig(Draft(i), "author", key)
  <1>1. Shape(Draft(i)) /\ Draft(i).sigs = <<>> /\ Dated(Draft(i))
    BY DraftFormed DEF Formed
  <1>2. Shape(a) /\ Len(a.sigs) = 1 /\ a.at = Draft(i).at
    BY <1>1, AddAuthorSig
  <1> HIDE DEF a
  <1>3. Formed(a)
    BY <1>1, <1>2 DEF Formed, Dated
  <1>4. Formed(Countersign(a, key))
    BY <1>2, <1>3, CountersignFormed
  <1> QED
    BY <1>4, FinalizedFormed DEF Genesis, a

(* What keytool writes, for each type of signature it adds.                *)
LEMMA SignFormed ==
  ASSUME NEW r, Formed(r), NEW type \in SigTypes, NEW key \in Keys,
         NEW time \in StartTime - Skew .. MaxTime + Skew,
         Status(r) = Awaiting[type]
  PROVE  Formed(Sign(r, type, key, time))
  <1>1. CASE type = "author"
    <2>1. r.sigs = <<>>
      BY <1>1 DEF Status, Awaiting
    <2> QED
      BY <1>1, <2>1, AddAuthorSig DEF Sign, Formed, Dated
  <1>2. CASE type = "usher"
    <2>1. Len(r.sigs) = 1
      BY <1>2 DEF Status, Awaiting
    <2> DEFINE x == [r EXCEPT !.at = time]
    <2>2. r \in Rhex /\ Shape(r) /\ time \in Nat
      BY SigningAssumption DEF Formed, Shape
    <2>3. /\ x \in Rhex /\ x.sigs = r.sigs /\ x.intent = r.intent
          /\ x.at = time
      BY <2>2 DEF Rhex
    <2> HIDE DEF x
    <2>4. Shape(x)
      BY <2>1, <2>2, <2>3 DEF Shape
    <2>5. Shape(AddSig(x, "usher", key)) /\ AddSig(x, "usher", key).at = time
      BY <2>1, <2>3, <2>4, AddUsherSig
    <2> QED
      BY <1>2, <2>5 DEF Sign, Formed, Dated, x
  <1>3. CASE type = "quorum"
    <2>1. Len(r.sigs) = 2
      BY <1>3 DEF Status, Awaiting
    <2> QED
      BY <1>3, <2>1, AddQuorumSig DEF Sign, Formed, Dated
  <1> QED
    BY <1>1, <1>2, <1>3 DEF SigTypes

-----------------------------------------------------------------------------
(* The inductive invariant: wherever a record can be read, it is formed.   *)
Good(f) == f \in {NoFile, Torn} \/ Formed(f)

IInv ==
  /\ TypeOK
  /\ \A f \in Paths : Good(files[f])
  /\ \A p \in Tools : Good(tool[p].rec)
  /\ Good(reply) /\ Good(last.rec)
  /\ AppendedIsWhole /\ AppendedInTime

LEMMA GoodWhole ==
  ASSUME NEW f, Good(f), Whole(f)
  PROVE  Formed(f) /\ f \in Rhex
  BY DEF Good, Whole, Formed, Shape

LEMMA FormedGood ==
  ASSUME NEW r, Formed(r)
  PROVE  Good(r) /\ r \in Rhex /\ Shape(r) /\ r \notin {NoFile, Torn}
  BY RhexFields DEF Good, Formed, Shape

LEMMA InitIInv == Init => IInv
  <1> SUFFICES ASSUME Init PROVE IInv
    OBVIOUS
  <1>1. NoRun \in [pc : {"idle", "open", "write"},
                   rec : Rhex \cup {NoFile}, to : Paths]
    BY SigningAssumption DEF NoRun
  <1>2. TypeOK
    BY <1>1, SigningAssumption DEF Init, TypeOK
  <1>3. ~Appended
    BY DEF Init, Appended
  <1> QED
    BY <1>2, <1>3
    DEF Init, IInv, Good, NoRun, AppendedIsWhole, AppendedInTime

(* A tool run that starts with a formed record in its hands.               *)
LEMMA LaunchKeeps ==
  ASSUME IInv, NEW p \in Tools, NEW r, Formed(r), NEW to \in Paths,
         Launch(p, r, to)
  PROVE  IInv'
  <1>1. r \in Rhex /\ Good(r)
    BY FormedGood
  <1>2. /\ tool' = [tool EXCEPT ![p] = [pc |-> "open", rec |-> r, to |-> to]]
        /\ runs' = IF MaxRuns = 0 THEN 0 ELSE runs + 1
        /\ MaxRuns = 0 \/ runs < MaxRuns
        /\ UNCHANGED <<files, now, reply, last>>
    BY DEF Launch
  <1>3. runs' \in 0 .. MaxRuns
    BY <1>2, SigningAssumption DEF IInv, TypeOK
  <1>4. tool' \in [Tools -> [pc : {"idle", "open", "write"},
                            rec : Rhex \cup {NoFile}, to : Paths]]
    BY <1>1, <1>2 DEF IInv, TypeOK
  <1>5. TypeOK'
    BY <1>2, <1>3, <1>4 DEF IInv, TypeOK
  <1>6. \A q \in Tools : Good(tool'[q].rec)
    BY <1>1, <1>2 DEF IInv, TypeOK
  <1>7. (AppendedIsWhole /\ AppendedInTime)'
    BY <1>2 DEF IInv, AppendedIsWhole, AppendedInTime, Appended
  <1> QED
    BY <1>2, <1>5, <1>6, <1>7 DEF IInv, Good, Formed, Shape, Dated

LEMMA LaunchesKeep ==
  ASSUME IInv, NEW p \in Tools, Launches(p)
  PROVE  IInv'
  <1>1. CASE Craft(p)
    BY <1>1, DraftFormed, LaunchKeeps DEF Craft
  <1>2. CASE CreateGenesis(p)
    <2>1. PICK i \in Intents, key \in Keys :
                 Launch(p, Genesis(i, key), i.path)
      BY <1>2 DEF CreateGenesis
    <2>2. i.path \in Paths
      BY SigningAssumption DEF IntentType
    <2> QED
      BY <2>1, <2>2, GenesisFormed, LaunchKeeps
  <1>3. CASE SignFile(p)
    <2>1. PICK type \in SigTypes, key \in Keys : SignWith(p, type, key)
      BY <1>3 DEF SignFile
    <2>2. PICK from \in Paths, time \in now - Skew .. now + Skew :
                 /\ Whole(files[from])
                 /\ Status(files[from]) = Awaiting[type]
                 /\ Launch(p, Sign(files[from], type, key, time),
                           files[from].intent.path)
      BY <2>1 DEF SignWith
    <2>3. Formed(files[from]) /\ files[from] \in Rhex
      BY <2>2, GoodWhole DEF IInv
    <2>4. time \in StartTime - Skew .. MaxTime + Skew
      BY SigningAssumption DEF IInv, TypeOK
    <2>5. files[from].intent.path \in Paths
      BY <2>3, RhexFields, SigningAssumption DEF IntentType
    <2> QED
      BY <2>2, <2>3, <2>4, <2>5, SignFormed, LaunchKeeps
  <1>4. CASE Finalize(p)
    <2>1. PICK from \in Paths, to \in Paths :
                 Whole(files[from]) /\ Launch(p, Finalized(files[from]), to)
      BY <1>4 DEF Finalize, FinalizeFrom
    <2>2. Formed(Finalized(files[from]))
      BY <2>1, GoodWhole, FinalizedFormed DEF IInv
    <2> QED
      BY <2>1, <2>2, LaunchKeeps
  <1>5. CASE SaveReply(p)
    <2>1. PICK to \in Paths : reply # NoFile /\ Launch(p, reply, to)
      BY <1>5 DEF SaveReply
    <2>2. Formed(reply)
      BY <2>1, SigningAssumption DEF IInv, Good, TypeOK
    <2> QED
      BY <2>1, <2>2, LaunchKeeps
  <1> QED
    BY <1>1, <1>2, <1>3, <1>4, <1>5 DEF Launches

(* Truncating, filling, and being killed on the way.                       *)
LEMMA WritesKeep ==
  ASSUME IInv, NEW p \in Tools, Writes(p) \/ Kill(p)
  PROVE  IInv'
  <1> DEFINE ToolType == [pc : {"idle", "open", "write"},
                          rec : Rhex \cup {NoFile}, to : Paths]
  <1>1. tool[p] \in ToolType /\ NoRun \in ToolType /\ Good(NoRun.rec)
    BY SigningAssumption DEF IInv, TypeOK, NoRun, Good
  <1>2. \E t \in ToolType :
          /\ tool' = [tool EXCEPT ![p] = t] /\ Good(t.rec)
    <2>1. CASE OpenFile(p)
      <3>1. [tool[p] EXCEPT !.pc = "write"] \in ToolType
        BY <1>1
      <3>2. tool' = [tool EXCEPT ![p] = [tool[p] EXCEPT !.pc = "write"]]
        BY <2>1 DEF OpenFile, IInv, TypeOK
      <3>3. Good([tool[p] EXCEPT !.pc = "write"].rec)
        BY <1>1 DEF IInv
      <3> QED
        BY <3>1, <3>2, <3>3
    <2>2. CASE WriteFile(p) \/ Kill(p)
      BY <1>1, <2>2 DEF WriteFile, Kill
    <2> QED
      BY <2>1, <2>2 DEF Writes
  <1>3. \E f \in Rhex \cup {NoFile, Torn} :
          /\ files' \in {files, [files EXCEPT ![tool[p].to] = f]}
          /\ Good(f)
    <2>1. CASE OpenFile(p) \/ Kill(p)
      BY <2>1 DEF OpenFile, Kill, Good
    <2>2. CASE WriteFile(p)
      BY <1>1, <2>2 DEF WriteFile, IInv
    <2> QED
      BY <2>1, <2>2 DEF Writes
  <1>4. UNCHANGED <<runs, now, reply, last>>
    BY DEF Writes, OpenFile, WriteFile, Kill
  <1>5. TypeOK'
    BY <1>1, <1>2, <1>3, <1>4 DEF IInv, TypeOK
  <1>6. \A q \in Tools : Good(tool'[q].rec)
    BY <1>2 DEF IInv, TypeOK
  <1>7. \A f \in Paths : Good(files'[f])
    BY <1>1, <1>3 DEF IInv, TypeOK
  <1>8. (AppendedIsWhole /\ AppendedInTime)'
    BY <1>4 DEF IInv, AppendedIsWhole, AppendedInTime, Appended
  <1> QED
    BY <1>4, <1>5, <1>6, <1>7, <1>8 DEF IInv, Good, Formed, Shape, Dated

(* A daemon dispatches the record of a file, and answers with a formed     *)
(* record or as before.                                                    *)
LEMMA DispatchKeeps ==
  ASSUME IInv, NEW f \in Paths, Whole(files[f]), Dispatch(files[f]),
         UNCHANGED <<files, tool, runs, now>>,
         reply' = reply \/ Formed(reply'),
         (AppendedIsWhole /\ AppendedInTime)'
  PROVE  IInv'
  <1>1. Formed(files[f]) /\ files[f] \in Rhex /\ Good(files[f])
    BY GoodWhole DEF IInv
  <1>2. now \in Nat
    BY SigningAssumption DEF IInv, TypeOK
  <1>3. last' = [rec |-> files[f], time |-> now]
    BY DEF Dispatch
  <1>4. reply' \in Rhex \cup {NoFile} /\ Good(reply')
    BY DEF IInv, TypeOK, Good, Formed, Shape
  <1>5. TypeOK'
    BY <1>1, <1>2, <1>3, <1>4 DEF IInv, TypeOK
  <1> QED
    BY <1>1, <1>3, <1>4, <1>5 DEF IInv, Good, Formed, Shape, Dated

LEMMA SubmitsKeep ==
  ASSUME IInv, NEW f \in Paths, Submits(f)
  PROVE  IInv'
  <1> DEFINE r == files[f]
  <1>1. Whole(r) /\ r.intent.usher \in Daemons /\ Dispatch(r)
    BY DEF Submits, SubmitAuthored, SubmitUshered, SubmitQuorum, Submitted
  <1>2. Formed(r) /\ Shape(r) /\ r \in Rhex /\ r # NoFile
    BY <1>1, GoodWhole, FormedGood DEF IInv
  <1>3. last'.rec = r /\ last'.time = now
    BY <1>1 DEF Dispatch
  <1>4. r.intent.usher \in Keys
    BY <1>1, SigningAssumption
  <1>5. CASE SubmitAuthored(f)
    <2>1. /\ Len(r.sigs) = 1 /\ reply' = Countersign(r, r.intent.usher)
          /\ UNCHANGED <<files, tool, runs, now>>
      BY <1>5 DEF SubmitAuthored
    <2>2. Formed(reply')
      BY <1>2, <1>4, <2>1, CountersignFormed
    <2>3. ~Appended'
      BY <1>3, <2>1 DEF Appended
    <2> QED
      BY <1>1, <2>1, <2>2, <2>3, DispatchKeeps
      DEF AppendedIsWhole, AppendedInTime
  <1>6. CASE SubmitUshered(f)
    <2>1. /\ Len(r.sigs) = 2
          /\ reply' = AddSig(r, "quorum", r.intent.usher)
          /\ UNCHANGED <<files, tool, runs, now>>
      BY <1>6 DEF SubmitUshered
    <2>2. Formed(reply')
      BY <1>2, <1>4, <2>1, AddQuorumSig DEF Formed, Dated
    <2>3. ~Appended'
      BY <1>3, <2>1 DEF Appended
    <2> QED
      BY <1>1, <2>1, <2>2, <2>3, DispatchKeeps
      DEF AppendedIsWhole, AppendedInTime
  <1>7. CASE SubmitQuorum(f)
    <2>1. /\ Len(r.sigs) > 2 /\ InTime(r) /\ HashFits(r)
          /\ UNCHANGED <<files, tool, runs, now, reply>>
      BY <1>7 DEF SubmitQuorum
    <2>2. AppendedIsWhole'
      <3>1. Len(r.sigs) = 3 /\ DOMAIN r.sigs = 1 .. Len(r.sigs)
        <4>1. /\ Len(r.sigs) \in 0 .. 3
              /\ DOMAIN r.sigs = 1 .. Len(r.sigs)
          BY <1>2, Places
        <4>2. \A n \in 0 .. 3 : n > 2 => n = 3
          OBVIOUS
        <4> QED
          BY <2>1, <4>1, <4>2
      <3>2. Has(r, 1, "author") /\ Has(r, 2, "usher")
        BY <1>2, <3>1, Places DEF Has
      <3>3. Verifies(r) /\ r.hash = Contents(r)
        <4>1. r.sigs # <<>>
          BY <3>1
        <4> QED
          BY <1>2, <2>1, <4>1, ShapeVerifies DEF HashFits
      <3>4. /\ last'.rec.hash = Contents(last'.rec)
            /\ Has(last'.rec, 1, "author") /\ Has(last'.rec, 2, "usher")
            /\ Verifies(last'.rec)
        BY <1>3, <3>2, <3>3
      <3> QED
        BY <3>4 DEF AppendedIsWhole, Has, Verifies, Contents, Preimage, First
    <2>3. AppendedInTime'
      <3>1. /\ now \in StartTime .. MaxTime /\ r.at \in Nat
            /\ r.at = 0 \/ r.at \in StartTime - Skew .. MaxTime + Skew
            /\ Minus(now, r.at) <= TTL
        BY <1>2, <2>1, RhexFields DEF IInv, TypeOK, Formed, Dated, InTime
      <3>2. r.at <= now
        BY <3>1, SigningAssumption DEF Minus
      <3>3. now - r.at <= TTL
        BY <3>1, <3>2 DEF Minus
      <3>4. r.at # 0
        BY <3>1, <3>3, SigningAssumption
      <3>5. r.at \in StartTime - Skew .. now
        BY <3>1, <3>2, <3>4, SigningAssumption
      <3> QED
        BY <1>3, <3>3, <3>5 DEF AppendedInTime
    <2> QED
      BY <1>1, <2>1, <2>2, <2>3, DispatchKeeps
  <1> QED
    BY <1>5, <1>6, <1>7 DEF Submits

LEMMA TickKeeps ==
  ASSUME IInv, Tick
  PROVE  IInv'
  <1>1. now' \in StartTime .. MaxTime
    BY SigningAssumption DEF Tick, IInv, TypeOK
  <1>2. UNCHANGED <<files, tool, runs, reply, last>>
    BY DEF Tick
  <1>3. TypeOK'
    BY <1>1, <1>2 DEF IInv, TypeOK
  <1>4. (AppendedIsWhole /\ AppendedInTime)'
    BY <1>2 DEF IInv, AppendedIsWhole, AppendedInTime, Appended
  <1> QED
    BY <1>2, <1>3, <1>4 DEF IInv, Good, Formed, Shape, Dated

LEMMA StutterKeeps ==
  ASSUME IInv, UNCHANGED vars
  PROVE  IInv'
  <1>1. TypeOK'
    BY DEF IInv, TypeOK, vars
  <1>2. (AppendedIsWhole /\ AppendedInTime)'
    BY DEF IInv, AppendedIsWhole, AppendedInTime, Appended, vars
  <1> QED
    BY <1>1, <1>2 DEF IInv, Good, Formed, Shape, Dated, vars

LEMMA IInvImplies == IInv => SignaturesVerify
  <1> SUFFICES ASSUME IInv, NEW r \in Held, r.sigs # <<>>
               PROVE  Verifies(r)
    BY DEF SignaturesVerify
  <1>1. Whole(r) /\ Good(r)
    BY DEF Held, IInv
  <1> QED
    BY <1>1, GoodWhole, FormedGood, ShapeVerifies

(* Whatever tools, daemons and clients do: the inductive invariant holds.  *)
LEMMA IInvHolds == Spec => []IInv
  <1>1. IInv /\ [Next]_vars => IInv'
    BY LaunchesKeep, WritesKeep, SubmitsKeep, TickKeeps, StutterKeeps DEF Next
  <1> QED
    BY InitIInv, <1>1, PTL DEF Spec

(* The types are kept.                                                     *)
THEOREM SigningTypes == Spec => []TypeOK
  <1>1. IInv => TypeOK
    BY DEF IInv
  <1> QED
    BY IInvHolds, <1>1, PTL

(* Every signed record in a file, in the hands of a tool run, in a reply   *)
(* or dispatched by a daemon passes keytool verify.                        *)
THEOREM RecordsVerify == Spec => []SignaturesVerify
  BY IInvHolds, IInvImplies, PTL

(* What a daemon appends with a quorum is hashed and signed as a whole, by *)
(* an author and an usher whose signatures it does not check itself.       *)
THEOREM AppendsAreWhole == Spec => []AppendedIsWhole
  <1>1. IInv => AppendedIsWhole
    BY DEF IInv
  <1> QED
    BY IInvHolds, <1>1, PTL

(* What a daemon appends with a quorum was dated by an usher in the last   *)
(* quorum_ttl, although the comparison is made on a wrapping difference.   *)
THEOREM AppendsAreInTime == Spec => []AppendedInTime
  <1>1. IInv => AppendedInTime
    BY DEF IInv
  <1> QED
    BY IInvHolds, <1>1, PTL
=============================================================================
