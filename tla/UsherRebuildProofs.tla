------------------------- MODULE UsherRebuildProofs -------------------------
(***************************************************************************)
(* What a bootstrap makes of the cache, for any records, hashes, keys and  *)
(* connections, scope requests included, as long as scope:genesis was      *)
(* never put into a file but genesis.rhex: the rules are those of the last *)
(* policy:set that was loaded, or the two that bootstrap and genesis       *)
(* store, and the authorities are the genesis author and the grantees,     *)
(* each with the roles last granted.                                       *)
(***************************************************************************)
EXTENDS UsherRestartProofs

-----------------------------------------------------------------------------
(* What one statement does to the rules and the authorities.               *)

LEMMA ApplyRows ==
  ASSUME NEW c \in CacheType
  PROVE  /\ \A n \in {"delScope", "delPolicy", "delUshers", "putScope", "putPolicy"} :
              /\ Apply(Op(n), c).rules = c.rules
              /\ Apply(Op(n), c).auths = c.auths
         /\ Apply(Op("delRules"), c).rules = {}
         /\ Apply(Op("delRules"), c).auths = c.auths
         /\ Apply(Op("delAuths"), c).rules = c.rules
         /\ Apply(Op("delAuths"), c).auths = {}
         /\ \A q : /\ Apply(PutRule(q), c).rules = Upsert(c.rules, q)
                   /\ Apply(PutRule(q), c).auths = c.auths
         /\ \A k, R : /\ Apply(PutAuth(k, R), c).rules = c.rules
                      /\ Apply(PutAuth(k, R), c).auths =
                           {a \in c.auths : a.pk # k} \cup {[pk |-> k, roles |-> R]}
         /\ \A k : /\ Apply(PutUsher(k), c).rules = c.rules
                   /\ Apply(PutUsher(k), c).auths = c.auths
  <1>1. \A n : Op(n).op = n
    BY DEF Op
  <1>2. \A q : PutRule(q).op = "putRule" /\ PutRule(q).rule = q
    BY DEF Op, PutRule
  <1>3. \A k, R : /\ PutAuth(k, R).op = "putAuth"
                  /\ PutAuth(k, R).pk = k /\ PutAuth(k, R).roles = R
    BY DEF Op, PutAuth
  <1>4. \A k : PutUsher(k).op = "putUsher"
    BY DEF Op, PutUsher
  <1>5. ASSUME NEW n \in {"delScope", "delPolicy", "delUshers", "putScope", "putPolicy"}
        PROVE  /\ Apply(Op(n), c).rules = c.rules
               /\ Apply(Op(n), c).auths = c.auths
    BY <1>1 DEF Apply, CacheType
  <1>6. /\ Apply(Op("delRules"), c).rules = {}
        /\ Apply(Op("delRules"), c).auths = c.auths
        /\ Apply(Op("delAuths"), c).rules = c.rules
        /\ Apply(Op("delAuths"), c).auths = {}
    BY <1>1 DEF Apply, CacheType
  <1>7. ASSUME NEW q
        PROVE  /\ Apply(PutRule(q), c).rules = Upsert(c.rules, q)
               /\ Apply(PutRule(q), c).auths = c.auths
    BY <1>2 DEF Apply, CacheType
  <1>8. ASSUME NEW k, NEW R
        PROVE  /\ Apply(PutAuth(k, R), c).rules = c.rules
               /\ Apply(PutAuth(k, R), c).auths =
                    {a \in c.auths : a.pk # k} \cup {[pk |-> k, roles |-> R]}
    BY <1>3 DEF Apply, PutAuthority, CacheType
  <1>9. ASSUME NEW k
        PROVE  /\ Apply(PutUsher(k), c).rules = c.rules
               /\ Apply(PutUsher(k), c).auths = c.auths
    BY <1>4 DEF Apply, CacheType
  <1> QED
    BY <1>5, <1>6, <1>7, <1>8, <1>9

-----------------------------------------------------------------------------
(* What the statements of a handler come to.                               *)

LEMMA NothingRuns ==
  ASSUME NEW c, NEW d, Runs(<<>>, c, d)
  PROVE  d = c
  <1>1. Len(<<>>) = 0
    OBVIOUS
  <1> QED
    BY <1>1 DEF Runs

LEMMA OneRuns ==
  ASSUME NEW o, NEW c, NEW d, Runs(<<o>>, c, d)
  PROVE  d = Apply(o, c)
  <1>1. Len(<<o>>) = 1 /\ <<o>>[1] = o /\ 1 \in 1 .. 1 /\ 1 - 1 = 0
    OBVIOUS
  <1> QED
    BY <1>1 DEF Runs

(* scope_genesis: the one authority is the author, the one new rule the    *)
(* basic one; the other rules stay.                                        *)
LEMMA GenesisRuns ==
  ASSUME NEW r \in Records, r.type = GenesisType,
         NEW c, NEW d, Runs(Effects(r), c, d)
  PROVE  /\ d.rules = Upsert(c.rules, BasicRule)
         /\ d.auths = {[pk |-> r.author, roles |-> {"authority"}]}
  <1>1. Effects(r) = ScopeGenesis(r)
    BY DEF Effects, DataUnreadable, Statements, GenesisType, PolicySetType,
           ScopeRequestType
  <1> DEFINE todo == ScopeGenesis(r)
  <1>2. /\ Len(todo) = 8
        /\ todo[1] = Op("delScope") /\ todo[2] = Op("delAuths")
        /\ todo[3] = Op("delPolicy") /\ todo[4] = Op("delUshers")
        /\ todo[5] = Op("putScope") /\ todo[6] = PutAuth(r.author, {"authority"})
        /\ todo[7] = Op("putPolicy") /\ todo[8] = PutRule(BasicRule)
    BY DEF ScopeGenesis
  <1> HIDE DEF todo
  <1>3. PICK S \in [0 .. 8 -> CacheType] :
          /\ S[0] = c /\ S[8] = d
          /\ \A i \in 1 .. 8 : S[i] = Apply(todo[i], S[i - 1])
    BY <1>1, <1>2 DEF Runs, todo
  <1>4. /\ S[1] = Apply(todo[1], S[0]) /\ S[2] = Apply(todo[2], S[1])
        /\ S[3] = Apply(todo[3], S[2]) /\ S[4] = Apply(todo[4], S[3])
        /\ S[5] = Apply(todo[5], S[4]) /\ S[6] = Apply(todo[6], S[5])
        /\ S[7] = Apply(todo[7], S[6]) /\ S[8] = Apply(todo[8], S[7])
    BY <1>3
  <1>5. /\ S[0] \in CacheType /\ S[1] \in CacheType /\ S[2] \in CacheType
        /\ S[3] \in CacheType /\ S[4] \in CacheType /\ S[5] \in CacheType
        /\ S[6] \in CacheType /\ S[7] \in CacheType
    BY <1>3
  <1>6. S[1].rules = c.rules
    BY <1>2, <1>3, <1>4, <1>5, ApplyRows
  <1>7. S[2].rules = c.rules /\ S[2].auths = {}
    BY <1>2, <1>4, <1>5, <1>6, ApplyRows
  <1>8. S[3].rules = c.rules /\ S[3].auths = {}
    BY <1>2, <1>4, <1>5, <1>7, ApplyRows
  <1>9. S[4].rules = c.rules /\ S[4].auths = {}
    BY <1>2, <1>4, <1>5, <1>8, ApplyRows
  <1>10. S[5].rules = c.rules /\ S[5].auths = {}
    BY <1>2, <1>4, <1>5, <1>9, ApplyRows
  <1>11. /\ S[6].rules = c.rules
         /\ S[6].auths = {[pk |-> r.author, roles |-> {"authority"}]}
    <2> DEFINE R == {"authority"}
               row == [pk |-> r.author, roles |-> R]
    <2>3. S[6] = Apply(PutAuth(r.author, R), S[5])
      BY <1>2, <1>4
    <2> HIDE DEF R
    <2>1. /\ S[6].rules = S[5].rules
          /\ S[6].auths = {a \in S[5].auths : a.pk # r.author} \cup {row}
      BY <1>5, <2>3, ApplyRows
    <2> HIDE DEF row
    <2>2. {a \in S[5].auths : a.pk # r.author} = {}
      BY <1>10
    <2> QED
      BY <1>10, <2>1, <2>2 DEF row, R
  <1>12. S[7].rules = S[6].rules /\ S[7].auths = S[6].auths
    BY <1>2, <1>4, <1>5, ApplyRows
  <1>13. S[8].rules = Upsert(S[7].rules, BasicRule) /\ S[8].auths = S[7].auths
    BY <1>2, <1>4, <1>5, ApplyRows
  <1> QED
    BY <1>3, <1>11, <1>12, <1>13

(* Of the first n rules of rs, those that no later one replaces.           *)
Kept(rs, n) ==
  {rs[i] : i \in {j \in 1 .. n : \A k \in 1 .. n : k > j => rs[k].pos # rs[j].pos}}

LEMMA KeptNext ==
  ASSUME NEW rs, NEW n \in Nat
  PROVE  Kept(rs, n + 1) = Upsert(Kept(rs, n), rs[n + 1])
  <1> DEFINE last == rs[n + 1]
             Live(m, j) == \A k \in 1 .. m : k > j => rs[k].pos # rs[j].pos
  <1>1. \A m \in Nat : \A q : q \in Kept(rs, m) <=> \E j \in 1 .. m : Live(m, j) /\ q = rs[j]
    BY DEF Kept
  <1>2. \A j \in 1 .. n : Live(n + 1, j) <=> Live(n, j) /\ last.pos # rs[j].pos
    <2> SUFFICES ASSUME NEW j \in 1 .. n
                 PROVE  Live(n + 1, j) <=> Live(n, j) /\ last.pos # rs[j].pos
      OBVIOUS
    <2>1. n + 1 \in 1 .. n + 1 /\ n + 1 > j
      OBVIOUS
    <2>2. \A k \in 1 .. n + 1 : k \in 1 .. n \/ k = n + 1
      OBVIOUS
    <2>3. \A k \in 1 .. n : k \in 1 .. n + 1
      OBVIOUS
    <2> QED
      BY <2>1, <2>2, <2>3
  <1>3. Live(n + 1, n + 1)
    OBVIOUS
  <1> HIDE DEF Live, last
  <1>4. ASSUME NEW q
        PROVE  q \in Kept(rs, n + 1) <=> (q \in Kept(rs, n) /\ q.pos # last.pos) \/ q = last
    <2>1. \A j \in 1 .. n + 1 : j \in 1 .. n \/ j = n + 1
      OBVIOUS
    <2>2. (\A j \in 1 .. n : j \in 1 .. n + 1) /\ n + 1 \in 1 .. n + 1 /\ n + 1 \in Nat
      OBVIOUS
    <2>3. last = rs[n + 1]
      BY DEF last
    <2>4. ASSUME q \in Kept(rs, n + 1)
          PROVE  (q \in Kept(rs, n) /\ q.pos # last.pos) \/ q = last
      <3>1. PICK j \in 1 .. n + 1 : Live(n + 1, j) /\ q = rs[j]
        BY <1>1, <2>2, <2>4
      <3> QED
        BY <1>1, <1>2, <2>1, <2>3, <3>1
    <2>5. ASSUME q \in Kept(rs, n), q.pos # last.pos
          PROVE  q \in Kept(rs, n + 1)
      <3>1. PICK j \in 1 .. n : Live(n, j) /\ q = rs[j]
        BY <1>1, <2>5
      <3> QED
        BY <1>1, <1>2, <2>2, <2>5, <3>1
    <2>6. last \in Kept(rs, n + 1)
      BY <1>1, <1>3, <2>2, <2>3
    <2> QED
      BY <2>4, <2>5, <2>6
  <1> QED
    BY <1>4 DEF Upsert, last

LEMMA KeptNone ==
  ASSUME NEW rs
  PROVE  Kept(rs, 0) = {}
  BY DEF Kept

(* policy_set: the rules of the record and no others, of two with the same *)
(* key the later one.                                                      *)
LEMMA PolicyRuns ==
  ASSUME NEW r \in Records, r.type = PolicySetType,
         NEW c, NEW d, Runs(Effects(r), c, d)
  PROVE  d.rules = Kept(r.rules, Len(r.rules)) /\ d.auths = c.auths
  <1>1. Effects(r) = PolicySet(r)
    BY DEF Effects, DataUnreadable, Statements, GenesisType, PolicySetType,
           ScopeRequestType
  <1> DEFINE rs == r.rules
             n == Len(rs)
             first == <<Op("delPolicy"), Op("delRules"), Op("delRules"), Op("putPolicy")>>
             puts == [i \in DOMAIN rs |-> PutRule(rs[i])]
             todo == PolicySet(r)
  <1>2. rs \in Seq(RuleType) /\ n \in Nat /\ DOMAIN rs = 1 .. n
    BY RecordFields
  <1>3. puts \in Seq(OpType) /\ Len(puts) = n /\ \A i \in 1 .. n : puts[i] = PutRule(rs[i])
    BY <1>2, OpTypes
  <1>4. first \in Seq(OpType) /\ Len(first) = 4
    BY OpTypes DEF OpNames
  <1>5. todo = first \o puts
    BY DEF PolicySet
  <1>6. /\ Len(todo) = n + 4
        /\ todo[1] = Op("delPolicy") /\ todo[2] = Op("delRules")
        /\ todo[3] = Op("delRules") /\ todo[4] = Op("putPolicy")
        /\ \A i \in 1 .. n : todo[4 + i] = puts[i]
    BY <1>2, <1>3, <1>4, <1>5
  <1> HIDE DEF todo, puts, first, n
  <1>7. PICK S \in [0 .. n + 4 -> CacheType] :
          /\ S[0] = c /\ S[n + 4] = d
          /\ \A i \in 1 .. n + 4 : S[i] = Apply(todo[i], S[i - 1])
    BY <1>1, <1>6 DEF Runs, todo
  <1>8. /\ S[1] = Apply(todo[1], S[0]) /\ S[2] = Apply(todo[2], S[1])
        /\ S[3] = Apply(todo[3], S[2]) /\ S[4] = Apply(todo[4], S[3])
        /\ S[0] \in CacheType /\ S[1] \in CacheType /\ S[2] \in CacheType
        /\ S[3] \in CacheType
    BY <1>2, <1>7 DEF n
  <1>9. S[1].auths = c.auths
    BY <1>6, <1>7, <1>8, ApplyRows
  <1>10. S[2].auths = c.auths
    BY <1>6, <1>8, <1>9, ApplyRows
  <1>11. S[3].rules = {} /\ S[3].auths = c.auths
    BY <1>6, <1>8, <1>10, ApplyRows
  <1>12. S[4].rules = {} /\ S[4].auths = c.auths
    BY <1>6, <1>8, <1>11, ApplyRows
  <1> DEFINE Bad == {i \in 0 .. n : ~(S[4 + i].rules = Kept(rs, i)
                                      /\ S[4 + i].auths = c.auths)}
  <1>13. n \in Nat
    BY <1>2 DEF n
  <1>14. ASSUME Bad # {} PROVE FALSE
    <2>1. Bad \subseteq Nat
      BY <1>13
    <2>2. PICK i \in Bad : \A j \in Bad : i <= j
      <3> HIDE DEF Bad
      <3> QED
        BY <1>14, <2>1, Least
    <2>3. i # 0
      <3>1. 4 + 0 = 4
        OBVIOUS
      <3> QED
        BY <1>12, <2>2, <3>1, KeptNone
    <2>4. PICK j \in Nat : i = j + 1 /\ j \in 0 .. n /\ j \notin Bad /\ i \in 1 .. n
      <3>1. i - 1 \in Nat /\ i = (i - 1) + 1 /\ i - 1 \in 0 .. n /\ i \in 1 .. n
        BY <1>13, <2>2, <2>3
      <3>2. ~(i <= i - 1)
        BY <1>13, <2>2
      <3> QED
        BY <2>2, <3>1, <3>2
    <2>5. S[4 + j].rules = Kept(rs, j) /\ S[4 + j].auths = c.auths
      BY <2>4
    <2>6. S[4 + i] = Apply(PutRule(rs[i]), S[4 + j]) /\ S[4 + j] \in CacheType
      <3>1. /\ 4 + i \in 1 .. n + 4 /\ (4 + i) - 1 = 4 + j
            /\ 4 + j \in 0 .. n + 4
        BY <1>13, <2>4
      <3>2. todo[4 + i] = PutRule(rs[i])
        BY <1>3, <1>6, <2>4 DEF n
      <3> QED
        BY <1>7, <3>1, <3>2
    <2>7. /\ S[4 + i].rules = Upsert(Kept(rs, j), rs[j + 1])
          /\ S[4 + i].auths = c.auths
      BY <2>4, <2>5, <2>6, ApplyRows
    <2>8. S[4 + i].rules = Kept(rs, i)
      BY <2>4, <2>7, KeptNext
    <2> QED
      BY <2>2, <2>7, <2>8
  <1>15. n \in 0 .. n /\ 4 + n = n + 4
    BY <1>13
  <1> QED
    BY <1>7, <1>14, <1>15 DEF n

-----------------------------------------------------------------------------
(* What a chain of records comes to, and one record more.                  *)

PolicySets(seq) == {i \in DOMAIN seq : seq[i].type = PolicySetType}

Grants(seq) ==
  {1} \cup {i \in DOMAIN seq : /\ seq[i].type = <<"key", "grant">>
                               /\ ~DataUnreadable(seq[i])}

GrantOf(seq, i) ==
  IF i = 1 THEN [pk |-> seq[1].author, roles |-> {"authority"}]
           ELSE [pk |-> seq[i].grantee, roles |-> seq[i].roles]

(* No later grant goes to the same key.                                    *)
LastGrant(seq, i) ==
  \A k \in Grants(seq) : k > i => GrantOf(seq, k).pk # GrantOf(seq, i).pk

LEMMA GrantedAuths ==
  ASSUME NEW seq
  PROVE  ReplayedAuths(seq) =
           {GrantOf(seq, i) : i \in {j \in Grants(seq) : LastGrant(seq, j)}}
  BY DEF ReplayedAuths, Grants, GrantOf, LastGrant

LEMMA Greatest ==
  ASSUME NEW n \in Nat, NEW S, S \subseteq 1 .. n, S # {}
  PROVE  \E i \in S : \A j \in S : j <= i
  <1> DEFINE T == {n - i : i \in S}
  <1>0. \A i \in S : i \in 1 .. n
    OBVIOUS
  <1>1. T \subseteq Nat /\ T # {}
    <2>1. \A i \in S : n - i \in Nat
      BY <1>0
    <2> QED
      BY <2>1, Zenon
  <1>2. PICK e \in T : \A m \in T : e <= m
    <2> HIDE DEF T
    <2> QED
      BY <1>1, Least
  <1>3. PICK i \in S : e = n - i
    BY <1>2
  <1>4. \A j \in S : n - i <= n - j
    BY <1>2, <1>3
  <1> QED
    BY <1>0, <1>4

LEMMA PolicyRules ==
  ASSUME NEW seq \in Seq(Records), NEW i \in PolicySets(seq),
         \A j \in PolicySets(seq) : j <= i
  PROVE  ReplayedRules(seq) = Kept(seq[i].rules, Len(seq[i].rules))
  <1> DEFINE sets == PolicySets(seq)
             last == CHOOSE n \in sets : \A j \in sets : j <= n
  <1>1. last = i
    <2>1. last \in sets /\ \A j \in sets : j <= last
      OBVIOUS
    <2>2. sets \subseteq Nat
      BY DEF PolicySets
    <2> QED
      BY <2>1, <2>2
  <1>2. seq[i] \in Records
    BY DEF PolicySets
  <1>3. DOMAIN seq[i].rules = 1 .. Len(seq[i].rules)
    BY <1>2, RecordFields
  <1>4. ReplayedRules(seq) =
          {seq[last].rules[n] : n \in {j \in DOMAIN seq[last].rules :
             \A k \in DOMAIN seq[last].rules :
               k > j => seq[last].rules[k].pos # seq[last].rules[j].pos}}
    BY DEF ReplayedRules, PolicySets
  <1> QED
    BY <1>1, <1>3, <1>4 DEF Kept

LEMMA FirstRules ==
  ASSUME NEW seq, PolicySets(seq) = {}
  PROVE  ReplayedRules(seq) = {GenesisRule, BasicRule}
  BY DEF ReplayedRules, PolicySets

LEMMA Appended ==
  ASSUME NEW seq \in Seq(Records), seq # <<>>, NEW r \in Records
  PROVE  LET new == Append(seq, r)
             n == Len(seq)
         IN /\ new \in Seq(Records) /\ n \in Nat /\ n >= 1
            /\ DOMAIN seq = 1 .. n /\ DOMAIN new = 1 .. n + 1
            /\ new[n + 1] = r /\ \A i \in 1 .. n : new[i] = seq[i]
  OBVIOUS

LEMMA PolicyAppended ==
  ASSUME NEW seq \in Seq(Records), seq # <<>>, NEW r \in Records,
         r.type = PolicySetType
  PROVE  ReplayedRules(Append(seq, r)) = Kept(r.rules, Len(r.rules))
  <1> DEFINE new == Append(seq, r)
             n == Len(seq)
  <1>1. /\ new \in Seq(Records) /\ n \in Nat
        /\ DOMAIN new = 1 .. n + 1 /\ new[n + 1] = r
    BY Appended
  <1> HIDE DEF new, n
  <1>2. n + 1 \in PolicySets(new) /\ \A j \in PolicySets(new) : j <= n + 1
    BY <1>1 DEF PolicySets
  <1> QED
    BY <1>1, <1>2, PolicyRules DEF new

LEMMA OtherAppended ==
  ASSUME NEW seq \in Seq(Records), seq # <<>>, NEW r \in Records,
         r.type # PolicySetType
  PROVE  ReplayedRules(Append(seq, r)) = ReplayedRules(seq)
  <1> DEFINE new == Append(seq, r)
             n == Len(seq)
  <1>1. /\ new \in Seq(Records) /\ n \in Nat
        /\ DOMAIN seq = 1 .. n /\ DOMAIN new = 1 .. n + 1
        /\ new[n + 1] = r /\ \A i \in 1 .. n : new[i] = seq[i]
    BY Appended
  <1> HIDE DEF new, n
  <1>2. PolicySets(new) = PolicySets(seq) /\ PolicySets(seq) \subseteq 1 .. n
    BY <1>1 DEF PolicySets
  <1>3. CASE PolicySets(seq) = {}
    BY <1>2, <1>3, FirstRules DEF new
  <1>4. CASE PolicySets(seq) # {}
    <2>1. PICK i \in PolicySets(seq) : \A j \in PolicySets(seq) : j <= i
      BY <1>1, <1>2, <1>4, Greatest
    <2>2. new[i] = seq[i]
      BY <1>1, <1>2
    <2>3. ReplayedRules(seq) = Kept(seq[i].rules, Len(seq[i].rules))
      BY <2>1, PolicyRules
    <2>4. ReplayedRules(new) = Kept(new[i].rules, Len(new[i].rules))
      BY <1>1, <1>2, <2>1, PolicyRules
    <2> QED
      BY <2>2, <2>3, <2>4 DEF new
  <1> QED
    BY <1>3, <1>4

LEMMA OldGrants ==
  ASSUME NEW seq \in Seq(Records), seq # <<>>, NEW r \in Records
  PROVE  LET new == Append(seq, r)
             n == Len(seq)
         IN /\ \A i \in Grants(seq) : i \in 1 .. n /\ GrantOf(new, i) = GrantOf(seq, i)
            /\ Grants(new) = Grants(seq) \cup
                 (IF r.type = <<"key", "grant">> /\ ~DataUnreadable(r)
                  THEN {n + 1} ELSE {})
            /\ GrantOf(new, n + 1) = [pk |-> r.grantee, roles |-> r.roles]
  <1> DEFINE new == Append(seq, r)
             n == Len(seq)
  <1>1. /\ n \in Nat /\ n >= 1
        /\ DOMAIN seq = 1 .. n /\ DOMAIN new = 1 .. n + 1
        /\ new[n + 1] = r /\ \A i \in 1 .. n : new[i] = seq[i]
    BY Appended
  <1> HIDE DEF new, n
  <1>2. 1 \in 1 .. n /\ n + 1 # 1 /\ n + 1 \notin 1 .. n
    BY <1>1
  <1>3. \A i \in Grants(seq) : i \in 1 .. n
    BY <1>1, <1>2 DEF Grants
  <1>4. \A i \in 1 .. n : GrantOf(new, i) = GrantOf(seq, i)
    BY <1>1, <1>2 DEF GrantOf
  <1>5. GrantOf(new, n + 1) = [pk |-> r.grantee, roles |-> r.roles]
    BY <1>1, <1>2 DEF GrantOf
  <1>6. \A i : i \in 1 .. n + 1 <=> i \in 1 .. n \/ i = n + 1
    BY <1>1
  <1>7. \A i : i \in Grants(new) <=>
          \/ i \in Grants(seq)
          \/ i = n + 1 /\ r.type = <<"key", "grant">> /\ ~DataUnreadable(r)
    BY <1>1, <1>2, <1>6 DEF Grants
  <1>8. Grants(new) = Grants(seq) \cup
          (IF r.type = <<"key", "grant">> /\ ~DataUnreadable(r) THEN {n + 1} ELSE {})
    BY <1>7
  <1> QED
    BY <1>3, <1>4, <1>5, <1>8 DEF new, n

LEMMA NoGrantAppended ==
  ASSUME NEW seq \in Seq(Records), seq # <<>>, NEW r \in Records,
         r.type # <<"key", "grant">> \/ DataUnreadable(r)
  PROVE  ReplayedAuths(Append(seq, r)) = ReplayedAuths(seq)
  <1> DEFINE new == Append(seq, r)
  <1>1. /\ Grants(new) = Grants(seq)
        /\ \A i \in Grants(seq) : GrantOf(new, i) = GrantOf(seq, i)
    BY OldGrants
  <1> HIDE DEF new
  <1>2. \A i \in Grants(seq) : LastGrant(new, i) <=> LastGrant(seq, i)
    BY <1>1 DEF LastGrant
  <1>3. {GrantOf(new, i) : i \in {j \in Grants(new) : LastGrant(new, j)}}
          = {GrantOf(seq, i) : i \in {j \in Grants(seq) : LastGrant(seq, j)}}
    BY <1>1, <1>2
  <1> QED
    BY <1>3, GrantedAuths DEF new

LEMMA GrantAppended ==
  ASSUME NEW seq \in Seq(Records), seq # <<>>, NEW r \in Records,
         r.type = <<"key", "grant">>, ~DataUnreadable(r)
  PROVE  ReplayedAuths(Append(seq, r)) =
           {a \in ReplayedAuths(seq) : a.pk # r.grantee}
             \cup {[pk |-> r.grantee, roles |-> r.roles]}
  <1> DEFINE new == Append(seq, r)
             n == Len(seq)
             row == [pk |-> r.grantee, roles |-> r.roles]
  <1>1. /\ Grants(new) = Grants(seq) \cup {n + 1}
        /\ \A i \in Grants(seq) : i \in 1 .. n /\ GrantOf(new, i) = GrantOf(seq, i)
        /\ GrantOf(new, n + 1) = row /\ n \in Nat
    BY OldGrants
  <1>2. row.pk = r.grantee
    OBVIOUS
  <1> HIDE DEF new, n, row
  <1>3. \A i \in Grants(seq) :
          /\ n + 1 > i /\ ~(i > n + 1)
          /\ LastGrant(new, i) <=> LastGrant(seq, i) /\ GrantOf(seq, i).pk # r.grantee
    BY <1>1, <1>2 DEF LastGrant
  <1>4. LastGrant(new, n + 1)
    BY <1>1, <1>3 DEF LastGrant
  <1>5. \A a : a \in ReplayedAuths(new) <=>
                 \E i \in Grants(new) : LastGrant(new, i) /\ a = GrantOf(new, i)
    BY GrantedAuths
  <1>6. \A a : a \in ReplayedAuths(seq) <=>
                 \E i \in Grants(seq) : LastGrant(seq, i) /\ a = GrantOf(seq, i)
    BY GrantedAuths
  <1>7. ASSUME NEW a
        PROVE  a \in ReplayedAuths(new) <=>
                 (a \in ReplayedAuths(seq) /\ a.pk # r.grantee) \/ a = row
    <2>1. ASSUME a \in ReplayedAuths(new)
          PROVE  (a \in ReplayedAuths(seq) /\ a.pk # r.grantee) \/ a = row
      <3>1. PICK i \in Grants(new) : LastGrant(new, i) /\ a = GrantOf(new, i)
        BY <1>5, <2>1
      <3> QED
        BY <1>1, <1>3, <1>6, <3>1
    <2>2. ASSUME a \in ReplayedAuths(seq), a.pk # r.grantee
          PROVE  a \in ReplayedAuths(new)
      <3>1. PICK i \in Grants(seq) : LastGrant(seq, i) /\ a = GrantOf(seq, i)
        BY <1>6, <2>2
      <3> QED
        BY <1>1, <1>3, <1>5, <2>2, <3>1
    <2>3. row \in ReplayedAuths(new)
      BY <1>1, <1>4, <1>5
    <2> QED
      BY <2>1, <2>2, <2>3
  <1> QED
    BY <1>7 DEF new, row

-----------------------------------------------------------------------------
(* Bootstrap rebuilds the cache.                                           *)

Rebuilt(seq, c) == c.rules = ReplayedRules(seq) /\ c.auths = ReplayedAuths(seq)

LEMMA FirstRebuilds ==
  ASSUME NEW r \in Records, NEW d, Replays(StartCache, r, d)
  PROVE  r.type = GenesisType /\ Rebuilt(<<r>>, d)
  <1>1. r.type = GenesisType
    BY DEF Replays, Passes, AppendPasses, StartCache, EmptyCache
  <1>2. PICK e \in CacheType : Runs(Effects(r), StartCache, e)
                                /\ d.rules = e.rules /\ d.auths = e.auths
    BY DEF Replays, CacheType
  <1> DEFINE row == [pk |-> r.author, roles |-> {"authority"}]
  <1>3. e.rules = Upsert({GenesisRule}, BasicRule) /\ e.auths = {row}
    BY <1>1, <1>2, GenesisRuns DEF StartCache, EmptyCache
  <1>4. Upsert({GenesisRule}, BasicRule) = {GenesisRule, BasicRule}
    BY DEF Upsert, GenesisRule, BasicRule
  <1>5. PolicySets(<<r>>) = {}
    BY <1>1 DEF PolicySets, GenesisType, PolicySetType
  <1>6. Grants(<<r>>) = {1} /\ GrantOf(<<r>>, 1) = row
    BY <1>1 DEF Grants, GrantOf, GenesisType
  <1>7. ReplayedAuths(<<r>>) = {row}
    <2> HIDE DEF row
    <2>1. LastGrant(<<r>>, 1)
      BY <1>6 DEF LastGrant
    <2> QED
      BY <1>6, <2>1, GrantedAuths
  <1> QED
    BY <1>1, <1>2, <1>3, <1>4, <1>5, <1>7, FirstRules DEF Rebuilt

LEMMA NextRebuilds ==
  ASSUME NEW seq \in Seq(Records), seq # <<>>, NEW c \in CacheType, Rebuilt(seq, c),
         NEW r \in Records, r.type # GenesisType, NEW d, Replays(c, r, d)
  PROVE  Rebuilt(Append(seq, r), d)
  <1>1. PICK e \in CacheType : Runs(Effects(r), c, e)
                                /\ d.rules = e.rules /\ d.auths = e.auths
    BY DEF Replays, CacheType
  <1>2. CASE r.type = PolicySetType
    <2>1. r.type # <<"key", "grant">>
      BY <1>2 DEF PolicySetType
    <2> QED
      BY <1>1, <1>2, <2>1, PolicyRuns, PolicyAppended, NoGrantAppended DEF Rebuilt
  <1>3. CASE r.type = <<"key", "grant">> /\ ~DataUnreadable(r)
    <2>1. r.type # PolicySetType
      BY <1>3 DEF PolicySetType
    <2>2. Effects(r) = <<PutAuth(r.grantee, r.roles)>>
      BY <1>3 DEF Effects, Statements, KeyGrant, PolicySetType, GenesisType
    <2>3. e = Apply(PutAuth(r.grantee, r.roles), c)
      BY <1>1, <2>2, OneRuns
    <2>4. /\ e.rules = c.rules
          /\ e.auths = {a \in c.auths : a.pk # r.grantee}
                         \cup {[pk |-> r.grantee, roles |-> r.roles]}
      BY <2>3, ApplyRows
    <2> QED
      BY <1>1, <1>3, <2>1, <2>4, OtherAppended, GrantAppended DEF Rebuilt
  <1>4. CASE r.type # PolicySetType /\ (r.type # <<"key", "grant">> \/ DataUnreadable(r))
    <2>1. Effects(r) = <<>> \/ Effects(r) = <<PutUsher(r.grantee)>>
      BY <1>4 DEF Effects, Statements, UsherAppoint
    <2>2. e.rules = c.rules /\ e.auths = c.auths
      <3>1. CASE Effects(r) = <<>>
        BY <1>1, <3>1, NothingRuns
      <3>2. CASE Effects(r) = <<PutUsher(r.grantee)>>
        <4>1. e = Apply(PutUsher(r.grantee), c)
          BY <1>1, <3>2, OneRuns
        <4> QED
          BY <4>1, ApplyRows
      <3> QED
        BY <2>1, <3>1, <3>2
    <2> QED
      BY <1>1, <1>4, <2>2, OtherAppended, NoGrantAppended DEF Rebuilt
  <1> QED
    BY <1>2, <1>3, <1>4

(* The genesis tool writes genesis.rhex and nothing else.                  *)
GenesisOnce ==
  \A s \in Slots \ {NoHash} :
    InitialDisk[s] \in Records => InitialDisk[s].type # GenesisType

NoGenesisFiles ==
  \A s \in Slots \ {NoHash} : disk[s] \in Records => disk[s].type # GenesisType

(* No handler is about to write a scope:genesis: it writes its own record, *)
(* whose type is another, and scope_request writes a scope:create too.     *)
PutPlace(s) ==
  /\ s.pc \in Checked \ {"open", "write", "insert", "store", "zero"} =>
       s.put = s.msg
  /\ s.pc = "scope" => s.msg.type = ScopeRequestType
  /\ s.pc \in {"open", "write"} => s.put.type # GenesisType

Puts == \A p \in Procs : PutPlace(task[p])

(* The cache is, or is on its way from, what the settled records come to.  *)
Rebuilding ==
  phase = "boot" =>
    \E c \in CacheType :
      /\ Current(c)
      /\ IF settled = <<>> THEN c = StartCache ELSE Rebuilt(settled, c)

BInv == Puts /\ NoGenesisFiles /\ Rebuilding

LEMMA WorkPuts ==
  ASSUME IInv, NEW p \in Procs, PutPlace(task[p]), Process(p)
  PROVE  PutPlace(task'[p])
  <1> DEFINE r == task[p].msg
  <1>1. /\ task[p] \in TaskType
        /\ \A s : Become(p, s) => task'[p] = s
        /\ task[p].pc = "head" => task[p].put = r
    BY TaskFields DEF IInv, TypeOK, Become, Admitted, Admissible
  <1>2. ASSUME NEW pc, Goto(p, pc) \/ Flag(p, pc)
        PROVE  /\ task'[p].pc = pc /\ task'[p].put = task[p].put
               /\ task'[p].msg = r
    <2>1. \/ task'[p] = [task[p] EXCEPT !.pc = pc]
          \/ task'[p] = [task[p] EXCEPT !.pc = pc, !.bad = TRUE]
      BY <1>1, <1>2 DEF Goto, Flag
    <2> QED
      BY <1>1, <2>1 DEF TaskType
  <1>3. WritesFile(r) => r.type # GenesisType
    BY DEF WritesFile, GenesisType, PolicySetType
  <1>4. ScopeRequestType # GenesisType /\ ScopeCreateType # GenesisType
    BY DEF ScopeRequestType, ScopeCreateType, GenesisType
  <1>5. CASE \/ ReadHead(p) \/ ReadPolicy(p) \/ ReadRules(p) \/ CheckContext(p)
             \/ ReadAuthorities(p)
    <2>1. /\ task[p].put = r /\ task'[p].put = task[p].put /\ task'[p].msg = r
          /\ task'[p].pc \in {"policy", "rules", "context", "sigs", "verdict", "failed"}
      BY <1>1, <1>2, <1>5
      DEF ReadHead, ReadPolicy, ReadRules, CheckContext, ReadAuthorities,
          PutPlace, Checked, PCs
    <2> QED
      BY <2>1 DEF PutPlace
  <1>6. CASE CheckSignatures(p) \/ ReadQuorumRules(p)
    <2>1. task[p].put = r
      BY <1>1, <1>6 DEF CheckSignatures, ReadQuorumRules, PutPlace, Checked, PCs
    <2>2. /\ task'[p].put = task[p].put /\ task'[p].msg = r
          /\ task'[p].pc \in {"verdict", "quorum", "members"}
      BY <1>1, <1>2, <1>6 DEF CheckSignatures, ReadQuorumRules, TaskType
    <2> QED
      BY <2>1, <2>2 DEF PutPlace
  <1>7. CASE Verdict(p)
    <2>1. task[p].put = r
      BY <1>1, <1>7 DEF Verdict, PutPlace, Checked, PCs
    <2>2. /\ task'[p].put = task[p].put /\ task'[p].msg = r
          /\ task'[p].pc \in {"failed", "panicked", Handler(p, r)}
      BY <1>1, <1>7 DEF Verdict, TaskType
    <2>3. /\ Handler(p, r) \in {"open", "write"} => WritesFile(r)
          /\ Handler(p, r) = "scope" => r.type = ScopeRequestType
      BY DEF Handler
    <2> QED
      BY <1>3, <2>1, <2>2, <2>3 DEF PutPlace
  <1>8. CASE ExecStatement(p) \/ StatementFails(p)
    <2>1. CASE ExecStatement(p)
      <3>1. task[p].put = r
        BY <1>1, <2>1 DEF ExecStatement, PutPlace, Checked, PCs
      <3>2. /\ task'[p].put = task[p].put /\ task'[p].msg = r
            /\ \/ task'[p].pc \in {"exec", "done"}
               \/ task'[p].pc = "open" /\ WritesFile(r)
        BY <1>1, <2>1 DEF ExecStatement, TaskType
      <3> QED
        BY <1>3, <3>1, <3>2 DEF PutPlace
    <2>2. CASE StatementFails(p)
      <3>1. task'[p].pc \in {"done", "zero"}
        BY <1>1, <1>2, <2>2 DEF StatementFails, TaskType
      <3> QED
        BY <3>1 DEF PutPlace, Checked
    <2> QED
      BY <1>8, <2>1, <2>2
  <1>9. CASE OpenFile(p) \/ WriteFails(p)
    <2>1. /\ task[p].pc \in {"open", "write"} /\ task'[p].put = task[p].put
          /\ task'[p].pc \in {"write", "done"}
      BY <1>2, <1>9 DEF OpenFile, WriteFails
    <2> QED
      BY <2>1 DEF PutPlace, Checked
  <1>10. CASE WriteFile(p)
    <2>1. \/ task'[p].pc \in {"done", "insert"}
          \/ task'[p].pc = "open" /\ task'[p].put.type = ScopeCreateType
      <3>1. CASE Goto(p, "done") \/ Goto(p, "insert")
        BY <1>2, <3>1
      <3>2. ASSUME NEW c \in Records, Creates(r, c),
                   Become(p, [task[p] EXCEPT !.pc = "open", !.put = c])
            PROVE  task'[p].pc = "open" /\ task'[p].put.type = ScopeCreateType
        <4>1. task'[p] = [task[p] EXCEPT !.pc = "open", !.put = c]
          BY <1>1, <3>2 DEF Become
        <4>2. task[p] \in TaskType
          BY <1>1
        <4>3. task'[p].pc = "open" /\ task'[p].put = c
          BY <4>1, <4>2 DEF TaskType
        <4> QED
          BY <3>2, <4>3 DEF Creates
      <3>3. \/ Goto(p, "done") \/ Goto(p, "insert")
            \/ \E c \in Records :
                 /\ Creates(r, c)
                 /\ Become(p, [task[p] EXCEPT !.pc = "open", !.put = c])
        BY <1>10 DEF WriteFile
      <3> QED
        BY <3>1, <3>2, <3>3
    <2> QED
      BY <1>4, <2>1 DEF PutPlace, Checked
  <1>11. CASE ScopeRequest(p) \/ InsertCreate(p) \/ StoreScope(p) \/ ZeroHead(p)
    <2>1. CASE ScopeRequest(p)
      <3>1. task[p].put = r /\ r.type = ScopeRequestType
        BY <2>1 DEF ScopeRequest, PutPlace, Checked, PCs
      <3>2. task'[p].put = task[p].put /\ task'[p].pc \in {"open", "store"}
        BY <1>2, <2>1 DEF ScopeRequest
      <3> QED
        BY <1>4, <3>1, <3>2 DEF PutPlace, Checked
    <2>2. CASE InsertCreate(p) \/ StoreScope(p) \/ ZeroHead(p)
      <3>1. task'[p].pc \in {"done", "store", "zero"}
        BY <1>2, <2>2 DEF InsertCreate, StoreScope, ZeroHead
      <3> QED
        BY <3>1 DEF PutPlace, Checked
    <2> QED
      BY <1>11, <2>1, <2>2
  <1>12. CASE WalkNext(p) \/ WalkEnds(p)
    <2>1. task[p].put = r
      BY <1>12 DEF WalkNext, WalkEnds, PutPlace, Checked, PCs
    <2>2. /\ task'[p].put = task[p].put /\ task'[p].msg = r
          /\ task'[p].pc \in {"walk", "done", "panicked"}
      <3>1. CASE WalkNext(p)
        BY <1>1, <3>1 DEF WalkNext, TaskType
      <3>2. CASE WalkEnds(p)
        BY <1>1, <1>2, <3>2 DEF WalkEnds, TaskType
      <3> QED
        BY <1>12, <3>1, <3>2
    <2> QED
      BY <2>1, <2>2 DEF PutPlace
  <1>13. CASE ReadFails(p)
    <2>1. /\ task'[p].put = task[p].put /\ task'[p].msg = r
          /\ \/ task'[p].pc = "failed"
             \/ task'[p].pc = "context" /\ task[p].pc = "policy"
      BY <1>2, <1>13 DEF ReadFails
    <2>2. task[p].pc = "policy" => task[p].put = r
      BY DEF PutPlace, Checked, PCs
    <2> QED
      BY <2>1, <2>2 DEF PutPlace, Checked
  <1> QED
    BY <1>5, <1>6, <1>7, <1>8, <1>9, <1>10, <1>11, <1>12, <1>13
    DEF Process

LEMMA WorkRebuilds ==
  ASSUME IInv, BInv, NEW p \in Procs, Process(p)
  PROVE  BInv'
  <1>1. WorkStep(p)
    BY ProcessWorks DEF IInv, Admitted
  <1>2. /\ UNCHANGED <<phase, settled>>
        /\ \A q \in Procs \ {p} : task'[q] = task[q]
        /\ disk' = disk \/ SlotWrite(p)
    BY <1>1 DEF WorkStep, Become, IInv, TypeOK
  <1>3. Puts'
    BY <1>2, WorkPuts DEF BInv, Puts
  <1>4. NoGenesisFiles'
    <2>1. CASE SlotWrite(p)
      <3>1. /\ task[p].put \in Records /\ task[p].put.prev \in Slots
            /\ task[p].put.type # GenesisType
        BY <2>1, WriterFacts, RecordFields
        DEF SlotWrite, IInv, Admitted, BInv, Puts, PutPlace
      <3>2. PICK f \in {Torn, task[p].put} :
              disk' = [disk EXCEPT ![task[p].put.prev] = f]
        BY <2>1 DEF SlotWrite
      <3>3. \A s \in Slots : disk'[s] \in {disk[s], f}
        BY <3>1, <3>2 DEF IInv, TypeOK
      <3>4. f \in Records => f.type # GenesisType
        BY <3>1, <3>2, ConstantsAssumption
      <3> QED
        BY <3>3, <3>4 DEF BInv, NoGenesisFiles
    <2> QED
      BY <1>2, <2>1 DEF BInv, NoGenesisFiles
  <1>5. Rebuilding'
    <2> SUFFICES ASSUME phase = "boot" PROVE Rebuilding'
      BY <1>2 DEF Rebuilding
    <2>1. p = Boot
      BY <1>1, WhoseTurn DEF WorkStep, IInv, TypeOK
    <2>2. PICK c \in CacheType :
            /\ Current(c)
            /\ IF settled = <<>> THEN c = StartCache ELSE Rebuilt(settled, c)
      BY DEF BInv, Rebuilding
    <2>3. Current(c)'
      BY <2>1, <2>2, BootWorkCurrent
    <2> QED
      BY <1>2, <2>2, <2>3 DEF Rebuilding, Rebuilt
  <1> QED
    BY <1>3, <1>4, <1>5 DEF BInv

LEMMA SettleRebuilds ==
  ASSUME IInv, BInv, BootSettle
  PROVE  Rebuilding'
  <1> DEFINE r == task[Boot].msg
  <1>1. /\ phase = "boot" /\ task[Boot].pc = "done"
        /\ settled' = Append(settled, r) /\ settled \in Seq(Records)
    BY DEF BootSettle, IInv, TypeOK
  <1>2. PICK c \in CacheType :
          /\ Current(c)
          /\ IF settled = <<>> THEN c = StartCache ELSE Rebuilt(settled, c)
    BY <1>1 DEF BInv, Rebuilding
  <1>3. r \in Records
    BY <1>2, SettleReplays
  <1>4. PICK d \in CacheType : Current(d)' /\ Replays(c, r, d)
    BY <1>2, SettleReplays
  <1>5. settled' # <<>>
    BY <1>1, <1>3
  <1>6. Rebuilt(Append(settled, r), d)
    <2>1. CASE settled = <<>>
      <3>1. Append(settled, r) = <<r>>
        BY <1>3, <2>1
      <3> QED
        BY <1>2, <1>3, <1>4, <2>1, <3>1, FirstRebuilds
    <2>2. CASE settled # <<>>
      <3>1. disk[r.prev] = r /\ r.prev = cache.head
        BY <1>1, <2>2 DEF IInv, BootLocals, BootDuring
      <3>2. r.prev \in Slots \ {NoHash}
        BY <1>3, <3>1, RecordFields, ConstantsAssumption DEF IInv, TypeOK, CacheType
      <3>3. r.type # GenesisType
        BY <1>3, <3>1, <3>2 DEF BInv, NoGenesisFiles
      <3> QED
        BY <1>1, <1>2, <1>3, <1>4, <2>2, <3>3, NextRebuilds
    <2> QED
      BY <2>1, <2>2
  <1>7. Rebuilt(settled, d)'
    BY <1>1, <1>6 DEF Rebuilt
  <1> QED
    BY <1>4, <1>5, <1>7 DEF Rebuilding

LEMMA StepRebuilds ==
  ASSUME IInv, BInv, [Next]_vars
  PROVE  BInv'
  <1> USE DEF BInv
  <1>1. ASSUME NEW p \in Procs, Process(p) PROVE BInv'
    BY <1>1, WorkRebuilds
  <1>2. Idle.pc = "idle"
    BY TaskTypes
  <1>3. \A s : s.pc \in {"idle"} => PutPlace(s)
    BY DEF PutPlace, Checked
  <1>4. ASSUME NEW p \in Procs, NEW s, Become(p, s), s.pc \in {"idle", "head"}
        PROVE  Puts'
    <2>1. task'[p] = s /\ \A q \in Procs \ {p} : task'[q] = task[q]
      BY <1>4 DEF Become, IInv, TypeOK
    <2>2. PutPlace(s)
      BY <1>4 DEF PutPlace, Checked
    <2> QED
      BY <2>1, <2>2 DEF Puts
  <1>5. CASE BootStart
    <2>1. UNCHANGED <<disk, task>> /\ settled' = <<>>
      BY <1>5 DEF BootStart
    <2>2. phase' = "boot" => Current(StartCache)' /\ StartCache \in CacheType
      <3>1. phase' = "boot" => cache' = StartCache
        BY <1>5 DEF BootStart, StartCache
      <3>2. cache' \in CacheType
        BY <1>5, BootStartPreserves DEF IInv, TypeOK
      <3> QED
        BY <1>5, <3>1, <3>2, BootStartCurrent
    <2>3. Rebuilding'
      BY <2>1, <2>2 DEF Rebuilding
    <2> QED
      BY <2>1, <2>3 DEF Puts, NoGenesisFiles
  <1>6. CASE BootLoad
    <2>1. /\ Boot \in Procs /\ disk[cursor] \in Records
          /\ Become(Boot, Started(disk[cursor]))
          /\ UNCHANGED <<disk, phase, settled>> /\ phase = "boot"
      BY <1>6, LinksRecord DEF BootLoad, BootReady, Procs, IInv, TypeOK
    <2>2. Puts'
      BY <1>4, <2>1, TaskTypes
    <2>3. PICK c \in CacheType :
            /\ Current(c)
            /\ IF settled = <<>> THEN c = StartCache ELSE Rebuilt(settled, c)
      BY <2>1 DEF Rebuilding
    <2>4. Current(c)'
      BY <1>6, <2>3, BootLoadCurrent
    <2>5. Rebuilding'
      BY <2>1, <2>3, <2>4 DEF Rebuilding, Rebuilt
    <2> QED
      BY <2>1, <2>2, <2>5 DEF NoGenesisFiles
  <1>7. CASE BootSettle
    <2>1. Boot \in Procs /\ Become(Boot, Idle) /\ disk' = disk
      BY <1>7 DEF BootSettle, Procs
    <2> QED
      BY <1>2, <1>4, <1>7, <2>1, SettleRebuilds DEF NoGenesisFiles
  <1>8. CASE BootEnd \/ BootPanic \/ Crash
    <2>1. phase' # "boot" /\ disk' = disk
      BY <1>8 DEF BootEnd, BootPanic, Crash
    <2>2. Puts'
      <3>1. CASE BootEnd \/ BootPanic
        BY <1>2, <1>4, <3>1 DEF BootEnd, BootPanic, Procs
      <3>2. CASE Crash
        BY <1>2, <1>3, <3>2 DEF Crash, Puts
      <3> QED
        BY <1>8, <3>1, <3>2
    <2> QED
      BY <2>1, <2>2 DEF NoGenesisFiles, Rebuilding
  <1>9. ASSUME NEW t \in Tasks, Receive(t) \/ Reply(t) \/ HangUp(t) PROVE BInv'
    <2>1. t \in Procs /\ t # Boot /\ Boot \in Procs
      BY ConstantsAssumption DEF Procs
    <2>2. \E s : Become(t, s) /\ s.pc \in {"idle", "head"}
      BY <1>2, <1>9, TaskTypes DEF Receive, Reply, HangUp
    <2>3. UNCHANGED world /\ task'[Boot] = task[Boot]
      BY <1>9, <2>1, <2>2 DEF Receive, Reply, HangUp, Become, IInv, TypeOK
    <2>4. Puts'
      BY <1>4, <2>1, <2>2
    <2> QED
      BY <2>3, <2>4
      DEF NoGenesisFiles, Rebuilding, Rebuilt, Current, world
  <1>10. CASE UNCHANGED vars
    BY <1>10
    DEF vars, Puts, NoGenesisFiles, Rebuilding, Rebuilt, Current
  <1> QED
    BY <1>1, <1>5, <1>6, <1>7, <1>8, <1>9, <1>10
    DEF Next, BootStep, TaskStep, Procs

LEMMA EndRebuilds ==
  ASSUME IInv, BInv, [Next]_vars, phase = "boot", phase' = "up", settled # <<>>
  PROVE  cache'.rules = ReplayedRules(settled) /\ cache'.auths = ReplayedAuths(settled)
  <1>1. BootEnd
    <2>1. \A p \in Procs : Process(p) => phase' = phase
      BY ProcessWorks DEF IInv, Admitted, WorkStep
    <2>2. \A t \in Tasks : Receive(t) \/ Reply(t) \/ HangUp(t) => phase' = phase
      BY DEF Receive, Reply, HangUp, world
    <2>3. ~BootStart /\ ~Crash /\ ~BootPanic /\ ~BootLoad /\ ~BootSettle
      BY DEF BootStart, Crash, BootPanic, BootLoad, BootSettle
    <2>4. phase' # phase
      OBVIOUS
    <2> QED
      BY <2>1, <2>2, <2>3, <2>4 DEF Next, vars, BootStep, TaskStep, Procs
  <1>2. PICK c \in CacheType : Current(c) /\ Rebuilt(settled, c)
    BY DEF BInv, Rebuilding
  <1>3. task[Boot].pc \in {"failed", "idle"} /\ cache' = cache
    BY <1>1 DEF BootEnd
  <1>4. cache = c
    BY <1>2, <1>3 DEF Current, Judged
  <1> QED
    BY <1>2, <1>3, <1>4 DEF Rebuilt

(* Bootstrap rebuilds the rules and the authorities from the files alone:  *)
(* whatever live connections left in the cache, in whatever order their    *)
(* statements fell, does not outlast a restart, and the cache a later      *)
(* policy or grant decides against is the one its chain calls for.         *)
THEOREM BootRebuilds ==
  ASSUME GenesisOnce
  PROVE  Spec => BootRebuildsCache
  <1>1. Init => BInv
    <2>1. Idle.pc = "idle"
      BY TaskTypes
    <2> QED
      BY <2>1
      DEF Init, BInv, Puts, PutPlace, Checked, NoGenesisFiles, GenesisOnce, Rebuilding
  <1>2. IInv /\ BInv /\ [Next]_vars => BInv'
    BY StepRebuilds
  <1>3. IInv /\ BInv /\ [Next]_vars =>
          [phase = "boot" /\ phase' = "up" /\ settled # <<>> =>
             /\ cache'.rules = ReplayedRules(settled)
             /\ cache'.auths = ReplayedAuths(settled)]_vars
    BY EndRebuilds
  <1> QED
    BY <1>1, <1>2, <1>3, InductiveInvariant, PTL DEF Spec, BootRebuildsCache

-----------------------------------------------------------------------------
(* The order of the rules in a policy.                                     *)

(* No two rules have the same record_types, the key of their row.          *)
KeysDiffer(rs) == \A i, j \in DOMAIN rs : rs[i].pos = rs[j].pos => i = j

RulesIn(rs) == {rs[i] : i \in DOMAIN rs}

LEMMA AllKept ==
  ASSUME NEW rs \in Seq(RuleType), KeysDiffer(rs)
  PROVE  Kept(rs, Len(rs)) = RulesIn(rs)
  <1> DEFINE n == Len(rs)
  <1>1. n \in Nat /\ DOMAIN rs = 1 .. n
    OBVIOUS
  <1> HIDE DEF n
  <1>2. {j \in 1 .. n : \A k \in 1 .. n : k > j => rs[k].pos # rs[j].pos} = 1 .. n
    BY <1>1 DEF KeysDiffer
  <1> QED
    BY <1>1, <1>2 DEF Kept, RulesIn, n

(* Nothing but its key decides which rule of a policy wins: two policies   *)
(* that list the same rules in another order leave the same rows, so the   *)
(* loops of validate_intent_record_type and signature_check_quorum, which  *)
(* keep the last hit, come to the same rule for every record type.  An     *)
(* author cannot make a rule win by listing it last, or first.             *)
THEOREM ListingOrder ==
  ASSUME NEW seq \in Seq(Records), seq # <<>>,
         NEW r \in Records, NEW q \in Records,
         r.type = PolicySetType, q.type = PolicySetType,
         KeysDiffer(r.rules), KeysDiffer(q.rules),
         RulesIn(r.rules) = RulesIn(q.rules)
  PROVE  LET one == ReplayedRules(Append(seq, r))
             other == ReplayedRules(Append(seq, q))
         IN /\ one = other
            /\ \A type : /\ AppendRule(one, type) = AppendRule(other, type)
                         /\ QuorumRule(one, type) = QuorumRule(other, type)
            /\ \A type : \A s, t \in QuorumRule(one, type) : s = t
  <1>1. r.rules \in Seq(RuleType) /\ q.rules \in Seq(RuleType)
    BY RecordFields
  <1>2. ReplayedRules(Append(seq, r)) = RulesIn(r.rules)
    BY <1>1, AllKept, PolicyAppended
  <1>3. ReplayedRules(Append(seq, q)) = RulesIn(r.rules)
    BY <1>1, AllKept, PolicyAppended
  <1>4. RulesIn(r.rules) \in SUBSET RuleType /\ PosUnique(RulesIn(r.rules))
    BY <1>1 DEF RulesIn, KeysDiffer, PosUnique
  <1>5. \A type : \A s, t \in QuorumRule(RulesIn(r.rules), type) : s = t
    BY <1>4, QuorumRuleUnique
  <1> QED
    BY <1>2, <1>3, <1>5
=============================================================================
