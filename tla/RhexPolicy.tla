----------------------------- MODULE RhexPolicy -----------------------------
(***************************************************************************)
(* The pure decisions of HodeauxLedger's policy layer: which rule of a     *)
(* scope governs a record type, whether a record carries enough quorum     *)
(* signatures, and whether the signers that are known hold a quorum role.  *)
(*                                                                         *)
(* A record type "main:sub" is the pair <<main, sub>>.  A pattern of a     *)
(* rule is such a pair too, with "*" as a wildcard.  A rule is a record    *)
(*   pos     place of the rule in the order get_rules returns, which is    *)
(*           the order of the joined record_types text, the second half    *)
(*           of the table's primary key: two rules have the same pos only  *)
(*           when their record_types are the same text                     *)
(*   types   the patterns, append / quorum the role sets, k the quorum     *)
(*           size.                                                         *)
(***************************************************************************)
EXTENDS Naturals, Sequences, FiniteSets

NoRule == [pos |-> 0, types |-> {}, append |-> {}, k |-> 0, quorum |-> {}]

AnyType == <<"*", "">>
DefaultsMarker == {<<"defaults", "">>}   \* record_types == ["defaults"]
DefaultRoles == {"default"}              \* append_roles == ["default"]

(* Rule::applies_to: the main type must agree, the subtype may be "*".     *)
AppliesTo(rule, type) ==
  \E p \in rule.types :
    \/ p = AnyType
    \/ p[1] = type[1] /\ p[2] \in {"*", type[2]}

(* Rule::can_append *)
CanAppend(rule, roles) ==
  "*" \in rule.append \/ roles \cap rule.append # {}

(* The INSERT OR REPLACE of store_rule: one row per record_types text.     *)
Upsert(rules, rule) == {q \in rules : q.pos # rule.pos} \cup {rule}

(* The loops of the processor run over every rule and keep the last hit:   *)
(* the set of that rule, empty when nothing hits.                          *)
LastOf(rules) == {r \in rules : \A q \in rules : q.pos <= r.pos}

GrantsAppend(rule, type) == rule.append = DefaultRoles \/ AppliesTo(rule, type)

SetsQuorum(rule, type) == AppliesTo(rule, type) \/ rule.types = DefaultsMarker

(* The rule validate_intent_record_type ends with.  None: append denied.   *)
AppendRule(rules, type) == LastOf({r \in rules : GrantsAppend(r, type)})

(* The rule signature_check_quorum ends with.  None: E_POLICY_INVALID.     *)
QuorumRule(rules, type) == LastOf({r \in rules : SetsQuorum(r, type)})

(* The roles the authorities table holds for a key, and can_access.        *)
RolesOf(auths, pk) == UNION {a.roles : a \in {b \in auths : b.pk = pk}}

CanAccess(rules, auths, pk, type) ==
  \E r \in rules : AppliesTo(r, type) /\ CanAppend(r, RolesOf(auths, pk))

(* The loop over the quorum signatures: a signer that no authorities row   *)
(* names is skipped, one that a row names needs a quorum role and a valid  *)
(* signature.  forged is the set of signers whose signature does not       *)
(* verify.                                                                 *)
MembersAccepted(rule, auths, signers, forged) ==
  \A i \in DOMAIN signers : \A a \in auths :
    a.pk = signers[i] => a.roles \cap rule.quorum # {} /\ a.pk \notin forged

(* The count compared with quorum_k counts signatures, not signers.        *)
QuorumReached(rule, signers) == Len(signers) >= rule.k

-----------------------------------------------------------------------------
(* The rule validate_intent_record_type and signature_check_quorum fall    *)
(* back to while the scope has no policy, the rule scope_genesis stores,   *)
(* and the rule bootstrap stores before the first record is loaded.        *)
GenesisType == <<"scope", "genesis">>
PolicySetType == <<"policy", "set">>

GenesisRule ==
  [pos |-> 90, types |-> {GenesisType}, append |-> {"authority"},
   k |-> 1, quorum |-> {"authority"}]

BasicRule ==
  [pos |-> 50, types |-> {PolicySetType}, append |-> {"authority"},
   k |-> 1, quorum |-> {"authority"}]
=============================================================================
