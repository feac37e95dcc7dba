--------------------------- MODULE MCUsherLedger ---------------------------
(***************************************************************************)
(* Small instances of UsherLedger: a catalogue of records that form a      *)
(* chain of three with alternatives at each place.                         *)
(***************************************************************************)
EXTENDS UsherClaims

CONSTANTS author, other, t1, t2

(* A hash is a number; its tens are its distance from genesis.rhex.        *)
MCHashes == {0, 1, 2} \cup 10 .. 13 \cup 20 .. 42

MCKeys == {author, other, UsherKey}

MCRoles == {"authority", "reader"}

MCDepth ==
  [s \in Slots |-> IF s \in {NoHash, Zero} THEN 0
                   ELSE IF s < 20 THEN s \div 10 + 1
                   ELSE IF s < 40 THEN 3 ELSE 4]

Rule(pos, types, k) ==
  [pos |-> pos, types |-> types, append |-> {"authority"}, k |-> k,
   quorum |-> {"authority"}]

(* A well-formed record with three signatures.                             *)
Base(hash, prev, type) ==
  [hash |-> hash, prev |-> prev, type |-> type, sigs |-> 3, ordered |-> TRUE,
   quorum |-> <<UsherKey>>, forged |-> {}, author |-> author, flaw |-> "none",
   grantee |-> other, roles |-> {"authority"}, rules |-> <<>>]

(* The same record as its author sends it for the usher to sign.           *)
Unsigned(r) == [r EXCEPT !.hash = NoHash, !.sigs = 1, !.quorum = <<>>]

Everything == {<<"policy", "set">>, <<"key", "*">>, <<"usher", "*">>,
               <<"record", "*">>, <<"request", "*">>}
Scopes == {ScopeRequestType, ScopeCreateType}

MCTypes ==
  Everything \cup Scopes \cup
    {GenesisType, <<"key", "grant">>, <<"key", "revoke">>,
     <<"usher", "appoint">>, <<"usher", "demote">>, <<"record", "data">>,
     <<"request", "rhex">>, <<"request", "head">>}

Genesis == Base(0, NoHash, GenesisType)

(* Slot 0: a policy that opens the scope, and what an author may send     *)
(* while that policy has not been loaded yet.                              *)
OpenPolicy == [Base(10, 0, PolicySetType) EXCEPT
                 !.rules = <<Rule(40, Everything, 1)>>]
EarlyData == Base(11, 0, <<"record", "data">>)

(* A policy with one rule for policies, which need two quorum signatures,  *)
(* and one for the rest.                                                   *)
StrictPolicy == [Base(12, 0, PolicySetType) EXCEPT
                   !.rules = <<Rule(50, {PolicySetType}, 2),
                               Rule(60, Scopes \cup (Everything \ {PolicySetType}), 1)>>]

(* Slot 10.                                                                *)
Grant == Base(20, 10, <<"key", "grant">>)

(* Slot 12: a policy that relaxes the strict one, carried by two quorum    *)
(* signatures, and one that relies on the relaxed one.                     *)
RelaxPolicy == [Base(21, 12, PolicySetType) EXCEPT
                  !.quorum = <<UsherKey, author>>,
                  !.rules = <<Rule(40, Everything, 1)>>]
LatePolicy == [Base(22, 12, PolicySetType) EXCEPT
                 !.rules = <<Rule(60, Everything \ {PolicySetType}, 1)>>]

Query == Base(1, NoHash, <<"request", "rhex">>)
HeadQuery == [Base(2, NoHash, <<"request", "head">>) EXCEPT
                !.sigs = 2, !.quorum = <<>>]

(* A request for a scope of its own, and the record it leads to.           *)
ScopeAsked == Base(39, 12, ScopeRequestType)
Created(hash, r) == [Base(hash, r.hash, ScopeCreateType) EXCEPT !.author = UsherKey]

Dir(files) == [s \in Slots |-> IF \E r \in files : r.prev = s
                               THEN CHOOSE r \in files : r.prev = s ELSE NoFile]

GenesisOnly == Dir({Genesis})
StrictDir == Dir({Genesis, StrictPolicy})

(* The run of the core: two connections, retries, a policy with its        *)
(* unsigned form, a grant and a reader.                                    *)
CoreRecords == {Genesis, OpenPolicy, Unsigned(OpenPolicy), Grant, Query}

(* What may be appended once a scope request has reset the head row.       *)
AfterReset == Base(42, Zero, <<"record", "data">>)

(* The run of replay and liveness: one connection, every kind of handler,  *)
(* every kind of refusal.                                                  *)
ReplayRecords ==
  {Genesis, StrictPolicy, RelaxPolicy, LatePolicy, HeadQuery,
   [Base(24, 12, <<"key", "grant">>) EXCEPT !.flaw = "data"],
   [Base(25, 12, <<"key", "grant">>) EXCEPT
      !.grantee = UsherKey, !.roles = {"reader"}],
   Unsigned(Base(26, 12, <<"record", "data">>)),
   Base(27, 12, <<"usher", "appoint">>),
   [Base(28, 12, <<"usher", "appoint">>) EXCEPT !.flaw = "port"],
   Base(29, 12, <<"usher", "demote">>),
   Base(30, 12, <<"key", "revoke">>),
   [Base(31, 12, <<"record", "data">>) EXCEPT !.flaw = "magic"],
   [Base(32, 12, <<"record", "data">>) EXCEPT !.flaw = "intent"],
   [Base(33, 12, <<"record", "data">>) EXCEPT !.flaw = "spacial"],
   [Base(34, 12, <<"record", "data">>) EXCEPT !.flaw = "hash"],
   [Base(35, 12, <<"record", "data">>) EXCEPT !.forged = {author},
                                              !.quorum = <<author>>],
   [Base(36, 12, <<"record", "data">>) EXCEPT !.quorum = <<>>],
   ScopeAsked, Created(40, ScopeAsked), AfterReset,
   [ScopeAsked EXCEPT !.hash = 38, !.flaw = "genesis"],
   Created(41, [ScopeAsked EXCEPT !.hash = 38]),
   [Base(NoHash, 12, <<"record", "data">>) EXCEPT !.sigs = 0]}

(* The runs of the claims.                                                 *)
AppendRecords == {Genesis, OpenPolicy, EarlyData}
UnsignedRecords == {Genesis, Unsigned(OpenPolicy)}
TwoPolicies == {Genesis, OpenPolicy, StrictPolicy}
SignedScope == {Genesis, StrictPolicy, ScopeAsked, Created(40, ScopeAsked)}
UnsignedScope == {Genesis, StrictPolicy, Unsigned(ScopeAsked),
                  Created(13, Unsigned(ScopeAsked))}
RelaxRecords == {Genesis, StrictPolicy, RelaxPolicy, LatePolicy}
=============================================================================
