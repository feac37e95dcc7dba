---------------------------- MODULE RhexSigning ----------------------------
(***************************************************************************)
(* How a record comes by its signatures: the command line tools that craft *)
(* a draft, sign it and finalize it on files, the genesis tool, and the    *)
(* part of the usher daemon that countersigns what a client submits or     *)
(* decides whether it is signed well enough to be appended.                *)
(*                                                                         *)
(* Every tool run is a process: it reads its input file, truncates its     *)
(* output file and fills it.  Nothing locks the files, and a run can be    *)
(* killed between any two of these steps.                                  *)
(*                                                                         *)
(* ed25519 signatures are symbolic: a signature is its type, its signer    *)
(* and what was signed.  blake3 has no collisions, so a hash is modelled   *)
(* as the content that was hashed.                                         *)
(***************************************************************************)
EXTENDS Integers, Functions, RhexPolicy

CONSTANTS
  Nonces,     \* what tells two intents apart
  Intents,    \* what authors want recorded
  Keys,       \* the key files that the tools are given
  Paths,      \* files for records
  Daemons,    \* the hot keys of running ushers
  Tools,      \* tool runs that overlap in time
  Rule,       \* the rule that governs the records' types
  Auths,      \* the authorities table of the scope
  TTL,        \* quorum_ttl of the scope's policy
  StartTime,  \* the clock when the first tool runs
  MaxTime,    \* bound: the last instant
  Skew,       \* how far the clocks of two machines may differ
  Word,       \* 2^64, the modulus of u64 arithmetic
  MaxRuns,    \* bound: tool runs, 0 for no bound
  NoHash,     \* None, of an Option<[u8; 32]>
  NoFile,     \* the file does not exist
  Torn        \* truncated and not yet, or never, filled

SigTypes == {"author", "usher", "quorum"}

(* path is the file DirSink names after the previous hash.  valid: the     *)
(* keys are not zero and the record type is known.                         *)
IntentType == [nonce : Nonces, path : Paths, usher : Keys, valid : BOOLEAN]

AuthorSig == [type : {"author"}, key : Keys, over : [intent : Intents]]
UsherSig == [type : {"usher"}, key : Keys,
             over : [author : AuthorSig, at : Nat]]
QuorumSig == [type : {"quorum"}, key : Keys,
              over : [author : AuthorSig, usher : UsherSig]]
Signature == AuthorSig \cup UsherSig \cup QuorumSig

HashType == [intent : Intents, at : Nat, sigs : Seq(Signature)]

Rhex == [intent : Intents, at : Nat, sigs : Seq(Signature),
         hash : HashType \cup {NoHash}]

(* The epoch lies further back than any quorum_ttl in use and than clocks  *)
(* differ, and the differences of clock readings are far from 2^64.        *)
ASSUME SigningAssumption ==
  /\ Intents \subseteq IntentType /\ Paths # {}
  /\ Daemons \subseteq Keys
  /\ TTL \in Nat /\ StartTime \in Nat /\ MaxTime \in Nat /\ Skew \in Nat
  /\ Word \in Nat /\ MaxRuns \in Nat
  /\ TTL + Skew < StartTime /\ StartTime <= MaxTime
  /\ MaxTime + Skew + TTL < Word
  /\ NoHash \notin HashType
  /\ NoFile \notin Rhex /\ Torn \notin Rhex

VARIABLES
  files,  \* path -> record, NoFile or Torn
  tool,   \* what each tool run is doing
  runs,   \* how many tool runs have started
  now,    \* the daemons' clock
  reply,  \* the record that a daemon last sent to a client
  last    \* the record that a daemon last dispatched, and when

vars == <<files, tool, runs, now, reply, last>>

-----------------------------------------------------------------------------
(* Records and their signatures.                                           *)

(* iter().find: the first signature of a type.                             *)
First(r, type) ==
  r.sigs[CHOOSE n \in DOMAIN r.sigs :
           /\ r.sigs[n].type = type
           /\ \A m \in DOMAIN r.sigs : r.sigs[m].type = type => n <= m]

(* Mutant: the quorum signs what the usher signs.                          *)
PreimageOfUsher(r, type) ==
  IF type = "author" THEN [intent |-> r.intent]
                     ELSE [author |-> First(r, "author"), at |-> r.at]

(* author_hash, usher_hash and quorum_hash.                                *)
Preimage(r, type) ==
  CASE type = "author" -> [intent |-> r.intent]
    [] type = "usher"  -> [author |-> First(r, "author"), at |-> r.at]
    [] type = "quorum" -> [author |-> First(r, "author"),
                           usher  |-> First(r, "usher")]

Contents(r) == [intent |-> r.intent, at |-> r.at, sigs |-> r.sigs]

Has(r, n, type) == n \in DOMAIN r.sigs /\ r.sigs[n].type = type

Status(r) ==
  IF ~r.intent.valid THEN "Invalid"
  ELSE IF r.sigs = <<>> THEN "InvalidSignature"
  ELSE IF Len(r.sigs) = 1 /\ Has(r, 1, "author") THEN "AuthorSigned"
  ELSE IF Len(r.sigs) = 2 /\ Has(r, 1, "author") /\ Has(r, 2, "usher")
       THEN "UsherSigned"
  ELSE IF r.hash # NoHash THEN "Finalized" ELSE "QuorumSigned"

(* The status in which keytool adds a signature of a type; it bails in     *)
(* every other one.                                                        *)
Awaiting == [author |-> "InvalidSignature", usher |-> "AuthorSigned",
             quorum |-> "UsherSigned"]

AddSig(r, type, key) ==
  [r EXCEPT !.sigs = Append(r.sigs, [type |-> type, key |-> key,
                                     over |-> Preimage(r, type)])]

(* Mutant: the usher signs the context that it replaces afterwards.        *)
SignThenTime(r, type, key, time) ==
  IF type = "usher" THEN [AddSig(r, type, key) EXCEPT !.at = time]
                    ELSE AddSig(r, type, key)

(* keytool sign: the usher first replaces the context by its own time.     *)
(* current_hash stays what it was.                                         *)
Sign(r, type, key, time) ==
  IF type = "usher" THEN AddSig([r EXCEPT !.at = time], type, key)
                    ELSE AddSig(r, type, key)

Rank == [author |-> 1, usher |-> 2, quorum |-> 3]

(* sort_signatures, by type; the order by key among signatures of one type *)
(* is left out, because no record here comes to have two of one type.      *)
Sorted(sigs) ==
  LET order == CHOOSE f \in Bijection(DOMAIN sigs, DOMAIN sigs) :
                 \A m, n \in DOMAIN sigs :
                   m <= n => Rank[sigs[f[m]].type] <= Rank[sigs[f[n]].type]
  IN [n \in DOMAIN sigs |-> sigs[order[n]]]

Finalized(r) ==
  LET s == [r EXCEPT !.sigs = Sorted(r.sigs)]
  IN [s EXCEPT !.hash = Contents(s)]

(* What craft writes, before anybody has signed.                           *)
Draft(i) == [intent |-> i, at |-> 0, sigs |-> <<>>, hash |-> NoHash]

Countersign(r, key) == AddSig(AddSig(r, "usher", key), "quorum", key)

(* genesis create: one key signs as author, usher and quorum.              *)
Genesis(i, key) == Finalized(Countersign(AddSig(Draft(i), "author", key), key))

-----------------------------------------------------------------------------
(* The tools.                                                              *)

Whole(f) == f \notin {NoFile, Torn}

NoRun == [pc |-> "idle", rec |-> NoFile, to |-> CHOOSE f \in Paths : TRUE]

Init ==
  /\ files = [f \in Paths |-> NoFile]
  /\ tool = [p \in Tools |-> NoRun]
  /\ runs = 0
  /\ now = StartTime
  /\ reply = NoFile
  /\ last = [rec |-> NoFile, time |-> StartTime]

(* A run has read its input and made the record that it now writes out.    *)
Launch(p, r, to) ==
  /\ tool[p].pc = "idle" /\ (MaxRuns = 0 \/ runs < MaxRuns)
  /\ tool' = [tool EXCEPT ![p] = [pc |-> "open", rec |-> r, to |-> to]]
  /\ runs' = IF MaxRuns = 0 THEN 0 ELSE runs + 1
  /\ UNCHANGED <<files, now, reply, last>>

Craft(p) ==
  \E i \in Intents, to \in Paths : Launch(p, Draft(i), to)

CreateGenesis(p) ==
  \E i \in Intents, key \in Keys :
    i.usher = key /\ i.valid /\ Launch(p, Genesis(i, key), i.path)

(* Any key file will do: keytool does not compare its key with the keys    *)
(* that the intent names.  The clock is the one of the signer's machine,   *)
(* which is ahead of the daemons' or behind.                               *)
SignWith(p, type, key) ==
  \E from \in Paths, time \in now - Skew .. now + Skew :
    LET r == files[from]
    IN /\ Whole(r)
       /\ Status(r) = Awaiting[type]
       /\ Launch(p, Sign(r, type, key, time), r.intent.path)

SignFile(p) == \E type \in SigTypes, key \in Keys : SignWith(p, type, key)

(* However many signatures there are.                                      *)
FinalizeFrom(p, from) ==
  \E to \in Paths :
    Whole(files[from]) /\ Launch(p, Finalized(files[from]), to)

Finalize(p) == \E from \in Paths : FinalizeFrom(p, from)

(* fs::write truncates the file, then fills it.                            *)
OpenFile(p) ==
  /\ tool[p].pc = "open"
  /\ files' = [files EXCEPT ![tool[p].to] = Torn]
  /\ tool' = [tool EXCEPT ![p].pc = "write"]
  /\ UNCHANGED <<runs, now, reply, last>>

WriteFile(p) ==
  /\ tool[p].pc = "write"
  /\ files' = [files EXCEPT ![tool[p].to] = tool[p].rec]
  /\ tool' = [tool EXCEPT ![p] = NoRun]
  /\ UNCHANGED <<runs, now, reply, last>>

(* The run is killed, or the disk is full.                                 *)
Kill(p) ==
  /\ tool[p].pc # "idle"
  /\ tool' = [tool EXCEPT ![p] = NoRun]
  /\ UNCHANGED <<files, runs, now, reply, last>>

(* The usher client only prints a reply.  A client of the HTTP interface   *)
(* gets it as JSON and may store it.                                       *)
SaveReply(p) ==
  reply # NoFile /\ \E to \in Paths : Launch(p, reply, to)

-----------------------------------------------------------------------------
(* The usher daemon that the intent names, when a client submits the       *)
(* record in a file.  Of its checks, those that concern signatures, time   *)
(* and hash; the others may refuse any record, and a refusal changes       *)
(* nothing here.                                                           *)

Submitted(f) ==
  LET r == files[f]
  IN Whole(r) /\ r.intent.valid /\ r.intent.usher \in Daemons

(* Mutant: a hash has to be there, whichever it is.                        *)
HashPresent(r) == r.hash # NoHash

(* validate_current_hash.  Records of more than one signature need a hash. *)
HashFits(r) == r.hash = Contents(r)

Dispatch(r) == last' = [rec |-> r, time |-> now]

(* One signature: the usher adds its own and a quorum signature.  The time *)
(* of the context stays as it is.                                          *)
SubmitAuthored(f) ==
  LET r == files[f]
  IN /\ Submitted(f) /\ Len(r.sigs) = 1 /\ Has(r, 1, "author")
     /\ r.hash = NoHash \/ HashFits(r)
     /\ reply' = Countersign(r, r.intent.usher)
     /\ Dispatch(r)
     /\ UNCHANGED <<files, tool, runs, now>>

(* Two signatures: a record that lacks a hash panics the task.             *)
SubmitUshered(f) ==
  LET r == files[f]
  IN /\ Submitted(f) /\ Len(r.sigs) = 2
     /\ Has(r, 1, "author") /\ Has(r, 2, "usher")
     /\ HashFits(r)
     /\ reply' = AddSig(r, "quorum", r.intent.usher)
     /\ Dispatch(r)
     /\ UNCHANGED <<files, tool, runs, now>>

(* Subtraction of u64 in a release build; a debug build panics instead of  *)
(* wrapping, and the record is not appended either.                        *)
Minus(a, b) == IF b <= a THEN a - b ELSE a - b + Word

(* Mutant: saturating_sub.                                                 *)
NotOld(r) == r.at >= now \/ now - r.at <= TTL

(* validate_context_at.                                                    *)
InTime(r) == Minus(now, r.at) <= TTL

(* The signers of the quorum signatures, and those among them whose        *)
(* signature is not one of the first two signatures of the record.         *)
QuorumSigs(r) == SelectSeq(r.sigs, LAMBDA s : s.type = "quorum")

Signers(r) == [n \in DOMAIN QuorumSigs(r) |-> QuorumSigs(r)[n].key]

Forged(r) ==
  {r.sigs[n].key : n \in {m \in DOMAIN r.sigs :
     /\ r.sigs[m].type = "quorum"
     /\ r.sigs[m].over # [author |-> r.sigs[1], usher |-> r.sigs[2]]}}

(* signature_check_quorum.                                                 *)
QuorumHolds(r) ==
  /\ QuorumSigs(r) # <<>>
  /\ QuorumReached(Rule, Signers(r))
  /\ MembersAccepted(Rule, Auths, Signers(r), Forged(r))

(* Three signatures and more: the record is appended.                      *)
SubmitQuorum(f) ==
  LET r == files[f]
  IN /\ Submitted(f) /\ Len(r.sigs) > 2
     /\ InTime(r)
     /\ QuorumHolds(r)
     /\ HashFits(r)
     /\ Dispatch(r)
     /\ UNCHANGED <<files, tool, runs, now, reply>>

Tick ==
  /\ now < MaxTime
  /\ now' = now + 1
  /\ UNCHANGED <<files, tool, runs, reply, last>>

-----------------------------------------------------------------------------
Launches(p) ==
  Craft(p) \/ CreateGenesis(p) \/ SignFile(p) \/ Finalize(p) \/ SaveReply(p)

Writes(p) == OpenFile(p) \/ WriteFile(p)

Submits(f) == SubmitAuthored(f) \/ SubmitUshered(f) \/ SubmitQuorum(f)

Next ==
  \/ \E p \in Tools : Launches(p) \/ Writes(p) \/ Kill(p)
  \/ \E f \in Paths : Submits(f)
  \/ Tick

Spec == Init /\ [][Next]_vars

-----------------------------------------------------------------------------
(* Every record that a file, a tool run, a client or a daemon holds.       *)
Held ==
  {f \in {files[p] : p \in Paths} \cup {tool[p].rec : p \in Tools}
          \cup {reply, last.rec} : Whole(f)}

TypeOK ==
  /\ files \in [Paths -> Rhex \cup {NoFile, Torn}]
  /\ tool \in [Tools -> [pc : {"idle", "open", "write"},
                         rec : Rhex \cup {NoFile}, to : Paths]]
  /\ runs \in 0 .. MaxRuns
  /\ now \in StartTime .. MaxTime
  /\ reply \in Rhex \cup {NoFile}
  /\ last \in [rec : Rhex \cup {NoFile}, time : Nat]

(* keytool verify, which refuses a record without signatures.              *)
Verifies(r) ==
  /\ r.sigs # <<>>
  /\ \A n \in DOMAIN r.sigs : r.sigs[n].over = Preimage(r, r.sigs[n].type)

(* Whatever tools and daemons do to the files, in whatever order, and      *)
(* whoever is killed half way: once a record is signed, it passes keytool  *)
(* verify wherever it can be read.  The usher's signature covers the time, *)
(* which keytool sign replaces, and a record passes through files that     *)
(* other runs write too.                                                   *)
SignaturesVerify == \A r \in Held : r.sigs # <<>> => Verifies(r)

Appended == last.rec # NoFile /\ Len(last.rec.sigs) > 2

(* A record that is appended with a quorum is whole: its hash is that of   *)
(* its contents, its first two signatures are an author's and an usher's,  *)
(* and both verify.  The daemon checks neither of the two.                 *)
AppendedIsWhole ==
  Appended => /\ last.rec.hash = Contents(last.rec)
              /\ Has(last.rec, 1, "author") /\ Has(last.rec, 2, "usher")
              /\ Verifies(last.rec)

(* A record that is appended with a quorum got its time from an usher's    *)
(* signature made, by the signer's clock, no later than now and at most    *)
(* quorum_ttl ago.  So a record dated in the future is not appended, where *)
(* now - at wraps, and none that a daemon countersigned, which carries no  *)
(* time.                                                                   *)
AppendedInTime ==
  Appended => /\ last.rec.at \in StartTime - Skew .. last.time
              /\ last.time - last.rec.at <= TTL

-----------------------------------------------------------------------------
(* Claim.  Signers who do not give up and are never disturbed: no run is   *)
(* killed, drafts are crafted and signed again and again, every member of  *)
(* the quorum signs for itself, and what has a quorum signature is         *)
(* finalized and submitted.                                                *)
Undisturbed ==
  \/ \E p \in Tools : Craft(p) \/ SignFile(p) \/ Finalize(p) \/ Writes(p)
  \/ \E f \in Paths : Submits(f)
  \/ Tick

Persistence ==
  /\ \A p \in Tools :
       /\ WF_vars(Writes(p))
       /\ SF_vars(Craft(p))
       /\ SF_vars(\E key \in Keys : SignWith(p, "author", key))
       /\ SF_vars(\E key \in Keys : SignWith(p, "usher", key))
       /\ \A key \in Keys : SF_vars(SignWith(p, "quorum", key))
       /\ SF_vars(\E f \in Paths :
                    /\ Whole(files[f]) /\ Len(files[f].sigs) > 2
                    /\ FinalizeFrom(p, f))
  /\ SF_vars(\E f \in Paths : SubmitQuorum(f))

PersistentSpec == Init /\ [][Undisturbed]_vars /\ Persistence

(* The README promises appends under a K-of-N quorum, so the signers can   *)
(* bring together as many quorum signatures as the rule asks for.          *)
QuorumGathers == <>(Appended /\ QuorumReached(Rule, Signers(last.rec)))
=============================================================================
