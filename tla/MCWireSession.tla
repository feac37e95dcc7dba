--------------------------- MODULE MCWireSession ---------------------------
(***************************************************************************)
(* Small instances of WireSession: a ledger that holds its genesis, two    *)
(* records that can follow one another, the first also in the form that    *)
(* its author sends, and a request for the chain.                          *)
(***************************************************************************)
EXTENDS WireSession

CONSTANTS tcp, post

Rec(intent, prev, hash, sigs, request) ==
  [intent |-> intent, prev |-> prev, hash |-> hash, sigs |-> sigs,
   request |-> request]

Genesis == Rec("g", NoHash, "g", 3, FALSE)
Draft == Rec("a", "g", NoHash, 1, FALSE)
Final == Rec("a", "g", "a", 3, FALSE)
Follower == Rec("b", "a", "b", 3, FALSE)
Request == Rec("q", NoHash, "q", 2, TRUE)

MCDepth == [h \in Hashes \cup {NoHash} |->
              CASE h = NoHash -> 0 [] h = "a" -> 2 [] h = "b" -> 3
                [] OTHER -> 1]

MCChain == <<Genesis>>

MCRecords == {Genesis, Draft, Countersigned(Draft), Final, Follower, Request,
              Countersigned(Request)}

MCSent == {Draft, Countersigned(Draft), Final, Follower, Request}

(* An encoding begins with a byte of its own.  That of one record ends in  *)
(* zero, as one in 256 hashes and one in 16 signatures do; the signatures  *)
(* that the daemon adds to another make it too large for a frame.          *)
MCCbor ==
  [r \in MCRecords |->
     CASE r = Genesis               -> <<1>>
       [] r = Draft                 -> <<2>>
       [] r = Countersigned(Draft)  -> <<3, 1, 1>>
       [] r = Final                 -> <<4>>
       [] r = Follower              -> <<5, 0>>
       [] r = Request               -> <<6>>
       [] OTHER                     -> <<7>>]
=============================================================================
