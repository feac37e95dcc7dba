------------------------------- MODULE GTClock -------------------------------
(***************************************************************************)
(* GTClock: wall time, in milliseconds since 1970, as micromarks of the    *)
(* sidereal day since the epoch of the ledger.  The numbers of the code    *)
(* fit i128 with room to spare, so only the conversion to u64 has a width. *)
(***************************************************************************)
EXTENDS Integers

SIDEREAL_MS == 86164090
MICROMARKS_PER_TURN == 1000000000

(* Division of i128: towards zero.                                         *)
Quot(a, b) == IF a >= 0 THEN a \div b ELSE -((-a) \div b)

Micromarks(ms, epoch) == Quot((ms - epoch) * MICROMARKS_PER_TURN, SIDEREAL_MS)

(* as u64.                                                                 *)
MicromarksU64(ms, epoch, word) == Micromarks(ms, epoch) % word

Turn(mm) == mm \div MICROMARKS_PER_TURN
Offset(mm) == mm % MICROMARKS_PER_TURN

TimeAt(mm, epoch) == epoch + Quot(mm * SIDEREAL_MS, MICROMARKS_PER_TURN)
=============================================================================
