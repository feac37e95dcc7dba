---------------------------- MODULE GTClockProofs ----------------------------
(***************************************************************************)
(* Theorems about GTClock, for any times and any epoch.                    *)
(***************************************************************************)
EXTENDS GTClock, TLAPS

(* Quot is the integer next to the quotient, on the side of zero.          *)
LEMMA QuotBounds ==
  ASSUME NEW a \in Int, NEW b \in Nat \ {0}
  PROVE  /\ Quot(a, b) \in Int
         /\ a >= 0 => Quot(a, b) >= 0 /\ b * Quot(a, b) <= a
                      /\ a < b * Quot(a, b) + b
         /\ a < 0 => Quot(a, b) <= 0 /\ a <= b * Quot(a, b)
                     /\ b * Quot(a, b) - b < a
<1>1. \A n \in Nat : /\ n \div b \in Nat
                     /\ b * (n \div b) <= n /\ n < b * (n \div b) + b
  OBVIOUS
<1>2. CASE a >= 0
  BY <1>1, <1>2 DEF Quot
<1>3. CASE a < 0
  <2>1. PICK n \in Nat : n = -a
    BY <1>3
  <2>2. PICK q \in Nat : q = n \div b
    BY <1>1
  <2>3. b * q <= n /\ n < b * q + b
    BY <1>1, <2>2
  <2>4. Quot(a, b) = -q
    BY <1>3, <2>1, <2>2 DEF Quot
  <2>5. b * (-q) = -(b * q)
    OBVIOUS
  <2> QED
    BY <1>3, <2>1, <2>3, <2>4, <2>5
<1> QED
  BY <1>2, <1>3

LEMMA Units ==
  /\ SIDEREAL_MS \in Nat \ {0} /\ MICROMARKS_PER_TURN \in Nat \ {0}
  /\ SIDEREAL_MS <= MICROMARKS_PER_TURN
BY SMT DEF SIDEREAL_MS, MICROMARKS_PER_TURN

LEMMA Cancel ==
  ASSUME NEW b \in Nat \ {0}, NEW p \in Int, NEW q \in Int, b * p < b * q
  PROVE  p < q
<1> SUFFICES ASSUME q <= p PROVE FALSE
  OBVIOUS
<1>1. PICK n \in Nat : p = q + n
  BY SMT
<1>2. b * p = b * q + b * n /\ b * n \in Nat /\ b * q \in Int
  BY <1>1, SMT
<1> QED
  BY <1>2, SMT

LEMMA MicromarksBounds ==
  ASSUME NEW ms \in Int, NEW epoch \in Int
  PROVE  LET d == (ms - epoch) * MICROMARKS_PER_TURN
             q == Micromarks(ms, epoch)
         IN /\ d \in Int /\ q \in Int
            /\ ms >= epoch <=> d >= 0
            /\ d >= 0 => q >= 0 /\ SIDEREAL_MS * q <= d
                         /\ d < SIDEREAL_MS * q + SIDEREAL_MS
            /\ d < 0 => q <= 0 /\ d <= SIDEREAL_MS * q
                        /\ SIDEREAL_MS * q - SIDEREAL_MS < d
<1> DEFINE d == (ms - epoch) * MICROMARKS_PER_TURN
<1>1. d \in Int
  BY Units
<1>2. ms >= epoch <=> d >= 0
  <2>1. PICK x \in Int : x = ms - epoch
    OBVIOUS
  <2>2. x >= 0 <=> x * MICROMARKS_PER_TURN >= 0
    BY Units, SMT
  <2> QED
    BY <2>1, <2>2
<1>3. Micromarks(ms, epoch) = Quot(d, SIDEREAL_MS)
  BY DEF Micromarks
<1> HIDE DEF d
<1>4. /\ Quot(d, SIDEREAL_MS) \in Int
      /\ d >= 0 => Quot(d, SIDEREAL_MS) >= 0
           /\ SIDEREAL_MS * Quot(d, SIDEREAL_MS) <= d
           /\ d < SIDEREAL_MS * Quot(d, SIDEREAL_MS) + SIDEREAL_MS
      /\ d < 0 => Quot(d, SIDEREAL_MS) <= 0
           /\ d <= SIDEREAL_MS * Quot(d, SIDEREAL_MS)
           /\ SIDEREAL_MS * Quot(d, SIDEREAL_MS) - SIDEREAL_MS < d
  BY <1>1, Units, QuotBounds
<1> QED
  BY <1>1, <1>2, <1>3, <1>4 DEF d

(* The test monotonic_micromarks, of all readings: a later one is never    *)
(* less, whichever side of the epoch they are on, although division        *)
(* towards zero makes the mark 0 last longer than the others.              *)
THEOREM MicromarksMonotonic ==
  \A epoch, s, t \in Int :
    s <= t => Micromarks(s, epoch) <= Micromarks(t, epoch)
<1> SUFFICES ASSUME NEW epoch \in Int, NEW s \in Int, NEW t \in Int, s <= t
             PROVE  Micromarks(s, epoch) <= Micromarks(t, epoch)
  OBVIOUS
<1>1. PICK p \in Int : p = Micromarks(s, epoch)
  BY MicromarksBounds
<1>2. PICK q \in Int : q = Micromarks(t, epoch)
  BY MicromarksBounds
<1>3. PICK d \in Int : d = (s - epoch) * MICROMARKS_PER_TURN
  BY MicromarksBounds
<1>4. PICK e \in Int : e = (t - epoch) * MICROMARKS_PER_TURN
  BY MicromarksBounds
<1>5. d <= e
  <2>1. PICK n \in Nat : t - epoch = (s - epoch) + n
    OBVIOUS
  <2>2. e = d + n * MICROMARKS_PER_TURN /\ n * MICROMARKS_PER_TURN \in Nat
    BY <1>3, <1>4, <2>1, Units, SMT
  <2> QED
    BY <2>2
<1>6. /\ d >= 0 => p >= 0 /\ SIDEREAL_MS * p <= d
      /\ d < 0 => p <= 0 /\ SIDEREAL_MS * p - SIDEREAL_MS < d
  BY <1>1, <1>3, MicromarksBounds
<1>7. /\ e >= 0 => q >= 0 /\ e < SIDEREAL_MS * q + SIDEREAL_MS
      /\ e < 0 => q <= 0 /\ e <= SIDEREAL_MS * q
  BY <1>2, <1>4, MicromarksBounds
<1>8. /\ SIDEREAL_MS * p \in Int /\ SIDEREAL_MS * q \in Int
      /\ SIDEREAL_MS * (q + 1) = SIDEREAL_MS * q + SIDEREAL_MS
      /\ SIDEREAL_MS * (p - 1) = SIDEREAL_MS * p - SIDEREAL_MS
  BY Units, SMT
<1>9. p < q + 1
  <2>1. CASE d >= 0
    <3>1. SIDEREAL_MS * p < SIDEREAL_MS * (q + 1)
      BY <1>5, <1>6, <1>7, <1>8, <2>1, Units
    <3> QED
      BY <3>1, Cancel, Units
  <2>2. CASE e < 0
    <3>1. SIDEREAL_MS * (p - 1) < SIDEREAL_MS * q
      BY <1>5, <1>6, <1>7, <1>8, <2>2, Units
    <3>2. p - 1 < q
      BY <3>1, Cancel, Units
    <3> QED
      BY <3>2
  <2>3. CASE d < 0 /\ e >= 0
    BY <1>6, <1>7, <2>3
  <2> QED
    BY <2>1, <2>2, <2>3
<1> QED
  BY <1>1, <1>2, <1>9

(* The test split_roundtrip, of all readings.                              *)
THEOREM SplitRoundTrip ==
  \A mm \in Int :
    /\ Turn(mm) * MICROMARKS_PER_TURN + Offset(mm) = mm
    /\ Offset(mm) \in 0 .. MICROMARKS_PER_TURN - 1
BY Units, SMT DEF Turn, Offset

(* From a time to its mark and back: at most one millisecond is lost, and  *)
(* the result is never farther from the epoch.                             *)
THEOREM ThereAndBack ==
  \A epoch, ms \in Int :
    LET back == TimeAt(Micromarks(ms, epoch), epoch)
    IN /\ ms >= epoch => back \in ms - 1 .. ms
       /\ ms < epoch => back \in ms .. ms + 1
<1> SUFFICES ASSUME NEW epoch \in Int, NEW ms \in Int
             PROVE  LET back == TimeAt(Micromarks(ms, epoch), epoch)
                    IN /\ ms >= epoch => back \in ms - 1 .. ms
                       /\ ms < epoch => back \in ms .. ms + 1
  OBVIOUS
<1> DEFINE S == SIDEREAL_MS
           M == MICROMARKS_PER_TURN
<1>0. S \in Nat \ {0} /\ M \in Nat \ {0} /\ S <= M
  BY Units
<1>1. PICK q \in Int : q = Micromarks(ms, epoch)
  BY MicromarksBounds
<1>2. PICK x \in Int : x = ms - epoch
  OBVIOUS
<1>3. /\ x * M \in Int /\ (x >= 0 <=> x * M >= 0)
      /\ x * M >= 0 => q >= 0 /\ S * q <= x * M /\ x * M < S * q + S
      /\ x * M < 0 => q <= 0 /\ x * M <= S * q /\ S * q - S < x * M
  <2>1. x * M = (ms - epoch) * MICROMARKS_PER_TURN
    BY <1>2
  <2>2. ms >= epoch <=> x >= 0
    BY <1>2
  <2> HIDE DEF M
  <2> QED
    BY <1>1, <2>1, <2>2, MicromarksBounds
<1>4. q * S \in Int /\ q * S = S * q /\ (q >= 0 <=> q * S >= 0)
  BY <1>0, SMT
<1>5. PICK e \in Int : e = Quot(q * S, M)
  BY <1>0, <1>4, QuotBounds
<1>6. /\ q * S >= 0 => e >= 0 /\ M * e <= q * S /\ q * S < M * e + M
      /\ q * S < 0 => e <= 0 /\ q * S <= M * e /\ M * e - M < q * S
  BY <1>0, <1>4, <1>5, QuotBounds
<1>7. TimeAt(q, epoch) = epoch + e
  BY <1>5 DEF TimeAt
<1> HIDE DEF S, M
<1>8. /\ M * (e + 2) = M * e + M + M /\ M * (e - 2) = M * e - M - M
      /\ M * (e - 1) = M * e - M /\ M * (x + 1) = x * M + M
      /\ M * (x - 1) = x * M - M /\ M * x = x * M /\ M * e \in Int
  BY <1>0, SMT
<1>9. ASSUME x >= 0
      PROVE  e < x + 1 /\ x < e + 2
  <2>1. q >= 0 /\ S * q <= x * M /\ x * M < S * q + S
    BY <1>3, <1>9
  <2>2. M * e <= q * S /\ q * S < M * e + M
    BY <1>4, <1>6, <2>1
  <2>3. M * e < M * (x + 1) /\ M * x < M * (e + 2)
    BY <1>0, <1>3, <1>4, <1>8, <2>1, <2>2
  <2> QED
    BY <1>0, <2>3, Cancel
<1>10. ASSUME x < 0
       PROVE  x - 1 < e /\ e - 2 < x
  <2>1. q <= 0 /\ x * M <= S * q /\ S * q - S < x * M
    BY <1>3, <1>10
  <2>2. q = 0 => S * q = 0
    BY <1>0, SMT
  <2>3. q * S <= M * e /\ M * e - M < q * S
    <3>1. CASE q = 0
      <4>1. q * S = 0 /\ M * e <= 0 /\ e >= 0 /\ 0 < M * e + M
        BY <1>4, <1>6, <2>2, <3>1
      <4>2. M * e >= 0
        BY <1>0, <4>1, SMT
      <4> QED
        BY <1>0, <1>8, <4>1, <4>2
    <3>2. CASE q < 0
      BY <1>4, <1>6, <3>2
    <3> QED
      BY <2>1, <3>1, <3>2
  <2>4. M * (x - 1) < M * e /\ M * (e - 2) < M * x
    BY <1>0, <1>3, <1>4, <1>8, <2>1, <2>3
  <2> QED
    BY <1>0, <2>4, Cancel
<1>11. /\ ms >= epoch => epoch + e \in ms - 1 .. ms
       /\ ms < epoch => epoch + e \in ms .. ms + 1
  BY <1>2, <1>9, <1>10
<1> QED
  BY <1>1, <1>7, <1>11

(* The u64 that goes into records and comparisons agrees with the clock    *)
(* from the epoch on.  A machine whose clock is before the epoch dates its *)
(* records after all others: the difference that validate_context_at takes *)
(* of them is negative, which u64 does not have.                           *)
THEOREM BeforeTheEpoch ==
  ASSUME NEW word \in Nat, NEW epoch \in Int, NEW s \in Int, NEW t \in Int,
         Micromarks(s, epoch) < 0, Micromarks(t, epoch) >= 0,
         Micromarks(t, epoch) - Micromarks(s, epoch) < word
  PROVE  /\ MicromarksU64(t, epoch, word) = Micromarks(t, epoch)
         /\ MicromarksU64(s, epoch, word) > MicromarksU64(t, epoch, word)
<1>1. PICK p \in Int : p = Micromarks(s, epoch)
  BY MicromarksBounds
<1>2. PICK q \in Int : q = Micromarks(t, epoch)
  BY MicromarksBounds
<1>3. p < 0 /\ q >= 0 /\ q - p < word
  BY <1>1, <1>2
<1>4. q % word = q /\ p % word = word + p
  BY <1>3
<1>5. word + p > q
  BY <1>3
<1> QED
  BY <1>1, <1>2, <1>4, <1>5 DEF MicromarksU64
=============================================================================
