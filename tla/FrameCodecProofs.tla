-------------------------- MODULE FrameCodecProofs --------------------------
(***************************************************************************)
(* What a frame carries, for every frame size and every encoding.          *)
(***************************************************************************)
EXTENDS FrameCodec, TLAPS, WellFoundedInduction

(* Every set of numbers below a bound has a greatest one: the natural      *)
(* numbers are well ordered.                                               *)
LEMMA Greatest ==
  ASSUME NEW N \in Nat, NEW S, S \subseteq 1 .. N, S # {}
  PROVE  \E e \in S : \A m \in S : m <= e
<1> DEFINE Less == {pair \in Nat \X Nat : pair[1] < pair[2]}
           Gaps == {N - m : m \in S}
<1>1. IsWellFoundedOn(Less, Nat)
  BY NatLessThanWellFounded DEF OpToRel
<1>2. Gaps \subseteq Nat /\ Gaps # {}
  <2>1. \A m \in S : m \in Int /\ 1 <= m /\ m <= N
    OBVIOUS
  <2>2. \A m \in S : N - m \in Nat
    BY <2>1
  <2> QED
    BY <2>2
<1> HIDE DEF Less, Gaps
<1>3. PICK gap \in Gaps : \A other \in Gaps : ~ (<<other, gap>> \in Less)
  BY <1>1, <1>2, WFMin
<1>4. \A other \in Gaps : gap <= other
  <2>1. gap \in Nat /\ \A other \in Gaps : other \in Nat
    BY <1>2
  <2>2. \A other \in Gaps : ~ (other < gap)
    BY <1>3, <2>1 DEF Less
  <2> QED
    BY <2>1, <2>2
<1>5. PICK e \in S : gap = N - e
  BY DEF Gaps
<1>6. \A m \in S : m <= e
  BY <1>4, <1>5 DEF Gaps
<1> QED
  BY <1>6

(* The bytes of an encoding stand at the front of its frame, zeros after   *)
(* them.                                                                   *)
LEMMA FrameBytes ==
  ASSUME NEW r \in Records, Fits(r)
  PROVE  /\ Cbor[r] \in Seq(Byte) /\ Len(Cbor[r]) \in 1 .. FrameSize
         /\ Encode(r) \in Frames
         /\ \A n \in 1 .. FrameSize :
              Encode(r)[n] = IF n <= Len(Cbor[r]) THEN Cbor[r][n] ELSE 0
         /\ Encode(r)[1] # 0
<1> DEFINE c == Cbor[r]
<1>1. c \in Seq(Byte) /\ c # <<>> /\ c[1] # 0
  BY CodecAssumption
<1>2. Len(c) \in Nat /\ Len(c) <= FrameSize /\ FrameSize \in Nat
  BY <1>1, CodecAssumption DEF Fits
<1>3. Len(c) \in 1 .. FrameSize
  BY <1>1, <1>2
<1>4. \A n \in 1 .. Len(c) : c[n] \in Byte
  BY <1>1
<1>5. Encode(r) = [n \in 1 .. FrameSize |-> IF n <= Len(c) THEN c[n] ELSE 0]
  BY DEF Encode, Padded
<1> HIDE DEF c
<1>6. \A n \in 1 .. FrameSize :
        Encode(r)[n] = IF n <= Len(c) THEN c[n] ELSE 0
  BY <1>5
<1>7. Encode(r) \in Frames
  BY <1>2, <1>4, <1>5 DEF Frames, Byte
<1>8. Encode(r)[1] # 0
  BY <1>1, <1>2, <1>3, <1>6
<1> QED
  BY <1>1, <1>3, <1>6, <1>7, <1>8 DEF c

(* A number up to which a frame is not zero and after which it is, is      *)
(* where its payload ends.                                                 *)
LEMMA PayloadEnds ==
  ASSUME NEW frame \in Frames, NEW e \in 1 .. FrameSize, frame[e] # 0,
         \A m \in e + 1 .. FrameSize : frame[m] = 0
  PROVE  PayloadEnd(frame) = e
<1> FrameSize \in Nat
  BY CodecAssumption
<1> DEFINE Ends(n) ==
      frame[n] # 0 /\ \A m \in n + 1 .. FrameSize : frame[m] = 0
<1>1. Ends(e)
  OBVIOUS
<1>2. \A n \in 1 .. FrameSize : Ends(n) => n = e
  OBVIOUS
<1> QED
  BY <1>1, <1>2 DEF PayloadEnd

(* If a frame's payload begins with an encoding, that record is decoded,   *)
(* since no other encoding begins the payload as well.                     *)
LEMMA OneRecord ==
  ASSUME NEW payload \in Seq(Byte), NEW r \in Records,
         IsPrefixOf(Cbor[r], payload)
  PROVE  FromCbor(payload) = r
<1>1. ASSUME NEW s \in Records, IsPrefixOf(Cbor[s], payload)
      PROVE  s = r
  <2>1. Cbor[r] \in Seq(Byte) /\ Cbor[s] \in Seq(Byte)
    BY CodecAssumption
  <2>2. IsPrefixOf(Cbor[r], Cbor[s]) \/ IsPrefixOf(Cbor[s], Cbor[r])
    BY <1>1, <2>1 DEF IsPrefixOf
  <2> QED
    BY <2>2, CodecAssumption
<1> QED
  BY <1>1 DEF FromCbor

(* A record whose encoding fits a frame and does not end in a zero byte    *)
(* arrives as it was sent.                                                 *)
THEOREM RoundTrip ==
  ASSUME NEW r \in Records, Fits(r), ~EndsInZero(r)
  PROVE  Decode(Encode(r)) = r
<1> DEFINE c == Cbor[r]
           f == Encode(r)
           e == Len(c)
<1>1. /\ c \in Seq(Byte) /\ e \in 1 .. FrameSize /\ f \in Frames
      /\ \A n \in 1 .. FrameSize : f[n] = IF n <= e THEN c[n] ELSE 0
      /\ f[1] # 0
  BY FrameBytes
<1>2. c[e] # 0
  BY DEF EndsInZero
<1> FrameSize \in Nat
  BY CodecAssumption
<1> HIDE DEF c, f
<1>3. e \in Nat /\ 1 <= e /\ e <= FrameSize
  BY <1>1
<1> HIDE DEF e
<1>4. PayloadEnd(f) = e
  BY <1>1, <1>2, <1>3, PayloadEnds
<1>5. Payload(f) = [n \in 1 .. e |-> f[n]]
  BY <1>4 DEF Payload
<1>6. Payload(f) \in Seq(Byte) /\ Len(Payload(f)) = e
  BY <1>1, <1>3, <1>5 DEF Frames
<1>7. IsPrefixOf(c, Payload(f))
  BY <1>1, <1>3, <1>5, <1>6 DEF IsPrefixOf, e
<1>8. FromCbor(Payload(f)) = r
  BY <1>6, <1>7, OneRecord DEF c
<1> QED
  BY <1>1, <1>3, <1>8 DEF Decode, f

(* A frame that is not all zeros has a payload.                            *)
LEMMA PayloadThere ==
  ASSUME NEW frame \in Frames, NEW k \in 1 .. FrameSize, frame[k] # 0
  PROVE  /\ PayloadEnd(frame) \in 1 .. FrameSize
         /\ frame[PayloadEnd(frame)] # 0
         /\ \A m \in PayloadEnd(frame) + 1 .. FrameSize : frame[m] = 0
<1> DEFINE S == {n \in 1 .. FrameSize : frame[n] # 0}
<1>1. FrameSize \in Nat
  BY CodecAssumption
<1>2. PICK e \in S : \A m \in S : m <= e
  BY <1>1, Greatest
<1>3. \A m \in e + 1 .. FrameSize : frame[m] = 0
  BY <1>1, <1>2
<1>4. e \in 1 .. FrameSize /\ frame[e] # 0
  BY <1>2
<1> QED
  BY <1>3, <1>4, PayloadEnds

(* A record whose encoding ends in a zero byte does not arrive at all: the *)
(* receiver cuts the zero off with the padding.                            *)
THEOREM TrailingZeroLost ==
  ASSUME NEW r \in Records, Fits(r), EndsInZero(r)
  PROVE  Decode(Encode(r)) = Undecodable
<1> DEFINE c == Cbor[r]
           f == Encode(r)
           e == PayloadEnd(f)
<1>1. /\ c \in Seq(Byte) /\ Len(c) \in 1 .. FrameSize /\ f \in Frames
      /\ \A n \in 1 .. FrameSize : f[n] = IF n <= Len(c) THEN c[n] ELSE 0
      /\ f[1] # 0
  BY FrameBytes
<1>2. c[Len(c)] = 0
  BY DEF EndsInZero
<1>3. FrameSize \in Nat
  BY CodecAssumption
<1> HIDE DEF c, f
<1>4. Len(c) \in Nat /\ 1 <= Len(c) /\ Len(c) <= FrameSize
  BY <1>1, <1>3
<1>5. 1 \in 1 .. FrameSize
  BY <1>3, <1>4
<1>6. e \in 1 .. FrameSize /\ f[e] # 0
  BY <1>1, <1>5, PayloadThere
<1> HIDE DEF e
<1>7. e < Len(c)
  BY <1>1, <1>2, <1>3, <1>4, <1>6
<1>8. Payload(f) = [n \in 1 .. e |-> f[n]]
  BY DEF Payload, e
<1>9. Payload(f) \in Seq(Byte) /\ Len(Payload(f)) = e
  BY <1>1, <1>3, <1>6, <1>8 DEF Frames
<1>10. ASSUME NEW s \in Records, IsPrefixOf(Cbor[s], Payload(f))
       PROVE  FALSE
  <2>1. Cbor[s] \in Seq(Byte)
    BY CodecAssumption
  <2>2. Len(Cbor[s]) <= e /\ \A n \in 1 .. Len(Cbor[s]) : Cbor[s][n] = f[n]
    BY <1>6, <1>8, <1>9, <1>10, <2>1 DEF IsPrefixOf
  <2>3. IsPrefixOf(Cbor[s], c)
    BY <1>1, <1>3, <1>4, <1>6, <1>7, <2>1, <2>2 DEF IsPrefixOf
  <2>4. s = r
    BY <2>3, CodecAssumption DEF c
  <2> QED
    BY <1>3, <1>4, <1>6, <1>7, <2>2, <2>4 DEF c
<1>11. FromCbor(Payload(f)) = Undecodable
  BY <1>10 DEF FromCbor
<1> QED
  BY <1>1, <1>5, <1>11 DEF Decode, f

(* Whatever an encoding ends in, its frame is never taken for that of      *)
(* another record: it gives the record that was sent, or an error.         *)
THEOREM NeverMistaken ==
  ASSUME NEW r \in Records, Fits(r)
  PROVE  Decode(Encode(r)) \in {r, Undecodable}
<1>1. CASE EndsInZero(r)
  BY <1>1, TrailingZeroLost
<1>2. CASE ~EndsInZero(r)
  BY <1>2, RoundTrip
<1> QED
  BY <1>1, <1>2
=============================================================================
