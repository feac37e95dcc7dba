----------------------------- MODULE FrameCodec -----------------------------
(***************************************************************************)
(* RhexCodec: a record travels as its CBOR encoding, padded with zeros to  *)
(* a frame of fixed size; the receiver cuts the frame after its last byte  *)
(* that is not zero and decodes what is left.                              *)
(***************************************************************************)
EXTENDS Integers, Sequences

CONSTANTS
  Records,     \* what can be sent
  Cbor,        \* record -> its encoding, a sequence of bytes
  FrameSize,   \* RHEX_FRAME_SIZE
  Undecodable  \* Err, of decode and of encode

Byte == 0 .. 255

IsPrefixOf(s, t) == Len(s) <= Len(t) /\ \A n \in DOMAIN s : s[n] = t[n]

(* CBOR is self-delimiting: no encoding is the beginning of another one.   *)
(* That of a record starts with the head of a map.                         *)
ASSUME CodecAssumption ==
  /\ FrameSize \in Nat
  /\ Cbor \in [Records -> Seq(Byte)]
  /\ \A r \in Records : Cbor[r] # <<>> /\ Cbor[r][1] # 0
  /\ \A r, s \in Records : IsPrefixOf(Cbor[r], Cbor[s]) => r = s
  /\ Undecodable \notin Records

Frames == [1 .. FrameSize -> Byte]

Fits(r) == Len(Cbor[r]) <= FrameSize

Padded(r) ==
  [n \in 1 .. FrameSize |-> IF n <= Len(Cbor[r]) THEN Cbor[r][n] ELSE 0]

Encode(r) == IF Fits(r) THEN Padded(r) ELSE Undecodable

(* Where the payload ends, if the frame is not all zeros.                  *)
PayloadEnd(frame) ==
  CHOOSE n \in 1 .. FrameSize :
    frame[n] # 0 /\ \A m \in n + 1 .. FrameSize : frame[m] = 0

Payload(frame) == [n \in 1 .. PayloadEnd(frame) |-> frame[n]]

(* ciborium reads one value and ignores the bytes that follow it.          *)
FromCbor(payload) ==
  IF \E r \in Records : IsPrefixOf(Cbor[r], payload)
  THEN CHOOSE r \in Records : IsPrefixOf(Cbor[r], payload)
  ELSE Undecodable

Decode(frame) ==
  IF \E n \in 1 .. FrameSize : frame[n] # 0
  THEN FromCbor(Payload(frame))
  ELSE Undecodable

EndsInZero(r) == Cbor[r][Len(Cbor[r])] = 0
=============================================================================
