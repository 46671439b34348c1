------------------------------- MODULE WsFrame ------------------------------
(***************************************************************************)
(* The RFC 6455 frame codec (tpt-net-ws/src/frame.rs): encode, decode and  *)
(* the mask.  The two escape values of the seven-bit length, the radix and *)
(* the width of the long length, and the payload limit are parameters.     *)
(***************************************************************************)
EXTENDS Integers, Sequences

CONSTANTS Len16,       \* 126: two bytes of length follow
          Radix,       \* 256
          Wide,        \* 8 bytes of length follow Len16 + 1
          MaxPayload,  \* MAX_PAYLOAD, 16 MiB
          KeyLen       \* 4

\* n without its k lowest bytes.
Shift(n, k) ==
  LET s[i \in 0..Wide] == IF i = 0 THEN n ELSE s[i - 1] \div Radix IN s[k]

\* The long length holds that of every payload.
ASSUME WsFrameAssumption ==
  /\ Len16 \in 1..126 /\ Radix \in 2..256 /\ Wide \in 3..8 /\ KeyLen \in Nat \ {0}
  /\ MaxPayload \in Nat /\ Shift(MaxPayload, Wide) = 0

Text   == 1
Binary == 2
Close  == 8
Ping   == 9
Pong   == 10
Opcodes == {0, Text, Binary, Close, Ping, Pong}
IsControl(opcode) == opcode \in {Close, Ping, Pong}

WireFrame(fin, rsv1, opcode, payload) ==
  [fin |-> fin, rsv1 |-> rsv1, opcode |-> opcode, payload |-> payload]

BigEndian(n, width) == [i \in 1..width |-> Shift(n, width - i) % Radix]
FromBigEndian(s) ==
  LET n[i \in 0..Len(s)] == IF i = 0 THEN 0 ELSE n[i - 1] * Radix + s[i] IN n[Len(s)]

\* The exclusive or of numbers of so many bits.  A byte has 8; the words that
\* stand for several bytes or for compressed data have more.
Bits == 12
Exclusive[w \in 0..Bits] ==
  [p \in Nat \X Nat |->
     IF w = 0 THEN 0
     ELSE 2 * Exclusive[w - 1][<<p[1] \div 2, p[2] \div 2>>] + ((p[1] + p[2]) % 2)]
Xor(a, b) == Exclusive[Bits][<<a, b>>]

ApplyMask(data, key) == [i \in DOMAIN data |-> Xor(data[i], key[((i - 1) % KeyLen) + 1])]

Bit(b, weight) == IF b THEN weight ELSE 0
IsSet(byte, weight) == (byte \div weight) % 2 = 1

LengthBytes(n, maskBit) ==
  IF n < Len16 THEN <<maskBit + n>>
  ELSE IF n < Radix * Radix THEN <<maskBit + Len16>> \o BigEndian(n, 2)
  ELSE <<maskBit + Len16 + 1>> \o BigEndian(n, Wide)

\* A client's key; a server's empty one leaves the payload as it is.
Encode(frame, key) ==
  LET masked == key # <<>>
  IN  <<Bit(frame.fin, 128) + Bit(frame.rsv1, 64) + frame.opcode>>
        \o LengthBytes(Len(frame.payload), Bit(masked, 128))
        \o key
        \o (IF masked THEN ApplyMask(frame.payload, key) ELSE frame.payload)

-----------------------------------------------------------------------------
More      == [kind |-> "more"]
BadFrame  == [kind |-> "error"]

\* Mutant: a frame that ends the buffer is thought to be incomplete.
DecodeOneMore(buf, expectMask) ==
  LET opcode == buf[1] % 16
      masked == IsSet(buf[2], 128)
      len7   == buf[2] % 128
      ext    == IF len7 = Len16 THEN 2 ELSE IF len7 = Len16 + 1 THEN Wide ELSE 0
      n      == IF ext = 0 THEN len7 ELSE FromBigEndian(SubSeq(buf, 3, 2 + ext))
      keyAt  == 2 + ext
      at     == keyAt + Bit(masked, KeyLen)
      body   == SubSeq(buf, at + 1, at + n)
  IN  IF Len(buf) < 2 \/ Len(buf) < keyAt \/ Len(buf) <= at + n THEN More
      ELSE [kind |-> "frame", consumed |-> at + n,
            frame |-> WireFrame(IsSet(buf[1], 128), IsSet(buf[1], 64), opcode,
                                IF masked THEN ApplyMask(body, SubSeq(buf, keyAt + 1, at))
                                ELSE body)]

\* The checks in the order of the code: reserved bits and opcode, length,
\* limits, mask key, direction of the mask, payload.
Decode(buf, expectMask) ==
  LET opcode == buf[1] % 16
      masked == IsSet(buf[2], 128)
      len7   == buf[2] % 128
      ext    == IF len7 = Len16 THEN 2 ELSE IF len7 = Len16 + 1 THEN Wide ELSE 0
      n      == IF ext = 0 THEN len7 ELSE FromBigEndian(SubSeq(buf, 3, 2 + ext))
      keyAt  == 2 + ext
      at     == keyAt + Bit(masked, KeyLen)
      body   == SubSeq(buf, at + 1, at + n)
  IN  IF Len(buf) < 2 THEN More
      ELSE IF IsSet(buf[1], 32) \/ IsSet(buf[1], 16) \/ opcode \notin Opcodes THEN BadFrame
      ELSE IF Len(buf) < keyAt THEN More
      ELSE IF n > MaxPayload \/ (IsControl(opcode) /\ n >= Len16) THEN BadFrame
      ELSE IF Len(buf) < at THEN More
      ELSE IF masked # expectMask THEN BadFrame
      ELSE IF Len(buf) < at + n THEN More
      ELSE [kind |-> "frame", consumed |-> at + n,
            frame |-> WireFrame(IsSet(buf[1], 128), IsSet(buf[1], 64), opcode,
                                IF masked THEN ApplyMask(body, SubSeq(buf, keyAt + 1, at))
                                ELSE body)]
=============================================================================
