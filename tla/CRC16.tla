--------------------------------- MODULE CRC16 ---------------------------------
(***************************************************************************)
(* The Modbus checksum of internal/crc/crc16.go.  A byte is the set of its *)
(* bits that are set, {0..7}, a uint16 likewise, {0..15}; ^ is then the    *)
(* symmetric difference and a shift renames the bits.                      *)
(***************************************************************************)
EXTENDS Integers, Sequences

Bits  == 0 .. 15
Words == SUBSET Bits
Bytes == SUBSET (0 .. 7)

Xor(a, b)  == (a \ b) \cup (b \ a)
HighOf(w)  == {i \in 0 .. 7 : i + 8 \in w}    \* w >> 8
LowOf(w)   == w \cap (0 .. 7)                 \* w & 0x00FF
Joined(low, high) == low \cup {i \in 8 .. 15 : i - 8 \in high}

crc16ModbusPoly == {0, 13, 15}                \* 0xA001
crc16Init       == Bits                       \* 0xFFFF

\* One round of the loop that fills the table, and all eight of them.
Half(w)   == {i \in 0 .. 14 : i + 1 \in w}
Shift(w)  == IF 0 \in w THEN Xor(Half(w), crc16ModbusPoly) ELSE Half(w)
Shift2(w) == Shift(Shift(w))
Shift4(w) == Shift2(Shift2(w))
Shift8(w) == Shift4(Shift4(w))

crcTable == [i \in Bytes |-> Shift8(i)]

\* What CRC16Modbus does with one byte.
Update(crc, b) == Xor(HighOf(crc), crcTable[LowOf(Xor(crc, b))])

CRC16Modbus(data) ==
  LET crc[i \in 0 .. Len(data)] ==
        IF i = 0 THEN crc16Init ELSE Update(crc[i - 1], data[i])
  IN crc[Len(data)]

ValidateCRC16_FaultySwapped(data) ==
  /\ Len(data) >= 4
  /\ LET payloadLen == Len(data) - 2
     IN CRC16Modbus(SubSeq(data, 1, payloadLen))
          = Joined(data[payloadLen + 2], data[payloadLen + 1])

\* The checksum is the last two bytes, low byte first.
ValidateCRC16(data) ==
  /\ Len(data) >= 4
  /\ LET payloadLen == Len(data) - 2
     IN CRC16Modbus(SubSeq(data, 1, payloadLen))
          = Joined(data[payloadLen + 1], data[payloadLen + 2])

AppendCRC16(data) ==
  LET crc == CRC16Modbus(data) IN data \o <<LowOf(crc), HighOf(crc)>>
==============================================================================
