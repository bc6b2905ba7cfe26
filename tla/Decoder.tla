-------------------------------- MODULE Decoder --------------------------------
(***************************************************************************)
(* The packet decoder of internal/protocol/decoder.go: what it makes of a  *)
(* packet, and which of its counters a packet raises.  The conversion of   *)
(* the registers to pressure and temperature keeps their bytes, so a datum *)
(* is the address with the registers it was read from.                     *)
(*                                                                         *)
(* StreamDecode has no caller in the program; the decoder workers of the   *)
(* pipeline do the same.  The branches for a byte count below 0 or above   *)
(* 255 are dead: the count is a byte.                                      *)
(***************************************************************************)
EXTENDS CRC16, FiniteSets

CONSTANTS MinFrameLength, MaxAllowedFrameLength,
          MinRegisterBytes     \* register bytes a sensor's frame needs

ASSUME DecoderAssumption ==
  /\ MinFrameLength \in Nat /\ MinFrameLength >= 4
  /\ MaxAllowedFrameLength \in Nat /\ MaxAllowedFrameLength >= MinFrameLength
  /\ MinRegisterBytes \in Nat \ {0}

CountersOfDecoder == {"total", "invalid", "noise", "truncated", "oversized"}

\* The number a byte stands for.
Value == [b \in Bytes |-> CHOOSE n \in 0 .. 255 :
                            b = {i \in 0 .. 7 : (n \div (2 ^ i)) % 2 = 1}]

ByteCount(data) == Value[data[3]]
Complete(data)  == Len(data) >= ByteCount(data) + 5

Registers(data) ==
  IF Complete(data) THEN SubSeq(data, 4, 3 + ByteCount(data)) ELSE <<>>

Frame(data) == [SlaveAddress |-> data[1], Data |-> Registers(data),
                IsValid |-> ValidateCRC16(data)]

\* Packets DecodeModbusRTU refuses by their length alone; they raise no total.
Oversized(data) == Len(data) > MaxAllowedFrameLength
TooShort(data)  == Len(data) < MinFrameLength

\* The counters that DecodeModbusRTU raises for a packet, each by one.
Raised(data) ==
  IF data = <<>> THEN {"invalid"}
  ELSE IF Oversized(data) THEN {"oversized", "invalid"}
  ELSE IF TooShort(data) THEN {"truncated", "invalid"}
  ELSE {"total"} \cup (IF Complete(data) THEN {} ELSE {"truncated"})
                 \cup (IF Frame(data).IsValid THEN {} ELSE {"invalid", "noise"})

\* DecodeModbusRTU returns no error, and ExtractSensorData none either.
Extractable(data) ==
  /\ ~Oversized(data) /\ ~TooShort(data)
  /\ Frame(data).IsValid
  /\ Len(Registers(data)) >= MinRegisterBytes

\* The datum: the registers it is converted from, with RawBytes, are all of Data.
SensorData(data) == [SlaveAddress |-> Frame(data).SlaveAddress,
                     RawBytes |-> Frame(data).Data]
==============================================================================
