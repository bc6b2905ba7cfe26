----------------------------- MODULE MCSerialIngest -----------------------------
(***************************************************************************)
(* SerialIngest with two frames of a sensor, with one register byte each,  *)
(* and an inverted bit.                                                    *)
(***************************************************************************)
EXTENDS SerialIngest

Number(n) == {i \in 0 .. 7 : (n \div (2 ^ i)) % 2 = 1}

SensorFrame(register) ==
  AppendCRC16(<<Number(1), Number(4), Number(1), Number(register)>>)

MCWire == <<SensorFrame(20), SensorFrame(36)>>

\* Noise makes the count of register bytes too small.
MCDamaged == [b \in {Bytestream[i] : i \in DOMAIN Bytestream} |->
                IF b = Number(1) THEN {Number(0)} ELSE {}]

\* No other piece of this stream passes for a frame, damaged or not.
ASSUME MCCollisionFree == CollisionFree
==============================================================================
