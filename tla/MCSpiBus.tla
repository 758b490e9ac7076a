------------------------------ MODULE MCSpiBus ------------------------------
(* The packets of the model-checked instance of SpiBus. *)
EXTENDS SpiBus

CONSTANTS accel, motor, adc

MCPacket == {accel, motor, adc}

\* The reads of the converter have one word; the others are longer than what
\* the transmitter holds and what may pass during a call.
MCWords == [p \in MCPacket |-> IF p = adc THEN 1 ELSE 4]
=============================================================================
