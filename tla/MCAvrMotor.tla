----------------------------- MODULE MCAvrMotor -----------------------------
(* The bytes and readings of the model-checked instance of AvrMotor. *)
EXTENDS AvrMotor

\* Both directions, and a magnitude the over-current correction can reduce;
\* the timeout adds rest.
MCSetPoints == {-1, 2}
\* A voltage that looks like a speed header, and one too high to move.
MCVoltages == {3, 11}
MCCurrents == {0, 4}
MCClicks == {0, 1}
\* Full drive either way, against the set point too (braking).
MCPidOutputs == {-2, 2}
=============================================================================
