----------------------------- MODULE MCRecharger ----------------------------
(* The sensors of the model-checked instance of Recharger. *)
EXTENDS Recharger

\* Sensor 0 looks ahead.
Light(ahead, side) == [s \in Sensor |-> IF s = 0 THEN ahead
                                       ELSE IF s = IR_LIGHT_SIZE - 1 THEN side ELSE 0]

\* In one phase of the blinking: the beacon off; ahead and near (200 in an
\* unsigned char); on the side;
\* a glimmer on the side, below the threshold.
MCLight == {Light(0, 0), Light(456, 0), Light(0, 40), Light(0, 8)}

MCObstacles == {{}, {0, 9}}
MCDirections == {4}
MCVoltages == {120, 180}
MCVoltagesAndError == {0, 120}
=============================================================================
