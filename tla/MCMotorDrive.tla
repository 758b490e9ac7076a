---------------------------- MODULE MCMotorDrive ----------------------------
(* The commands of the model-checked instance of MotorDrive. *)
EXTENDS MotorDrive

Wheels(a, b, c) == [i \in Motor |-> <<a, b, c>>[i + 1]]

\* Unequal deltas, so that the intervals are not whole, and one wheel beyond
\* the maximum speed; the timeout adds the slew to rest.
MCSlews == {Wheels(2, -9, 1)}
MCSlewsAndStop == MCSlews \cup {Still}
MCXYTheta == {Wheels(4, 0, -2)}
MCVoltages == {Wheels(2, -1, 1)}
MCSpeeds == {200}

MCPureAndInit == {{"slew"}, {"raw"}, {"slew", "init"}}
MCMixed == {{"slew", "raw"}}

MCReplies ==
  { [aligned |-> FALSE, voltage |-> 0, charge |-> 0],
    [aligned |-> TRUE, voltage |-> 180, charge |-> 2] }
=============================================================================
