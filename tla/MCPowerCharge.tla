---------------------------- MODULE MCPowerCharge ----------------------------
(* The voltages of the model-checked instance of PowerCharge. *)
EXTENDS PowerCharge

Level(v) == [b \in Battery |-> v]

\* Below SYS_LOW_VOLT_THRESH, running, at the recovery threshold, on the dock.
MCSystemVoltages == {119, 150, 171, 173}

\* Disconnected, below the override, due for a charge, charged, and unequal.
MCBatteryVoltages ==
  {Level(79), Level(145), Level(159), Level(160), [Level(160) EXCEPT ![280] = 157]}
=============================================================================
