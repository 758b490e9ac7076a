----------------------------- MODULE MotorDrive -----------------------------
(***************************************************************************)
(* The motor task of the ARM firmware, src/firmware/arm/lib_motor.c.       *)
(*                                                                         *)
(* The task owns the speed of the three wheels.  Every caller (the machine *)
(* interface, the serial console, the recharger) changes it through        *)
(* motor_set_speed, motor_set_speed_slew, motor_set_speed_xytheta or       *)
(* motor_set_voltage; motor_event runs once per tick of the event loop,    *)
(* enforces the command timeout, advances the slew to the final speed and  *)
(* queues one SPI packet per motor controller.  All of it runs in the main *)
(* loop, so a call and a tick never overlap: each is one action.           *)
(***************************************************************************)
EXTENDS Integers

CONSTANTS
  MOTOR_MAX_SPEED,   (* 100: the speed a command is clamped to             *)
  MOTOR_TIMEOUT,     (* 50: ticks without a command before the motors stop *)
  MOTOR_SLEW_RATE,   (* 1: slew steps per unit of speed                    *)
  SlewCommands,      (* wheel speeds given to motor_set_speed_slew         *)
  XYThetaCommands,   (* velocities given to motor_set_speed_xytheta        *)
  VoltageCommands,   (* duty cycles given to motor_set_voltage             *)
  SpeedCommands,     (* speeds given to motor_set_speed                    *)
  Mixes,             (* the sets of kinds of command the callers may use   *)
  PowerReplies       (* what power_rx_data may hold when a tick reads it     *)

Motor == 0 .. 2      \* MOTOR_NUM_MOTORS = 3
Vector == [Motor -> Int]

ASSUME SpeedAssumption == MOTOR_MAX_SPEED \in 1 .. 127
ASSUME TimeoutAssumption == MOTOR_TIMEOUT \in Nat \ {0}
\* motor_slew_steps is an unsigned char and holds up to 2 * MOTOR_MAX_SPEED.
ASSUME SlewAssumption ==
  /\ MOTOR_SLEW_RATE \in Nat \ {0}
  /\ 2 * MOTOR_MAX_SPEED * MOTOR_SLEW_RATE <= 255
ASSUME CommandAssumption ==
  /\ SlewCommands \subseteq Vector
  /\ XYThetaCommands \subseteq Vector
  /\ VoltageCommands \subseteq Vector
  /\ SpeedCommands \subseteq Int

(***************************************************************************)
(* power_rx_data, which the SPI interrupt fills: is its first byte the     *)
(* SPI padding (MOTOR_SPI_PADDING), the bus voltage and the charge state.  *)
(***************************************************************************)
ASSUME PowerAssumption ==
  PowerReplies \subseteq [aligned: BOOLEAN, voltage: 0 .. 255, charge: 0 .. 255]

\* A caller slews (machine interface, recharger), sets raw duty cycles
\* (machine interface, console) or re-initialises the task (console).
Kinds == {"slew", "raw", "init"}
ASSUME MixAssumption == Mixes \subseteq SUBSET Kinds

VARIABLES
  motor,      \* the file-level variables of lib_motor.c
  drive,      \* motor_enabled_drive
  charging,   \* motor_enabled_charging
  sent,       \* what the last motor_event handed to the SPI, LED and error tasks
  used,       \* the kinds of command the callers of this run give
  quiet       \* no caller gives a command any more

vars == <<motor, drive, charging, sent, used, quiet>>

Speeds == -MOTOR_MAX_SPEED .. MOTOR_MAX_SPEED
FIX == 65536         \* motor_speed_float is a 16.16 fixed-point number
Still == [i \in Motor |-> 0]

\* motor_slew_steps, motor_slew_count, motor_speed_float, motor_slew_interval
SlewState == [steps: Nat, count: Nat, float: Vector, interval: Vector]

\* The file-level variables of lib_motor.c; mode 0 is velocity, 1 is voltage.
MotorState ==
  [ speed   : [Motor -> Speeds],
    final   : [Motor -> Speeds],               \* motor_speed_final
    slew    : SlewState,
    mode    : {"velocity", "voltage"},
    timeout : 0 .. MOTOR_TIMEOUT - 1 ]         \* motor_timeout_count

----------------------------------------------------------------------------
(* Arithmetic of the C code *)

Abs(a) == IF a >= 0 THEN a ELSE -a

Clamp(s) == IF s < -MOTOR_MAX_SPEED THEN -MOTOR_MAX_SPEED
            ELSE IF s > MOTOR_MAX_SPEED THEN MOTOR_MAX_SPEED ELSE s

\* Conversion of an int argument to signed char.
SignedChar(n) == ((n + 128) % 256) - 128

\* Division truncates toward zero; dividing by zero, the ARM library's
\* __div0 returns and the quotient is 0.
Quotient(a, n) == IF n = 0 THEN 0
                  ELSE IF a >= 0 THEN a \div n ELSE -((-a) \div n)

Largest(v) == CHOOSE n \in {Abs(v[i]) : i \in Motor} :
                \A i \in Motor : Abs(v[i]) <= n

(***************************************************************************)
(* Velocities in the robot's frame to wheel speeds, scaled down together   *)
(* when a wheel would exceed the maximum (XSC100 .. TSC340).               *)
(***************************************************************************)
XSC == [i \in Motor |-> IF i = 0 THEN -1008 ELSE IF i = 1 THEN 658 ELSE 350]
YSC == [i \in Motor |-> IF i = 0 THEN 178 ELSE IF i = 1 THEN 784 ELSE -962]
TSC == 1096

WheelSpace(v) ==
  LET wheel == [i \in Motor |->
                  Quotient(v[0] * XSC[i] + v[1] * YSC[i] + v[2] * TSC, 1024)]
      max == Largest(wheel)
  IN  IF max > MOTOR_MAX_SPEED
      THEN [i \in Motor |-> Quotient(wheel[i] * MOTOR_MAX_SPEED, max)]
      ELSE wheel

----------------------------------------------------------------------------
(* The functions of lib_motor.c, from a motor state to the next one *)

\* The ramp from speed s to target.
NewSlew(s, target) ==
  LET delta == [i \in Motor |-> target[i] - s[i]]
      steps == Largest(delta) * MOTOR_SLEW_RATE
  IN  [ steps    |-> steps,
        count    |-> 0,
        float    |-> [i \in Motor |-> s[i] * FIX],
        interval |-> [i \in Motor |-> Quotient(delta[i] * FIX, steps)] ]

\* Mutant: the command is not clamped.
SlewUnclamped(m, command) ==
  [ speed |-> m.speed, final |-> command, slew |-> NewSlew(m.speed, command),
    mode |-> "velocity", timeout |-> 0 ]

\* A command equal to the final speed of the previous slew starts no slew.
motor_set_speed_slew(m, command) ==
  LET target == [i \in Motor |-> Clamp(command[i])]
  IN  [ speed   |-> m.speed,
        final   |-> target,
        slew    |-> IF target = m.final THEN m.slew ELSE NewSlew(m.speed, target),
        mode    |-> "velocity",
        timeout |-> 0 ]

motor_set_speed_xytheta(m, v) == motor_set_speed_slew(m, WheelSpace(v))

\* Unlike the other setters, it leaves the timeout counter alone.
motor_set_speed(m, i, s) ==
  [ speed   |-> [j \in Motor |-> IF j = i THEN Clamp(SignedChar(s)) ELSE m.speed[j]],
    final   |-> m.final,
    slew    |-> m.slew,
    mode    |-> "voltage",
    timeout |-> m.timeout ]

\* Three calls of motor_set_speed; the state of a slew is not touched.
motor_set_voltage(m, v) ==
  [ speed   |-> [i \in Motor |-> Clamp(SignedChar(v[i]))],
    final   |-> m.final,
    slew    |-> m.slew,
    mode    |-> "voltage",
    timeout |-> 0 ]

----------------------------------------------------------------------------
(* motor_event, in the order of its statements *)

\* Mutant: the timeout slews to rest whatever the mode.
CommandTimeoutSlews(m) ==
  IF m.timeout + 1 = MOTOR_TIMEOUT THEN motor_set_speed_slew(m, Still)
  ELSE [m EXCEPT !.timeout = @ + 1]

\* Mutant: the timeout cuts the speed whatever the mode.
CommandTimeoutCuts(m) ==
  IF m.timeout + 1 = MOTOR_TIMEOUT THEN [m EXCEPT !.speed = Still, !.timeout = 0]
  ELSE [m EXCEPT !.timeout = @ + 1]

\* Both setters reset the timeout counter, as motor_event does once more.
CommandTimeout(m) ==
  IF m.timeout + 1 = MOTOR_TIMEOUT
  THEN IF m.mode = "velocity" THEN motor_set_speed_slew(m, Still)
                              ELSE motor_set_voltage(m, Still)
  ELSE [m EXCEPT !.timeout = @ + 1]

\* One tick of the ramp, and the speed read off its integer part.
Ramped(slew) ==
  [ steps    |-> slew.steps,
    count    |-> slew.count + 1,
    float    |-> [i \in Motor |-> slew.float[i] + slew.interval[i]],
    interval |-> slew.interval ]

IntegerPart(slew) == [i \in Motor |-> slew.float[i] \div FIX]

Moved(m, speed, slew) ==
  [ speed |-> speed, final |-> m.final, slew |-> slew, mode |-> m.mode,
    timeout |-> m.timeout ]

\* Mutant: the last jump to the final speed is missing.
SlewStepNoJump(m) ==
  IF m.slew.count < m.slew.steps
  THEN Moved(m, IntegerPart(Ramped(m.slew)), Ramped(m.slew))
  ELSE IF m.slew.count = m.slew.steps
  THEN Moved(m, m.speed, [m.slew EXCEPT !.count = @ + 1])
  ELSE m

\* Mutant: one increment too many.
SlewStepTooLong(m) ==
  IF m.slew.count <= m.slew.steps
  THEN Moved(m, IntegerPart(Ramped(m.slew)), Ramped(m.slew))
  ELSE Moved(m, m.final, m.slew)

\* After the last increment one more tick jumps to the final speed.
SlewStep(m) ==
  IF m.slew.count < m.slew.steps
  THEN Moved(m, IntegerPart(Ramped(m.slew)), Ramped(m.slew))
  ELSE IF m.slew.count = m.slew.steps
  THEN Moved(m, m.final, [m.slew EXCEPT !.count = @ + 1])
  ELSE m

\* POWER_CHARGE_NOT_CHARGING is 0 and POWER_CHARGE_COMPLETE is 11.
IsCharging(power_rx) == power_rx.charge \notin {0, 11}

\* A bus voltage of 0 is a communication error and is sent as 255.
Packets(m, power_rx) ==
  [ mode       |-> m.mode,
    speed      |-> IF ~drive \/ IsCharging(power_rx) THEN Still ELSE m.speed,
    voltage    |-> IF power_rx.voltage = 0 THEN 255 ELSE power_rx.voltage,
    no_charge  |-> ~charging,
    leds       |-> IsCharging(power_rx),             \* leddrive_chargestatus is called
    misaligned |-> ~power_rx.aligned ]     \* ERR_POWER_ALIGN is set

motor_event ==
  /\ motor' = SlewStep(CommandTimeout(motor))
  /\ \E power_rx \in PowerReplies : sent' = Packets(motor', power_rx)
  /\ UNCHANGED <<drive, charging, used, quiet>>

----------------------------------------------------------------------------
(* The callers *)

Calls(kind) == ~quiet /\ kind \in used
CallerOnly == UNCHANGED <<drive, charging, sent, used, quiet>>

Slew ==
  /\ Calls("slew")
  /\ \E c \in SlewCommands : motor' = motor_set_speed_slew(motor, c)
  /\ CallerOnly

XYTheta ==
  /\ Calls("slew")
  /\ \E v \in XYThetaCommands : motor' = motor_set_speed_xytheta(motor, v)
  /\ CallerOnly

Voltage ==
  /\ Calls("raw")
  /\ \E v \in VoltageCommands : motor' = motor_set_voltage(motor, v)
  /\ CallerOnly

\* The console passes any motor number; 3 stands for those out of range.
Speed ==
  /\ Calls("raw")
  /\ \E i \in 0 .. 3, s \in SpeedCommands : motor' = motor_set_speed(motor, i, s)
  /\ CallerOnly

\* motor_init, at boot and again by the console's "pid init": a slew is
\* abandoned; speed, final speed, mode and timeout keep their values.
motor_init ==
  /\ Calls("init")
  /\ motor' = Moved(motor, motor.speed,
                    [ steps |-> 0, count |-> 1, float |-> motor.slew.float,
                      interval |-> motor.slew.interval ])
  /\ drive' = TRUE
  /\ charging' = FALSE
  /\ UNCHANGED <<sent, used, quiet>>

\* motor_enable_drive and motor_disable_drive.
SetDrive ==
  /\ drive' = ~drive
  /\ UNCHANGED <<motor, charging, sent, used, quiet>>

\* motor_enable_charging and motor_disable_charging.
SetCharging ==
  /\ ~quiet
  /\ charging' = ~charging
  /\ UNCHANGED <<motor, drive, sent, used, quiet>>

\* The computer on the robot dies or the serial line is cut.
CallersStop ==
  /\ quiet' = TRUE
  /\ quiet' # quiet
  /\ UNCHANGED <<motor, drive, charging, sent, used>>

----------------------------------------------------------------------------
\* The C variables start as zero; motor_init has run once at boot.
Init ==
  /\ motor = [ speed |-> Still, final |-> Still,
               slew |-> [steps |-> 0, count |-> 1, float |-> Still, interval |-> Still],
               mode |-> "velocity", timeout |-> 0 ]
  /\ drive = TRUE
  /\ charging = FALSE
  /\ sent = [mode |-> "velocity", speed |-> Still, voltage |-> 255, no_charge |-> FALSE,
             leds |-> FALSE, misaligned |-> FALSE]
  /\ used \in Mixes
  /\ quiet = FALSE

Next ==
  \/ motor_event
  \/ Slew
  \/ XYTheta
  \/ Voltage
  \/ Speed
  \/ motor_init
  \/ SetDrive
  \/ SetCharging
  \/ CallersStop

\* events_do calls every started task on each timer interrupt, so the tick
\* comes again and again; nothing else is promised.
Spec == Init /\ [][Next]_vars /\ WF_vars(motor_event)

----------------------------------------------------------------------------
(* Properties *)

TypeOK ==
  /\ motor \in MotorState
  /\ drive \in BOOLEAN
  /\ charging \in BOOLEAN
  /\ sent \in [mode: {"velocity", "voltage"}, speed: [Motor -> Speeds], voltage: 1 .. 255,
               no_charge: BOOLEAN, leds: BOOLEAN, misaligned: BOOLEAN]
  /\ used \in Mixes
  /\ quiet \in BOOLEAN

AllStill == motor.speed = Still
Slewing == motor.slew.count <= motor.slew.steps
OnlySlews == used = {"slew"}
OnlyRaw == used = {"raw"}

\* When every command is a slew, a motor that has finished its slew runs at
\* exactly the commanded final speed: the fixed-point ramp of motor_event
\* leaves no residue, whatever commands, timeouts and repeats interleave.
SlewEndsAtFinal ==
  OnlySlews /\ ~Slewing => motor.speed = motor.final

\* With slews only, no wheel's speed moves by more than one unit from a tick
\* to the next, neither on the ramp nor in its last jump to the final speed
\* nor when a command or the timeout replaces a slew halfway (lib_motor.h
\* promises "a slew-rate limit on the change").
SlewRateLimited ==
  [][OnlySlews => \A i \in Motor : Abs(motor'.speed[i] - motor.speed[i]) <= 1]_vars

\* While a slew runs, the speed never overshoots: it stays between the speed
\* the slew has reached and the final speed.
NoOvershoot ==
  [][OnlySlews /\ Slewing /\ motor'.final = motor.final
       => \A i \in Motor : Abs(motor.final[i] - motor'.speed[i])
                             <= Abs(motor.final[i] - motor.speed[i])]_vars

\* "Stop moving if we haven't received a command for a while": once the
\* callers are silent the wheels come to rest and stay so, when the callers
\* used velocity commands only or raw commands only.
QuietOneKindStops ==
  (quiet /\ (OnlySlews \/ OnlyRaw)) ~> [](OnlySlews \/ OnlyRaw => AllStill)

\* The same sentence of lib_motor.c without the restriction.
QuietStops == quiet ~> []AllStill
=============================================================================
