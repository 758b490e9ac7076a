------------------------------ MODULE AvrMotor ------------------------------
(***************************************************************************)
(* One motor controller, src/firmware/avr/CritterbotAVRMotor: the SPI      *)
(* interrupt that takes the packets of the ARM apart, and the control loop *)
(* that turns the set point into the duty cycles of the H-bridge once per  *)
(* timer event.                                                            *)
(*                                                                         *)
(* The ARM sends packets of five bytes (header, set point, bus voltage and *)
(* two zeroes); the two boards start and restart independently, so the     *)
(* controller's place in a packet need not be the ARM's.  The interrupt    *)
(* runs between any two steps of the loop.                                 *)
(***************************************************************************)
EXTENDS Integers

CONSTANTS
  BYTE,                  (* 256: values of an unsigned byte                *)
  SPI_PACKET_HEADER,     (* 0x7A: a packet whose set point is a speed      *)
  SPI_PWM_HEADER,        (* 0x7B: a packet whose set point is a duty cycle *)
  SetPoints,             (* the set points the ARM commands                *)
  Voltages,              (* the bus voltages the ARM reports               *)
  COMMAND_TIMEOUT,       (* 60: events without a set point                 *)
  MAX_VOLTAGE,           (* 127: the largest duty cycle                    *)
  MAX_SETPOINT,          (* 100: MAX_VOLTAGE_SETPOINT and the PID's range  *)
  RATED_VOLTAGE,         (* 120: up to here the full duty cycle is allowed *)
  MAX_MOVE_VOLTAGE,      (* 185: above it the motor does not move          *)
  I_LIMIT,               (* 30: the current limit                          *)
  I_LIMIT_MIN,           (* 2: the current limit of a stalled motor        *)
  I_LIMIT_RATE,          (* 6: stalled events per step of the limit        *)
  IN_LIMIT_MAX,          (* 255: where the count of stalled events stops   *)
  Currents,              (* the currents the converter may read            *)
  Clicks,                (* the encoder clicks of one event                *)
  PidOutputs             (* what the PID may compute, bounded to 127 by    *)
                         (* MAX_FIXED_POINT_OUTPUT                         *)

ASSUME ByteAssumption ==
  /\ BYTE \in Nat \ {0}
  /\ SPI_PACKET_HEADER \in 0 .. BYTE - 1
  /\ SPI_PWM_HEADER \in 0 .. BYTE - 1
  /\ Voltages \in SUBSET (0 .. BYTE - 1)
ASSUME RangeAssumption ==
  /\ MAX_VOLTAGE \in Nat \ {0}
  /\ MAX_SETPOINT \in 1 .. MAX_VOLTAGE
  /\ SetPoints \in SUBSET (-MAX_SETPOINT .. MAX_SETPOINT)
  /\ 2 * MAX_SETPOINT < BYTE
  /\ COMMAND_TIMEOUT \in Nat
\* No byte of a set point, and no zero, looks like a header.
ASSUME HeaderAssumption ==
  \A header \in {SPI_PACKET_HEADER, SPI_PWM_HEADER} :
    MAX_SETPOINT < header /\ header < BYTE - MAX_SETPOINT
ASSUME LimitAssumption ==
  /\ RATED_VOLTAGE \in Nat
  /\ MAX_MOVE_VOLTAGE \in Nat
  /\ RATED_VOLTAGE <= MAX_MOVE_VOLTAGE
  /\ MAX_VOLTAGE >= ((MAX_MOVE_VOLTAGE - RATED_VOLTAGE) * 3) \div 4
  /\ I_LIMIT \in Nat
  /\ I_LIMIT_MIN \in Nat
  /\ I_LIMIT_RATE \in Nat \ {0}
  /\ IN_LIMIT_MAX \in Nat \ {0}
  /\ Currents \in SUBSET Nat
  /\ Clicks \in SUBSET Int
  /\ PidOutputs \in SUBSET (-MAX_VOLTAGE .. MAX_VOLTAGE)

VARIABLES
  pos,           \* the byte of its packet the ARM sends next
  rstate,        \* the byte of a packet the interrupt expects
  motor_mode,    \* 0: the set point is a speed, 1: it is a duty cycle
  motor_setpoint,
  v_now,         \* the bus voltage
  event_count,   \* events since the last set point
  limiter,       \* voltage_limit and the statics of current_limit
  pc,            \* the next step of the control loop
  command,       \* the local variable of main
  last_voltage,  \* the static of set_voltage
  ocr,           \* OCR0A and OCR0B, the duty cycles of the high sides
  low,           \* the pins that switch the low side of the two legs
  good,          \* packets whose voltage byte was no header, since the last
                 \* ARM restart or the last voltage that looks like a header
  stopped        \* the ARM sends no more packets

link == <<pos, rstate, motor_mode, v_now, good>>
bridge == <<last_voltage, ocr, low>>
vars == <<pos, rstate, motor_mode, motor_setpoint, v_now, event_count,
          limiter, pc, command, last_voltage, ocr, low, good, stopped>>

Headers == {SPI_PACKET_HEADER, SPI_PWM_HEADER}
Abs(x) == IF x < 0 THEN -x ELSE x
Lesser(x, y) == IF x < y THEN x ELSE y

\* The cast to int8_t of a byte, and the byte of a signed set point.
Signed(byte) == IF 2 * byte >= BYTE THEN byte - BYTE ELSE byte
Unsigned(x) == IF x < 0 THEN x + BYTE ELSE x

\* Enough whole packets for the interrupt to be in step again.
InStep == 2
-----------------------------------------------------------------------------
(***************************************************************************)
(* The SPI link.                                                           *)
(***************************************************************************)

\* What the ARM may send as byte i of a packet.
ArmBytes(i) ==
  CASE i = 0 -> Headers
    [] i = 1 -> {Unsigned(s) : s \in SetPoints}
    [] i = 2 -> Voltages
    [] OTHER -> {0}

\* Mutant: any byte starts a packet.
SPI_STC_AnyHeader(byte) ==
  /\ rstate' = (rstate + 1) % 5
  /\ motor_mode' = IF rstate = 0 /\ byte = SPI_PACKET_HEADER THEN 0
                   ELSE IF rstate = 0 THEN 1 ELSE motor_mode
  /\ motor_setpoint' = IF rstate = 1 THEN Signed(byte) ELSE motor_setpoint
  /\ event_count' = IF rstate = 1 THEN 0 ELSE event_count
  /\ v_now' = IF rstate = 2 THEN byte ELSE v_now

\* The SPI interrupt with the byte it reads.
SPI_STC(byte) ==
  /\ rstate' = IF rstate = 0 /\ byte \notin Headers THEN 0
               ELSE (rstate + 1) % 5
  /\ motor_mode' = IF rstate = 0 /\ byte = SPI_PACKET_HEADER THEN 0
                   ELSE IF rstate = 0 /\ byte = SPI_PWM_HEADER THEN 1
                   ELSE motor_mode
  /\ motor_setpoint' = IF rstate = 1 THEN Signed(byte) ELSE motor_setpoint
  /\ event_count' = IF rstate = 1 THEN 0 ELSE event_count
  /\ v_now' = IF rstate = 2 THEN byte ELSE v_now

\* The ARM sends its next byte.
Byte ==
  /\ ~stopped
  /\ \E byte \in ArmBytes(pos) :
       /\ SPI_STC(byte)
       /\ good' = IF pos # 2 THEN good
                  ELSE IF byte \in Headers THEN 0 ELSE Lesser(good + 1, InStep)
  /\ pos' = (pos + 1) % 5
  /\ UNCHANGED <<limiter, pc, command, bridge, stopped>>

\* The ARM restarts within a packet; the controller does not notice.  Bound:
\* a restart takes longer than the packets it takes to be in step again.  It
\* touches nothing the control loop reads, so it is taken between two events.
ArmRestart ==
  /\ ~stopped
  /\ pos # 0 /\ good = InStep /\ pc = "wait"
  /\ pos' = 0
  /\ good' = 0
  /\ UNCHANGED <<rstate, motor_mode, motor_setpoint, v_now, event_count,
                 limiter, pc, command, bridge, stopped>>

\* The ARM stops: no byte follows.
ArmStops ==
  /\ ~stopped
  /\ stopped' = TRUE
  /\ UNCHANGED <<link, motor_setpoint, event_count, limiter, pc, command, bridge>>
-----------------------------------------------------------------------------
(***************************************************************************)
(* The control loop.                                                       *)
(***************************************************************************)

\* A timer event starts the body of the loop.
Event ==
  /\ pc = "wait"
  /\ IF event_count > COMMAND_TIMEOUT
     THEN pc' = "expire" /\ UNCHANGED event_count
     ELSE pc' = "limit" /\ event_count' = event_count + 1
  /\ UNCHANGED <<link, motor_setpoint, limiter, command, bridge, stopped>>

\* No set point for too long.  A set point that arrives after the test is
\* overwritten.
Expire ==
  /\ pc = "expire"
  /\ motor_setpoint' = 0
  /\ event_count' = 0
  /\ pc' = "limit"
  /\ UNCHANGED <<link, limiter, command, bridge, stopped>>

\* Mutant: the correction is not kept from going negative.
CorrectedNegative(current, magnitude) ==
  IF current > I_LIMIT THEN Lesser(limiter.correction + 1, magnitude - 1)
  ELSE IF limiter.correction > 0 THEN limiter.correction - 1 ELSE 0

\* Mutant: the correction eases off only while there is a set point.
CorrectedStays(current, magnitude) ==
  IF current > I_LIMIT /\ magnitude > 0
  THEN Lesser(limiter.correction + 1, magnitude - 1)
  ELSE IF limiter.correction > 0 /\ magnitude > 0 THEN limiter.correction - 1
  ELSE limiter.correction

\* The correction of an over-current, for the magnitude of a set point.
Corrected(current, magnitude) ==
  IF current > I_LIMIT
  THEN LET c == Lesser(limiter.correction + 1, magnitude - 1)
       IN IF c < 0 THEN 0 ELSE c
  ELSE IF limiter.correction > 0 THEN limiter.correction - 1 ELSE 0

\* The count of events in which the motor had a set point and did not turn.
Stalled(clicks) ==
  IF motor_setpoint = 0 THEN limiter.in_limit
  ELSE IF clicks = 0 THEN Lesser(limiter.in_limit + 1, IN_LIMIT_MAX)
  ELSE IF limiter.in_limit > 0 THEN limiter.in_limit - 1 ELSE 0

\* The largest duty cycle at the present bus voltage.
MaxVolt ==
  IF v_now <= RATED_VOLTAGE THEN MAX_VOLTAGE
  ELSE IF v_now > MAX_MOVE_VOLTAGE THEN 0
  ELSE MAX_VOLTAGE - ((v_now - RATED_VOLTAGE) * 3) \div 4

\* voltage_limit: down while the motor is stalled and draws current, up else.
Throttled(reduce) ==
  LET count == limiter.count + 1
      limit == limiter.voltage_limit
  IN IF reduce
     THEN [count |-> IF count >= I_LIMIT_RATE THEN 0 ELSE count,
           limit |-> IF count >= I_LIMIT_RATE /\ limit > 1 THEN limit - 1 ELSE limit]
     ELSE [count |-> limiter.count,
           limit |-> Lesser(limit + 1, MAX_VOLTAGE)]

\* current_limit: keeps the limits and reduces the set point.
current_limit(current, clicks) ==
  LET stalled == Stalled(clicks)
      throttled == Throttled(stalled > 0 /\ current > I_LIMIT_MIN)
  IN limiter' = [correction |-> Corrected(current, Abs(motor_setpoint)),
                 in_limit |-> stalled,
                 count |-> throttled.count,
                 voltage_limit |-> Lesser(throttled.limit, MaxVolt)]

\* The set point it returns: the magnitude less the correction, which an
\* earlier and larger set point may have left larger than the magnitude.
Reduced(correction) ==
  (Abs(motor_setpoint) - correction) * (IF motor_setpoint > 0 THEN 1 ELSE -1)

\* soft_pid_control: nothing for a set point that is zero or out of range,
\* else whatever the controller computes.
soft_pid_control(setpoint) ==
  IF Abs(setpoint) > MAX_SETPOINT \/ setpoint = 0 THEN {0}
  ELSE PidOutputs

\* The first half of the body: the limits, and the PID in speed mode.
Limit ==
  /\ pc = "limit"
  /\ \E current \in Currents, clicks \in Clicks : current_limit(current, clicks)
  /\ LET setpoint == Reduced(limiter'.correction)
     IN command' \in IF motor_mode = 0 THEN soft_pid_control(setpoint) ELSE {setpoint}
  /\ pc' = "drive"
  /\ UNCHANGED <<link, motor_setpoint, event_count, bridge, stopped>>

\* speed_limit.
speed_limit(setpoint) ==
  IF setpoint > MAX_SETPOINT THEN MAX_SETPOINT
  ELSE IF setpoint < -MAX_SETPOINT THEN -MAX_SETPOINT ELSE setpoint

\* Mutant: only forward voltages are bounded.
BoundedForward(voltage) == Lesser(voltage, limiter.voltage_limit)

\* The voltage set_voltage applies: within the limit.
Bounded(voltage) ==
  LET limit == limiter.voltage_limit
  IN IF voltage > limit THEN limit ELSE IF voltage < -limit THEN -limit ELSE voltage

\* Mutant: no dead event.
SignNeverChanges(voltage) == FALSE

SignChanges(voltage) == (voltage >= 0) # (last_voltage >= 0)

\* set_voltage: one event without drive when the sign changes.
set_voltage(voltage) ==
  /\ last_voltage' = voltage
  /\ IF SignChanges(voltage)
     THEN ocr' = [A |-> 0, B |-> 0] /\ low' = {}
     ELSE /\ ocr' = [A |-> IF voltage < 0 THEN -voltage ELSE 0,
                     B |-> IF voltage > 0 THEN voltage ELSE 0]
          /\ low' = IF voltage < 0 THEN {"B"} ELSE IF voltage > 0 THEN {"A"} ELSE {}

\* The second half: the speed limit in duty cycle mode (the mode is read
\* again), and the H-bridge.
Drive ==
  /\ pc = "drive"
  /\ set_voltage(Bounded(IF motor_mode = 1 THEN speed_limit(command) ELSE command))
  /\ command' = 0
  /\ pc' = "wait"
  /\ UNCHANGED <<link, motor_setpoint, event_count, limiter, stopped>>
-----------------------------------------------------------------------------
\* The controller starts anywhere in the ARM's packet; its registers and
\* statics are those of a reset and of motor_init.
Init ==
  /\ pos \in 0 .. 4
  /\ rstate = 0
  /\ motor_mode = 0
  /\ motor_setpoint = MAX_SETPOINT + 1
  /\ v_now = BYTE - 1
  /\ event_count = COMMAND_TIMEOUT + 1
  /\ limiter = [correction |-> 0, in_limit |-> 0, count |-> 0, voltage_limit |-> 0]
  /\ pc = "wait"
  /\ command = 0
  /\ last_voltage = 0
  /\ ocr = [A |-> 0, B |-> 0]
  /\ low = {}
  /\ good = 0
  /\ stopped = FALSE

Control == Event \/ Expire \/ Limit \/ Drive
Next == Byte \/ ArmRestart \/ ArmStops \/ Control

\* The timer runs and the loop's body ends; nothing obliges the ARM to send.
Fairness == WF_vars(Control)
Spec == Init /\ [][Next]_vars /\ Fairness
-----------------------------------------------------------------------------
(***************************************************************************)
(* Properties.                                                             *)
(***************************************************************************)

TypeOK ==
  /\ pos \in 0 .. 4 /\ rstate \in 0 .. 4
  /\ motor_mode \in 0 .. 1
  /\ motor_setpoint \in Int
  /\ v_now \in 0 .. BYTE - 1
  /\ event_count \in 0 .. COMMAND_TIMEOUT + 1
  /\ limiter.voltage_limit \in 0 .. MAX_VOLTAGE
  /\ limiter.correction \in Nat
  /\ limiter.in_limit \in 0 .. IN_LIMIT_MAX
  /\ limiter.count \in 0 .. I_LIMIT_RATE - 1
  /\ pc \in {"wait", "expire", "limit", "drive"}
  /\ command \in Int
  /\ last_voltage \in -MAX_VOLTAGE .. MAX_VOLTAGE
  /\ ocr \in [{"A", "B"} -> 0 .. MAX_VOLTAGE]
  /\ low \in SUBSET {"A", "B"}
  /\ good \in 0 .. InStep
  /\ stopped \in BOOLEAN

\* "Turning on both the high and low side drivers on the same leg at the same
\* time will cause a nasty short": a leg whose low side is on, before or after
\* a write, has no duty cycle before it (the timer generates the old one until
\* its next top) and none after it.
NoShootThrough ==
  [][\A leg \in low \cup low' : ocr[leg] = 0 /\ ocr'[leg] = 0]_vars

\* Wherever the two boards start or restart, two packets whose voltage byte
\* does not look like a header put the interrupt in step with the ARM, and the
\* set point in force is then one the ARM commanded, or a stop.
Resynchronised ==
  good = InStep => /\ rstate = pos
                   /\ motor_setpoint \in SetPoints \cup {0}

\* No drive is applied: both legs are off.
Off == ocr = [A |-> 0, B |-> 0] /\ low = {}

\* A motor whose ARM has stopped comes to rest: the timeout clears the set
\* point, and the correction an over-current left behind, which drives the
\* motor on at a set point of 0, runs out.
SilenceStops == stopped ~> [](Off)

\* Above MAX_MOVE_VOLTAGE the motor does not move, whatever is commanded.
OverVoltageStops == v_now > MAX_MOVE_VOLTAGE ~> Off \/ v_now <= MAX_MOVE_VOLTAGE
=============================================================================
