--------------------------- MODULE AvrMotorProofs ---------------------------
(***************************************************************************)
(* Proofs about AvrMotor, for every packet format, timeout, limit and set  *)
(* of readings the assumptions allow.                                      *)
(***************************************************************************)
EXTENDS AvrMotor, TLAPS

\* The statics of current_limit, as one record.
LimiterType ==
  limiter \in [correction : Nat, in_limit : 0 .. IN_LIMIT_MAX,
               count : 0 .. I_LIMIT_RATE - 1, voltage_limit : 0 .. MAX_VOLTAGE]

\* The bridge follows the sign of the last voltage.
BridgeInv ==
  /\ ocr.A > 0 => last_voltage < 0
  /\ ocr.B > 0 => last_voltage > 0
  /\ "A" \in low => last_voltage > 0
  /\ "B" \in low => last_voltage < 0

\* How far the interrupt can be out of step.  No set point looks like a
\* header, so it never expects a set point where the ARM sends a voltage.  A
\* voltage that is no header leaves it in step, or two packet ends away.
StepInv ==
  /\ pos = 2 => rstate # 1
  /\ good = 1 =>
       /\ pos = 3 => rstate \in {3, 4, 0}
       /\ pos = 4 => rstate \in {4, 0}
       /\ pos \in 0 .. 2 => rstate = pos
  /\ good = 2 => rstate = pos
  /\ good = 2 \/ (good = 1 /\ pos = 2) => motor_setpoint \in SetPoints \cup {0}

IInv == TypeOK /\ LimiterType /\ BridgeInv /\ StepInv

USE DEF InStep
----------------------------------------------------------------------------
LEMMA Bytes ==
  ASSUME NEW i \in 0 .. 4, NEW byte \in ArmBytes(i)
  PROVE  /\ byte \in 0 .. BYTE - 1
         /\ Signed(byte) \in Int
         /\ i = 0 => byte \in Headers
         /\ i = 1 => byte \notin Headers /\ Signed(byte) \in SetPoints
         /\ i \in 3 .. 4 => byte \notin Headers
<1>1. CASE i = 1
  <2>1. PICK s \in SetPoints : byte = Unsigned(s)
    BY <1>1 DEF ArmBytes
  <2>2. s \in -MAX_SETPOINT .. MAX_SETPOINT
    BY RangeAssumption
  <2>3. Signed(byte) = s
    BY <2>1, <2>2, ByteAssumption, RangeAssumption DEF Signed, Unsigned
  <2>4. byte \in 0 .. BYTE - 1 /\ byte \notin Headers
    BY <2>1, <2>2, ByteAssumption, RangeAssumption, HeaderAssumption DEF Unsigned, Headers
  <2> QED BY <1>1, <2>2, <2>3, <2>4, RangeAssumption
<1>2. CASE i = 0
  BY <1>2, ByteAssumption DEF ArmBytes, Headers, Signed
<1>3. CASE i = 2
  BY <1>3, ByteAssumption DEF ArmBytes, Signed
<1>4. CASE i \in 3 .. 4
  BY <1>4, ByteAssumption, HeaderAssumption, RangeAssumption DEF ArmBytes, Signed, Headers
<1> QED BY <1>1, <1>2, <1>3, <1>4

\* The interrupt and the place of the ARM in its packet.
LEMMA StepOfByte ==
  ASSUME IInv, Byte
  PROVE  /\ pos' \in 0 .. 4 /\ rstate' \in 0 .. 4 /\ motor_mode' \in 0 .. 1
         /\ motor_setpoint' \in Int /\ v_now' \in 0 .. BYTE - 1
         /\ event_count' \in 0 .. COMMAND_TIMEOUT + 1 /\ good' \in 0 .. 2
         /\ StepInv'
<1>1. PICK byte \in ArmBytes(pos) :
        /\ SPI_STC(byte)
        /\ good' = IF pos # 2 THEN good
                   ELSE IF byte \in Headers THEN 0 ELSE Lesser(good + 1, InStep)
  BY DEF Byte
<1>2. pos' = (pos + 1) % 5 /\ pos \in 0 .. 4 /\ rstate \in 0 .. 4 /\ good \in 0 .. 2
  BY DEF Byte, IInv, TypeOK
<1>3. /\ byte \in 0 .. BYTE - 1
      /\ Signed(byte) \in Int
      /\ pos = 0 => byte \in Headers
      /\ pos = 1 => byte \notin Headers /\ Signed(byte) \in SetPoints
      /\ pos \in 3 .. 4 => byte \notin Headers
  BY <1>1, <1>2, Bytes
<1>4. pos' = IF pos = 4 THEN 0 ELSE pos + 1
  BY <1>2
<1>5. rstate' = IF (rstate = 0 /\ byte \notin Headers) \/ rstate = 4 THEN 0 ELSE rstate + 1
  BY <1>1, <1>2 DEF SPI_STC
<1>6. /\ motor_setpoint' = IF rstate = 1 THEN Signed(byte) ELSE motor_setpoint
      /\ v_now' = IF rstate = 2 THEN byte ELSE v_now
      /\ event_count' = IF rstate = 1 THEN 0 ELSE event_count
      /\ motor_mode' \in {0, 1, motor_mode}
  BY <1>1 DEF SPI_STC
<1>7. good' = IF pos # 2 THEN good ELSE IF byte \in Headers THEN 0
              ELSE IF good = 0 THEN 1 ELSE 2
  BY <1>1, <1>2 DEF Lesser
<1>8. StepInv'
  <2>1. StepInv
    BY DEF IInv
  <2>2. CASE pos = 0
    BY <2>1, <2>2, <1>2, <1>3, <1>4, <1>5, <1>6, <1>7 DEF StepInv
  <2>3. CASE pos = 1
    BY <2>1, <2>3, <1>2, <1>3, <1>4, <1>5, <1>6, <1>7 DEF StepInv
  <2>4. CASE pos = 2
    BY <2>1, <2>4, <1>2, <1>3, <1>4, <1>5, <1>6, <1>7 DEF StepInv
  <2>5. CASE pos = 3
    BY <2>1, <2>5, <1>2, <1>3, <1>4, <1>5, <1>6, <1>7 DEF StepInv
  <2>6. CASE pos = 4
    BY <2>1, <2>6, <1>2, <1>3, <1>4, <1>5, <1>6, <1>7 DEF StepInv
  <2> QED BY <1>2, <2>2, <2>3, <2>4, <2>5, <2>6
<1> QED BY <1>2, <1>3, <1>4, <1>5, <1>6, <1>7, <1>8, RangeAssumption DEF IInv, TypeOK
----------------------------------------------------------------------------
LEMMA MaxVoltBound ==
  ASSUME v_now \in Nat
  PROVE  MaxVolt \in 0 .. MAX_VOLTAGE
<1>1. CASE v_now > RATED_VOLTAGE /\ v_now <= MAX_MOVE_VOLTAGE
  <2> DEFINE x == (v_now - RATED_VOLTAGE) * 3
             m == (MAX_MOVE_VOLTAGE - RATED_VOLTAGE) * 3
  <2>1. x \in Nat /\ m \in Nat /\ x <= m
    BY <1>1, LimitAssumption
  <2>2. x \div 4 \in Nat /\ x \div 4 <= m \div 4
    BY <2>1
  <2>3. MaxVolt = MAX_VOLTAGE - x \div 4 /\ MAX_VOLTAGE >= m \div 4 /\ m \div 4 \in Nat
    BY <1>1, <2>1, LimitAssumption DEF MaxVolt
  <2> HIDE DEF x, m
  <2> QED BY <2>2, <2>3, RangeAssumption
<1>2. CASE ~(v_now > RATED_VOLTAGE /\ v_now <= MAX_MOVE_VOLTAGE)
  BY <1>2, LimitAssumption, RangeAssumption DEF MaxVolt
<1> QED BY <1>1, <1>2

LEMMA LimiterPreserved ==
  ASSUME IInv, NEW current \in Currents, NEW clicks \in Clicks,
         current_limit(current, clicks)
  PROVE  LimiterType'
<1>1. /\ limiter.correction \in Nat
      /\ limiter.in_limit \in 0 .. IN_LIMIT_MAX
      /\ limiter.count \in 0 .. I_LIMIT_RATE - 1
      /\ limiter.voltage_limit \in 0 .. MAX_VOLTAGE
      /\ motor_setpoint \in Int
      /\ v_now \in Nat
  BY ByteAssumption DEF IInv, TypeOK
<1>2. Abs(motor_setpoint) \in Nat
  BY <1>1 DEF Abs
<1>3. Corrected(current, Abs(motor_setpoint)) \in Nat
  <2> DEFINE a == Abs(motor_setpoint)
  <2>1. a \in Nat
    BY <1>2
  <2> HIDE DEF a
  <2>2. Lesser(limiter.correction + 1, a - 1) \in Int
    BY <1>1, <2>1 DEF Lesser
  <2>3. Corrected(current, a) \in Nat
    BY <1>1, <2>2 DEF Corrected
  <2> QED BY <2>3 DEF a
<1>4. Stalled(clicks) \in 0 .. IN_LIMIT_MAX
  BY <1>1, LimitAssumption DEF Stalled, Lesser
<1>5. ASSUME NEW reduce
      PROVE  /\ Throttled(reduce).count \in 0 .. I_LIMIT_RATE - 1
             /\ Throttled(reduce).limit \in 0 .. MAX_VOLTAGE
  <2>1. limiter.count + 1 \in Nat /\ limiter.voltage_limit \in Nat
    BY <1>1, LimitAssumption
  <2>2. CASE reduce
    BY <1>1, <2>1, <2>2, LimitAssumption, RangeAssumption DEF Throttled, Lesser
  <2>3. CASE ~reduce
    BY <1>1, <2>1, <2>3, LimitAssumption, RangeAssumption DEF Throttled, Lesser
  <2> QED BY <2>2, <2>3
<1>6. MaxVolt \in 0 .. MAX_VOLTAGE
  BY <1>1, MaxVoltBound
<1> DEFINE t == Throttled(Stalled(clicks) > 0 /\ current > I_LIMIT_MIN)
<1>7. t.count \in 0 .. I_LIMIT_RATE - 1 /\ t.limit \in 0 .. MAX_VOLTAGE
  BY <1>5
<1>8. limiter' = [correction |-> Corrected(current, Abs(motor_setpoint)),
                  in_limit |-> Stalled(clicks), count |-> t.count,
                  voltage_limit |-> Lesser(t.limit, MaxVolt)]
  BY DEF current_limit
<1> HIDE DEF t
<1>9. Lesser(t.limit, MaxVolt) \in 0 .. MAX_VOLTAGE
  BY <1>6, <1>7 DEF Lesser
<1> QED BY <1>3, <1>4, <1>7, <1>8, <1>9 DEF LimiterType

LEMMA CommandOfLimit ==
  ASSUME IInv, Limit
  PROVE  LimiterType' /\ command' \in Int
<1>1. PICK current \in Currents, clicks \in Clicks : current_limit(current, clicks)
  BY DEF Limit
<1>2. LimiterType'
  BY <1>1, LimiterPreserved
<1>3. limiter'.correction \in Nat /\ motor_setpoint \in Int
  BY <1>2 DEF LimiterType, IInv, TypeOK
<1>4. Reduced(limiter'.correction) \in Int
  BY <1>3 DEF Reduced, Abs
<1>5. soft_pid_control(Reduced(limiter'.correction)) \subseteq Int
  BY <1>4, RangeAssumption, LimitAssumption DEF soft_pid_control
<1> QED BY <1>2, <1>4, <1>5 DEF Limit
----------------------------------------------------------------------------
LEMMA BoundedRange ==
  ASSUME NEW voltage \in Int, limiter.voltage_limit \in 0 .. MAX_VOLTAGE
  PROVE  Bounded(voltage) \in -MAX_VOLTAGE .. MAX_VOLTAGE
  BY RangeAssumption DEF Bounded

\* What one call of set_voltage does to the bridge, both legs before and after.
LEMMA SetVoltage ==
  ASSUME NEW voltage \in -MAX_VOLTAGE .. MAX_VOLTAGE,
         set_voltage(voltage), BridgeInv,
         last_voltage \in Int,
         ocr \in [{"A", "B"} -> 0 .. MAX_VOLTAGE], low \in SUBSET {"A", "B"}
  PROVE  /\ last_voltage' \in -MAX_VOLTAGE .. MAX_VOLTAGE
         /\ ocr' \in [{"A", "B"} -> 0 .. MAX_VOLTAGE]
         /\ low' \in SUBSET {"A", "B"}
         /\ BridgeInv'
         /\ \A leg \in low \cup low' : ocr[leg] = 0 /\ ocr'[leg] = 0
<1>1. last_voltage' = voltage
  BY DEF set_voltage
<1>2. ocr.A \in Nat /\ ocr.B \in Nat /\ MAX_VOLTAGE \in Nat /\ voltage \in Int
  BY RangeAssumption
<1>3. CASE SignChanges(voltage)
  <2>1. ocr' = [A |-> 0, B |-> 0] /\ low' = {}
    BY <1>3 DEF set_voltage
  <2>2. \A leg \in low : ocr[leg] = 0
    BY <1>2 DEF BridgeInv
  <2> QED BY <1>1, <1>2, <2>1, <2>2 DEF BridgeInv
<1>4. CASE ~SignChanges(voltage)
  <2>1. /\ ocr' = [A |-> IF voltage < 0 THEN -voltage ELSE 0,
                   B |-> IF voltage > 0 THEN voltage ELSE 0]
        /\ low' = IF voltage < 0 THEN {"B"} ELSE IF voltage > 0 THEN {"A"} ELSE {}
    BY <1>4 DEF set_voltage
  <2>2. voltage >= 0 <=> last_voltage >= 0
    BY <1>4 DEF SignChanges
  <2>3. /\ ocr'.A = (IF voltage < 0 THEN -voltage ELSE 0)
        /\ ocr'.B = (IF voltage > 0 THEN voltage ELSE 0)
        /\ ocr' \in [{"A", "B"} -> 0 .. MAX_VOLTAGE]
    BY <1>2, <2>1
  <2>4. BridgeInv'
    BY <1>1, <1>2, <2>1, <2>3 DEF BridgeInv
  <2>5. \A leg \in low : ocr[leg] = 0 /\ ocr'[leg] = 0
    BY <1>2, <2>2, <2>3 DEF BridgeInv
  <2>6. \A leg \in low' : ocr[leg] = 0 /\ ocr'[leg] = 0
    BY <1>2, <2>1, <2>2, <2>3 DEF BridgeInv
  <2> QED BY <1>1, <1>2, <2>1, <2>3, <2>4, <2>5, <2>6
<1> QED BY <1>3, <1>4

LEMMA DriveBridge ==
  ASSUME IInv, Drive
  PROVE  /\ last_voltage' \in -MAX_VOLTAGE .. MAX_VOLTAGE
         /\ ocr' \in [{"A", "B"} -> 0 .. MAX_VOLTAGE]
         /\ low' \in SUBSET {"A", "B"}
         /\ BridgeInv'
         /\ \A leg \in low \cup low' : ocr[leg] = 0 /\ ocr'[leg] = 0
<1> DEFINE request == IF motor_mode = 1 THEN speed_limit(command) ELSE command
<1>1. request \in Int
  BY RangeAssumption DEF IInv, TypeOK, speed_limit
<1>2. Bounded(request) \in -MAX_VOLTAGE .. MAX_VOLTAGE
  BY <1>1, BoundedRange DEF IInv, TypeOK
<1>3. set_voltage(Bounded(request))
  BY DEF Drive
<1> HIDE DEF request
<1>4. /\ BridgeInv /\ last_voltage \in Int
      /\ ocr \in [{"A", "B"} -> 0 .. MAX_VOLTAGE] /\ low \in SUBSET {"A", "B"}
  BY RangeAssumption DEF IInv, TypeOK
<1> QED BY <1>2, <1>3, <1>4, SetVoltage
----------------------------------------------------------------------------
LEMMA InitInv ==
  ASSUME Init
  PROVE  IInv
<1>1. LimiterType
  BY LimitAssumption, RangeAssumption DEF Init, LimiterType
<1>2. TypeOK
  <2>1. /\ limiter.voltage_limit \in 0 .. MAX_VOLTAGE /\ limiter.correction \in Nat
        /\ limiter.in_limit \in 0 .. IN_LIMIT_MAX /\ limiter.count \in 0 .. I_LIMIT_RATE - 1
    BY <1>1 DEF LimiterType
  <2>2. ocr \in [{"A", "B"} -> 0 .. MAX_VOLTAGE] /\ low \in SUBSET {"A", "B"}
    BY RangeAssumption DEF Init
  <2>3. /\ v_now \in 0 .. BYTE - 1 /\ motor_setpoint \in Int
        /\ event_count \in 0 .. COMMAND_TIMEOUT + 1
        /\ last_voltage \in -MAX_VOLTAGE .. MAX_VOLTAGE
    BY ByteAssumption, RangeAssumption DEF Init
  <2>4. /\ pos \in 0 .. 4 /\ rstate \in 0 .. 4 /\ motor_mode \in 0 .. 1
        /\ pc \in {"wait", "expire", "limit", "drive"} /\ command \in Int
        /\ good \in 0 .. InStep
    BY DEF Init
  <2>5. stopped \in BOOLEAN
    BY Zenon DEF Init
  <2> QED BY <2>1, <2>2, <2>3, <2>4, <2>5 DEF TypeOK
<1>3. BridgeInv
  BY DEF Init, BridgeInv
<1>4. StepInv
  BY DEF Init, StepInv
<1> QED BY <1>1, <1>2, <1>3, <1>4 DEF IInv

LEMMA NextInv ==
  ASSUME IInv, [Next]_vars
  PROVE  IInv'
<1> USE DEF IInv
<1>1. CASE Byte
  <2>1. LimiterType' /\ BridgeInv'
    BY <1>1 DEF Byte, bridge, LimiterType, BridgeInv
  <2>2. TypeOK'
    BY <1>1, StepOfByte DEF Byte, bridge, TypeOK
  <2> QED BY <1>1, <2>1, <2>2, StepOfByte
<1>2. CASE ArmRestart
  <2>1. LimiterType' /\ BridgeInv'
    BY <1>2 DEF ArmRestart, bridge, LimiterType, BridgeInv
  <2>2. TypeOK' /\ StepInv'
    BY <1>2 DEF ArmRestart, bridge, TypeOK, StepInv
  <2> QED BY <2>1, <2>2
<1>3. CASE ArmStops
  <2>1. LimiterType' /\ BridgeInv' /\ StepInv'
    BY <1>3 DEF ArmStops, bridge, link, LimiterType, BridgeInv, StepInv
  <2>2. TypeOK'
    BY <1>3 DEF ArmStops, bridge, link, TypeOK
  <2> QED BY <2>1, <2>2
<1>4. CASE Event
  <2>1. LimiterType' /\ BridgeInv' /\ StepInv'
    BY <1>4 DEF Event, bridge, link, LimiterType, BridgeInv, StepInv
  <2>2. TypeOK'
    BY <1>4, RangeAssumption DEF Event, bridge, link, TypeOK
  <2> QED BY <2>1, <2>2
<1>5. CASE Expire
  <2>1. LimiterType' /\ BridgeInv' /\ StepInv'
    BY <1>5 DEF Expire, bridge, link, LimiterType, BridgeInv, StepInv
  <2>2. TypeOK'
    BY <1>5, RangeAssumption DEF Expire, bridge, link, TypeOK
  <2> QED BY <2>1, <2>2
<1>6. CASE Limit
  <2>1. LimiterType' /\ command' \in Int
    BY <1>6, CommandOfLimit
  <2>2. BridgeInv' /\ StepInv'
    BY <1>6 DEF Limit, bridge, link, BridgeInv, StepInv
  <2>3. /\ limiter'.voltage_limit \in 0 .. MAX_VOLTAGE /\ limiter'.correction \in Nat
        /\ limiter'.in_limit \in 0 .. IN_LIMIT_MAX /\ limiter'.count \in 0 .. I_LIMIT_RATE - 1
    BY <2>1 DEF LimiterType
  <2>4. TypeOK'
    BY <1>6, <2>1, <2>3 DEF Limit, bridge, link, TypeOK
  <2> QED BY <2>1, <2>2, <2>4
<1>7. CASE Drive
  <2>1. LimiterType' /\ StepInv'
    BY <1>7 DEF Drive, link, LimiterType, StepInv
  <2>2. TypeOK'
    BY <1>7, DriveBridge DEF Drive, link, TypeOK
  <2> QED BY <1>7, <2>1, <2>2, DriveBridge
<1>8. CASE UNCHANGED vars
  <2>1. LimiterType' /\ BridgeInv' /\ StepInv'
    BY <1>8 DEF vars, LimiterType, BridgeInv, StepInv
  <2>2. TypeOK'
    BY <1>8 DEF vars, TypeOK
  <2> QED BY <2>1, <2>2
<1> QED BY <1>1, <1>2, <1>3, <1>4, <1>5, <1>6, <1>7, <1>8 DEF Next, Control

\* A step that touches the bridge is a call of set_voltage, and no such call
\* turns a low side on, or leaves it on, where a duty cycle is or was set.
LEMMA NextNoShootThrough ==
  ASSUME IInv, [Next]_vars
  PROVE  [\A leg \in low \cup low' : ocr[leg] = 0 /\ ocr'[leg] = 0]_vars
<1>1. CASE Drive
  BY <1>1, DriveBridge
<1>2. CASE UNCHANGED bridge
  <2>1. \A leg \in low : ocr[leg] = 0
    BY RangeAssumption DEF IInv, BridgeInv, TypeOK
  <2> QED BY <1>2, <2>1 DEF bridge
<1>3. CASE UNCHANGED vars
  BY <1>3
<1>4. CASE Byte \/ ArmRestart \/ ArmStops \/ Event \/ Expire \/ Limit
  BY <1>2, <1>4 DEF Byte, ArmRestart, ArmStops, Event, Expire, Limit
<1> QED BY <1>1, <1>3, <1>4 DEF Next, Control
----------------------------------------------------------------------------
LEMMA Invariance == Spec => []IInv
  BY InitInv, NextInv, PTL DEF Spec

\* The state of the controller is well formed: the correction never becomes
\* negative and no limit leaves its range.
THEOREM TypeCorrect == Spec => []TypeOK
  BY Invariance, PTL DEF IInv

\* The interrupt finds the start of the packets again, wherever it lost it.
THEOREM PacketsResynchronised == Spec => []Resynchronised
<1>1. IInv => Resynchronised
  BY DEF IInv, StepInv, Resynchronised
<1> QED BY <1>1, Invariance, PTL

\* set_voltage never shorts a leg of the bridge.
THEOREM BridgeSafe == Spec => NoShootThrough
<1>1. IInv /\ [Next]_vars => [\A leg \in low \cup low' : ocr[leg] = 0 /\ ocr'[leg] = 0]_vars
  BY NextNoShootThrough
<1> QED BY <1>1, Invariance, PTL DEF Spec, NoShootThrough
----------------------------------------------------------------------------
(***************************************************************************)
(* How long the motor may go on.  The unit is one body of the control loop, *)
(* which ends with Drive, once per timer event.                             *)
(***************************************************************************)

\* The correction of an over-current is less than the largest set point a byte
\* holds, or the one out of range before the first packet.
MaxCorrection == (BYTE + 1) \div 2
MagnitudeInv ==
  /\ Abs(motor_setpoint) <= MaxCorrection
  /\ limiter.correction < MaxCorrection

\* Bodies until the bridge is off for good when the ARM is silent: the rest of
\* the timeout, and one body for each unit of the correction.
EventsToExpire == COMMAND_TIMEOUT + 1 - event_count
CorrectionBodies == IF limiter.correction > 0 THEN limiter.correction
                    ELSE IF Off THEN 0 ELSE 1
BodiesToStop ==
  IF motor_setpoint # 0
  THEN IF pc = "expire" THEN MaxCorrection
       ELSE EventsToExpire + MaxCorrection + (IF pc = "wait" THEN 0 ELSE 1)
  ELSE IF pc # "drive" THEN CorrectionBodies
  ELSE IF limiter.correction > 0 THEN limiter.correction + 1
  ELSE IF command # 0 THEN 2 ELSE CorrectionBodies

\* Bodies until the bridge is off when the bus voltage is too high: the body
\* under way may still have the limit of an earlier voltage.
BodiesAbove ==
  IF pc = "drive" /\ limiter.voltage_limit > 0 THEN 2 ELSE IF Off THEN 0 ELSE 1

LEMMA MaxCorrectionIs ==
  /\ MaxCorrection \in Nat /\ MaxCorrection >= 2
  /\ BYTE <= 2 * MaxCorrection /\ 2 * MaxCorrection <= BYTE + 1
  /\ MAX_SETPOINT + 1 <= MaxCorrection
<1>1. BYTE \in Nat /\ MAX_SETPOINT \in Nat /\ MAX_SETPOINT >= 1 /\ 2 * MAX_SETPOINT < BYTE
  BY ByteAssumption, RangeAssumption
<1> DEFINE b == BYTE
<1>2. b \in Nat /\ b >= 3
  BY <1>1
<1>3. /\ (b + 1) \div 2 \in Nat
      /\ b <= 2 * ((b + 1) \div 2) /\ 2 * ((b + 1) \div 2) <= b + 1
  <2> HIDE DEF b
  <2> QED BY <1>2
<1> QED BY <1>1, <1>2, <1>3 DEF MaxCorrection

LEMMA SignedMagnitude ==
  ASSUME NEW byte \in 0 .. BYTE - 1
  PROVE  Abs(Signed(byte)) <= MaxCorrection
  BY MaxCorrectionIs, ByteAssumption DEF Abs, Signed

\* The correction after a body, for a set point of 0 and for any.
LEMMA CorrectionAfter ==
  ASSUME IInv, MagnitudeInv, Limit
  PROVE  /\ limiter'.correction < MaxCorrection
         /\ motor_setpoint = 0 =>
              limiter'.correction \in
                {0, IF limiter.correction > 0 THEN limiter.correction - 1 ELSE 0}
<1>1. PICK current \in Currents, clicks \in Clicks : current_limit(current, clicks)
  BY DEF Limit
<1> DEFINE m == Abs(motor_setpoint)
<1>2. limiter'.correction = Corrected(current, m)
  BY <1>1 DEF current_limit
<1>3. /\ m \in Nat /\ m <= MaxCorrection /\ (motor_setpoint = 0 => m = 0)
      /\ limiter.correction \in Nat /\ limiter.correction < MaxCorrection
      /\ MaxCorrection \in Nat /\ MaxCorrection >= 2
  BY MaxCorrectionIs DEF IInv, TypeOK, MagnitudeInv, Abs
<1> HIDE DEF m
<1> DEFINE c == limiter.correction
           d == Lesser(c + 1, m - 1)
<1>4. Corrected(current, m) < MaxCorrection
  <2>1. d \in Int /\ d < MaxCorrection
    BY <1>3 DEF Lesser
  <2>2. Corrected(current, m) \in {0, d, c - 1}
    BY DEF Corrected
  <2> HIDE DEF d
  <2> QED BY <1>3, <2>1, <2>2
<1>5. m = 0 => Corrected(current, m) \in
                 {0, IF limiter.correction > 0 THEN limiter.correction - 1 ELSE 0}
  BY <1>3 DEF Corrected, Lesser
<1> HIDE DEF d, c
<1> QED BY <1>2, <1>3, <1>4, <1>5 DEF c

\* A set point of 0 with no correction left commands nothing.
LEMMA NothingCommanded ==
  ASSUME Limit, motor_setpoint = 0, limiter'.correction = 0
  PROVE  command' = 0
<1>1. Reduced(0) = 0 /\ Abs(0) = 0
  BY DEF Reduced, Abs
<1>2. command' \in IF motor_mode = 0 THEN soft_pid_control(Reduced(0)) ELSE {Reduced(0)}
  BY DEF Limit
<1>3. soft_pid_control(0) = {0}
  BY <1>1 DEF soft_pid_control
<1> QED BY <1>1, <1>2, <1>3

\* A voltage of 0 turns the bridge off, whatever it was.
LEMMA DriveOff ==
  ASSUME IInv, Drive, command = 0 \/ limiter.voltage_limit = 0
  PROVE  Off'
<1> DEFINE request == IF motor_mode = 1 THEN speed_limit(command) ELSE command
<1>1. request \in Int /\ (command = 0 => request = 0)
  BY RangeAssumption DEF IInv, TypeOK, speed_limit
<1>2. limiter.voltage_limit \in 0 .. MAX_VOLTAGE
  BY DEF IInv, TypeOK
<1> HIDE DEF request
<1>3. Bounded(request) = 0
  BY <1>1, <1>2, RangeAssumption DEF Bounded
<1>4. set_voltage(0)
  BY <1>3 DEF Drive, request
<1> QED BY <1>4 DEF set_voltage, Off

LEMMA MagnitudeInitially ==
  ASSUME Init
  PROVE  MagnitudeInv
  BY MaxCorrectionIs, RangeAssumption DEF Init, MagnitudeInv, Abs

LEMMA MagnitudeKept ==
  ASSUME IInv, MagnitudeInv, [Next]_vars
  PROVE  MagnitudeInv'
<1>1. CASE Byte
  <2>1. PICK byte \in ArmBytes(pos) : SPI_STC(byte)
    BY <1>1 DEF Byte
  <2>2. pos \in 0 .. 4
    BY DEF IInv, TypeOK
  <2>3. byte \in 0 .. BYTE - 1
    BY <2>1, <2>2, Bytes
  <2>4. motor_setpoint' \in {motor_setpoint, Signed(byte)} /\ limiter' = limiter
    BY <1>1, <2>1 DEF SPI_STC, Byte
  <2> QED BY <2>3, <2>4, SignedMagnitude DEF MagnitudeInv
<1>2. CASE Limit
  BY <1>2, CorrectionAfter DEF MagnitudeInv, Limit
<1>3. CASE Expire
  BY <1>3, MaxCorrectionIs DEF MagnitudeInv, Expire, Abs
<1>4. CASE ArmRestart \/ ArmStops \/ Event \/ Drive
  BY <1>4 DEF MagnitudeInv, ArmRestart, ArmStops, Event, Drive
<1>5. CASE UNCHANGED vars
  BY <1>5 DEF MagnitudeInv, vars
<1> QED BY <1>1, <1>2, <1>3, <1>4, <1>5 DEF Next, Control

StopInv == IInv /\ MagnitudeInv

LEMMA StopInvariance == Spec => []StopInv
<1>1. Init => StopInv
  BY InitInv, MagnitudeInitially DEF StopInv
<1>2. StopInv /\ [Next]_vars => StopInv'
  BY NextInv, MagnitudeKept DEF StopInv
<1> QED BY <1>1, <1>2, PTL DEF Spec

\* What the two measures are made of.
LEMMA Measured ==
  ASSUME StopInv
  PROVE  /\ limiter.correction \in Nat /\ limiter.correction < MaxCorrection
         /\ EventsToExpire \in 0 .. COMMAND_TIMEOUT + 1
         /\ MaxCorrection \in Nat /\ MaxCorrection >= 2 /\ COMMAND_TIMEOUT \in Nat
         /\ motor_setpoint \in Int /\ command \in Int
         /\ pc \in {"wait", "expire", "limit", "drive"}
         /\ limiter.voltage_limit \in Nat
  BY MaxCorrectionIs, RangeAssumption DEF StopInv, IInv, TypeOK, MagnitudeInv, EventsToExpire

LEMMA Stopping ==
  ASSUME StopInv, stopped, [Next]_vars
  PROVE  /\ BodiesToStop' <= BodiesToStop
         /\ Drive => BodiesToStop' < BodiesToStop \/ BodiesToStop' = 0
<1>0. /\ limiter.correction \in Nat /\ limiter.correction < MaxCorrection
      /\ EventsToExpire \in 0 .. COMMAND_TIMEOUT + 1
      /\ MaxCorrection \in Nat /\ MaxCorrection >= 2 /\ COMMAND_TIMEOUT \in Nat
  BY Measured
<1>1. BodiesToStop \in Nat
  BY <1>0 DEF BodiesToStop, CorrectionBodies
<1>2. CASE Event
  <2>1. /\ pc = "wait" /\ UNCHANGED <<motor_setpoint, limiter, command, ocr, low>>
        /\ \/ event_count > COMMAND_TIMEOUT /\ pc' = "expire" /\ event_count' = event_count
           \/ pc' = "limit" /\ event_count' = event_count + 1
    BY <1>2 DEF Event, bridge
  <2>2. CorrectionBodies' = CorrectionBodies /\ CorrectionBodies \in Nat
    BY <1>0, <2>1 DEF CorrectionBodies, Off
  <2>3. event_count \in Nat /\ event_count <= COMMAND_TIMEOUT + 1
    BY RangeAssumption DEF StopInv, IInv, TypeOK
  <2>4. ASSUME motor_setpoint # 0 PROVE BodiesToStop' <= BodiesToStop
    BY <1>0, <2>1, <2>3, <2>4 DEF BodiesToStop, EventsToExpire
  <2>5. ASSUME motor_setpoint = 0 PROVE BodiesToStop' <= BodiesToStop
    BY <1>0, <2>1, <2>2, <2>5 DEF BodiesToStop
  <2>6. BodiesToStop' <= BodiesToStop
    BY <2>4, <2>5
  <2>7. ~Drive
    BY <2>1 DEF Drive
  <2> QED BY <2>6, <2>7
<1>3. CASE Expire
  <2>1. /\ pc = "expire" /\ pc' = "limit" /\ motor_setpoint' = 0
        /\ UNCHANGED <<limiter, ocr, low>>
    BY <1>3 DEF Expire, bridge
  <2>2. CorrectionBodies' = CorrectionBodies /\ CorrectionBodies \in 0 .. MaxCorrection
    BY <1>0, <2>1 DEF CorrectionBodies, Off
  <2>3. BodiesToStop' <= BodiesToStop
    BY <1>0, <2>1, <2>2 DEF BodiesToStop
  <2>4. ~Drive
    BY <2>1 DEF Drive
  <2> QED BY <2>3, <2>4
<1>4. CASE Limit
  <2>1. /\ pc = "limit" /\ pc' = "drive"
        /\ UNCHANGED <<motor_setpoint, event_count, ocr, low>>
    BY <1>4 DEF Limit, bridge
  <2>2. limiter'.correction < MaxCorrection
    BY <1>4, CorrectionAfter DEF StopInv
  <2>3. ASSUME motor_setpoint # 0 PROVE BodiesToStop' <= BodiesToStop
    BY <1>0, <2>1, <2>3 DEF BodiesToStop, EventsToExpire
  <2>4. ASSUME motor_setpoint = 0 PROVE BodiesToStop' <= BodiesToStop
    <3>1. limiter'.correction \in
            {0, IF limiter.correction > 0 THEN limiter.correction - 1 ELSE 0}
      BY <1>4, <2>4, CorrectionAfter DEF StopInv
    <3>2. limiter'.correction = 0 => command' = 0
      BY <1>4, <2>4, NothingCommanded
    <3>3. Off' <=> Off
      BY <2>1 DEF Off
    <3>4. BodiesToStop = CorrectionBodies
      BY <2>1, <2>4 DEF BodiesToStop
    <3>5. CASE limiter'.correction = 0
      <4>1. BodiesToStop' = IF Off THEN 0 ELSE 1
        BY <2>1, <2>4, <3>2, <3>3, <3>5 DEF BodiesToStop, CorrectionBodies
      <4> QED BY <1>0, <3>4, <4>1 DEF CorrectionBodies
    <3>6. CASE limiter'.correction # 0
      <4>1. limiter'.correction = limiter.correction - 1 /\ limiter'.correction > 0
        BY <1>0, <3>1, <3>6
      <4>2. BodiesToStop' = limiter.correction
        BY <1>0, <2>1, <2>4, <4>1 DEF BodiesToStop
      <4> QED BY <1>0, <3>4, <4>1, <4>2 DEF CorrectionBodies
    <3> QED BY <3>5, <3>6
  <2>5. BodiesToStop' <= BodiesToStop
    BY <2>3, <2>4
  <2>6. ~Drive
    BY <2>1 DEF Drive
  <2> QED BY <2>5, <2>6
<1>5. CASE Drive
  <2>1. /\ pc = "drive" /\ pc' = "wait" /\ command' = 0
        /\ UNCHANGED <<motor_setpoint, event_count, limiter>>
    BY <1>5 DEF Drive
  <2>2. command = 0 => Off'
    BY <1>5, DriveOff DEF StopInv
  <2>3. CASE motor_setpoint # 0
    BY <1>0, <2>1, <2>3 DEF BodiesToStop, EventsToExpire
  <2>4. CASE motor_setpoint = 0
    <3>1. BodiesToStop' = CorrectionBodies'
      BY <2>1, <2>4 DEF BodiesToStop
    <3>2. CorrectionBodies' = IF limiter.correction > 0 THEN limiter.correction
                              ELSE IF Off' THEN 0 ELSE 1
      BY <2>1 DEF CorrectionBodies
    <3>3. CASE limiter.correction > 0
      <4>1. BodiesToStop = limiter.correction + 1
        BY <2>1, <2>4, <3>3 DEF BodiesToStop
      <4>2. BodiesToStop' = limiter.correction
        BY <3>1, <3>2, <3>3
      <4> QED BY <1>0, <4>1, <4>2
    <3>4. CASE limiter.correction = 0 /\ command # 0
      <4>1. BodiesToStop = 2
        BY <2>1, <2>4, <3>4 DEF BodiesToStop
      <4> QED BY <3>1, <3>2, <3>4, <4>1
    <3>5. CASE limiter.correction = 0 /\ command = 0
      <4>1. BodiesToStop' = 0
        BY <2>2, <3>1, <3>2, <3>5
      <4> QED BY <1>1, <4>1
    <3> QED BY <1>0, <3>3, <3>4, <3>5
  <2> QED BY <2>3, <2>4
<1>6. CASE UNCHANGED vars
  <2>1. BodiesToStop' = BodiesToStop
    BY <1>6 DEF vars, BodiesToStop, CorrectionBodies, EventsToExpire, Off
  <2>2. ~Drive
    BY <1>6 DEF vars, Drive
  <2> QED BY <1>1, <2>1, <2>2
<1> QED BY <1>2, <1>3, <1>4, <1>5, <1>6 DEF Next, Control, Byte, ArmRestart, ArmStops

LEMMA SwitchingOff ==
  ASSUME StopInv, [Next]_vars, v_now > MAX_MOVE_VOLTAGE
  PROVE  /\ BodiesAbove' <= BodiesAbove
         /\ Drive => BodiesAbove' < BodiesAbove \/ BodiesAbove' = 0
<1>1. CASE Drive
  <2>1. pc = "drive" /\ pc' = "wait"
    BY <1>1 DEF Drive
  <2>2. limiter.voltage_limit = 0 => Off'
    BY <1>1, DriveOff DEF StopInv
  <2> QED BY <1>1, <2>1, <2>2, Measured DEF BodiesAbove
<1>2. CASE Limit
  <2>1. /\ pc = "limit" /\ pc' = "drive" /\ UNCHANGED <<ocr, low>>
    BY <1>2 DEF Limit, bridge
  <2>2. MaxVolt = 0
    BY LimitAssumption DEF MaxVolt, StopInv, IInv, TypeOK
  <2>3. PICK current \in Currents, clicks \in Clicks : current_limit(current, clicks)
    BY <1>2 DEF Limit
  <2> DEFINE t == Throttled(Stalled(clicks) > 0 /\ current > I_LIMIT_MIN)
  <2>4. limiter'.voltage_limit = Lesser(t.limit, MaxVolt)
    BY <2>3 DEF current_limit
  <2>5. limiter'.voltage_limit \in Nat
    BY <1>2, CommandOfLimit DEF StopInv, LimiterType
  <2> HIDE DEF t
  <2>6. t.limit \in Int => limiter'.voltage_limit <= 0
    BY <2>2, <2>4 DEF Lesser
  <2>7. limiter'.voltage_limit = 0
    BY <2>2, <2>4, <2>5, <2>6 DEF Lesser
  <2> QED BY <2>1, <2>7 DEF BodiesAbove, Off, Drive
<1>3. CASE Byte \/ ArmRestart \/ ArmStops
  <2>1. UNCHANGED <<pc, limiter, ocr, low, command, last_voltage>>
    BY <1>3 DEF Byte, ArmRestart, ArmStops, bridge
  <2>2. BodiesAbove' = BodiesAbove /\ BodiesAbove \in 0 .. 2
    BY <2>1 DEF BodiesAbove, Off
  <2>3. ~Drive
    <3>1. pc = "drive" => pc' # "wait"
      BY <2>1
    <3> QED BY <3>1 DEF Drive
  <2> QED BY <2>2, <2>3
<1>4. CASE Event \/ Expire
  <2>1. UNCHANGED <<limiter, ocr, low>> /\ pc \in {"wait", "expire"} /\ pc' \in {"expire", "limit"}
    BY <1>4 DEF Event, Expire, bridge
  <2>2. BodiesAbove' = BodiesAbove /\ BodiesAbove \in 0 .. 2
    BY <2>1 DEF BodiesAbove, Off
  <2> QED BY <2>1, <2>2 DEF Drive
<1>5. CASE UNCHANGED vars
  BY <1>5 DEF vars, BodiesAbove, Off, Drive
<1> QED BY <1>1, <1>2, <1>3, <1>4, <1>5 DEF Next, Control

\* The deadline behind SilenceStops.  Once the ARM is silent, the bodies left
\* until the bridge is off are at most the timeout, one for each unit of the
\* largest correction and one under way; each body takes one off, nothing adds
\* to them, and when none is left the bridge is off and stays so.
THEOREM SilenceStopsInTime ==
  Spec =>
    /\ [](stopped => /\ BodiesToStop \in 0 .. COMMAND_TIMEOUT + 2 + MaxCorrection
                     /\ BodiesToStop = 0 => Off)
    /\ [][stopped => /\ BodiesToStop' <= BodiesToStop
                     /\ Drive => BodiesToStop' < BodiesToStop \/ BodiesToStop' = 0]_vars
<1>1. ASSUME StopInv
      PROVE  /\ BodiesToStop \in 0 .. COMMAND_TIMEOUT + 2 + MaxCorrection
             /\ BodiesToStop = 0 => Off
  <2>1. CorrectionBodies \in 0 .. MaxCorrection /\ (CorrectionBodies = 0 => Off)
    BY <1>1, Measured DEF CorrectionBodies
  <2> QED BY <1>1, <2>1, Measured DEF BodiesToStop
<1>2. StopInv /\ [Next]_vars =>
        [stopped => /\ BodiesToStop' <= BodiesToStop
                    /\ Drive => BodiesToStop' < BodiesToStop \/ BodiesToStop' = 0]_vars
  BY Stopping
<1>3. StopInv => (stopped => /\ BodiesToStop \in 0 .. COMMAND_TIMEOUT + 2 + MaxCorrection
                             /\ BodiesToStop = 0 => Off)
  BY <1>1
<1> QED BY <1>2, <1>3, StopInvariance, PTL DEF Spec

\* The deadline behind OverVoltageStops: at a bus voltage above
\* MAX_MOVE_VOLTAGE the bridge is off after the second body at the latest,
\* whatever arrives meanwhile, and stays off as long as the voltage is so high.
THEOREM OverVoltageStopsInTime ==
  Spec =>
    /\ [](BodiesAbove \in 0 .. 2 /\ (BodiesAbove = 0 => Off))
    /\ [][v_now > MAX_MOVE_VOLTAGE =>
            /\ BodiesAbove' <= BodiesAbove
            /\ Drive => BodiesAbove' < BodiesAbove \/ BodiesAbove' = 0]_vars
<1>1. BodiesAbove \in 0 .. 2 /\ (BodiesAbove = 0 => Off)
  BY DEF BodiesAbove
<1>2. StopInv /\ [Next]_vars =>
        [v_now > MAX_MOVE_VOLTAGE =>
           /\ BodiesAbove' <= BodiesAbove
           /\ Drive => BodiesAbove' < BodiesAbove \/ BodiesAbove' = 0]_vars
  BY SwitchingOff
<1> QED BY <1>1, <1>2, StopInvariance, PTL DEF Spec
=============================================================================
