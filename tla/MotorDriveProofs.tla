-------------------------- MODULE MotorDriveProofs --------------------------
(***************************************************************************)
(* Proofs about MotorDrive, for every maximum speed, timeout, slew rate    *)
(* and set of commands.                                                    *)
(***************************************************************************)
EXTENDS MotorDrive, TLAPS

(***************************************************************************)
(* The ramp of one wheel: q is added to the fixed-point speed a on each of *)
(* the r ticks left, and the jump to the final speed f closes the rest.    *)
(***************************************************************************)
Ramp(a, q, r, f) ==
  /\ -(MOTOR_MAX_SPEED * FIX) <= a /\ a <= MOTOR_MAX_SPEED * FIX
  /\ -FIX <= q /\ q <= FIX
  /\ q >= 0 => a <= a + r * q /\ a + r * q <= f * FIX /\ f * FIX < a + r * q + FIX
  /\ q < 0  => a + r * q <= a /\ f * FIX <= a + r * q /\ a + r * q - FIX < f * FIX

RampInv(m) ==
  m.slew.count <= m.slew.steps =>
    \A i \in Motor : Ramp(m.slew.float[i], m.slew.interval[i],
                          m.slew.steps - m.slew.count, m.final[i])

\* What holds in addition when every command is a slew.
SlewInv(m) ==
  /\ m.mode = "velocity"
  /\ m.slew.count > m.slew.steps => m.speed = m.final
  /\ m.slew.count <= m.slew.steps => m.speed = IntegerPart(m.slew)

IInv ==
  /\ TypeOK
  /\ RampInv(motor)
  /\ OnlySlews => SlewInv(motor)

----------------------------------------------------------------------------
(* Arithmetic *)

LEMMA ProductSplit ==
  ASSUME NEW r \in Nat \ {0}, NEW q \in Int
  PROVE  /\ r * q = q + (r - 1) * q
         /\ q >= 0 => (r - 1) * q >= 0
         /\ q < 0 => (r - 1) * q <= 0
  BY SMTT(30)

LEMMA FloorDivision ==
  ASSUME NEW a \in Nat, NEW n \in Nat \ {0}
  PROVE  /\ a \div n \in Nat
         /\ n * (a \div n) <= a
         /\ a < n * (a \div n) + n
  BY SMTT(30)

\* What C's truncating division returns.
LEMMA QuotientBounds ==
  ASSUME NEW a \in Int, NEW n \in Nat \ {0}
  PROVE  /\ Quotient(a, n) \in Int
         /\ a >= 0 => Quotient(a, n) >= 0 /\ n * Quotient(a, n) <= a /\ a < n * Quotient(a, n) + n
         /\ a < 0 => Quotient(a, n) <= 0 /\ a <= n * Quotient(a, n) /\ n * Quotient(a, n) - n < a
<1>1. CASE a >= 0
  BY <1>1, FloorDivision DEF Quotient
<1>2. CASE a < 0
  <2>1. -a \in Nat
    BY <1>2
  <2> DEFINE d == (-a) \div n
  <2>2. d \in Nat /\ n * d <= -a /\ -a < n * d + n
    BY <2>1, FloorDivision
  <2>3. Quotient(a, n) = -d
    BY <1>2 DEF Quotient
  <2>4. n * (-d) = -(n * d)
    BY <2>2
  <2> QED
    BY <1>2, <2>2, <2>3, <2>4
<1> QED
  BY <1>1, <1>2

\* The largest magnitude of the three wheels.
LEMMA LargestIsBound ==
  ASSUME NEW v \in Vector
  PROVE  /\ Largest(v) \in Nat
         /\ \A i \in Motor : Abs(v[i]) <= Largest(v)
         /\ \E i \in Motor : Largest(v) = Abs(v[i])
<1> DEFINE S == {Abs(v[i]) : i \in Motor}
           P(n) == \A i \in Motor : Abs(v[i]) <= n
<1>1. \A i \in Motor : Abs(v[i]) \in Nat
  BY DEF Abs, Vector
<1>2. \E n \in S : P(n)
  <2>1. 0 \in Motor /\ 1 \in Motor /\ 2 \in Motor /\ \A i \in Motor : i = 0 \/ i = 1 \/ i = 2
    BY DEF Motor
  <2>2. Abs(v[0]) \in S /\ Abs(v[1]) \in S /\ Abs(v[2]) \in S
    BY <2>1
  <2>3. P(Abs(v[0])) \/ P(Abs(v[1])) \/ P(Abs(v[2]))
    BY <1>1, <2>1
  <2> QED
    BY <2>2, <2>3
<1>3. Largest(v) \in S /\ P(Largest(v))
  BY <1>2 DEF Largest
<1> QED
  BY <1>1, <1>3

----------------------------------------------------------------------------
(* The conversions of the commands *)

LEMMA ClampInRange ==
  ASSUME NEW s \in Int
  PROVE  Clamp(s) \in Speeds
  BY SpeedAssumption DEF Clamp, Speeds

LEMMA SignedCharInt ==
  ASSUME NEW n \in Int
  PROVE  SignedChar(n) \in Int
  BY DEF SignedChar

LEMMA StillIsSpeed == Still \in [Motor -> Speeds] /\ Still \in Vector
  BY SpeedAssumption DEF Still, Speeds, Vector

LEMMA WheelSpaceIsVector ==
  ASSUME NEW v \in Vector
  PROVE  WheelSpace(v) \in Vector
<1> DEFINE sum(i) == v[0] * XSC[i] + v[1] * YSC[i] + v[2] * TSC
           wheel == [i \in Motor |-> Quotient(sum(i), 1024)]
           max == Largest(wheel)
<1>1. \A i \in Motor : sum(i) \in Int
  BY DEF XSC, YSC, TSC, Motor, Vector
<1>2. wheel \in Vector
  BY <1>1, QuotientBounds DEF Vector
<1>3. max \in Nat
  BY <1>2, LargestIsBound
<1>4. CASE max > MOTOR_MAX_SPEED
  <2>1. max \in Nat \ {0}
    BY <1>3, <1>4, SpeedAssumption
  <2>2. \A i \in Motor : wheel[i] * MOTOR_MAX_SPEED \in Int
    BY <1>2, SpeedAssumption DEF Vector
  <2> HIDE DEF wheel, max
  <2>3. \A i \in Motor : Quotient(wheel[i] * MOTOR_MAX_SPEED, max) \in Int
    BY <2>1, <2>2, QuotientBounds
  <2>4. [i \in Motor |-> Quotient(wheel[i] * MOTOR_MAX_SPEED, max)] \in Vector
    BY <2>3 DEF Vector
  <2> QED
    BY <1>4, <2>4 DEF WheelSpace, wheel, max
<1>5. CASE ~(max > MOTOR_MAX_SPEED)
  BY <1>2, <1>5 DEF WheelSpace
<1> QED
  BY <1>4, <1>5

----------------------------------------------------------------------------
(* A slew starts a ramp of every wheel *)

LEMMA RampStart ==
  ASSUME NEW s \in Speeds, NEW f \in Speeds, NEW n \in Nat \ {0},
         Abs(f - s) <= n, n <= 255
  PROVE  /\ Quotient((f - s) * FIX, n) \in Int
         /\ Ramp(s * FIX, Quotient((f - s) * FIX, n), n, f)
<1> DEFINE a == (f - s) * FIX
           q == Quotient(a, n)
<1>1. s \in Int /\ f \in Int /\ MOTOR_MAX_SPEED \in Int
  BY SpeedAssumption DEF Speeds
<1>2. a \in Int
  BY <1>1 DEF FIX
<1>3. /\ q \in Int
      /\ a >= 0 => q >= 0 /\ n * q <= a /\ a < n * q + n
      /\ a < 0 => q <= 0 /\ a <= n * q /\ n * q - n < a
  BY <1>2, QuotientBounds
<1>4. f * FIX = s * FIX + a
  BY <1>1 DEF FIX
<1>5. -(n * FIX) <= a /\ a <= n * FIX
  BY <1>1 DEF FIX, Abs
<1>6. -FIX <= q /\ q <= FIX
  <2>1. ASSUME q > FIX PROVE FALSE
    <3>1. n * q >= n * (FIX + 1)
      BY <1>3, <2>1 DEF FIX
    <3> QED
      BY <1>2, <1>3, <1>5, <2>1, <3>1 DEF FIX
  <2>2. ASSUME q < -FIX PROVE FALSE
    <3>1. n * q <= n * (-FIX - 1)
      BY <1>3, <2>2 DEF FIX
    <3> QED
      BY <1>2, <1>3, <1>5, <2>2, <3>1 DEF FIX
  <2> QED
    BY <1>3, <2>1, <2>2 DEF FIX
<1>7. -(MOTOR_MAX_SPEED * FIX) <= s * FIX /\ s * FIX <= MOTOR_MAX_SPEED * FIX
  BY <1>1 DEF Speeds, FIX
<1>8. n * q \in Int
  BY <1>3
<1>9. CASE a >= 0
  <2>1. n * q >= 0
    BY <1>3, <1>9
  <2>2. s * FIX + n * q <= f * FIX /\ f * FIX < s * FIX + n * q + FIX
    BY <1>1, <1>2, <1>3, <1>4, <1>8, <1>9 DEF FIX
  <2> QED
    BY <1>1, <1>3, <1>6, <1>7, <1>8, <1>9, <2>1, <2>2 DEF Ramp, FIX
<1>10. CASE a < 0
  <2>1. a <= -FIX
    BY <1>1, <1>10 DEF FIX
  <2>2. q < 0
    BY <1>2, <1>3, <1>10, <2>1 DEF FIX
  <2>3. n * q <= 0
    BY <1>3, <2>2
  <2>4. f * FIX <= s * FIX + n * q /\ s * FIX + n * q - FIX < f * FIX
    BY <1>1, <1>2, <1>3, <1>4, <1>8, <1>10 DEF FIX
  <2> QED
    BY <1>1, <1>3, <1>6, <1>7, <1>8, <2>2, <2>3, <2>4 DEF Ramp, FIX
<1> QED
  BY <1>2, <1>3, <1>9, <1>10

----------------------------------------------------------------------------
(* Every setter keeps the type and the ramps *)

\* A new slew is typed, starts at the wheels' speeds and ramps every wheel.
LEMMA NewSlewRamps ==
  ASSUME NEW s \in [Motor -> Speeds], NEW target \in [Motor -> Speeds]
  PROVE  LET w == NewSlew(s, target)
         IN  /\ w \in SlewState
             /\ w.count = 0
             /\ IntegerPart(w) = s
             /\ \A i \in Motor : Ramp(w.float[i], w.interval[i], w.steps, target[i])
<1> DEFINE delta == [i \in Motor |-> target[i] - s[i]]
           steps == Largest(delta) * MOTOR_SLEW_RATE
           interval == [i \in Motor |-> Quotient(delta[i] * FIX, steps)]
           float == [i \in Motor |-> s[i] * FIX]
           w == NewSlew(s, target)
<1>1. delta \in Vector /\ \A i \in Motor : Abs(delta[i]) <= 2 * MOTOR_MAX_SPEED
  BY SpeedAssumption DEF Vector, Speeds, Abs
<1>2. /\ Largest(delta) \in 0 .. 2 * MOTOR_MAX_SPEED
      /\ \A i \in Motor : Abs(delta[i]) <= Largest(delta)
  <2> HIDE DEF delta
  <2> QED
    BY <1>1, LargestIsBound, SpeedAssumption
<1>3. steps \in 0 .. 255 /\ Largest(delta) <= steps
  <2> DEFINE L == Largest(delta)
  <2>1. L \in 0 .. 2 * MOTOR_MAX_SPEED
    BY <1>2
  <2> HIDE DEF L
  <2>2. L <= L * MOTOR_SLEW_RATE /\ L * MOTOR_SLEW_RATE <= 2 * MOTOR_MAX_SPEED * MOTOR_SLEW_RATE
    BY <2>1, SlewAssumption, SpeedAssumption
  <2>3. L * MOTOR_SLEW_RATE \in 0 .. 255
    BY <2>1, <2>2, SlewAssumption, SpeedAssumption
  <2> QED
    BY <2>2, <2>3 DEF L
<1> HIDE DEF steps
<1>4. \A i \in Motor : /\ interval[i] \in Int
                       /\ Ramp(float[i], interval[i], steps, target[i])
  <2> SUFFICES ASSUME NEW i \in Motor
               PROVE  /\ Quotient(delta[i] * FIX, steps) \in Int
                      /\ Ramp(s[i] * FIX, Quotient(delta[i] * FIX, steps), steps, target[i])
    OBVIOUS
  <2>1. s[i] \in Speeds /\ target[i] \in Speeds /\ delta[i] = target[i] - s[i]
    OBVIOUS
  <2>2. Abs(delta[i]) <= steps
    BY <1>1, <1>2, <1>3 DEF Abs, Vector
  <2>3. CASE steps = 0
    <3>1. delta[i] = 0 /\ target[i] = s[i]
      BY <2>1, <2>2, <2>3, SpeedAssumption DEF Abs, Speeds
    <3>2. Quotient(delta[i] * FIX, steps) = 0
      BY <2>3 DEF Quotient
    <3>3. Ramp(s[i] * FIX, 0, 0, s[i])
      BY <2>1, SpeedAssumption DEF Ramp, FIX, Speeds
    <3> QED
      BY <2>3, <3>1, <3>2, <3>3
  <2>4. CASE steps # 0
    <3>1. steps \in Nat \ {0} /\ steps <= 255
      BY <1>3, <2>4
    <3> QED
      BY <2>1, <2>2, <3>1, RampStart
  <2> QED
    BY <2>3, <2>4
<1>5. float \in Vector /\ interval \in Vector
  BY <1>4, SpeedAssumption DEF Vector, Speeds, FIX
<1>6. w = [steps |-> steps, count |-> 0, float |-> float, interval |-> interval]
  BY DEF NewSlew, steps
<1>7. [i \in Motor |-> float[i] \div FIX] = s
  <2>1. \A x \in Speeds : (x * FIX) \div FIX = x
    BY SpeedAssumption DEF Speeds, FIX
  <2> QED
    BY <2>1
<1> HIDE DEF float, interval
<1> QED
  BY <1>3, <1>4, <1>5, <1>6, <1>7 DEF SlewState, IntegerPart

LEMMA SlewKeeps ==
  ASSUME NEW m \in MotorState, RampInv(m), NEW c \in Vector
  PROVE  LET n == motor_set_speed_slew(m, c)
         IN  /\ n \in MotorState
             /\ RampInv(n)
             /\ n.speed = m.speed
             /\ SlewInv(m) => SlewInv(n)
<1> DEFINE target == [i \in Motor |-> Clamp(c[i])]
           n == motor_set_speed_slew(m, c)
<1>1. target \in [Motor -> Speeds]
  BY ClampInRange DEF Vector
<1>2. m.speed \in [Motor -> Speeds] /\ m.slew \in SlewState /\ m.final \in [Motor -> Speeds]
  BY DEF MotorState
<1>3. 0 \in 0 .. MOTOR_TIMEOUT - 1
  BY TimeoutAssumption
<1> HIDE DEF target
<1>4. CASE target = m.final
  <2>1. n = [ speed |-> m.speed, final |-> m.final, slew |-> m.slew,
              mode |-> "velocity", timeout |-> 0 ]
    BY <1>4 DEF motor_set_speed_slew, target
  <2> QED
    BY <1>2, <1>3, <2>1 DEF MotorState, RampInv, SlewInv
<1>5. CASE target # m.final
  <2> DEFINE w == NewSlew(m.speed, target)
  <2>1. n = [ speed |-> m.speed, final |-> target, slew |-> w,
              mode |-> "velocity", timeout |-> 0 ]
    BY <1>5 DEF motor_set_speed_slew, target
  <2>2. /\ w \in SlewState
        /\ w.count = 0
        /\ IntegerPart(w) = m.speed
        /\ \A i \in Motor : Ramp(w.float[i], w.interval[i], w.steps, target[i])
    BY <1>1, <1>2, NewSlewRamps
  <2> HIDE DEF w
  <2>3. w.steps - w.count = w.steps /\ w.count <= w.steps
    BY <2>2 DEF SlewState
  <2> HIDE DEF n
  <2>4. n \in MotorState
    BY <1>1, <1>2, <1>3, <2>1, <2>2 DEF MotorState
  <2>5. RampInv(n)
    BY <2>1, <2>2, <2>3 DEF RampInv
  <2>6. SlewInv(n)
    BY <2>1, <2>2, <2>3 DEF SlewInv, SlewState
  <2> QED
    BY <2>1, <2>4, <2>5, <2>6 DEF n
<1> QED
  BY <1>4, <1>5

LEMMA XYThetaKeeps ==
  ASSUME NEW m \in MotorState, RampInv(m), NEW v \in Vector
  PROVE  LET n == motor_set_speed_xytheta(m, v)
         IN  /\ n \in MotorState
             /\ RampInv(n)
             /\ n.speed = m.speed
             /\ SlewInv(m) => SlewInv(n)
  BY WheelSpaceIsVector, SlewKeeps DEF motor_set_speed_xytheta

LEMMA SpeedKeeps ==
  ASSUME NEW m \in MotorState, RampInv(m), NEW i \in Int, NEW s \in Int
  PROVE  motor_set_speed(m, i, s) \in MotorState /\ RampInv(motor_set_speed(m, i, s))
<1>1. Clamp(SignedChar(s)) \in Speeds
  BY SignedCharInt, ClampInRange
<1> QED
  BY <1>1 DEF motor_set_speed, MotorState, RampInv

LEMMA VoltageKeeps ==
  ASSUME NEW m \in MotorState, RampInv(m), NEW v \in Vector
  PROVE  motor_set_voltage(m, v) \in MotorState /\ RampInv(motor_set_voltage(m, v))
<1>1. [i \in Motor |-> Clamp(SignedChar(v[i]))] \in [Motor -> Speeds]
  BY SignedCharInt, ClampInRange DEF Vector
<1> QED
  BY <1>1, TimeoutAssumption DEF motor_set_voltage, MotorState, RampInv

----------------------------------------------------------------------------
(* A tick keeps the type and the ramps *)

\* Speed b is between speed a and the final speed f, one unit from a at most.
Nearer(b, a, f) ==
  /\ Abs(b - a) <= 1
  /\ Abs(f - b) <= Abs(f - a)

LEMMA RampStep ==
  ASSUME NEW a \in Int, NEW q \in Int, NEW r \in Nat \ {0}, NEW f \in Speeds,
         Ramp(a, q, r, f)
  PROVE  /\ Ramp(a + q, q, r - 1, f)
         /\ (a + q) \div FIX \in Speeds
         /\ Nearer((a + q) \div FIX, a \div FIX, f)
<1>1. f \in Int /\ MOTOR_MAX_SPEED \in Int /\ -MOTOR_MAX_SPEED <= f /\ f <= MOTOR_MAX_SPEED
  BY SpeedAssumption DEF Speeds
<1> DEFINE p == r * q
           o == (r - 1) * q
<1>2. /\ p \in Int /\ o \in Int /\ p = q + o
      /\ q >= 0 => o >= 0
      /\ q < 0 => o <= 0
  BY ProductSplit
<1>3. /\ -(MOTOR_MAX_SPEED * FIX) <= a /\ a <= MOTOR_MAX_SPEED * FIX
      /\ -FIX <= q /\ q <= FIX
      /\ q >= 0 => a <= a + p /\ a + p <= f * FIX /\ f * FIX < a + p + FIX
      /\ q < 0  => a + p <= a /\ f * FIX <= a + p /\ a + p - FIX < f * FIX
  BY DEF Ramp
<1>4. Ramp(a + q, q, r - 1, f)
  <2> HIDE DEF p, o
  <2>1. /\ -(MOTOR_MAX_SPEED * FIX) <= a + q /\ a + q <= MOTOR_MAX_SPEED * FIX
        /\ q >= 0 => a + q <= a + q + o /\ a + q + o <= f * FIX /\ f * FIX < a + q + o + FIX
        /\ q < 0  => a + q + o <= a + q /\ f * FIX <= a + q + o /\ a + q + o - FIX < f * FIX
    BY <1>1, <1>2, <1>3 DEF FIX
  <2> QED
    BY <1>3, <2>1 DEF Ramp, o
<1> HIDE DEF p, o
<1> DEFINE x == a \div FIX
           y == (a + q) \div FIX
<1>5. x \in Int /\ y \in Int /\ FIX * x <= a /\ a < FIX * x + FIX
      /\ FIX * y <= a + q /\ a + q < FIX * y + FIX
  BY DEF FIX
<1> HIDE DEF x, y
<1>6. CASE q >= 0
  BY <1>1, <1>2, <1>3, <1>4, <1>5, <1>6 DEF FIX, Nearer, Abs, Speeds, x, y
<1>7. CASE q < 0
  BY <1>1, <1>2, <1>3, <1>4, <1>5, <1>7 DEF FIX, Nearer, Abs, Speeds, x, y
<1> QED
  BY <1>6, <1>7

LEMMA RampEnd ==
  ASSUME NEW a \in Int, NEW q \in Int, NEW f \in Speeds, Ramp(a, q, 0, f)
  PROVE  Nearer(f, a \div FIX, f)
<1>1. f \in Int
  BY SpeedAssumption DEF Speeds
<1>2. a - FIX < f * FIX /\ f * FIX < a + FIX
  BY <1>1 DEF Ramp, FIX
<1> DEFINE x == a \div FIX
<1>3. x \in Int /\ FIX * x <= a /\ a < FIX * x + FIX
  BY DEF FIX
<1> HIDE DEF x
<1>4. Abs(f - x) <= 1
  BY <1>1, <1>2, <1>3 DEF FIX, Abs
<1>5. Abs(f - f) <= Abs(f - x)
  BY <1>1, <1>3 DEF Abs
<1> QED
  BY <1>4, <1>5 DEF Nearer, x

LEMMA CommandTimeoutKeeps ==
  ASSUME NEW m \in MotorState, RampInv(m)
  PROVE  LET n == CommandTimeout(m)
         IN  /\ n \in MotorState
             /\ RampInv(n)
             /\ SlewInv(m) => SlewInv(n) /\ n.speed = m.speed
<1>1. CASE m.timeout + 1 = MOTOR_TIMEOUT /\ m.mode = "velocity"
  BY <1>1, StillIsSpeed, SlewKeeps DEF CommandTimeout
<1>2. CASE m.timeout + 1 = MOTOR_TIMEOUT /\ m.mode # "velocity"
  BY <1>2, StillIsSpeed, VoltageKeeps DEF CommandTimeout, SlewInv
<1>3. CASE m.timeout + 1 # MOTOR_TIMEOUT
  <2>1. m.timeout + 1 \in 0 .. MOTOR_TIMEOUT - 1
    BY <1>3, TimeoutAssumption DEF MotorState
  <2>2. CommandTimeout(m) = [m EXCEPT !.timeout = @ + 1]
    BY <1>3 DEF CommandTimeout
  <2>3. [m EXCEPT !.timeout = @ + 1] \in MotorState
    BY <2>1 DEF MotorState
  <2>4. RampInv([m EXCEPT !.timeout = @ + 1])
    BY DEF MotorState, RampInv
  <2>5. /\ SlewInv(m) => SlewInv([m EXCEPT !.timeout = @ + 1])
        /\ [m EXCEPT !.timeout = @ + 1].speed = m.speed
    BY DEF MotorState, SlewInv
  <2> QED
    BY <2>2, <2>3, <2>4, <2>5
<1> QED
  BY <1>1, <1>2, <1>3

LEMMA SlewStepKeeps ==
  ASSUME NEW m \in MotorState, RampInv(m)
  PROVE  LET n == SlewStep(m)
         IN  /\ n \in MotorState
             /\ RampInv(n)
             /\ n.final = m.final
             /\ SlewInv(m) => /\ SlewInv(n)
                              /\ \A i \in Motor : Nearer(n.speed[i], m.speed[i], m.final[i])
<1> DEFINE n == SlewStep(m)
           w == m.slew
<1>1. /\ w \in SlewState /\ w.steps \in Nat /\ w.count \in Nat
      /\ w.float \in Vector /\ w.interval \in Vector
      /\ m.final \in [Motor -> Speeds] /\ m.speed \in [Motor -> Speeds]
      /\ m.mode \in {"velocity", "voltage"} /\ m.timeout \in 0 .. MOTOR_TIMEOUT - 1
  BY DEF MotorState, SlewState
<1>2. CASE w.count < w.steps
  <2> DEFINE u == Ramped(w)
             speed == IntegerPart(u)
  <2>1. u = [ steps |-> w.steps, count |-> w.count + 1, interval |-> w.interval,
              float |-> [i \in Motor |-> w.float[i] + w.interval[i]] ]
    BY DEF Ramped
  <2>2. u \in SlewState
    BY <1>1, <2>1 DEF SlewState, Vector
  <2>3. w.steps - w.count \in Nat \ {0} /\ w.steps - (w.count + 1) = (w.steps - w.count) - 1
    BY <1>1, <1>2
  <2>4. ASSUME NEW i \in Motor
        PROVE  /\ Ramp(u.float[i], u.interval[i], u.steps - u.count, m.final[i])
               /\ u.float[i] \div FIX \in Speeds
               /\ Nearer(u.float[i] \div FIX, w.float[i] \div FIX, m.final[i])
    <3>1. w.float[i] \in Int /\ w.interval[i] \in Int /\ m.final[i] \in Speeds
      BY <1>1 DEF Vector
    <3>2. Ramp(w.float[i], w.interval[i], w.steps - w.count, m.final[i])
      BY <1>1, <1>2 DEF RampInv
    <3>3. u.float[i] = w.float[i] + w.interval[i] /\ u.interval[i] = w.interval[i]
      BY <2>1
    <3>4. u.steps - u.count = (w.steps - w.count) - 1
      BY <2>1, <2>3
    <3> QED
      BY <2>3, <3>1, <3>2, <3>3, <3>4, RampStep
  <2>5. speed \in [Motor -> Speeds] /\ \A i \in Motor : speed[i] = u.float[i] \div FIX
    BY <2>4 DEF IntegerPart
  <2>6. n = [ speed |-> speed, final |-> m.final, slew |-> u, mode |-> m.mode,
              timeout |-> m.timeout ]
    BY <1>2 DEF SlewStep, Moved
  <2>7. u.count <= u.steps
    BY <1>1, <1>2, <2>1
  <2> HIDE DEF u, n
  <2>8. n \in MotorState
    BY <1>1, <2>2, <2>5, <2>6 DEF MotorState
  <2>9. RampInv(n)
    BY <2>4, <2>6 DEF RampInv
  <2>10. SlewInv(m) => /\ SlewInv(n)
                       /\ \A i \in Motor : Nearer(n.speed[i], m.speed[i], m.final[i])
    <3> SUFFICES ASSUME SlewInv(m)
                 PROVE  /\ SlewInv(n)
                        /\ \A i \in Motor : Nearer(n.speed[i], m.speed[i], m.final[i])
      OBVIOUS
    <3>1. m.mode = "velocity" /\ m.speed = IntegerPart(w)
      BY <1>1, <1>2 DEF SlewInv
    <3>2. SlewInv(n)
      BY <2>2, <2>6, <2>7, <3>1 DEF SlewInv, SlewState
    <3>3. \A i \in Motor : m.speed[i] = w.float[i] \div FIX
      BY <3>1 DEF IntegerPart
    <3> QED
      BY <2>4, <2>5, <2>6, <3>2, <3>3
  <2> QED
    BY <2>6, <2>8, <2>9, <2>10 DEF n
<1>3. CASE w.count = w.steps
  <2> DEFINE u == [w EXCEPT !.count = @ + 1]
  <2>1. n = [ speed |-> m.final, final |-> m.final, slew |-> u, mode |-> m.mode,
              timeout |-> m.timeout ]
    BY <1>1, <1>3 DEF SlewStep, Moved
  <2>2. u \in SlewState /\ u.count = w.count + 1 /\ u.steps = w.steps
    BY <1>1 DEF SlewState
  <2>3. u.count > u.steps /\ ~(u.count <= u.steps)
    BY <1>1, <1>3, <2>2
  <2> HIDE DEF u, n
  <2>4. n \in MotorState
    BY <1>1, <2>1, <2>2 DEF MotorState
  <2>5. RampInv(n)
    BY <2>1, <2>3 DEF RampInv
  <2>6. SlewInv(m) => /\ SlewInv(n)
                      /\ \A i \in Motor : Nearer(n.speed[i], m.speed[i], m.final[i])
    <3> SUFFICES ASSUME SlewInv(m)
                 PROVE  /\ SlewInv(n)
                        /\ \A i \in Motor : Nearer(n.speed[i], m.speed[i], m.final[i])
      OBVIOUS
    <3>1. m.mode = "velocity" /\ m.speed = IntegerPart(w)
      BY <1>1, <1>3 DEF SlewInv
    <3>2. SlewInv(n)
      BY <2>1, <2>3, <3>1 DEF SlewInv
    <3>3. ASSUME NEW i \in Motor
          PROVE  Nearer(n.speed[i], m.speed[i], m.final[i])
      <4>1. w.float[i] \in Int /\ w.interval[i] \in Int /\ m.final[i] \in Speeds
        BY <1>1 DEF Vector
      <4>2. Ramp(w.float[i], w.interval[i], 0, m.final[i])
        BY <1>1, <1>3 DEF RampInv
      <4>3. m.speed[i] = w.float[i] \div FIX /\ n.speed[i] = m.final[i]
        BY <2>1, <3>1 DEF IntegerPart
      <4> QED
        BY <4>1, <4>2, <4>3, RampEnd
    <3> QED
      BY <3>2, <3>3
  <2> QED
    BY <2>1, <2>4, <2>5, <2>6 DEF n
<1>4. CASE w.count > w.steps
  <2>1. n = m
    BY <1>1, <1>4 DEF SlewStep
  <2>2. \A i \in Motor : Nearer(m.speed[i], m.speed[i], m.final[i])
    BY <1>1, SpeedAssumption DEF Nearer, Abs, Speeds
  <2> QED
    BY <2>1, <2>2
<1> QED
  BY <1>1, <1>2, <1>3, <1>4

----------------------------------------------------------------------------
(* The invariant is inductive *)

LEMMA PacketsTyped ==
  ASSUME NEW m \in MotorState, NEW power_rx \in PowerReplies
  PROVE  Packets(m, power_rx)
           \in [mode: {"velocity", "voltage"}, speed: [Motor -> Speeds], voltage: 1 .. 255,
               no_charge: BOOLEAN, leds: BOOLEAN, misaligned: BOOLEAN]
<1>1. power_rx.aligned \in BOOLEAN /\ power_rx.voltage \in 0 .. 255
  BY PowerAssumption
<1>2. m.mode \in {"velocity", "voltage"} /\ m.speed \in [Motor -> Speeds]
  BY DEF MotorState
<1> QED
  BY <1>1, <1>2, StillIsSpeed DEF Packets, IsCharging

\* Every step of a tick, and of every caller, taken together.
LEMMA EventKeeps ==
  ASSUME NEW m \in MotorState, RampInv(m)
  PROVE  LET n == SlewStep(CommandTimeout(m))
         IN  /\ n \in MotorState
             /\ RampInv(n)
             /\ n.final = CommandTimeout(m).final
             /\ SlewInv(m) => /\ SlewInv(n)
                              /\ \A i \in Motor : Nearer(n.speed[i], m.speed[i], n.final[i])
<1> DEFINE c == CommandTimeout(m)
<1>1. c \in MotorState /\ RampInv(c) /\ (SlewInv(m) => SlewInv(c) /\ c.speed = m.speed)
  BY CommandTimeoutKeeps
<1> HIDE DEF c
<1>2. /\ SlewStep(c) \in MotorState
      /\ RampInv(SlewStep(c))
      /\ SlewStep(c).final = c.final
      /\ SlewInv(c) => /\ SlewInv(SlewStep(c))
                       /\ \A i \in Motor : Nearer(SlewStep(c).speed[i], c.speed[i], c.final[i])
  BY <1>1, SlewStepKeeps
<1> QED
  BY <1>1, <1>2 DEF c

LEMMA InitIInv == Init => IInv
<1> SUFFICES ASSUME Init PROVE IInv
  OBVIOUS
<1>1. motor = [ speed |-> Still, final |-> Still,
                slew |-> [steps |-> 0, count |-> 1, float |-> Still, interval |-> Still],
                mode |-> "velocity", timeout |-> 0 ]
  BY DEF Init
<1>2. motor \in MotorState
  <2>1. [steps |-> 0, count |-> 1, float |-> Still, interval |-> Still] \in SlewState
    BY StillIsSpeed DEF SlewState
  <2> QED
    BY <1>1, <2>1, StillIsSpeed, TimeoutAssumption DEF MotorState
<1>3. TypeOK
  <2>1. sent \in [mode: {"velocity", "voltage"}, speed: [Motor -> Speeds], voltage: 1 .. 255,
                  no_charge: BOOLEAN, leds: BOOLEAN, misaligned: BOOLEAN]
    <3>1. sent = [mode |-> "velocity", speed |-> Still, voltage |-> 255, no_charge |-> FALSE,
                  leds |-> FALSE, misaligned |-> FALSE]
      BY DEF Init
    <3> QED
      BY <3>1, StillIsSpeed
  <2>2. drive \in BOOLEAN /\ charging \in BOOLEAN /\ used \in Mixes /\ quiet \in BOOLEAN
    BY DEF Init
  <2> QED
    BY <1>2, <2>1, <2>2 DEF TypeOK
<1>4. RampInv(motor) /\ SlewInv(motor)
  BY <1>1 DEF RampInv, SlewInv
<1> QED
  BY <1>3, <1>4 DEF IInv

LEMMA NextIInv == IInv /\ [Next]_vars => IInv'
<1> SUFFICES ASSUME IInv, [Next]_vars PROVE IInv'
  OBVIOUS
<1>1. /\ motor \in MotorState /\ RampInv(motor) /\ (OnlySlews => SlewInv(motor))
      /\ TypeOK
  BY DEF IInv, TypeOK
<1>2. CASE motor_event
  <2>1. /\ motor' \in MotorState
        /\ RampInv(motor')
        /\ SlewInv(motor) => SlewInv(motor')
    BY <1>1, <1>2, EventKeeps DEF motor_event
  <2>2. TypeOK'
    BY <1>1, <1>2, <2>1, PacketsTyped DEF motor_event, TypeOK
  <2>3. OnlySlews' => SlewInv(motor')
    BY <1>1, <1>2, <2>1 DEF motor_event, OnlySlews
  <2> QED
    BY <2>1, <2>2, <2>3 DEF IInv
<1>3. CASE Slew
  <2>1. PICK c \in SlewCommands : motor' = motor_set_speed_slew(motor, c)
    BY <1>3 DEF Slew
  <2>2. c \in Vector
    BY CommandAssumption
  <2>3. /\ motor' \in MotorState
        /\ RampInv(motor')
        /\ SlewInv(motor) => SlewInv(motor')
    BY <1>1, <2>1, <2>2, SlewKeeps
  <2> QED
    BY <1>1, <1>3, <2>3 DEF Slew, CallerOnly, IInv, TypeOK, OnlySlews
<1>4. CASE XYTheta
  <2>1. PICK v \in XYThetaCommands : motor' = motor_set_speed_xytheta(motor, v)
    BY <1>4 DEF XYTheta
  <2>2. v \in Vector
    BY CommandAssumption
  <2>3. /\ motor' \in MotorState
        /\ RampInv(motor')
        /\ SlewInv(motor) => SlewInv(motor')
    BY <1>1, <2>1, <2>2, XYThetaKeeps
  <2> QED
    BY <1>1, <1>4, <2>3 DEF XYTheta, CallerOnly, IInv, TypeOK, OnlySlews
<1>5. CASE Voltage
  <2>1. PICK v \in VoltageCommands : motor' = motor_set_voltage(motor, v)
    BY <1>5 DEF Voltage
  <2>2. v \in Vector
    BY CommandAssumption
  <2>3. motor' \in MotorState /\ RampInv(motor')
    BY <1>1, <2>1, <2>2, VoltageKeeps
  <2> QED
    BY <1>1, <1>5, <2>3 DEF Voltage, Calls, CallerOnly, IInv, TypeOK, OnlySlews
<1>6. CASE Speed
  <2>1. PICK i \in 0 .. 3, s \in SpeedCommands : motor' = motor_set_speed(motor, i, s)
    BY <1>6 DEF Speed
  <2>2. i \in Int /\ s \in Int
    BY CommandAssumption
  <2>3. motor' \in MotorState /\ RampInv(motor')
    BY <1>1, <2>1, <2>2, SpeedKeeps
  <2> QED
    BY <1>1, <1>6, <2>3 DEF Speed, Calls, CallerOnly, IInv, TypeOK, OnlySlews
<1>7. CASE motor_init
  <2> DEFINE w == [ steps |-> 0, count |-> 1, float |-> motor.slew.float,
                    interval |-> motor.slew.interval ]
  <2>1. motor' = [ speed |-> motor.speed, final |-> motor.final, slew |-> w,
                   mode |-> motor.mode, timeout |-> motor.timeout ]
    BY <1>7 DEF motor_init, Moved
  <2>2. w \in SlewState /\ ~(w.count <= w.steps)
    BY <1>1 DEF MotorState, SlewState
  <2> HIDE DEF w
  <2>3. motor' \in MotorState
    BY <1>1, <2>1, <2>2 DEF MotorState
  <2>4. RampInv(motor')
    BY <2>1, <2>2 DEF RampInv
  <2>5. ~OnlySlews'
    BY <1>7 DEF motor_init, Calls, OnlySlews
  <2>6. TypeOK'
    BY <1>1, <1>7, <2>3 DEF motor_init, TypeOK
  <2> QED
    BY <2>4, <2>5, <2>6 DEF IInv
<1>8. CASE SetDrive
  BY <1>1, <1>8 DEF SetDrive, IInv, TypeOK, OnlySlews
<1>9. CASE SetCharging
  BY <1>1, <1>9 DEF SetCharging, IInv, TypeOK, OnlySlews
<1>10. CASE CallersStop
  BY <1>1, <1>10 DEF CallersStop, IInv, TypeOK, OnlySlews
<1>11. CASE UNCHANGED vars
  BY <1>1, <1>11 DEF vars, IInv, TypeOK, OnlySlews
<1> QED
  BY <1>2, <1>3, <1>4, <1>5, <1>6, <1>7, <1>8, <1>9, <1>10, <1>11 DEF Next

LEMMA Invariant == Spec => []IInv
  BY InitIInv, NextIInv, PTL DEF Spec

----------------------------------------------------------------------------
(* The theorems *)

\* Every value the task keeps and sends has its range: wheel speeds stay
\* within MOTOR_MAX_SPEED on every path, the ramp included, and no packet
\* carries a bus voltage of 0 (lib_motor.c, motor_event and the setters).
THEOREM TypeCorrect == Spec => []TypeOK
<1>1. IInv => TypeOK
  BY DEF IInv
<1> QED
  BY <1>1, Invariant, PTL

\* A finished slew leaves the wheels at the commanded speed, for every rate,
\* maximum and timeout: the truncated interval of motor_set_speed_slew leaves
\* less than one unit for the last jump of motor_event.
THEOREM SlewReaches == Spec => []SlewEndsAtFinal
<1>1. IInv => SlewEndsAtFinal
  BY DEF IInv, SlewEndsAtFinal, Slewing, SlewInv, TypeOK, MotorState, SlewState
<1> QED
  BY <1>1, Invariant, PTL

LEMMA StepIsNear ==
  ASSUME IInv, [Next]_vars, OnlySlews, NEW i \in Motor
  PROVE  \/ motor'.speed[i] = motor.speed[i]
         \/ motor_event /\ Nearer(motor'.speed[i], motor.speed[i], motor'.final[i])
<1>1. motor \in MotorState /\ RampInv(motor) /\ SlewInv(motor)
  BY DEF IInv, TypeOK
<1>2. CASE motor_event
  BY <1>1, <1>2, EventKeeps DEF motor_event
<1>3. CASE Slew
  <2>1. PICK c \in SlewCommands : motor' = motor_set_speed_slew(motor, c)
    BY <1>3 DEF Slew
  <2> QED
    BY <1>1, <2>1, CommandAssumption, SlewKeeps
<1>4. CASE XYTheta
  <2>1. PICK v \in XYThetaCommands : motor' = motor_set_speed_xytheta(motor, v)
    BY <1>4 DEF XYTheta
  <2> QED
    BY <1>1, <2>1, CommandAssumption, XYThetaKeeps
<1>5. ~Voltage /\ ~Speed /\ ~motor_init
  BY DEF OnlySlews, Voltage, Speed, motor_init, Calls
<1>6. CASE SetDrive \/ SetCharging \/ CallersStop \/ UNCHANGED vars
  BY <1>6 DEF SetDrive, SetCharging, CallersStop, vars
<1> QED
  BY <1>2, <1>3, <1>4, <1>5, <1>6 DEF Next

LEMMA SpeedsAreIntegers ==
  ASSUME TypeOK, NEW i \in Motor
  PROVE  motor.speed[i] \in Int /\ motor.final[i] \in Int
  BY SpeedAssumption DEF TypeOK, MotorState, Speeds

\* Under slew commands the wheel speeds change by one unit per tick at most.
THEOREM RateLimited == Spec => SlewRateLimited
<1>1. ASSUME IInv, [Next]_vars, OnlySlews
      PROVE  \A i \in Motor : Abs(motor'.speed[i] - motor.speed[i]) <= 1
  <2>1. TAKE i \in Motor
  <2>2. motor.speed[i] \in Int
    BY <1>1, SpeedsAreIntegers DEF IInv
  <2> QED
    BY <1>1, <2>2, StepIsNear DEF Nearer, Abs
<1>2. IInv /\ [Next]_vars
        => [OnlySlews => \A i \in Motor : Abs(motor'.speed[i] - motor.speed[i]) <= 1]_vars
  BY <1>1
<1> QED
  BY <1>2, Invariant, PTL DEF Spec, SlewRateLimited

\* A slew never takes a wheel further from its final speed.
THEOREM NeverOvershoots == Spec => NoOvershoot
<1>1. ASSUME IInv, [Next]_vars, OnlySlews, motor'.final = motor.final
      PROVE  \A i \in Motor : Abs(motor.final[i] - motor'.speed[i])
                               <= Abs(motor.final[i] - motor.speed[i])
  <2>1. TAKE i \in Motor
  <2>2. motor.speed[i] \in Int /\ motor.final[i] \in Int
    BY <1>1, SpeedsAreIntegers DEF IInv
  <2> QED
    BY <1>1, <2>2, StepIsNear DEF Nearer, Abs
<1>2. IInv /\ [Next]_vars
        => [OnlySlews /\ Slewing /\ motor'.final = motor.final
              => \A i \in Motor : Abs(motor.final[i] - motor'.speed[i])
                                   <= Abs(motor.final[i] - motor.speed[i])]_vars
  BY <1>1
<1> QED
  BY <1>2, Invariant, PTL DEF Spec, NoOvershoot
----------------------------------------------------------------------------
(***************************************************************************)
(* How long the wheels still turn once the callers are silent: what is     *)
(* left of the timeout and the longest slew to rest, or of the slew to     *)
(* rest itself.                                                            *)
(***************************************************************************)
Longest == MOTOR_MAX_SPEED * MOTOR_SLEW_RATE
RampTicks(m) ==
  IF m.slew.count <= m.slew.steps THEN m.slew.steps - m.slew.count + 1 ELSE 0
SlewTicks(m) ==
  IF m.final = Still THEN RampTicks(m) ELSE MOTOR_TIMEOUT - m.timeout + Longest
RawTicks(m) == IF m.speed = Still THEN 0 ELSE MOTOR_TIMEOUT - m.timeout
TicksToStop == IF OnlyRaw THEN RawTicks(motor) ELSE SlewTicks(motor)
OneKind == OnlySlews \/ OnlyRaw

\* A slew to rest is never longer than Longest; raw commands start no slew.
RestInv(m) == m.final = Still => m.slew.steps <= Longest
RawInv(m) ==
  /\ m.final = Still /\ m.slew.count > m.slew.steps
  /\ m.mode = "velocity" => m.speed = Still
StopInv == IInv /\ RestInv(motor) /\ (OnlyRaw => RawInv(motor))

LEMMA LongestIs == Longest \in Nat /\ MOTOR_TIMEOUT \in Nat \ {0}
  BY SpeedAssumption, SlewAssumption, TimeoutAssumption DEF Longest

LEMMA FieldsTyped ==
  ASSUME NEW m \in MotorState
  PROVE  /\ m.slew.steps \in Nat /\ m.slew.count \in Nat
         /\ m.timeout \in 0 .. MOTOR_TIMEOUT - 1 /\ m.mode \in {"velocity", "voltage"}
         /\ m.speed \in [Motor -> Speeds] /\ m.final \in [Motor -> Speeds]
  BY DEF MotorState, SlewState

LEMMA ClampStill == [i \in Motor |-> Clamp(Still[i])] = Still
  BY SpeedAssumption DEF Clamp, Still

LEMMA ToRest ==
  ASSUME NEW s \in [Motor -> Speeds]
  PROVE  NewSlew(s, Still).steps \in 0 .. Longest
<1> DEFINE delta == [i \in Motor |-> Still[i] - s[i]]
           L == Largest(delta)
<1>1. delta \in Vector /\ \A i \in Motor : Abs(delta[i]) <= MOTOR_MAX_SPEED
  BY SpeedAssumption DEF Vector, Speeds, Abs, Still
<1>2. L \in 0 .. MOTOR_MAX_SPEED
  <2> HIDE DEF delta
  <2> QED BY <1>1, LargestIsBound, SpeedAssumption
<1>3. NewSlew(s, Still).steps = L * MOTOR_SLEW_RATE
  BY DEF NewSlew
<1> HIDE DEF L
<1>4. L * MOTOR_SLEW_RATE \in Nat /\ L * MOTOR_SLEW_RATE <= MOTOR_MAX_SPEED * MOTOR_SLEW_RATE
  <2>1. MOTOR_SLEW_RATE \in Nat /\ L \in Nat /\ MOTOR_MAX_SPEED - L \in Nat /\ MOTOR_MAX_SPEED \in Nat
    BY <1>2, SlewAssumption, SpeedAssumption
  <2>2. (MOTOR_MAX_SPEED - L) * MOTOR_SLEW_RATE >= 0
    BY <2>1
  <2>3. (MOTOR_MAX_SPEED - L) * MOTOR_SLEW_RATE
          = MOTOR_MAX_SPEED * MOTOR_SLEW_RATE - L * MOTOR_SLEW_RATE
    BY <2>1
  <2>4. L * MOTOR_SLEW_RATE \in Nat /\ MOTOR_MAX_SPEED * MOTOR_SLEW_RATE \in Nat
    BY <2>1
  <2> QED BY <2>2, <2>3, <2>4
<1> QED BY <1>3, <1>4 DEF Longest

LEMMA SlewRests ==
  ASSUME NEW m \in MotorState, RestInv(m), NEW c \in Vector
  PROVE  RestInv(motor_set_speed_slew(m, c))
<1> DEFINE target == [i \in Motor |-> Clamp(c[i])]
           n == motor_set_speed_slew(m, c)
<1>1. n.final = target
      /\ n.slew = IF target = m.final THEN m.slew ELSE NewSlew(m.speed, target)
  BY DEF motor_set_speed_slew
<1> HIDE DEF n, target
<1>2. CASE target = m.final
  BY <1>1, <1>2 DEF RestInv, n
<1>3. CASE target # m.final /\ target = Still
  BY <1>1, <1>3, ToRest, FieldsTyped, LongestIs DEF RestInv, n
<1>4. CASE target # m.final /\ target # Still
  BY <1>1, <1>4 DEF RestInv, n
<1> QED BY <1>2, <1>3, <1>4

\* A tick of the ramp.
LEMMA SlewStepTicks ==
  ASSUME NEW m \in MotorState
  PROVE  LET n == SlewStep(m)
         IN  /\ n.final = m.final /\ n.timeout = m.timeout /\ n.mode = m.mode
             /\ n.slew.steps = m.slew.steps
             /\ RampTicks(n) = IF RampTicks(m) = 0 THEN 0 ELSE RampTicks(m) - 1
             /\ m.slew.count > m.slew.steps => n = m
<1>1. m.slew.steps \in Nat /\ m.slew.count \in Nat /\ m.slew \in SlewState
  BY DEF MotorState, SlewState
<1>2. CASE m.slew.count < m.slew.steps
  BY <1>1, <1>2 DEF SlewStep, Moved, Ramped, RampTicks
<1>3. CASE m.slew.count = m.slew.steps
  <2>1. [m.slew EXCEPT !.count = @ + 1].count = m.slew.count + 1
        /\ [m.slew EXCEPT !.count = @ + 1].steps = m.slew.steps
    BY <1>1 DEF SlewState
  <2> QED BY <1>1, <1>3, <2>1 DEF SlewStep, Moved, RampTicks
<1>4. CASE m.slew.count > m.slew.steps
  BY <1>1, <1>4 DEF SlewStep, RampTicks
<1> QED BY <1>1, <1>2, <1>3, <1>4

\* The timeout, when every command is a slew.
LEMMA TimeoutTicks ==
  ASSUME NEW m \in MotorState, RestInv(m), m.mode = "velocity"
  PROVE  LET n == CommandTimeout(m)
         IN  /\ RestInv(n) /\ n \in MotorState
             /\ \/ n.final = Still /\ m.final = Still /\ RampTicks(n) = RampTicks(m)
                \/ n.final = Still /\ m.final # Still /\ RampTicks(n) <= SlewTicks(m)
                \/ /\ n.final = m.final /\ m.final # Still
                   /\ SlewTicks(n) = SlewTicks(m) - 1 /\ SlewTicks(m) > 1
<1> DEFINE n == CommandTimeout(m)
<1>0. /\ m.slew.steps \in Nat /\ m.slew.count \in Nat /\ m.timeout \in 0 .. MOTOR_TIMEOUT - 1
      /\ Longest \in Nat /\ MOTOR_TIMEOUT \in Nat \ {0} /\ m.speed \in [Motor -> Speeds]
  BY FieldsTyped, LongestIs
<1>1. CASE m.timeout + 1 = MOTOR_TIMEOUT
  <2>1. n = motor_set_speed_slew(m, Still)
    BY <1>1 DEF CommandTimeout
  <2>2. /\ n.final = Still
        /\ n.slew = IF m.final = Still THEN m.slew ELSE NewSlew(m.speed, Still)
    BY <2>1, ClampStill DEF motor_set_speed_slew
  <2>3. RestInv(n)
    BY <2>1, SlewRests, StillIsSpeed
  <2>4. n \in MotorState
    <3>1. n = [ speed |-> m.speed, final |-> Still, mode |-> "velocity", timeout |-> 0,
                slew |-> IF m.final = Still THEN m.slew ELSE NewSlew(m.speed, Still) ]
      BY <2>1, ClampStill DEF motor_set_speed_slew
    <3>2. NewSlew(m.speed, Still) \in SlewState /\ m.slew \in SlewState
      BY <1>0, NewSlewRamps, StillIsSpeed DEF MotorState
    <3> HIDE DEF n
    <3> QED BY <1>0, <3>1, <3>2, StillIsSpeed DEF MotorState
  <2> HIDE DEF n
  <2>5. CASE m.final = Still
    BY <2>2, <2>3, <2>4, <2>5 DEF RampTicks, n
  <2>6. CASE m.final # Still
    <3>1. n.slew.steps \in 0 .. Longest /\ n.slew.count = 0
      <4>1. NewSlew(m.speed, Still).count = 0
        BY DEF NewSlew
      <4> QED BY <1>0, <2>2, <2>6, <4>1, ToRest
    <3>2. RampTicks(n) <= Longest + 1
      BY <1>0, <3>1 DEF RampTicks
    <3>3. SlewTicks(m) = Longest + 1
      BY <1>0, <1>1, <2>6 DEF SlewTicks
    <3> QED BY <2>2, <2>3, <2>4, <2>6, <3>2, <3>3 DEF n
  <2> QED BY <2>5, <2>6
<1>2. CASE m.timeout + 1 # MOTOR_TIMEOUT
  <2>1. n = [m EXCEPT !.timeout = @ + 1]
    BY <1>2 DEF CommandTimeout
  <2>2. /\ n.final = m.final /\ n.slew = m.slew /\ n.timeout = m.timeout + 1
        /\ n \in MotorState
    BY <1>0, <1>2, <2>1 DEF MotorState
  <2>3. RestInv(n)
    BY <2>2 DEF RestInv
  <2> HIDE DEF n
  <2>4. CASE m.final = Still
    BY <2>2, <2>3, <2>4 DEF RampTicks, n
  <2>5. CASE m.final # Still
    <3>1. SlewTicks(m) = MOTOR_TIMEOUT - m.timeout + Longest
          /\ SlewTicks(n) = MOTOR_TIMEOUT - (m.timeout + 1) + Longest
      BY <2>2, <2>5 DEF SlewTicks
    <3>2. SlewTicks(n) = SlewTicks(m) - 1 /\ SlewTicks(m) > 1
      BY <1>0, <1>2, <3>1
    <3> QED BY <2>2, <2>3, <2>5, <3>2 DEF n
  <2> QED BY <2>4, <2>5
<1> QED BY <1>1, <1>2

\* A tick brings the stop nearer.
LEMMA EventTicks ==
  ASSUME NEW m \in MotorState, RestInv(m), m.mode = "velocity"
  PROVE  LET n == SlewStep(CommandTimeout(m))
         IN  /\ RestInv(n)
             /\ SlewTicks(n) < SlewTicks(m) \/ SlewTicks(n) = 0
<1> DEFINE c == CommandTimeout(m)
<1>1. /\ RestInv(c) /\ c \in MotorState
      /\ \/ c.final = Still /\ m.final = Still /\ RampTicks(c) = RampTicks(m)
         \/ c.final = Still /\ m.final # Still /\ RampTicks(c) <= SlewTicks(m)
         \/ /\ c.final = m.final /\ m.final # Still
            /\ SlewTicks(c) = SlewTicks(m) - 1 /\ SlewTicks(m) > 1
  BY TimeoutTicks
<1> HIDE DEF c
<1> DEFINE n == SlewStep(c)
<1>2. /\ n.final = c.final /\ n.timeout = c.timeout /\ n.slew.steps = c.slew.steps
      /\ RampTicks(n) = IF RampTicks(c) = 0 THEN 0 ELSE RampTicks(c) - 1
  BY <1>1, SlewStepTicks
<1> HIDE DEF n
<1>3. RestInv(n)
  BY <1>1, <1>2 DEF RestInv
<1>4. RampTicks(c) \in Nat /\ RampTicks(m) \in Nat /\ SlewTicks(m) \in Nat
  <2>1. \A k \in MotorState : RampTicks(k) \in Nat
    BY FieldsTyped DEF RampTicks
  <2>2. SlewTicks(m) \in Nat
    BY <2>1, FieldsTyped, LongestIs DEF SlewTicks
  <2> QED BY <1>1, <2>1, <2>2
<1>5. CASE c.final = Still
  <2>1. SlewTicks(n) = RampTicks(n)
    BY <1>2, <1>5 DEF SlewTicks
  <2>2. RampTicks(c) <= SlewTicks(m)
    BY <1>1, <1>4, <1>5 DEF SlewTicks
  <2>3. SlewTicks(n) < SlewTicks(m) \/ SlewTicks(n) = 0
    BY <1>2, <1>4, <2>1, <2>2
  <2> QED BY <1>3, <2>3 DEF n, c
<1>6. CASE c.final # Still
  <2>1. SlewTicks(n) = SlewTicks(c)
    BY <1>2, <1>6 DEF SlewTicks
  <2>2. SlewTicks(n) < SlewTicks(m)
    BY <1>1, <1>4, <1>6, <2>1
  <2> QED BY <1>3, <2>2 DEF n, c
<1> QED BY <1>5, <1>6

LEMMA RawEventTicks ==
  ASSUME NEW m \in MotorState, RawInv(m)
  PROVE  LET n == SlewStep(CommandTimeout(m))
         IN  /\ RawInv(n)
             /\ RawTicks(n) < RawTicks(m) \/ RawTicks(n) = 0
<1> DEFINE c == CommandTimeout(m)
<1>0. /\ m.timeout \in 0 .. MOTOR_TIMEOUT - 1 /\ MOTOR_TIMEOUT \in Nat \ {0}
      /\ m.mode \in {"velocity", "voltage"} /\ m.final = Still
      /\ m.slew.count > m.slew.steps /\ (m.mode = "velocity" => m.speed = Still)
  BY FieldsTyped, LongestIs DEF RawInv
<1>1. c.final = m.final /\ c.slew = m.slew /\ c.mode = m.mode
      /\ IF m.timeout + 1 = MOTOR_TIMEOUT THEN c.speed = Still
         ELSE c.speed = m.speed /\ c.timeout = m.timeout + 1
  <2>1. CASE m.timeout + 1 = MOTOR_TIMEOUT /\ m.mode = "velocity"
    <3>1. c = motor_set_speed_slew(m, Still)
      BY <2>1 DEF CommandTimeout
    <3> QED BY <1>0, <2>1, <3>1, ClampStill DEF motor_set_speed_slew
  <2>2. CASE m.timeout + 1 = MOTOR_TIMEOUT /\ m.mode = "voltage"
    <3>1. c = motor_set_voltage(m, Still)
      BY <2>2 DEF CommandTimeout
    <3>2. [i \in Motor |-> Clamp(SignedChar(Still[i]))] = Still
      BY SpeedAssumption DEF Clamp, SignedChar, Still
    <3> QED BY <2>2, <3>1, <3>2 DEF motor_set_voltage
  <2>3. CASE m.timeout + 1 # MOTOR_TIMEOUT
    <3>1. c = [m EXCEPT !.timeout = @ + 1]
      BY <2>3 DEF CommandTimeout
    <3> QED BY <2>3, <3>1 DEF MotorState
  <2> QED BY <1>0, <2>1, <2>2, <2>3
<1> HIDE DEF c
<1>2. SlewStep(c) = c
  <2>1. m.slew.count \in Nat /\ m.slew.steps \in Nat
    BY FieldsTyped
  <2> QED BY <1>0, <1>1, <2>1 DEF SlewStep
<1>3. RawInv(c)
  BY <1>0, <1>1 DEF RawInv
<1>4. RawTicks(c) < RawTicks(m) \/ RawTicks(c) = 0
  BY <1>0, <1>1 DEF RawTicks
<1> QED BY <1>2, <1>3, <1>4 DEF c

LEMMA StopNext == StopInv /\ [Next]_vars => StopInv'
<1> SUFFICES ASSUME StopInv, [Next]_vars PROVE StopInv'
  OBVIOUS
<1>1. IInv /\ IInv' /\ motor \in MotorState /\ RestInv(motor)
      /\ (OnlyRaw => RawInv(motor)) /\ (OnlySlews => motor.mode = "velocity")
  BY NextIInv DEF StopInv, IInv, TypeOK, SlewInv
<1>2. UNCHANGED used
  BY DEF Next, vars, motor_event, Slew, XYTheta, Voltage, Speed, motor_init, SetDrive,
     SetCharging, CallersStop, CallerOnly
<1>3. CASE motor_event
  <2>1. RestInv(motor')
    <3>1. RestInv(CommandTimeout(motor)) /\ CommandTimeout(motor) \in MotorState
      <4>1. CASE motor.mode = "velocity"
        BY <1>1, <4>1, TimeoutTicks
      <4>2. CASE motor.mode # "velocity"
        <5>1. CommandTimeout(motor) \in MotorState
          BY <1>1, CommandTimeoutKeeps DEF IInv
        <5>2. /\ CommandTimeout(motor).final = motor.final
              /\ CommandTimeout(motor).slew = motor.slew
          BY <1>1, <4>2 DEF CommandTimeout, motor_set_voltage, MotorState
        <5> QED BY <1>1, <5>1, <5>2 DEF RestInv
      <4> QED BY <4>1, <4>2
    <3> QED BY <1>3, <3>1, SlewStepTicks DEF motor_event, RestInv
  <2>2. OnlyRaw' => RawInv(motor')
    BY <1>1, <1>2, <1>3, RawEventTicks DEF motor_event, OnlyRaw
  <2> QED BY <1>1, <2>1, <2>2 DEF StopInv
<1>4. CASE Slew \/ XYTheta
  <2>1. PICK c \in Vector : motor' = motor_set_speed_slew(motor, c)
    BY <1>4, CommandAssumption, WheelSpaceIsVector DEF Slew, XYTheta, motor_set_speed_xytheta
  <2>2. ~OnlyRaw'
    BY <1>2, <1>4 DEF Slew, XYTheta, Calls, OnlyRaw
  <2> QED BY <1>1, <2>1, <2>2, SlewRests DEF StopInv
<1>5. CASE Voltage \/ Speed
  <2>1. motor'.final = motor.final /\ motor'.slew = motor.slew /\ motor'.mode = "voltage"
    BY <1>5 DEF Voltage, Speed, motor_set_voltage, motor_set_speed
  <2> QED BY <1>1, <1>2, <2>1 DEF StopInv, RestInv, RawInv, OnlyRaw
<1>6. CASE motor_init
  <2>1. motor'.slew.steps = 0
    BY <1>6 DEF motor_init, Moved
  <2>2. ~OnlyRaw'
    BY <1>2, <1>6 DEF motor_init, Calls, OnlyRaw
  <2> QED BY <1>1, <2>1, <2>2, LongestIs DEF StopInv, RestInv
<1>7. CASE UNCHANGED motor
  BY <1>1, <1>2, <1>7 DEF StopInv, OnlyRaw
<1> QED BY <1>3, <1>4, <1>5, <1>6, <1>7
       DEF Next, vars, SetDrive, SetCharging, CallersStop

LEMMA StopInvariance == Spec => []StopInv
<1>1. Init => StopInv
  <2> SUFFICES ASSUME Init PROVE StopInv
    OBVIOUS
  <2>1. IInv
    BY InitIInv
  <2>2. motor.final = Still /\ motor.slew.steps = 0 /\ motor.slew.count = 1 /\ motor.speed = Still
    BY DEF Init
  <2> QED BY <2>1, <2>2, LongestIs DEF StopInv, RestInv, RawInv
<1> QED BY <1>1, StopNext, PTL DEF Spec

\* Once the callers that give one kind of command are silent, every tick of
\* motor_event brings the stop nearer and nothing else defers it, from
\* MOTOR_TIMEOUT and the longest slew to rest at most; then the wheels stand
\* still for as long as the callers are silent.
THEOREM StopsInTime ==
  Spec => /\ [](OneKind => /\ TicksToStop \in 0 .. MOTOR_TIMEOUT + Longest
                           /\ TicksToStop = 0 => AllStill)
          /\ [][quiet /\ OneKind =>
                  IF motor_event THEN TicksToStop' < TicksToStop \/ TicksToStop' = 0
                                 ELSE TicksToStop' = TicksToStop]_vars
<1>1. StopInv => (OneKind => /\ TicksToStop \in 0 .. MOTOR_TIMEOUT + Longest
                             /\ TicksToStop = 0 => AllStill)
  <2> SUFFICES ASSUME StopInv, OneKind
               PROVE  /\ TicksToStop \in 0 .. MOTOR_TIMEOUT + Longest
                      /\ TicksToStop = 0 => AllStill
    OBVIOUS
  <2>1. /\ motor \in MotorState /\ RestInv(motor) /\ Longest \in Nat
        /\ MOTOR_TIMEOUT \in Nat \ {0}
    BY LongestIs DEF StopInv, IInv, TypeOK
  <2>2. /\ motor.slew.steps \in Nat /\ motor.slew.count \in Nat
        /\ motor.timeout \in 0 .. MOTOR_TIMEOUT - 1
    BY <2>1, FieldsTyped
  <2>3. CASE OnlyRaw
    <3>1. TicksToStop = IF motor.speed = Still THEN 0 ELSE MOTOR_TIMEOUT - motor.timeout
      BY <2>3 DEF TicksToStop, RawTicks
    <3> QED BY <2>1, <2>2, <3>1 DEF AllStill
  <2>4. CASE OnlySlews
    <3>1. TicksToStop = SlewTicks(motor)
      BY <2>4 DEF TicksToStop, OnlySlews, OnlyRaw
    <3>2. CASE motor.final = Still
      <4>1. motor.slew.count > motor.slew.steps => motor.speed = Still
        BY <2>4, <3>2 DEF StopInv, IInv, SlewInv
      <4>2. TicksToStop = IF motor.slew.count <= motor.slew.steps
                          THEN motor.slew.steps - motor.slew.count + 1 ELSE 0
        BY <3>1, <3>2 DEF SlewTicks, RampTicks
      <4> QED BY <2>1, <2>2, <3>2, <4>1, <4>2 DEF RestInv, AllStill
    <3>3. CASE motor.final # Still
      <4>1. TicksToStop = MOTOR_TIMEOUT - motor.timeout + Longest
        BY <3>1, <3>3 DEF SlewTicks
      <4> QED BY <2>1, <2>2, <4>1
    <3> QED BY <3>2, <3>3
  <2> QED BY <2>3, <2>4 DEF OneKind
<1>2. StopInv /\ [Next]_vars =>
        [quiet /\ OneKind => IF motor_event THEN TicksToStop' < TicksToStop \/ TicksToStop' = 0
                                            ELSE TicksToStop' = TicksToStop]_vars
  <2> SUFFICES ASSUME StopInv, [Next]_vars, quiet, OneKind
               PROVE  IF motor_event THEN TicksToStop' < TicksToStop \/ TicksToStop' = 0
                                     ELSE TicksToStop' = TicksToStop
    OBVIOUS
  <2>1. motor \in MotorState /\ RestInv(motor)
        /\ (OnlyRaw => RawInv(motor)) /\ (OnlySlews => motor.mode = "velocity")
    BY DEF StopInv, IInv, TypeOK, SlewInv
  <2>2. CASE motor_event
    <3>1. UNCHANGED used /\ motor' = SlewStep(CommandTimeout(motor))
      BY <2>2 DEF motor_event
    <3>2. CASE OnlyRaw
      BY <2>1, <2>2, <3>1, <3>2, RawEventTicks DEF TicksToStop, OnlyRaw
    <3>3. CASE ~OnlyRaw
      <4>1. OnlySlews /\ ~OnlyRaw'
        BY <3>1, <3>3 DEF OneKind, OnlyRaw
      <4>2. SlewTicks(motor') < SlewTicks(motor) \/ SlewTicks(motor') = 0
        BY <2>1, <3>1, <4>1, EventTicks
      <4> QED BY <2>2, <3>3, <4>1, <4>2 DEF TicksToStop
    <3> QED BY <3>2, <3>3
  <2>3. CASE ~motor_event
    <3>1. UNCHANGED <<motor, used>>
      BY <2>3 DEF Next, vars, Slew, XYTheta, Voltage, Speed, motor_init, SetDrive, SetCharging,
         CallersStop, Calls
    <3>2. TicksToStop' = TicksToStop
      BY <3>1 DEF TicksToStop, OnlyRaw
    <3> QED BY <2>3, <3>2
  <2> QED BY <2>2, <2>3
<1> QED BY <1>1, <1>2, StopInvariance, PTL DEF Spec
=============================================================================
