--------------------------- MODULE RechargerProofs ---------------------------
(***************************************************************************)
(* Proofs about Recharger, for every number of sensors, length of history, *)
(* interval, limit of a counter and set of inputs: the counters never      *)
(* wrap, the automaton acts on fresh readings only, and it is a dock       *)
(* search.                                                                 *)
(***************************************************************************)
EXTENDS Recharger, FiniteSetTheorems, TLAPS

\* The counters, as the C types hold them.
CountInv ==
  /\ wanderCounter \in Nat
  /\ immobileCounter \in 0 .. 255
  /\ NeverWraps

\* The state ALIGN returns to: never one of a docking, which would skip the
\* counters or the docking phase.
LastInv ==
  fsaState \in {"ALIGN", "CLOSE"} => lastFSAState \in {"FORWARD", "ALIGN", "CLOSE"}

\* time and the readings since recharger_enable are only equal while the
\* recharger is enabled: recharger_init resets one of them.
FreshInv ==
  /\ time \in 0 .. IR_HISTORY_SIZE
  /\ recharger_enabled => fresh = time

----------------------------------------------------------------------------
(* The steps of the automaton *)

LEMMA Lengths ==
  /\ CF_WANDER_LENGTH \in Nat \ {0}
  /\ CF_ROTATE_DOCK_FAIL_TIMEOUT \in Nat \ {0}
  /\ CF_EVENT_INTERVAL \in Nat \ {0}
  /\ CF_ROTATE_DOCK_IMMOBILE_TIMEOUT \in 1 .. 255
  /\ CLOSE_IMMOBILE \in 1 .. 255
  /\ DOCK_CYCLE \in Nat
  BY LengthAssumption, SMT

\* Below the limit of its type, a counter that is not 0 is decremented.
LEMMA DecrementedOnce ==
  ASSUME NEW x \in 1 .. 255
  PROVE  Decremented(x) = x - 1
  BY DEF Decremented

StepInv == CountInv /\ LastInv

\* The moves between the phases of DockSearch while the recharger is enabled.
Moves(p, q) ==
  \/ q = p
  \/ p = "search" /\ q = "approach"
  \/ p = "approach" /\ q \in {"dock", "search"}
  \/ p = "dock" /\ q \in {"docked", "search"}

StepKept == CountInv' /\ LastInv' /\ Moves(phase, phase')

LEMMA WanderKeeps ==
  ASSUME StepInv, recharger_fsa_wander
  PROVE  StepKept
<1>1. CASE recharger_enter_state("FORWARD")
  BY <1>1, Lengths DEF StepInv, StepKept, CountInv, LastInv, NeverWraps, Moves, phase,
     recharger_fsa_wander, recharger_enter_state, EnterFrom, Armed
<1>2. CASE /\ wanderCounter' = (IF wanderCounter <= 0 THEN CF_WANDER_LENGTH
                                                     ELSE wanderCounter) - 1
           /\ UNCHANGED <<fsaState, lastFSAState, immobileCounter, alignAvoid, docking_cycle>>
  BY <1>2, Lengths DEF StepInv, StepKept, CountInv, LastInv, NeverWraps, Moves, phase,
     recharger_fsa_wander
<1> QED BY <1>1, <1>2 DEF recharger_fsa_wander

LEMMA AlignKeeps ==
  ASSUME StepInv, recharger_fsa_align
  PROVE  StepKept
<1>1. CASE recharger_enter_state(lastFSAState)
  BY <1>1, Lengths DEF StepInv, StepKept, CountInv, LastInv, NeverWraps, Moves, phase,
     recharger_fsa_align, recharger_enter_state, EnterFrom, Armed
<1>2. CASE UNCHANGED fsa
  BY <1>2 DEF StepInv, StepKept, CountInv, LastInv, NeverWraps, Moves, phase, fsa
<1> QED BY <1>1, <1>2 DEF recharger_fsa_align

LEMMA ForwardKeeps ==
  ASSUME StepInv, recharger_fsa_forward
  PROVE  StepKept
<1>0. fsaState = "FORWARD"
  BY DEF recharger_fsa_forward
<1>1. ASSUME NEW new \in {"WANDER", "ALIGN"}, recharger_enter_state(new)
      PROVE  StepKept
  BY <1>0, <1>1, Lengths DEF StepInv, StepKept, CountInv, LastInv, NeverWraps, Moves, phase,
     recharger_enter_state, EnterFrom, Armed
<1>2. CASE /\ EnterFrom("FORWARD", "CLOSE", wanderCounter, alignAvoid)
           /\ immobileCounter' = CLOSE_IMMOBILE
  BY <1>0, <1>2, Lengths DEF StepInv, StepKept, CountInv, LastInv, NeverWraps, Moves, phase,
     EnterFrom
<1>3. CASE UNCHANGED fsa
  BY <1>3 DEF StepInv, StepKept, CountInv, LastInv, NeverWraps, Moves, phase, fsa
<1> QED BY <1>1, <1>2, <1>3 DEF recharger_fsa_forward

LEMMA CloseKeeps ==
  ASSUME StepInv, recharger_fsa_close
  PROVE  StepKept
<1>0. /\ fsaState = "CLOSE"
      /\ immobileCounter \in 1 .. 255
      /\ wanderCounter \in Nat
      /\ lastFSAState \in {"FORWARD", "ALIGN", "CLOSE"}
  BY DEF recharger_fsa_close, StepInv, CountInv, NeverWraps, LastInv
<1>1. PICK now \in {Held, Lost} :
        \/ /\ fsaState' = "ALIGN" /\ lastFSAState' = now.last
           /\ wanderCounter' = now.wander
           /\ UNCHANGED immobileCounter
        \/ /\ CloseCount = 0
           /\ EnterFrom(now.state, "ROTATE", now.wander, now.avoid)
           /\ immobileCounter' = CF_ROTATE_DOCK_IMMOBILE_TIMEOUT
        \/ /\ fsaState' = now.state /\ lastFSAState' = now.last
           /\ wanderCounter' = now.wander
           /\ immobileCounter' = immobileCounter \/ (CloseCount # 0 /\ immobileCounter' = CloseCount)
  <2> DEFINE now == IF recharger_sees_beacon(irHistory') THEN Held ELSE Lost
  <2>1. now \in {Held, Lost}
    OBVIOUS
  <2> HIDE DEF now
  <2> QED BY <2>1 DEF recharger_fsa_close, now
<1>2. /\ now.state \in {"CLOSE", "WANDER"}
      /\ now.last \in {"FORWARD", "ALIGN", "CLOSE"}
      /\ now.wander \in Nat
  BY <1>0, <1>1, Lengths DEF Held, Lost
<1>3. CloseCount = immobileCounter - 1
  BY <1>0, DecrementedOnce DEF CloseCount
<1>4. CASE /\ fsaState' = "ALIGN" /\ lastFSAState' = now.last
           /\ wanderCounter' = now.wander
           /\ UNCHANGED immobileCounter
  BY <1>0, <1>2, <1>4 DEF StepKept, CountInv, LastInv, NeverWraps, Moves, phase
<1>5. CASE /\ EnterFrom(now.state, "ROTATE", now.wander, now.avoid)
           /\ immobileCounter' = CF_ROTATE_DOCK_IMMOBILE_TIMEOUT
  BY <1>0, <1>2, <1>5, Lengths DEF StepKept, CountInv, LastInv, NeverWraps, Moves, phase, EnterFrom
<1>6. CASE /\ fsaState' = now.state /\ lastFSAState' = now.last
           /\ wanderCounter' = now.wander
           /\ immobileCounter' = immobileCounter \/ (CloseCount # 0 /\ immobileCounter' = CloseCount)
  BY <1>0, <1>2, <1>3, <1>6 DEF StepKept, CountInv, LastInv, NeverWraps, Moves, phase
<1> QED BY <1>1, <1>4, <1>5, <1>6

LEMMA RotateKeeps ==
  ASSUME StepInv, recharger_fsa_rotate
  PROVE  StepKept
  BY Lengths DEF StepInv, StepKept, CountInv, LastInv, NeverWraps, Moves, phase,
     recharger_fsa_rotate, recharger_enter_state, EnterFrom, Armed

LEMMA DockKeeps ==
  ASSUME StepInv, recharger_fsa_dock
  PROVE  StepKept
<1>0. /\ fsaState = "DOCK"
      /\ immobileCounter \in 1 .. 255
      /\ wanderCounter \in Nat \ {0}
  BY DEF recharger_fsa_dock, StepInv, CountInv, NeverWraps
<1>1. CASE recharger_enter_state("DONE")
  BY <1>0, <1>1 DEF StepInv, StepKept, CountInv, LastInv, NeverWraps, Moves, phase,
     recharger_enter_state, EnterFrom, Armed
<1>2. CASE DockAttempt
  <2>1. Decremented(immobileCounter) = immobileCounter - 1
    BY <1>0, DecrementedOnce
  <2>2. CASE GiveUp /\ immobileCounter' \in 0 .. 255
    BY <1>0, <2>2, Lengths DEF StepKept, CountInv, LastInv, NeverWraps, Moves, phase, GiveUp,
       EnterFrom
  <2>3. CASE Attempting /\ immobileCounter' = immobileCounter - 1 /\ immobileCounter' # 0
    BY <1>0, <2>3 DEF StepKept, CountInv, LastInv, NeverWraps, Moves, phase, Attempting
  <2>4. CASE /\ wanderCounter - 1 > 0 /\ wanderCounter' = wanderCounter - 1
             /\ immobileCounter' = CF_ROTATE_DOCK_IMMOBILE_TIMEOUT
             /\ UNCHANGED <<fsaState, lastFSAState, alignAvoid>>
    BY <1>0, <2>4, Lengths DEF StepKept, CountInv, LastInv, NeverWraps, Moves, phase
  <2> QED BY <1>0, <1>2, <2>1, <2>2, <2>3, <2>4 DEF DockAttempt
<1> QED BY <1>1, <1>2 DEF recharger_fsa_dock

LEMMA StepKeeps ==
  ASSUME StepInv, recharger_step
  PROVE  StepKept
<1>1. CASE UNCHANGED fsa
  BY <1>1 DEF StepInv, StepKept, CountInv, LastInv, NeverWraps, Moves, phase, fsa
<1> QED BY <1>1, WanderKeeps, AlignKeeps, ForwardKeeps, CloseKeeps, RotateKeeps, DockKeeps
        DEF recharger_step

----------------------------------------------------------------------------
(* The console and the invariant *)

LEMMA ResetKeeps ==
  ASSUME StepInv, recharger_reset
  PROVE  CountInv' /\ LastInv' /\ phase' = "search"
  BY Lengths DEF StepInv, CountInv, LastInv, NeverWraps, phase, recharger_reset

\* Every step keeps the invariant and is a step of the dock search.
LEMMA NextKeeps ==
  ASSUME StepInv, [Next]_vars
  PROVE  /\ StepInv'
         /\ [Search!Next]_(Search!vars)
<1>1. ASSUME UNCHANGED fsa
      PROVE  StepInv' /\ phase' = phase
  BY <1>1 DEF StepInv, CountInv, LastInv, NeverWraps, phase, fsa
<1>2. CASE recharger_event
  <2>1. recharger_enabled /\ UNCHANGED recharger_enabled
    BY <1>2 DEF recharger_event
  <2>2. StepInv' /\ Moves(phase, phase')
    BY <1>1, <1>2, StepKeeps DEF recharger_event, StepKept, StepInv, Moves
  <2> QED BY <2>1, <2>2 DEF Moves, Search!Next, Search!Move, Search!vars
<1>3. CASE Start
  BY <1>3, ResetKeeps DEF Start, StepInv, Search!Next, Search!Start
<1>4. CASE recharger_disable
  BY <1>1, <1>4 DEF recharger_disable, Search!Next, Search!Stop
<1>5. CASE recharger_init
  BY <1>5, ResetKeeps DEF recharger_init, StepInv, Search!Next, Search!Stop
<1>6. CASE Replies \/ UNCHANGED vars
  BY <1>1, <1>6 DEF Replies, vars, Search!vars
<1> QED BY <1>2, <1>3, <1>4, <1>5, <1>6 DEF Next

LEMMA InitIsSafe == Init => StepInv
  BY Lengths DEF Init, StepInv, CountInv, LastInv, NeverWraps

\* The least of two numbers, as the counters of steps use it.
LEMMA LeastOfTwo ==
  ASSUME NEW a \in Nat, NEW b \in Nat
  PROVE  Min({a, b}) = IF a <= b THEN a ELSE b
<1> DEFINE least == IF a <= b THEN a ELSE b
<1>1. least \in {a, b} /\ \A y \in {a, b} : least <= y
  OBVIOUS
<1>2. \A x \in {a, b} : (\A y \in {a, b} : x <= y) => x = least
  OBVIOUS
<1> HIDE DEF least
<1>3. Min({a, b}) = least
  BY <1>1, <1>2 DEF Min
<1> QED BY <1>3 DEF least

\* The automaton steps only when as many readings as the history holds have
\* been counted.
LEMMA FreshKept ==
  ASSUME FreshInv, [Next]_vars
  PROVE  /\ FreshInv'
         /\ recharger_event /\ fsa' # fsa => fresh' = IR_HISTORY_SIZE
<1>0. IR_HISTORY_SIZE \in Nat \ {0}
  BY HistoryAssumption
<1>1. CASE UNCHANGED <<time, fresh, recharger_enabled, fsa>>
  BY <1>1 DEF FreshInv
<1>2. CASE recharger_event
  <2>1. recharger_enabled /\ fresh = time /\ time \in 0 .. IR_HISTORY_SIZE
    BY <1>2 DEF recharger_event, FreshInv
  <2>2. CASE recharger_step
    <3>1. /\ time' = Min({time + 1, IR_HISTORY_SIZE})
          /\ fresh' = time'
          /\ fsa' # fsa => time + 1 >= IR_HISTORY_SIZE
      BY <2>1, <2>2 DEF recharger_step, WarmedUp
    <3>2. time' = IF time + 1 <= IR_HISTORY_SIZE THEN time + 1 ELSE IR_HISTORY_SIZE
      BY <1>0, <2>1, <3>1, LeastOfTwo
    <3> QED BY <1>0, <2>1, <3>1, <3>2 DEF FreshInv
  <2>3. CASE UNCHANGED <<time, fresh, fsa>>
    BY <1>2, <2>3 DEF recharger_event, FreshInv
  <2> QED BY <1>2, <2>2, <2>3 DEF recharger_event
<1>3. CASE Start
  <2>1. ~recharger_event \/ recharger_enabled
    BY DEF recharger_event
  <2>2. FreshInv' /\ fresh' = 0
    BY <1>0, <1>3 DEF Start, recharger_reset, FreshInv
  <2> QED BY <1>2, <2>2
<1>4. CASE recharger_disable
  BY <1>4 DEF recharger_disable, FreshInv
<1>5. CASE recharger_init
  <2>1. FreshInv' /\ ~recharger_enabled'
    BY <1>0, <1>5 DEF recharger_init, recharger_reset, FreshInv
  <2> QED BY <1>2, <2>1
<1>6. CASE Replies \/ UNCHANGED vars
  BY <1>1, <1>6 DEF Replies, vars
<1> QED BY <1>2, <1>3, <1>4, <1>5, <1>6 DEF Next

LEMMA Invariant == Spec => []StepInv
<1>1. StepInv /\ [Next]_vars => StepInv'
  BY NextKeeps
<1> QED BY <1>1, InitIsSafe, PTL DEF Spec

----------------------------------------------------------------------------
(* Types: what the invariant does not say of the other variables *)

Longest == Max({CF_WANDER_LENGTH, CF_ROTATE_DOCK_FAIL_TIMEOUT})

AutomatonTypes ==
  /\ fsaState \in States /\ lastFSAState \in States
  /\ wanderCounter \in 0 .. Longest
  /\ wanderDirection \in 0 .. 3
  /\ docking_cycle \in 0 .. DOCK_CYCLE
  /\ alignAvoid \in BOOLEAN

DriveTypes == drive \subseteq [x: Int, y: Int, theta: Int]

TickTypes ==
  /\ counter \in 0 .. CF_EVENT_INTERVAL - 1
  /\ time \in 0 .. IR_HISTORY_SIZE /\ fresh \in 0 .. IR_HISTORY_SIZE
  /\ irHistory \in [1 .. IR_HISTORY_SIZE -> Reading]

SharedTypes ==
  /\ recharger_enabled \in BOOLEAN /\ mi_disabled_commands \in BOOLEAN
  /\ busy \in BOOLEAN /\ moving \in BOOLEAN
  /\ volts \in Voltages

\* Both lengths are below the longest of them.
LEMMA LongestIsBound ==
  /\ Longest \in Nat
  /\ CF_WANDER_LENGTH \in 0 .. Longest
  /\ CF_ROTATE_DOCK_FAIL_TIMEOUT \in 0 .. Longest
<1> DEFINE a == CF_WANDER_LENGTH
           b == CF_ROTATE_DOCK_FAIL_TIMEOUT
           most == IF a >= b THEN a ELSE b
<1>1. a \in Nat /\ b \in Nat
  BY Lengths
<1> HIDE DEF a, b
<1>2. most \in {a, b} /\ \A y \in {a, b} : most >= y
  BY <1>1
<1>3. \A x \in {a, b} : (\A y \in {a, b} : x >= y) => x = most
  BY <1>1
<1> HIDE DEF most
<1>4. Max({a, b}) = most
  BY <1>2, <1>3 DEF Max
<1>5. Max({a, b}) \in Nat /\ a \in 0 .. Max({a, b}) /\ b \in 0 .. Max({a, b})
  BY <1>1, <1>4 DEF most
<1> QED BY <1>5 DEF Longest, a, b

\* A velocity is a record of integers, and so is the push away from obstacles.
LEMMA VelocityType ==
  ASSUME NEW x \in Int, NEW y \in Int, NEW theta \in Int, recharger_act(Velocity(x, y, theta))
  PROVE  DriveTypes'
  BY DEF recharger_act, Velocity, DriveTypes

LEMMA AvoidType ==
  ASSUME NEW x \in Int, NEW y \in Int, NEW theta \in Int,
         recharger_act_avoid(Velocity(x, y, theta))
  PROVE  DriveTypes'
<1> DEFINE count(near, sensors) == Cardinality(near \cap sensors)
<1>1. PICK near \in Obstacles :
        recharger_act(
          IF near = {} THEN Velocity(x, y, theta)
          ELSE Velocity(-15 * count(near, {0, 1, 6}) + 7 * count(near, {9}),
                        7 * count(near, {4, 5, 6, 9}) - 7 * count(near, {1, 2, 3}),
                        4 * count(near, {7, 8})))
  BY DEF recharger_act_avoid
<1>2. \A sensors : count(near, sensors) \in Int
  <2> SUFFICES ASSUME NEW sensors PROVE count(near, sensors) \in Int
    OBVIOUS
  <2>1. Obstacles \subseteq SUBSET (0 .. 9)
    BY InputAssumption
  <2>2. near \cap sensors \subseteq 0 .. 9
    BY <2>1
  <2>3. IsFiniteSet(0 .. 9)
    <3>1. 0 \in Int /\ 9 \in Int
      OBVIOUS
    <3> QED BY <3>1, FS_Interval, Zenon
  <2>4. IsFiniteSet(near \cap sensors)
    BY <2>2, <2>3, FS_Subset
  <2>5. count(near, sensors) \in Nat
    BY <2>4, FS_CardinalityType
  <2> QED BY <2>5
<1> HIDE DEF count
<1>3. /\ -15 * count(near, {0, 1, 6}) + 7 * count(near, {9}) \in Int
      /\ 7 * count(near, {4, 5, 6, 9}) - 7 * count(near, {1, 2, 3}) \in Int
      /\ 4 * count(near, {7, 8}) \in Int
  BY <1>2
<1> QED BY <1>1, <1>3, VelocityType

Typed == AutomatonTypes' /\ DriveTypes'

LEMMA EnterTypes ==
  ASSUME AutomatonTypes, NEW new \in States, recharger_enter_state(new)
  PROVE  AutomatonTypes'
  BY LongestIsBound DEF AutomatonTypes, recharger_enter_state, EnterFrom, States

LEMMA IdleType ==
  ASSUME Idle
  PROVE  DriveTypes'
  BY DEF Idle, DriveTypes

LEMMA WanderTypes ==
  ASSUME AutomatonTypes, recharger_fsa_wander
  PROVE  Typed
<1>1. CASE recharger_enter_state("FORWARD") /\ Idle
  BY <1>1, EnterTypes, IdleType DEF Typed, States
<1>2. ASSUME NEW direction \in 0 .. 4,
             recharger_act_avoid(WanderVelocity(direction)),
             wanderDirection' = IF direction = 4 THEN 0 ELSE direction,
             wanderCounter' = (IF wanderCounter <= 0 THEN CF_WANDER_LENGTH
                                                     ELSE wanderCounter) - 1,
             UNCHANGED <<fsaState, lastFSAState, immobileCounter, alignAvoid, docking_cycle>>
      PROVE  Typed
  <2>1. AutomatonTypes'
    <3>1. wanderCounter' \in 0 .. Longest
      BY <1>2, Lengths, LongestIsBound DEF AutomatonTypes
    <3>2. wanderDirection' \in 0 .. 3
      BY <1>2
    <3> QED BY <1>2, <3>1, <3>2 DEF AutomatonTypes
  <2>2. DriveTypes'
    BY <1>2, AvoidType DEF WanderVelocity
  <2> QED BY <2>1, <2>2 DEF Typed
<1>3. 0 .. 3 \subseteq 0 .. 4
  OBVIOUS
<1> QED BY <1>1, <1>2, <1>3, InputAssumption DEF recharger_fsa_wander, AutomatonTypes

LEMMA AlignTypes ==
  ASSUME AutomatonTypes, recharger_fsa_align
  PROVE  Typed
<1>1. CASE recharger_enter_state(lastFSAState) /\ Idle
  BY <1>1, EnterTypes, IdleType DEF Typed, AutomatonTypes
<1>2. ASSUME NEW theta \in {10, -10}, UNCHANGED fsa,
             \/ recharger_act_avoid(Velocity(0, 0, theta))
             \/ recharger_act(Velocity(0, 0, theta))
      PROVE  Typed
  <2>1. AutomatonTypes'
    BY <1>2 DEF AutomatonTypes, fsa
  <2>2. DriveTypes'
    BY <1>2, AvoidType, VelocityType
  <2> QED BY <2>1, <2>2 DEF Typed
<1> QED
  <2> DEFINE theta == IF recharger_beacon_dir(irHistory') <= 4 THEN 10 ELSE -10
  <2>1. theta \in {10, -10}
    OBVIOUS
  <2> QED BY <1>1, <1>2, <2>1 DEF recharger_fsa_align

LEMMA ForwardTypes ==
  ASSUME AutomatonTypes, recharger_fsa_forward
  PROVE  Typed
<1>1. ASSUME NEW new \in {"WANDER", "ALIGN"}, recharger_enter_state(new), Idle
      PROVE  Typed
  BY <1>1, EnterTypes, IdleType DEF Typed, States
<1>2. CASE /\ EnterFrom("FORWARD", "CLOSE", wanderCounter, alignAvoid)
           /\ UNCHANGED <<wanderDirection, docking_cycle>>
           /\ Idle
  BY <1>2, IdleType DEF Typed, AutomatonTypes, EnterFrom, States
<1>3. CASE recharger_act_avoid(Forward(20)) /\ UNCHANGED fsa
  <2>1. AutomatonTypes'
    BY <1>3 DEF AutomatonTypes, fsa
  <2>2. DriveTypes'
    BY <1>3, AvoidType DEF Forward
  <2> QED BY <2>1, <2>2 DEF Typed
<1> QED BY <1>1, <1>2, <1>3 DEF recharger_fsa_forward

LEMMA CloseTypes ==
  ASSUME AutomatonTypes, recharger_fsa_close
  PROVE  Typed
<1>1. DriveTypes'
  BY IdleType, VelocityType DEF recharger_fsa_close, Forward
<1>2. PICK now \in {Held, Lost} :
        \/ /\ fsaState' = "ALIGN" /\ lastFSAState' = now.last
           /\ wanderCounter' = now.wander /\ alignAvoid' = FALSE
        \/ EnterFrom(now.state, "ROTATE", now.wander, now.avoid)
        \/ /\ fsaState' = now.state /\ lastFSAState' = now.last
           /\ wanderCounter' = now.wander /\ alignAvoid' = now.avoid
  <2> DEFINE now == IF recharger_sees_beacon(irHistory') THEN Held ELSE Lost
  <2>1. now \in {Held, Lost}
    OBVIOUS
  <2> HIDE DEF now
  <2> QED BY <2>1 DEF recharger_fsa_close, now
<1>3. /\ now.state \in States /\ now.last \in States
      /\ now.wander \in 0 .. Longest /\ now.avoid \in BOOLEAN
  <2>1. CASE now = Held
    BY <2>1 DEF Held, AutomatonTypes, States
  <2>2. CASE now = Lost
    BY <2>2, LongestIsBound DEF Lost, States
  <2> QED BY <1>2, <2>1, <2>2
<1>4. /\ fsaState' \in States /\ lastFSAState' \in States
      /\ wanderCounter' \in 0 .. Longest /\ alignAvoid' \in BOOLEAN
  <2>1. fsaState' \in States /\ lastFSAState' \in States
    BY <1>2, <1>3 DEF EnterFrom, States
  <2>2. wanderCounter' \in 0 .. Longest
    BY <1>2, <1>3, LongestIsBound DEF EnterFrom
  <2>3. alignAvoid' \in BOOLEAN
    BY <1>2, <1>3, Zenon DEF EnterFrom
  <2> QED BY <2>1, <2>2, <2>3
<1>5. UNCHANGED <<wanderDirection, docking_cycle>>
  BY DEF recharger_fsa_close
<1> QED BY <1>1, <1>4, <1>5 DEF Typed, AutomatonTypes

LEMMA RotateTypes ==
  ASSUME AutomatonTypes, recharger_fsa_rotate
  PROVE  Typed
  BY EnterTypes, IdleType DEF recharger_fsa_rotate, Typed, States

LEMMA DockTypes ==
  ASSUME AutomatonTypes, CountInv, recharger_fsa_dock
  PROVE  Typed
<1>1. CASE recharger_enter_state("DONE") /\ Idle
  BY <1>1, EnterTypes, IdleType DEF Typed, States
<1>2. CASE /\ DockAttempt
           /\ recharger_act(DockVelocity(docking_cycle))
           /\ docking_cycle' = IF docking_cycle + 1 > DOCK_CYCLE THEN 0 ELSE docking_cycle + 1
  <2>1. docking_cycle' \in 0 .. DOCK_CYCLE
    BY <1>2, Lengths DEF AutomatonTypes
  <2>2. /\ fsaState' \in States /\ lastFSAState' \in States
        /\ wanderCounter' \in 0 .. Longest /\ alignAvoid' \in BOOLEAN
    <3>1. CASE GiveUp
      BY <3>1, LongestIsBound DEF GiveUp, EnterFrom, AutomatonTypes, States
    <3>2. CASE Attempting
      BY <3>2 DEF Attempting, AutomatonTypes
    <3>3. CASE /\ wanderCounter - 1 > 0 /\ wanderCounter' = wanderCounter - 1
               /\ UNCHANGED <<fsaState, lastFSAState, alignAvoid>>
      BY <3>3, LongestIsBound DEF AutomatonTypes
    <3> QED BY <1>2, <3>1, <3>2, <3>3 DEF DockAttempt
  <2>3. DriveTypes'
    BY <1>2, VelocityType DEF DockVelocity
  <2>4. UNCHANGED wanderDirection
    BY DEF recharger_fsa_dock
  <2> QED BY <2>1, <2>2, <2>3, <2>4 DEF Typed, AutomatonTypes
<1> QED BY <1>1, <1>2 DEF recharger_fsa_dock

Types == AutomatonTypes /\ DriveTypes /\ TickTypes /\ SharedTypes

LEMMA HistoryType ==
  ASSUME NEW light \in LightReadings, recharger_update_history(light), TickTypes
  PROVE  irHistory' \in [1 .. IR_HISTORY_SIZE -> Reading]
<1>1. LightReadings \subseteq [Sensor -> 0 .. 1023]
  BY InputAssumption
<1>2. \A n \in 0 .. 1023 : n % 256 \in 0 .. 255
  OBVIOUS
<1>3. [s \in Sensor |-> light[s] % 256] \in Reading
  BY <1>1, <1>2 DEF Reading
<1>4. \A j \in 1 .. IR_HISTORY_SIZE : j # 1 => irHistory[j - 1] \in Reading
  BY HistoryAssumption DEF TickTypes
<1> QED BY <1>3, <1>4 DEF recharger_update_history

\* Counting one more reading.
LEMMA ReadingCounted ==
  ASSUME NEW n \in 0 .. IR_HISTORY_SIZE
  PROVE  Min({n + 1, IR_HISTORY_SIZE}) \in 0 .. IR_HISTORY_SIZE
<1>1. IR_HISTORY_SIZE \in Nat /\ n + 1 \in Nat
  BY HistoryAssumption
<1>2. Min({n + 1, IR_HISTORY_SIZE}) = IF n + 1 <= IR_HISTORY_SIZE THEN n + 1 ELSE IR_HISTORY_SIZE
  BY <1>1, LeastOfTwo
<1> QED BY <1>1, <1>2

LEMMA StepTypes ==
  ASSUME AutomatonTypes, DriveTypes, TickTypes, CountInv, recharger_step
  PROVE  /\ Typed
         /\ irHistory' \in [1 .. IR_HISTORY_SIZE -> Reading]
         /\ time' \in 0 .. IR_HISTORY_SIZE /\ fresh' \in 0 .. IR_HISTORY_SIZE
<1>1. irHistory' \in [1 .. IR_HISTORY_SIZE -> Reading]
  BY HistoryType DEF recharger_step
<1>2. time' \in 0 .. IR_HISTORY_SIZE /\ fresh' \in 0 .. IR_HISTORY_SIZE
  BY ReadingCounted DEF recharger_step, TickTypes
<1>3. CASE UNCHANGED fsa /\ Idle
  BY <1>1, <1>2, <1>3, IdleType DEF Typed, AutomatonTypes, fsa
<1> QED BY <1>1, <1>2, <1>3, WanderTypes, AlignTypes, ForwardTypes, CloseTypes, RotateTypes,
           DockTypes DEF recharger_step

LEMMA EventTypes ==
  ASSUME Types, CountInv, recharger_event
  PROVE  Types'
<1>1. SharedTypes'
  BY DEF recharger_event, Types, SharedTypes, input
<1>2. CASE counter' = 0 /\ recharger_step
  BY <1>1, <1>2, StepTypes, Lengths DEF Types, Typed, TickTypes
<1>3. CASE /\ counter + 1 < CF_EVENT_INTERVAL /\ counter' = counter + 1
           /\ UNCHANGED <<time, irHistory, fsa, drive, fresh>>
  <2>1. counter' \in 0 .. CF_EVENT_INTERVAL - 1
    BY <1>3, Lengths DEF Types, TickTypes
  <2>2. TickTypes'
    BY <1>3, <2>1 DEF Types, TickTypes
  <2>3. AutomatonTypes' /\ DriveTypes'
    BY <1>3 DEF Types, AutomatonTypes, DriveTypes, fsa
  <2> QED BY <1>1, <2>2, <2>3 DEF Types
<1>4. counter + 1 >= CF_EVENT_INTERVAL \/ counter + 1 < CF_EVENT_INTERVAL
  BY Lengths DEF Types, TickTypes
<1> QED BY <1>2, <1>3, <1>4 DEF recharger_event

LEMMA ResetTypes ==
  ASSUME Types, recharger_reset
  PROVE  /\ AutomatonTypes'
         /\ counter' \in 0 .. CF_EVENT_INTERVAL - 1
         /\ time' \in 0 .. IR_HISTORY_SIZE
         /\ irHistory' \in [1 .. IR_HISTORY_SIZE -> Reading]
<1>1. AutomatonTypes'
  BY LongestIsBound DEF recharger_reset, Types, AutomatonTypes, States
<1>2. counter' \in 0 .. CF_EVENT_INTERVAL - 1 /\ time' \in 0 .. IR_HISTORY_SIZE
  BY Lengths, HistoryAssumption DEF recharger_reset
<1>3. irHistory' \in [1 .. IR_HISTORY_SIZE -> Reading]
  BY DEF recharger_reset, Dark, Reading
<1> QED BY <1>1, <1>2, <1>3

LEMMA TypesInitially ==
  ASSUME Init
  PROVE  Types
<1>1. AutomatonTypes /\ DriveTypes
  BY LongestIsBound, Lengths DEF Init, AutomatonTypes, DriveTypes, States
<1>2. TickTypes
  BY Lengths, HistoryAssumption DEF Init, TickTypes, Dark, Reading
<1>3. SharedTypes
  BY DEF Init, SharedTypes
<1> QED BY <1>1, <1>2, <1>3 DEF Types

LEMMA TypesKept ==
  ASSUME Types, CountInv, [Next]_vars
  PROVE  Types'
<1>1. CASE Start
  <2>1. SharedTypes' /\ DriveTypes' /\ fresh' \in 0 .. IR_HISTORY_SIZE
    BY <1>1, HistoryAssumption DEF Start, Types, SharedTypes, DriveTypes, input
  <2> QED BY <1>1, <2>1, ResetTypes DEF Start, Types, TickTypes
<1>2. CASE recharger_disable
  BY <1>2 DEF recharger_disable, Types, AutomatonTypes, DriveTypes, TickTypes, SharedTypes, fsa,
     input
<1>3. CASE recharger_init
  <2>1. SharedTypes' /\ DriveTypes' /\ fresh' \in 0 .. IR_HISTORY_SIZE
    BY <1>3 DEF recharger_init, Types, SharedTypes, DriveTypes, TickTypes, input
  <2> QED BY <1>3, <2>1, ResetTypes DEF recharger_init, Types, TickTypes
<1>4. CASE Replies
  BY <1>4 DEF Replies, Types, AutomatonTypes, DriveTypes, TickTypes, SharedTypes, fsa
<1>5. CASE UNCHANGED vars
  BY <1>5 DEF vars, Types, AutomatonTypes, DriveTypes, TickTypes, SharedTypes, fsa, input
<1> QED BY <1>1, <1>2, <1>3, <1>4, <1>5, EventTypes DEF Next

----------------------------------------------------------------------------
(* How long a docking attempt, and a robot that is blocked near the dock,    *)
(* may take.  The unit is a tick of recharger_event.                         *)

\* In DOCK a step without motion takes one off immobileCounter; one with
\* motion takes one off wanderCounter and sets immobileCounter back to
\* CF_ROTATE_DOCK_IMMOBILE_TIMEOUT.
AttemptSteps == wanderCounter * CF_ROTATE_DOCK_IMMOBILE_TIMEOUT + immobileCounter
AttemptTicks == AttemptSteps * CF_EVENT_INTERVAL - counter
LongestAttempt ==
  (CF_ROTATE_DOCK_FAIL_TIMEOUT + 1) * CF_ROTATE_DOCK_IMMOBILE_TIMEOUT * CF_EVENT_INTERVAL

BlockedTicks == immobileCounter * CF_EVENT_INTERVAL - counter

\* The counters are armed wherever DOCK and CLOSE are entered, which an
\* alignment also does, and the automaton is in no state but the first before
\* its history is full.
ArmedInv ==
  /\ fsaState = "DOCK" => /\ wanderCounter \in 1 .. CF_ROTATE_DOCK_FAIL_TIMEOUT
                          /\ immobileCounter \in 1 .. CF_ROTATE_DOCK_IMMOBILE_TIMEOUT
  /\ fsaState = "CLOSE" \/ (fsaState = "ALIGN" /\ lastFSAState = "CLOSE") =>
       immobileCounter \in 1 .. CLOSE_IMMOBILE
  /\ fsaState # "WANDER" => WarmedUp

EndInv == StepInv /\ Types /\ ArmedInv

\* The part of ArmedInv about the counters, in the next state.
ArmedNext ==
  /\ fsaState' = "DOCK" => /\ wanderCounter' \in 1 .. CF_ROTATE_DOCK_FAIL_TIMEOUT
                           /\ immobileCounter' \in 1 .. CF_ROTATE_DOCK_IMMOBILE_TIMEOUT
  /\ fsaState' = "CLOSE" \/ (fsaState' = "ALIGN" /\ lastFSAState' = "CLOSE") =>
       immobileCounter' \in 1 .. CLOSE_IMMOBILE

\* What a step does to the two measures.
StepsFall ==
  /\ fsaState = "DOCK" /\ fsaState' = "DOCK" => AttemptSteps' < AttemptSteps
  /\ fsaState = "CLOSE" /\ fsaState' = "CLOSE" /\ ~moving => immobileCounter' < immobileCounter

LEMMA EarlierStatesArm ==
  ASSUME StepInv, ArmedInv,
         recharger_fsa_wander \/ recharger_fsa_align \/ recharger_fsa_forward
         \/ recharger_fsa_rotate
  PROVE  ArmedNext /\ StepsFall
<1>0. fsaState \in {"WANDER", "ALIGN", "FORWARD", "ROTATE"}
  BY DEF recharger_fsa_wander, recharger_fsa_align, recharger_fsa_forward, recharger_fsa_rotate
<1>1. StepsFall
  BY <1>0 DEF StepsFall
<1>2. ASSUME recharger_fsa_wander PROVE ArmedNext
  BY <1>2 DEF recharger_fsa_wander, ArmedNext, recharger_enter_state, EnterFrom
<1>3. ASSUME recharger_fsa_align PROVE ArmedNext
  <2>1. fsaState = "ALIGN" /\ lastFSAState \in {"FORWARD", "ALIGN", "CLOSE"}
    BY <1>3 DEF recharger_fsa_align, StepInv, LastInv
  <2>2. CASE recharger_enter_state(lastFSAState)
    <3>1. lastFSAState = "CLOSE" => immobileCounter \in 1 .. CLOSE_IMMOBILE
      BY <2>1 DEF ArmedInv
    <3> QED BY <2>1, <2>2, <3>1 DEF ArmedNext, recharger_enter_state, EnterFrom, Armed
  <2>3. CASE UNCHANGED fsa
    BY <2>1, <2>3 DEF ArmedNext, ArmedInv, fsa
  <2> QED BY <1>3, <2>2, <2>3 DEF recharger_fsa_align
<1>4. ASSUME recharger_fsa_forward PROVE ArmedNext
  <2>1. fsaState = "FORWARD"
    BY <1>4 DEF recharger_fsa_forward
  <2>2. ASSUME NEW new \in {"WANDER", "ALIGN"}, recharger_enter_state(new)
        PROVE  ArmedNext
    BY <2>1, <2>2 DEF ArmedNext, recharger_enter_state, EnterFrom
  <2>3. CASE /\ EnterFrom("FORWARD", "CLOSE", wanderCounter, alignAvoid)
             /\ immobileCounter' = CLOSE_IMMOBILE
    BY <2>3, Lengths DEF ArmedNext, EnterFrom
  <2>4. CASE UNCHANGED fsa
    BY <2>1, <2>4 DEF ArmedNext, fsa
  <2> QED BY <1>4, <2>2, <2>3, <2>4 DEF recharger_fsa_forward
<1>5. ASSUME recharger_fsa_rotate PROVE ArmedNext
  BY <1>5, Lengths DEF recharger_fsa_rotate, ArmedNext, recharger_enter_state, EnterFrom, Armed
<1> QED BY <1>1, <1>2, <1>3, <1>4, <1>5

LEMMA CloseArms ==
  ASSUME StepInv, ArmedInv, recharger_fsa_close
  PROVE  ArmedNext /\ StepsFall
<1>1. /\ fsaState = "CLOSE"
      /\ immobileCounter \in 1 .. CLOSE_IMMOBILE /\ immobileCounter \in 1 .. 255
  BY DEF recharger_fsa_close, StepInv, CountInv, NeverWraps, ArmedInv
<1>2. CloseCount = immobileCounter - 1
  BY <1>1, DecrementedOnce DEF CloseCount
<1>3. \/ fsaState' = "ALIGN" /\ UNCHANGED immobileCounter
      \/ fsaState' = "ROTATE"
      \/ /\ fsaState' \in {"CLOSE", "WANDER"}
         /\ \/ moving /\ UNCHANGED immobileCounter
            \/ CloseCount # 0 /\ immobileCounter' = CloseCount
  <2> DEFINE now == IF recharger_sees_beacon(irHistory') THEN Held ELSE Lost
  <2>1. now.state \in {"CLOSE", "WANDER"}
    BY DEF Held, Lost
  <2> HIDE DEF now
  <2> QED BY <2>1 DEF recharger_fsa_close, EnterFrom, now
<1> QED BY <1>1, <1>2, <1>3, Lengths DEF ArmedNext, StepsFall

\* One step less with motion, and as many without as there may be.
LEMMA AttemptFalls ==
  ASSUME NEW w \in Nat, NEW i \in Nat, NEW t \in Nat, i >= 1
  PROVE  /\ (w - 1) * t + t < w * t + i
         /\ w * t + (i - 1) < w * t + i
<1>1. (w - 1) * t = w * t - t /\ w * t \in Nat
  OBVIOUS
<1> DEFINE x == w * t
           y == (w - 1) * t
<1> HIDE DEF x, y
<1>2. x \in Nat /\ y = x - t
  BY <1>1 DEF x, y
<1> QED BY <1>2 DEF x, y

LEMMA DockArms ==
  ASSUME StepInv, ArmedInv, recharger_fsa_dock
  PROVE  ArmedNext /\ StepsFall
<1>1. /\ fsaState = "DOCK"
      /\ wanderCounter \in 1 .. CF_ROTATE_DOCK_FAIL_TIMEOUT
      /\ immobileCounter \in 1 .. CF_ROTATE_DOCK_IMMOBILE_TIMEOUT
      /\ immobileCounter \in 1 .. 255 /\ wanderCounter \in Nat
  BY DEF recharger_fsa_dock, ArmedInv, StepInv, CountInv, NeverWraps
<1>2. Decremented(immobileCounter) = immobileCounter - 1
  BY <1>1, DecrementedOnce
<1>3. CASE fsaState' \in {"DONE", "WANDER"}
  BY <1>1, <1>3 DEF ArmedNext, StepsFall
<1>4. CASE /\ immobileCounter' = immobileCounter - 1 /\ immobileCounter' # 0
           /\ UNCHANGED <<fsaState, wanderCounter>>
  <2>1. ArmedNext
    <3>1. /\ immobileCounter' \in 1 .. CF_ROTATE_DOCK_IMMOBILE_TIMEOUT
          /\ fsaState' = "DOCK" /\ wanderCounter' = wanderCounter
      BY <1>1, <1>4, Lengths
    <3> QED BY <1>1, <3>1 DEF ArmedNext
  <2>2. AttemptSteps' < AttemptSteps
    BY <1>1, <1>4, AttemptFalls, Lengths DEF AttemptSteps
  <2> QED BY <1>1, <2>1, <2>2 DEF StepsFall
<1>5. CASE /\ wanderCounter - 1 > 0 /\ wanderCounter' = wanderCounter - 1
           /\ immobileCounter' = CF_ROTATE_DOCK_IMMOBILE_TIMEOUT
           /\ UNCHANGED fsaState
  <2>1. ArmedNext
    BY <1>1, <1>5, Lengths DEF ArmedNext
  <2>2. AttemptSteps' < AttemptSteps
    BY <1>1, <1>5, AttemptFalls, Lengths DEF AttemptSteps
  <2> QED BY <1>1, <2>1, <2>2 DEF StepsFall
<1>6. CASE DockAttempt
  BY <1>2, <1>3, <1>4, <1>5, <1>6 DEF DockAttempt, GiveUp, Attempting, EnterFrom
<1>7. CASE recharger_enter_state("DONE")
  BY <1>3, <1>7 DEF recharger_enter_state, EnterFrom
<1> QED BY <1>6, <1>7 DEF recharger_fsa_dock

LEMMA WarmedNext ==
  ASSUME TickTypes, recharger_step, WarmedUp
  PROVE  WarmedUp'
<1>1. IR_HISTORY_SIZE \in Nat /\ time + 1 \in Nat /\ time + 1 >= IR_HISTORY_SIZE
  BY HistoryAssumption DEF TickTypes, WarmedUp
<1>2. Min({time + 1, IR_HISTORY_SIZE}) = IR_HISTORY_SIZE
  BY <1>1, LeastOfTwo
<1> QED BY <1>1, <1>2 DEF recharger_step, WarmedUp

LEMMA StepArms ==
  ASSUME EndInv, recharger_step
  PROVE  ArmedInv' /\ StepsFall
<1>1. CASE WarmedUp /\ fsaState # "DONE"
  <2>1. ArmedNext /\ StepsFall
    BY <1>1, EarlierStatesArm, CloseArms, DockArms DEF recharger_step, EndInv
  <2>2. WarmedUp'
    BY <1>1, WarmedNext DEF EndInv, Types
  <2> QED BY <2>1, <2>2 DEF ArmedNext, ArmedInv
<1>2. CASE ~WarmedUp \/ fsaState = "DONE"
  <2>1. UNCHANGED fsa /\ fsaState \in {"WANDER", "DONE"}
    BY <1>2 DEF recharger_step, EndInv, ArmedInv
  <2>2. fsaState' = fsaState
    BY <2>1 DEF fsa
  <2>3. fsaState # "WANDER" => WarmedUp'
    BY WarmedNext DEF EndInv, ArmedInv, Types
  <2> QED BY <2>1, <2>2, <2>3 DEF ArmedInv, StepsFall
<1> QED BY <1>1, <1>2

\* A tick between two steps takes one off the measure, a step at least one.
LEMMA TicksFall ==
  ASSUME NEW n \in Nat, NEW m \in Nat, m < n, NEW i \in Nat, NEW c \in 0 .. i - 1
  PROVE  m * i - 0 < n * i - c
<1>1. n * i - m * i = (n - m) * i /\ n - m \in Nat /\ n - m >= 1
  OBVIOUS
<1>2. (n - m) * i >= i
  <2> DEFINE d == n - m - 1
  <2>1. d \in Nat /\ n - m = d + 1
    BY <1>1
  <2> HIDE DEF d
  <2>2. (d + 1) * i = d * i + i /\ d * i \in Nat
    BY <2>1
  <2> QED BY <2>1, <2>2
<1>3. n * i \in Nat /\ m * i \in Nat
  OBVIOUS
<1> QED BY <1>1, <1>2, <1>3

LEMMA MeasureTypes ==
  ASSUME EndInv
  PROVE  /\ counter \in 0 .. CF_EVENT_INTERVAL - 1 /\ CF_EVENT_INTERVAL \in Nat \ {0}
         /\ AttemptSteps \in Nat /\ immobileCounter \in Nat
         /\ AttemptTicks \in Int /\ BlockedTicks \in Int
<1>1. /\ counter \in 0 .. CF_EVENT_INTERVAL - 1 /\ CF_EVENT_INTERVAL \in Nat \ {0}
      /\ wanderCounter \in Nat /\ immobileCounter \in Nat
      /\ CF_ROTATE_DOCK_IMMOBILE_TIMEOUT \in Nat
  BY Lengths DEF EndInv, Types, TickTypes, StepInv, CountInv
<1>2. AttemptSteps \in Nat
  BY <1>1 DEF AttemptSteps
<1>3. AttemptSteps * CF_EVENT_INTERVAL \in Nat /\ immobileCounter * CF_EVENT_INTERVAL \in Nat
  BY <1>1, <1>2
<1> QED BY <1>1, <1>2, <1>3 DEF AttemptTicks, BlockedTicks

\* What one step of the program does to the two measures.
TicksKept ==
  /\ fsaState = "DOCK" /\ fsaState' = "DOCK" =>
       /\ AttemptTicks' <= AttemptTicks
       /\ recharger_event => AttemptTicks' < AttemptTicks
  /\ fsaState = "CLOSE" /\ fsaState' = "CLOSE" /\ ~moving =>
       /\ BlockedTicks' <= BlockedTicks
       /\ recharger_event => BlockedTicks' < BlockedTicks

LEMMA StepsAreNat ==
  ASSUME NEW w \in Nat, NEW i \in Nat, NEW t \in Nat
  PROVE  w * t + i \in Nat
  OBVIOUS

LEMMA EventEnds ==
  ASSUME EndInv, recharger_event
  PROVE  ArmedInv' /\ TicksKept
<1>0. /\ counter \in 0 .. CF_EVENT_INTERVAL - 1 /\ CF_EVENT_INTERVAL \in Nat \ {0}
      /\ AttemptSteps \in Nat /\ immobileCounter \in Nat
      /\ AttemptTicks \in Int /\ BlockedTicks \in Int
  BY MeasureTypes
<1>1. CASE counter' = 0 /\ recharger_step
  <2>1. ArmedInv' /\ StepsFall
    BY <1>1, StepArms
  <2>2. ASSUME fsaState = "DOCK", fsaState' = "DOCK"
        PROVE  AttemptTicks' < AttemptTicks
    <3>1. AttemptSteps' < AttemptSteps
      BY <2>1, <2>2 DEF StepsFall
    <3>2. AttemptSteps' \in Nat
      <4>1. /\ wanderCounter' \in Nat /\ immobileCounter' \in Nat
            /\ CF_ROTATE_DOCK_IMMOBILE_TIMEOUT \in Nat
        BY <2>1, <2>2, Lengths DEF ArmedInv
      <4> QED BY <4>1, StepsAreNat DEF AttemptSteps
    <3>3. AttemptSteps' * CF_EVENT_INTERVAL - 0 < AttemptSteps * CF_EVENT_INTERVAL - counter
      BY <1>0, <3>1, <3>2, TicksFall
    <3> QED BY <1>1, <3>3 DEF AttemptTicks
  <2>3. ASSUME fsaState = "CLOSE", fsaState' = "CLOSE", ~moving
        PROVE  BlockedTicks' < BlockedTicks
    <3>1. immobileCounter' < immobileCounter
      BY <2>1, <2>3 DEF StepsFall
    <3>2. immobileCounter' \in Nat
      BY <2>1, <2>3, Lengths DEF ArmedInv
    <3>3. immobileCounter' * CF_EVENT_INTERVAL - 0 < immobileCounter * CF_EVENT_INTERVAL - counter
      BY <1>0, <3>1, <3>2, TicksFall
    <3> QED BY <1>1, <3>3 DEF BlockedTicks
  <2>4. /\ fsaState = "DOCK" /\ fsaState' = "DOCK" => AttemptTicks' <= AttemptTicks
        /\ fsaState = "CLOSE" /\ fsaState' = "CLOSE" /\ ~moving => BlockedTicks' <= BlockedTicks
    <3>1. ASSUME fsaState = "DOCK", fsaState' = "DOCK" PROVE AttemptTicks' \in Int
      <4>1. /\ wanderCounter' \in Nat /\ immobileCounter' \in Nat
            /\ CF_ROTATE_DOCK_IMMOBILE_TIMEOUT \in Nat
        BY <2>1, <3>1, Lengths DEF ArmedInv
      <4>2. AttemptSteps' \in Nat
        BY <4>1, StepsAreNat DEF AttemptSteps
      <4> QED BY <1>0, <1>1, <4>2 DEF AttemptTicks
    <3>2. ASSUME fsaState = "CLOSE", fsaState' = "CLOSE" PROVE BlockedTicks' \in Int
      <4>1. immobileCounter' \in Nat
        BY <2>1, <3>2, Lengths DEF ArmedInv
      <4> QED BY <1>0, <1>1, <4>1 DEF BlockedTicks
    <3> QED BY <1>0, <2>2, <2>3, <3>1, <3>2
  <2> QED BY <2>1, <2>2, <2>3, <2>4 DEF TicksKept
<1>2. CASE counter' = counter + 1 /\ UNCHANGED <<time, fsa>>
  <2>1. UNCHANGED <<fsaState, lastFSAState, wanderCounter, immobileCounter, time>>
    BY <1>2 DEF fsa
  <2>2. ArmedInv'
    BY <2>1 DEF EndInv, ArmedInv, WarmedUp
  <2>3. AttemptTicks' = AttemptTicks - 1
    <3>1. AttemptSteps' = AttemptSteps
      BY <2>1 DEF AttemptSteps
    <3>2. AttemptSteps * CF_EVENT_INTERVAL \in Nat
      BY <1>0
    <3> QED BY <1>0, <1>2, <3>1, <3>2 DEF AttemptTicks
  <2>4. BlockedTicks' = BlockedTicks - 1
    <3>1. immobileCounter * CF_EVENT_INTERVAL \in Nat
      BY <1>0
    <3> QED BY <1>0, <1>2, <2>1, <3>1 DEF BlockedTicks
  <2> QED BY <1>0, <2>2, <2>3, <2>4 DEF TicksKept
<1> QED BY <1>1, <1>2 DEF recharger_event

LEMMA NextEnds ==
  ASSUME EndInv, [Next]_vars
  PROVE  EndInv' /\ TicksKept
<1>1. StepInv' /\ Types'
  BY NextKeeps, TypesKept DEF EndInv, StepInv
<1>2. CASE recharger_event
  BY <1>1, <1>2, EventEnds DEF EndInv
<1>3. CASE Start \/ recharger_init
  <2>1. fsaState' = "WANDER"
    BY <1>3 DEF Start, recharger_init, recharger_reset
  <2> QED BY <1>1, <2>1 DEF EndInv, ArmedInv, TicksKept
<1>4. CASE recharger_disable \/ Replies \/ UNCHANGED vars
  <2>1. UNCHANGED <<fsaState, lastFSAState, wanderCounter, immobileCounter, time, counter>>
    BY <1>4 DEF recharger_disable, Replies, vars, fsa
  <2>2. ArmedInv'
    BY <2>1 DEF EndInv, ArmedInv, WarmedUp
  <2>3. AttemptTicks' = AttemptTicks /\ BlockedTicks' = BlockedTicks
    BY <2>1 DEF AttemptTicks, AttemptSteps, BlockedTicks
  <2>4. AttemptTicks \in Int /\ BlockedTicks \in Int
    BY MeasureTypes
  <2>5. recharger_event => TicksKept
    BY EventEnds
  <2> QED BY <1>1, <2>2, <2>3, <2>4, <2>5 DEF EndInv, TicksKept
<1> QED BY <1>2, <1>3, <1>4 DEF Next

\* A number of steps, in ticks.
LEMMA TicksOf ==
  ASSUME NEW i \in Nat, NEW c \in 0 .. i - 1, NEW most \in Nat, NEW n \in 1 .. most
  PROVE  n * i - c \in 1 .. most * i
<1>1. 0 * i - 0 < n * i - c
  BY TicksFall
<1>2. (most - n) * i \in Nat /\ (most - n) * i = most * i - n * i
  BY DEF Nat
<1>3. n * i \in Nat /\ most * i \in Nat
  OBVIOUS
<1> QED BY <1>1, <1>2, <1>3

LEMMA MeasureBounds ==
  ASSUME EndInv
  PROVE  /\ fsaState = "DOCK" => AttemptTicks \in 1 .. LongestAttempt
         /\ fsaState = "CLOSE" => BlockedTicks \in 1 .. CLOSE_IMMOBILE * CF_EVENT_INTERVAL
<1>1. counter \in 0 .. CF_EVENT_INTERVAL - 1 /\ CF_EVENT_INTERVAL \in Nat
  BY MeasureTypes
<1>2. ASSUME fsaState = "DOCK" PROVE AttemptTicks \in 1 .. LongestAttempt
  <2> DEFINE t == CF_ROTATE_DOCK_IMMOBILE_TIMEOUT
             f == CF_ROTATE_DOCK_FAIL_TIMEOUT
             w == wanderCounter
             i == immobileCounter
  <2>1. w \in 1 .. f /\ i \in 1 .. t /\ t \in Nat /\ f \in Nat
    BY <1>2, Lengths DEF EndInv, ArmedInv
  <2> HIDE DEF t, f, w, i
  <2>2. w * t + i \in 1 .. (f + 1) * t
    <3>1. (f + 1) * t = f * t + t /\ (f - w) * t = f * t - w * t /\ (f - w) * t \in Nat
      BY <2>1
    <3>2. w * t \in Nat /\ f * t \in Nat
      BY <2>1
    <3> QED BY <2>1, <3>1, <3>2
  <2>3. (f + 1) * t \in Nat
    BY <2>1
  <2>4. (w * t + i) * CF_EVENT_INTERVAL - counter \in 1 .. ((f + 1) * t) * CF_EVENT_INTERVAL
    BY <1>1, <2>2, <2>3, TicksOf
  <2> QED BY <2>4 DEF AttemptTicks, AttemptSteps, LongestAttempt, t, f, w, i
<1>3. ASSUME fsaState = "CLOSE"
      PROVE  BlockedTicks \in 1 .. CLOSE_IMMOBILE * CF_EVENT_INTERVAL
  <2>1. immobileCounter \in 1 .. CLOSE_IMMOBILE /\ CLOSE_IMMOBILE \in Nat
    BY <1>3, Lengths DEF EndInv, ArmedInv
  <2> QED BY <1>1, <2>1, TicksOf DEF BlockedTicks
<1> QED BY <1>2, <1>3

----------------------------------------------------------------------------
(* The properties *)

\* immobileCounter, shared by CLOSE, ROTATE and DOCK, is never decremented from
\* 0 to 255, whatever path through ALIGN and WANDER the automaton takes.
THEOREM CountersNeverWrap == Spec => []NeverWraps
<1>1. StepInv => NeverWraps
  BY DEF StepInv, CountInv
<1> QED BY <1>1, Invariant, PTL

\* The recharger implements DockSearch: ALIGN, whose next state is a variable,
\* never leads into a docking or out of one.
THEOREM IsDockSearch == Spec => ImplementsSearch
<1>1. Init => Search!Init
  BY DEF Init, Search!Init, phase
<1>2. StepInv /\ [Next]_vars => [Search!Next]_(Search!vars)
  BY NextKeeps
<1> QED BY <1>1, <1>2, Invariant, PTL DEF Spec, ImplementsSearch, Search!Spec

\* The automaton never acts on readings from before it was enabled, whichever
\* way the console stopped and initialised it.
THEOREM ActsOnFresh == Spec => FreshHistory
<1>1. Init => FreshInv
  BY HistoryAssumption DEF Init, FreshInv
<1>2. FreshInv /\ [Next]_vars =>
        FreshInv' /\ [recharger_event /\ fsa' # fsa => fresh' = IR_HISTORY_SIZE]_vars
  BY FreshKept
<1> QED BY <1>1, <1>2, PTL DEF Spec, FreshHistory

\* The counters of steps and attempts stay within the longest of their limits,
\* the docking cycle within its length, and every velocity is one of integers.
THEOREM TypesHold == Spec => []TypeOK
<1>1. Init => Types
  BY TypesInitially
<1>2. StepInv /\ Types /\ [Next]_vars => Types'
  BY TypesKept DEF StepInv
<1>3. StepInv /\ Types => TypeOK
  <2> SUFFICES ASSUME StepInv, Types PROVE TypeOK
    OBVIOUS
  <2>1. /\ {recharger_enabled, alignAvoid, mi_disabled_commands, busy, moving} \subseteq BOOLEAN
        /\ {time, fresh} \subseteq 0 .. IR_HISTORY_SIZE
    BY DEF Types, SharedTypes, AutomatonTypes, TickTypes
  <2>2. immobileCounter \in 0 .. 255
    BY DEF StepInv, CountInv
  <2>3. wanderCounter \in 0 .. Max({CF_WANDER_LENGTH, CF_ROTATE_DOCK_FAIL_TIMEOUT})
    BY DEF Types, AutomatonTypes, Longest
  <2> QED BY <2>1, <2>2, <2>3
          DEF Types, AutomatonTypes, DriveTypes, TickTypes, SharedTypes, TypeOK
<1> QED BY <1>1, <1>2, <1>3, Invariant, PTL DEF Spec
LEMMA EndInvariant == Spec => []EndInv
<1>1. Init => EndInv
  BY TypesInitially, InitIsSafe DEF EndInv, ArmedInv, Init
<1>2. EndInv /\ [Next]_vars => EndInv'
  BY NextEnds
<1> QED BY <1>1, <1>2, PTL DEF Spec

\* The deadline behind DockingEnds.  While the robot docks, the ticks left are
\* at most LongestAttempt, never 0, each tick of recharger_event takes at least
\* one off, and nothing adds to them: no motion of the wheels, no reply, no
\* command of the console, can prolong the attempt.
THEOREM DockingEndsInTime ==
  Spec =>
    /\ [](fsaState = "DOCK" => AttemptTicks \in 1 .. LongestAttempt)
    /\ [][fsaState = "DOCK" /\ fsaState' = "DOCK" =>
            /\ AttemptTicks' <= AttemptTicks
            /\ recharger_event => AttemptTicks' < AttemptTicks]_vars
<1>1. EndInv => (fsaState = "DOCK" => AttemptTicks \in 1 .. LongestAttempt)
  BY MeasureBounds
<1>2. EndInv /\ [Next]_vars =>
        [fsaState = "DOCK" /\ fsaState' = "DOCK" =>
           /\ AttemptTicks' <= AttemptTicks
           /\ recharger_event => AttemptTicks' < AttemptTicks]_vars
  BY NextEnds DEF TicksKept
<1> QED BY <1>1, <1>2, EndInvariant, PTL DEF Spec

\* The deadline behind BlockedCloseEnds: a robot that is blocked is in CLOSE
\* for at most CLOSE_IMMOBILE steps, although an alignment may leave CLOSE and
\* come back to it without arming the counter again.
THEOREM BlockedCloseEndsInTime ==
  Spec =>
    /\ [](fsaState = "CLOSE" => BlockedTicks \in 1 .. CLOSE_IMMOBILE * CF_EVENT_INTERVAL)
    /\ [][fsaState = "CLOSE" /\ fsaState' = "CLOSE" /\ ~moving =>
            /\ BlockedTicks' <= BlockedTicks
            /\ recharger_event => BlockedTicks' < BlockedTicks]_vars
<1>1. EndInv =>
        (fsaState = "CLOSE" => BlockedTicks \in 1 .. CLOSE_IMMOBILE * CF_EVENT_INTERVAL)
  BY MeasureBounds
<1>2. EndInv /\ [Next]_vars =>
        [fsaState = "CLOSE" /\ fsaState' = "CLOSE" /\ ~moving =>
           /\ BlockedTicks' <= BlockedTicks
           /\ recharger_event => BlockedTicks' < BlockedTicks]_vars
  BY NextEnds DEF TicksKept
<1> QED BY <1>1, <1>2, EndInvariant, PTL DEF Spec
=============================================================================
