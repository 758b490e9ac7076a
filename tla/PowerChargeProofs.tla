--------------------------- MODULE PowerChargeProofs --------------------------
(***************************************************************************)
(* Proofs about PowerCharge: the saved stage is the one to resume, at most *)
(* one charger is enabled, it is the one of its stage, and the saved stage *)
(* only advances, whatever the thresholds of the filters and the voltages. *)
(***************************************************************************)
EXTENDS PowerCharge, FiniteSetTheorems, TLAPS

SavedStages == {1, 3, 5, 7, 8, 10}

\* The states that are saved on entry, those entered without saving from the
\* state before, and those that hide the stage in RAM.
Saved(s, e) ==
  /\ s \in ChargeStates
  /\ e \in {0} \cup SavedStages
  /\ s \in SavedStages => e = s
  /\ s \in {2, 4, 6, 9} => e = s - 1
  /\ s \in {0, 11} => e = 0
  /\ s \in {CHARGING_INTERRUPTED, FUEL_ERROR} => e \in SavedStages

\* The charger that may be enabled between two steps.
Enabled(c, s, e) ==
  \/ c = {}
  \/ c = {40} /\ s \in {1, 2, 3, 4, 5, CHARGING_INTERRUPTED, FUEL_ERROR} /\ e \in {1, 3, 5}
  \/ c = {160} /\ s \in {6, 7, 8, CHARGING_INTERRUPTED, FUEL_ERROR} /\ e \in {5, 7, 8}
  \/ c = {280} /\ s \in {9, 10, 11, 0, CHARGING_INTERRUPTED, FUEL_ERROR} /\ e \in {0, 8, 10}

\* The charger that may be enabled when a step starts in state s: a resumed
\* stage may find its own charger enabled, or the previous one.
Startable(c, s) ==
  \/ c = {}
  \/ c = {40} /\ s \in {0, 1, 2, 3, 4, 5, FUEL_ERROR}
  \/ c = {160} /\ s \in {0, 5, 6, 7, 8, FUEL_ERROR}
  \/ c = {280} /\ s \in {0, 8, 9, 10, 11, FUEL_ERROR}

\* The saved byte goes from e to new.
Advances(e, new) == new = e \/ new > e \/ new \in {0, 1}

ChargeInv ==
  /\ Saved(charge_state, eeprom)
  /\ Enabled(chargers, charge_state, eeprom)

----------------------------------------------------------------------------
(* The chargers *)

\* Disabling and enabling one charger of at most one.
LEMMA Switches ==
  /\ Battery \ Battery = {} /\ {} \cup {} = {}
  /\ \A c \in {{}, {40}, {160}, {280}} : (c \ Battery) \cup {} = {}
  /\ \A c \in {{}, {40}} : (c \ {}) \cup {40} = {40} /\ (c \ {40, 160}) \cup {} = {}
  /\ \A c \in {{}, {40}, {160}} : (c \ {40}) \cup {160} = {160}
  /\ \A c \in {{}, {160}} : (c \ {}) \cup {160} = {160}
  /\ \A c \in {{}, {160}, {280}} : (c \ {160}) \cup {280} = {280}
  /\ \A c \in {{}, {280}} : (c \ {}) \cup {280} = {280}
  BY DEF Battery

Kept(saved) ==
  /\ Saved(charge_state', eeprom')
  /\ Enabled(chargers', charge_state', eeprom')
  /\ Advances(saved, eeprom')

\* A step of the automaton from any state it may start in.
LEMMA IdleKeeps ==
  ASSUME NEW s, NEW saved, NEW bat, Saved(s, saved), Startable(chargers, s),
         Idle(s, saved, bat)
  PROVE  Kept(saved)
  BY Switches DEF Startable, Idle, Chargers, Ram, set_charge_state, NoError, Kept, Saved,
     Enabled, Advances, SavedStages, ChargeStates, CHARGING_INTERRUPTED, FUEL_ERROR

LEMMA EnableKeeps ==
  ASSUME NEW s \in ChargeStates, NEW saved, Saved(s, saved), Startable(chargers, s),
         Enable(s, saved)
  PROVE  Kept(saved)
<1>1. CASE s \in {1, 3}
  BY <1>1, Switches DEF Startable, Enable, Chargers, Ram, NoError, Kept, Saved,
     Enabled, Advances, SavedStages, ChargeStates, CHARGING_INTERRUPTED, FUEL_ERROR
<1>2. CASE s = 5
  BY <1>2, Switches DEF Startable, Enable, Chargers, Ram, NoError, Kept, Saved,
     Enabled, Advances, SavedStages, ChargeStates, CHARGING_INTERRUPTED, FUEL_ERROR
<1>3. CASE s = 8
  BY <1>3, Switches DEF Startable, Enable, Chargers, Ram, NoError, Kept, Saved,
     Enabled, Advances, SavedStages, ChargeStates, CHARGING_INTERRUPTED, FUEL_ERROR
<1> QED BY <1>1, <1>2, <1>3 DEF Enable

LEMMA FullChargeKeeps ==
  ASSUME NEW s \in {2, 6, 9}, NEW saved, NEW stat, Saved(s, saved),
         NEW c \in Battery, chargers' = {c},
         s = 2 => c = 40, s = 6 => c = 160, s = 9 => c = 280,
         FullCharge(s, saved, c, stat)
  PROVE  Kept(saved)
  BY DEF FullCharge, Fails, Ram, set_charge_state, NoError, Kept, Saved,
     Enabled, Advances, SavedStages, ChargeStates, CHARGING_INTERRUPTED, FUEL_ERROR

LEMMA TopOffKeeps ==
  ASSUME NEW s \in {4, 7, 10}, NEW saved, NEW stat, Saved(s, saved),
         NEW c \in Battery, chargers' = {c},
         s = 4 => c = 40, s = 7 => c = 160, s = 10 => c = 280,
         TopOff(s, saved, c, stat)
  PROVE  Kept(saved)
  BY DEF TopOff, Fails, Ram, set_charge_state, NoError, Kept, Saved,
     Enabled, Advances, SavedStages, ChargeStates, CHARGING_INTERRUPTED, FUEL_ERROR

LEMMA SuperviseKeeps ==
  ASSUME NEW s \in ChargeStates, NEW saved, NEW bat, Saved(s, saved), Startable(chargers, s),
         Supervise(s, saved, bat)
  PROVE  Kept(saved)
<1>0. PICK stat \in Status :
        \/ s = 2 /\ Chargers({}, {40}) /\ FullCharge(s, saved, 40, stat)
        \/ s = 4 /\ Chargers({}, {40}) /\ TopOff(s, saved, 40, stat)
        \/ s = 6 /\ Chargers({40}, {160}) /\ FullCharge(s, saved, 160, stat)
        \/ s = 7 /\ Chargers({}, {160}) /\ TopOff(s, saved, 160, stat)
        \/ s = 9 /\ Chargers({160}, {280}) /\ FullCharge(s, saved, 280, stat)
        \/ s = 10 /\ Chargers({}, {280}) /\ TopOff(s, saved, 280, stat)
  BY DEF Supervise
<1>1. CASE s = 2 /\ Chargers({}, {40}) /\ FullCharge(s, saved, 40, stat)
  <2>1. chargers' = {40}
    BY <1>1, Switches DEF Startable, Chargers, FUEL_ERROR
  <2> QED BY <1>1, <2>1, FullChargeKeeps DEF Battery
<1>2. CASE s = 4 /\ Chargers({}, {40}) /\ TopOff(s, saved, 40, stat)
  <2>1. chargers' = {40}
    BY <1>2, Switches DEF Startable, Chargers, FUEL_ERROR
  <2> QED BY <1>2, <2>1, TopOffKeeps DEF Battery
<1>3. CASE s = 6 /\ Chargers({40}, {160}) /\ FullCharge(s, saved, 160, stat)
  <2>1. chargers' = {160}
    BY <1>3, Switches DEF Startable, Chargers, FUEL_ERROR
  <2> QED BY <1>3, <2>1, FullChargeKeeps DEF Battery
<1>4. CASE s = 7 /\ Chargers({}, {160}) /\ TopOff(s, saved, 160, stat)
  <2>1. chargers' = {160}
    BY <1>4, Switches DEF Startable, Chargers, FUEL_ERROR
  <2> QED BY <1>4, <2>1, TopOffKeeps DEF Battery
<1>5. CASE s = 9 /\ Chargers({160}, {280}) /\ FullCharge(s, saved, 280, stat)
  <2>1. chargers' = {280}
    BY <1>5, Switches DEF Startable, Chargers, FUEL_ERROR
  <2> QED BY <1>5, <2>1, FullChargeKeeps DEF Battery
<1>6. CASE s = 10 /\ Chargers({}, {280}) /\ TopOff(s, saved, 280, stat)
  <2>1. chargers' = {280}
    BY <1>6, Switches DEF Startable, Chargers, FUEL_ERROR
  <2> QED BY <1>6, <2>1, TopOffKeeps DEF Battery
<1> QED BY <1>0, <1>1, <1>2, <1>3, <1>4, <1>5, <1>6

LEMMA StageKeeps ==
  ASSUME NEW s \in ChargeStates, NEW saved, NEW bat, Saved(s, saved), Startable(chargers, s),
         Stage(s, saved, bat)
  PROVE  Kept(saved)
<1>1. CASE Unloaded(s, bat)
  BY <1>1, Switches DEF Startable, Unloaded, Chargers, Ram, set_charge_state, NoError, Kept,
     Saved, Enabled, Advances, SavedStages, ChargeStates, CHARGING_INTERRUPTED, FUEL_ERROR
<1>2. CASE Stopped(s, saved)
  BY <1>2, Switches DEF Startable, Stopped, Chargers, Ram, NoError, Kept,
     Saved, Enabled, Advances
<1> QED BY <1>1, <1>2, IdleKeeps, EnableKeeps, SuperviseKeeps DEF Stage

\* A whole call of charge(), from the state between two steps.
LEMMA ChargeKeeps ==
  ASSUME ChargeInv, NEW bat, charge(bat)
  PROVE  ChargeInv' /\ Advances(eeprom, eeprom')
<1>1. CASE ~charge_ok'
  BY <1>1 DEF charge, Unplugged, Ram, ChargeInv, Saved, Enabled, Advances, SavedStages,
     ChargeStates, CHARGING_INTERRUPTED, FUEL_ERROR
<1>2. CASE charge_ok' /\ charge_state # CHARGING_INTERRUPTED
  <2>1. Startable(chargers, charge_state)
    BY <1>2 DEF ChargeInv, Saved, Enabled, Startable, ChargeStates, SavedStages,
       CHARGING_INTERRUPTED, FUEL_ERROR
  <2>2. Stage(charge_state, eeprom, bat)
    BY <1>2 DEF charge
  <2> QED BY <2>1, <2>2, StageKeeps DEF ChargeInv, Kept, Saved
<1>3. CASE charge_ok' /\ charge_state = CHARGING_INTERRUPTED /\ bat[40] < MIN_BAT_CHARGE_VOLTAGE
  <2>1. Stage(0, 0, bat)
    BY <1>3 DEF charge
  <2>2. Startable(chargers, 0) /\ Saved(0, 0) /\ 0 \in ChargeStates
    BY DEF ChargeInv, Enabled, Startable, Saved, ChargeStates, SavedStages,
       CHARGING_INTERRUPTED, FUEL_ERROR
  <2>3. Kept(0)
    BY <2>1, <2>2, StageKeeps
  <2>4. eeprom' \in {0, 1}
    BY <2>1 DEF Stage, Idle, Enable, Supervise, Unloaded, Stopped, Ram, set_charge_state
  <2> QED BY <2>3, <2>4 DEF ChargeInv, Kept, Advances
<1>4. CASE charge_ok' /\ charge_state = CHARGING_INTERRUPTED /\ ~(bat[40] < MIN_BAT_CHARGE_VOLTAGE)
  <2>1. Stage(eeprom, eeprom, bat)
    BY <1>4 DEF charge
  <2>2. Startable(chargers, eeprom) /\ Saved(eeprom, eeprom) /\ eeprom \in ChargeStates
    BY <1>4 DEF ChargeInv, Enabled, Startable, Saved, ChargeStates, SavedStages,
       CHARGING_INTERRUPTED, FUEL_ERROR
  <2>3. Kept(eeprom)
    BY <2>1, <2>2, StageKeeps
  <2> QED BY <2>3 DEF ChargeInv, Kept
<1> QED BY <1>1, <1>2, <1>3, <1>4

----------------------------------------------------------------------------
(* The inductive invariant *)

\* A step of the specification from a state of the invariant.
LEMMA StepKeeps ==
  ASSUME ChargeInv, [Next]_vars
  PROVE  ChargeInv' /\ Advances(eeprom, eeprom')
<1>1. CASE UNCHANGED charging
  BY <1>1 DEF charging, ChargeInv, Advances
<1>2. CASE main_loop
  <2>1. PICK bat \in BatteryVoltages, sw2 \in BOOLEAN :
          IF sw2 THEN charge(bat) ELSE UNCHANGED charging
    BY <1>2 DEF main_loop
  <2> QED BY <1>1, <2>1, ChargeKeeps
<1>3. CASE Reset
  <2>1. eeprom # 255 /\ eeprom \in {0} \cup SavedStages
    BY DEF ChargeInv, Saved, SavedStages
  <2>2. charge_state' = eeprom /\ eeprom' = eeprom /\ chargers' = {}
    BY <1>3, <2>1 DEF Reset, PowerUp, set_charge_state, Ram
  <2> QED BY <2>1, <2>2 DEF ChargeInv, Saved, Enabled, Advances, SavedStages, ChargeStates,
          CHARGING_INTERRUPTED, FUEL_ERROR
<1> QED BY <1>1, <1>2, <1>3 DEF Next, vars, initial_sampling, wait_for_charger, SPI_STC_vect

LEMMA Invariant == Spec => []ChargeInv
<1>1. Init => ChargeInv
  BY DEF Init, ChargeInv, Saved, Enabled, SavedStages, ChargeStates, CHARGING_INTERRUPTED,
     FUEL_ERROR
<1>2. ChargeInv /\ [Next]_vars => ChargeInv'
  BY StepKeeps
<1> QED BY <1>1, <1>2, PTL DEF Spec

----------------------------------------------------------------------------
(* Types: the filters, the switch of the supplies and the automaton *)

FilterTypes ==
  /\ low_count \in 0 .. LOW_VOLT_COUNT
  /\ bat_count \in 0 .. BAT_COUNT_MAX
  /\ delay \in 0 .. CHARGE_VOLTAGE_DELAY
  /\ voltage_ok \in BOOLEAN /\ charge_ok \in BOOLEAN /\ bat_ok \in BOOLEAN
  /\ off \in BOOLEAN

ErrorTypes == errors \subseteq Battery \cup {CHARGER_COMM_ERROR}

SupplyTypes ==
  /\ fatal \in BOOLEAN /\ batteries \in BOOLEAN /\ cpu \in BOOLEAN
  /\ no_charge \in BOOLEAN /\ charging_disabled \in BOOLEAN

BootTypes ==
  /\ phase \in {"first", "wait", "second", "loop"}
  /\ samples \in 0 .. INITIAL_SAMPLES - 1

Types == FilterTypes /\ ErrorTypes /\ SupplyTypes /\ BootTypes

\* The ranges of the constants, as the steps below use them.
LEMMA Counts ==
  /\ LOW_VOLT_COUNT \in Nat \ {0} /\ CHARGE_VOLTAGE_DELAY \in Nat \ {0}
  /\ INITIAL_SAMPLES \in Nat \ {0} /\ BAT_COUNT_MAX \in Nat
  /\ BAT_COUNT_BAD \in Nat /\ BAT_COUNT_GOOD \in Nat
<1>1. 1 .. 255 \subseteq Nat \ {0} /\ 0 .. 255 \subseteq Nat
  OBVIOUS
<1> QED BY <1>1, CountAssumption

LEMMA VoltageFilterTypes ==
  ASSUME FilterTypes, NEW v, system_voltage_okay(v)
  PROVE  low_count' \in 0 .. LOW_VOLT_COUNT /\ off' \in BOOLEAN /\ voltage_ok' \in BOOLEAN
<1>1. low_count' \in 0 .. LOW_VOLT_COUNT
  BY Counts DEF FilterTypes, system_voltage_okay
<1>2. off' \in BOOLEAN
  BY Zenon DEF system_voltage_okay
<1>3. voltage_ok' \in BOOLEAN
  BY Zenon DEF system_voltage_okay
<1> QED BY <1>1, <1>2, <1>3

LEMMA ChargeFilterTypes ==
  ASSUME FilterTypes, NEW v, charge_okay(v)
  PROVE  delay' \in 0 .. CHARGE_VOLTAGE_DELAY /\ charge_ok' \in BOOLEAN
<1>1. delay' \in 0 .. CHARGE_VOLTAGE_DELAY
  BY Counts DEF FilterTypes, charge_okay
<1>2. (delay' >= CHARGE_VOLTAGE_DELAY) = TRUE \/ (delay' >= CHARGE_VOLTAGE_DELAY) = FALSE
  BY <1>1, Counts
<1>3. charge_ok' \in BOOLEAN
  BY <1>2, Zenon DEF charge_okay
<1> QED BY <1>1, <1>3

LEMMA BatteryFilterTypes ==
  ASSUME FilterTypes, NEW bat, battery_level_okay(bat)
  PROVE  bat_count' \in 0 .. BAT_COUNT_MAX /\ bat_ok' \in BOOLEAN
<1>1. bat_count' \in 0 .. BAT_COUNT_MAX
  BY Counts DEF FilterTypes, battery_level_okay
<1>2. bat_ok' \in BOOLEAN
  BY Zenon DEF battery_level_okay
<1> QED BY <1>1, <1>2

LEMMA SampleTypes ==
  ASSUME FilterTypes, NEW v, NEW bat, Sample(v, bat)
  PROVE  FilterTypes'
  BY VoltageFilterTypes, ChargeFilterTypes, BatteryFilterTypes DEF Sample, FilterTypes

\* The only step that adds errors names the charger it supervises.
LEMMA SuperviseErrors ==
  ASSUME ErrorTypes, NEW s, NEW saved, NEW bat, Supervise(s, saved, bat)
  PROVE  ErrorTypes'
<1>1. PICK stat \in Status, c \in Battery :
        FullCharge(s, saved, c, stat) \/ TopOff(s, saved, c, stat)
  BY DEF Supervise, Battery
<1>2. errors' = errors \/ errors' = errors \cup {CHARGER_COMM_ERROR, c} \/ errors' = errors \cup {c}
  BY <1>1 DEF FullCharge, TopOff, Fails, NoError
<1> QED BY <1>2 DEF ErrorTypes

LEMMA ChargeErrors ==
  ASSUME ErrorTypes, NEW bat, charge(bat)
  PROVE  ErrorTypes'
<1>1. CASE errors' = errors
  BY <1>1 DEF ErrorTypes
<1>2. CASE \E s, saved : Supervise(s, saved, bat)
  BY <1>2, SuperviseErrors
<1> QED BY <1>1, <1>2 DEF charge, Unplugged, Stage, Idle, Enable, Unloaded, Stopped, NoError

\* The counters and samples start at 0.
LEMMA ZeroCounts ==
  /\ 0 \in 0 .. LOW_VOLT_COUNT /\ 0 \in 0 .. BAT_COUNT_MAX
  /\ 0 \in 0 .. CHARGE_VOLTAGE_DELAY /\ 0 \in 0 .. INITIAL_SAMPLES - 1
  BY Counts

LEMMA TypesKept ==
  ASSUME Types, [Next]_vars
  PROVE  Types'
<1>1. CASE initial_sampling
  <2>1. FilterTypes'
    BY <1>1, SampleTypes DEF initial_sampling, Types
  <2>2. BootTypes'
    BY <1>1, Counts DEF initial_sampling, Types, BootTypes
  <2>3. ErrorTypes' /\ SupplyTypes'
    BY <1>1 DEF initial_sampling, Types, ErrorTypes, SupplyTypes, charging, supplies
  <2> QED BY <2>1, <2>2, <2>3 DEF Types
<1>2. CASE wait_for_charger
  <2>1. FilterTypes'
    BY <1>2, VoltageFilterTypes, ChargeFilterTypes
       DEF wait_for_charger, Types, FilterTypes, filters, state_bits
  <2>2. BootTypes'
    BY <1>2 DEF wait_for_charger, Types, BootTypes
  <2>3. ErrorTypes' /\ SupplyTypes'
    BY <1>2 DEF wait_for_charger, Types, ErrorTypes, SupplyTypes, charging, supplies
  <2> QED BY <2>1, <2>2, <2>3 DEF Types
<1>3. CASE main_loop
  <2>1. PICK v \in SystemVoltages, bat \in BatteryVoltages, sw1 \in BOOLEAN, sw2 \in BOOLEAN :
          /\ Sample(v, bat)
          /\ Supply(sw1)
          /\ IF sw2 THEN charge(bat) ELSE UNCHANGED charging
    BY <1>3 DEF main_loop
  <2>2. FilterTypes'
    BY <2>1, SampleTypes DEF Types
  <2>3. BootTypes' /\ no_charge' \in BOOLEAN
    BY <1>3 DEF main_loop, Types, BootTypes, SupplyTypes, boot
  <2>4. ErrorTypes'
    BY <2>1, ChargeErrors DEF Types, ErrorTypes, charging
  <2>5. charging_disabled' \in BOOLEAN
    <3>1. CASE sw2
      BY <2>1, <3>1, Zenon DEF charge
    <3>2. CASE ~sw2
      BY <2>1, <3>2 DEF Types, SupplyTypes, charging
    <3> QED BY <3>1, <3>2
  <2>6. fatal' \in BOOLEAN /\ cpu' \in BOOLEAN
    <3>1. fatal' \in BOOLEAN
      BY <2>1 DEF Supply, Fault, Types, SupplyTypes
    <3>2. cpu' \in BOOLEAN
      BY <2>1, Zenon DEF Supply
    <3> QED BY <3>1, <3>2
  <2>7. batteries' \in BOOLEAN
    BY <2>1, <2>2 DEF Supply, Types, SupplyTypes, FilterTypes
  <2> QED BY <2>2, <2>3, <2>4, <2>5, <2>6, <2>7 DEF Types, SupplyTypes
<1>4. CASE SPI_STC_vect
  BY <1>4 DEF SPI_STC_vect, Types, FilterTypes, ErrorTypes, SupplyTypes, BootTypes, boot,
     charging, filters, state_bits, supplies
<1>5. CASE Reset
  <2>1. FilterTypes' /\ BootTypes'
    BY <1>5, ZeroCounts DEF Reset, PowerUp, FilterTypes, BootTypes
  <2>2. ErrorTypes' /\ SupplyTypes'
    BY <1>5, Zenon DEF Reset, PowerUp, ErrorTypes, SupplyTypes
  <2> QED BY <2>1, <2>2 DEF Types
<1>6. CASE UNCHANGED vars
  BY <1>6 DEF vars, Types, FilterTypes, ErrorTypes, SupplyTypes, BootTypes, boot,
     charging, filters, state_bits, supplies
<1> QED BY <1>1, <1>2, <1>3, <1>4, <1>5, <1>6 DEF Next

----------------------------------------------------------------------------
(* The properties *)

\* The filters' counters stay within their limits, the automaton in its states
\* and the byte saved below 11, across resets and resumed charges.
THEOREM TypesHold == Spec => []TypeOK
<1>1. Init => Types
  <2> SUFFICES ASSUME Init PROVE Types
    OBVIOUS
  <2>1. FilterTypes /\ BootTypes
    BY ZeroCounts DEF Init, FilterTypes, BootTypes
  <2>2. ErrorTypes /\ SupplyTypes
    BY Zenon DEF Init, ErrorTypes, SupplyTypes
  <2> QED BY <2>1, <2>2 DEF Types
<1>2. Types /\ [Next]_vars => Types'
  BY TypesKept
<1>3. Types /\ ChargeInv => TypeOK
  <2> SUFFICES ASSUME Types, ChargeInv PROVE TypeOK
    OBVIOUS
  <2>1. charge_state \in ChargeStates /\ eeprom \in 0 .. 10 /\ chargers \subseteq Battery
    BY DEF ChargeInv, Saved, SavedStages, Enabled, Battery
  <2>2. {voltage_ok, charge_ok, bat_ok, fatal, off, batteries, cpu, no_charge,
         charging_disabled} \subseteq BOOLEAN
    BY DEF Types, FilterTypes, SupplyTypes
  <2> QED BY <2>1, <2>2 DEF Types, FilterTypes, ErrorTypes, BootTypes, TypeOK
<1> QED BY <1>1, <1>2, <1>3, Invariant, PTL DEF Spec

\* After any sequence of charges, undockings and losses of power, the byte in
\* the EEPROM is the stage to resume: charge_state, or the state before it.
THEOREM Resumes == Spec => []ResumePoint
<1>1. ChargeInv => ResumePoint
  BY DEF ChargeInv, Saved, ResumePoint, SavedStages, CHARGING_INTERRUPTED, FUEL_ERROR
<1> QED BY <1>1, Invariant, PTL

\* charge() never leaves two chargers enabled.
THEOREM AtMostOneCharger == Spec => []OneCharger
<1>1. ChargeInv => OneCharger
  <2> SUFFICES ASSUME ChargeInv PROVE OneCharger
    OBVIOUS
  <2>1. chargers = {} \/ chargers = {40} \/ chargers = {160} \/ chargers = {280}
    BY DEF ChargeInv, Enabled
  <2>2. \A b : Cardinality({b}) = 1
    BY FS_Singleton
  <2>3. Cardinality({}) = 0
    BY FS_EmptySet
  <2>4. CASE chargers = {}
    BY <2>3, <2>4 DEF OneCharger
  <2>5. CASE \E b : chargers = {b}
    <3>1. PICK b : chargers = {b}
      BY <2>5
    <3>2. Cardinality(chargers) = 1
      BY <2>2, <3>1, Zenon
    <3> QED BY <3>2 DEF OneCharger
  <2> QED BY <2>1, <2>4, <2>5
<1> QED BY <1>1, Invariant, PTL

\* The charger that charge() leaves enabled is the one of its stage.
THEOREM ChargerMatchesStage == Spec => []ChargerOfStage
<1>1. ChargeInv => ChargerOfStage
  BY DEF ChargeInv, Enabled, ChargerOfStage, CHARGING_INTERRUPTED, FUEL_ERROR
<1> QED BY <1>1, Invariant, PTL

\* The byte in the EEPROM advances until the charge ends or starts again.
THEOREM OnlyAdvances == Spec => StageAdvances
<1>1. ChargeInv /\ [Next]_vars =>
        [eeprom' # eeprom => eeprom' > eeprom \/ eeprom' \in {0, 1}]_vars
  BY StepKeeps DEF Advances
<1> QED BY <1>1, Invariant, PTL DEF Spec, StageAdvances

\* What a fatal error has cut.
FatalInv == fatal => ~batteries /\ ~cpu

LEMMA SupplyCuts ==
  ASSUME NEW sw1, Supply(sw1), fatal \/ errors # {}
  PROVE  fatal' /\ ~batteries' /\ ~cpu'
  BY Zenon DEF Supply, Fault

LEMMA FatalKept ==
  ASSUME FatalInv, [Next]_vars
  PROVE  /\ FatalInv'
         /\ fatal => Reset \/ (fatal' /\ ~batteries' /\ ~cpu')
         /\ errors # {} /\ main_loop => fatal' /\ ~batteries' /\ ~cpu'
<1>1. ASSUME UNCHANGED supplies
      PROVE  FatalInv' /\ (fatal => fatal' /\ ~batteries' /\ ~cpu')
  BY <1>1, Zenon DEF supplies, FatalInv
<1>2. CASE main_loop
  <2>1. PICK sw1 \in BOOLEAN : Supply(sw1)
    BY <1>2 DEF main_loop
  <2>2. fatal \/ errors # {} => fatal' /\ ~batteries' /\ ~cpu'
    BY <2>1, SupplyCuts
  <2>3. fatal' => fatal \/ errors # {}
    BY <2>1, Zenon DEF Supply, Fault
  <2> QED BY <2>2, <2>3 DEF FatalInv
<1>3. CASE Reset
  <2>1. FatalInv'
    BY <1>3, Zenon DEF Reset, PowerUp, FatalInv
  <2>2. ~main_loop
    BY <1>3, Zenon DEF Reset, PowerUp, main_loop, boot
  <2> QED BY <1>3, <2>1, <2>2
<1> QED BY <1>1, <1>2, <1>3
        DEF Next, vars, initial_sampling, wait_for_charger, SPI_STC_vect

\* A charger error cuts the batteries and the computer at the next iteration of
\* the loop, and only a reset of the board brings them back.
THEOREM FatalLasts == Spec => FatalUntilReset
<1>1. Init => FatalInv
  BY Zenon DEF Init, FatalInv
<1>2. FatalInv /\ [Next]_vars =>
        /\ FatalInv'
        /\ [fatal => Reset \/ (fatal' /\ ~batteries' /\ ~cpu')]_vars
        /\ [errors # {} /\ main_loop => fatal' /\ ~batteries' /\ ~cpu']_vars
  BY FatalKept
<1> QED BY <1>1, <1>2, PTL DEF Spec, FatalUntilReset
=============================================================================
