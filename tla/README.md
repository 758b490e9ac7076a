# Critterbot: a TLA+ verification project

The Critterbot is a small holonomic robot.  Its firmware is a set of C programs:
one on an ARM (sensors, LEDs, docking, the link to the computer), one on each of
the three motor controllers and one on the power board (AVRs).  A C++ driver and a
Java library on the robot's computer pass commands and sensor readings ("drops")
between the ARM and the agents.  This directory holds TLA+ models of that code, the
TLC configurations that check them and machine-checked proofs about them.
`PROJECT.json` maps every definition to the lines it models and lists the runs, the
hazards, the findings and the theorems.

## 1. The system

### Components, their state and operations

| Component | Source | State | Operations |
|---|---|---|---|
| Event loop | `arm/lib_events.c` | started tasks, tick flag | one call of every started task per 10 ms tick, in a fixed order; start, stop, init |
| Motor task | `arm/lib_motor.c` | speeds, final speeds, slew, mode, timeout counter, drive and charging flags | four setters, tick, enable and disable, init |
| Recharger | `arm/lib_recharger.c` | automaton state and last state, counters, infrared history | tick, reset, enable, disable, init |
| Machine interface | `arm/lib_mi.c` | parser state, last command, `mi_disabled_commands` | parse commands, report the state, disable and enable |
| Console | `arm/lib_ui.c` | current line | commands that call the tasks |
| Serial I/O | `arm/armio.c` | receive ring (DMA), transmit buffer | get, put, count, read a line, interrupt |
| SPI queue | `arm/lib_spi.c` | list of packets, DMA registers | send, interrupt |
| Monitor, errors | `arm/lib_monitor.c`, `lib_error.c` | overheated flag, error register | tick; set and clear flags |
| Bootloader | `arm/lib_boot.c`, `lib_flash.c` | image buffer, size, CRC verdict | receive, verify, flash |
| Motor controller | `avr/CritterbotAVRMotor` | set point, mode, limits, byte position | SPI byte, encoder, tick |
| Power board | `avr/CritterbotAVRPower` | `system_state`, filters, charge state (RAM and EEPROM), chargers, batteries, computer | loop with its samples, `charge()`, SPI byte, reset |
| Dock station | `avr/CritterbotAVRDock` | on or off | loop |
| Host driver | `Critterdriver` | client list, last action, data for the writer | four threads |
| Java interface | `javadrops` | client list, queues of drops | accept, send, receive |
| Simulator, visualiser, scripts | `sim`, `gui`, `support` | – | not part of the robot |

### Interactions

* All ARM tasks run in one main loop, one after the other; a tick and a caller never
  overlap, so a call is one atomic step.  What they share with *interrupts* (serial
  ring, SPI buffers, sensor values, error register) changes between and during steps.
* Callers of the motor task: machine interface (commands of the computer), console,
  recharger.  While it is enabled, the recharger disables the machine interface's commands.
* The motor task queues one SPI packet for the power board and one for each motor
  controller at every tick and reads the replies to the previous ones.
* The power board decides on its own when to charge; the ARM only sees its bus voltage and
  charge state, and sends it one byte with the "charging disabled" flag.

### What is hard here

Command timeouts that interact with a slew under way; early returns on a "nothing
changed" test against the wrong variable; fixed-point ramps; 8-bit counters tested after
a decrement and shared by several states; an automaton whose `switch` omits a state;
a communication error that reads as a valid voltage; power loss or undocking between the
write of the RAM and of the EEPROM; filters with hysteresis that feed one another;
lists and rings shared with interrupts; hand-offs between host threads.  The hazards of
`PROJECT.json` list them one by one, each at its line.

### What makes each component correct

* Motor task: wheels move smoothly to the commanded speed and stop when callers fall silent.
* Recharger: a dock search that never hangs, acts on fresh readings and ends docked or stopped.
* Power board: never two chargers at once, a charge survives interruptions at the right
  stage, errors are fatal until a reset, the disable command holds.
* Machine interface and serial ring: the parser is between packets again after noise, the newest
  command is obeyed, no command runs before its mode has arrived; what is printed is sent in order.
* SPI queue: every packet queued is sent once, none is lost when the interrupt races.
* Motor controller: never both sides of a bridge leg on, stops on timeout, respects the limits.
* Bootloader: flashes only an image whose CRC matched, whole pages, then resets.
* Host driver: an action pushed is written or replaced by a later one, whole (section 5 says when not);
  clients come and go without disturbing each other.

## 2. Modules

| Module | What it is |
|---|---|
| `MotorDrive` | the motor task: one record `motor` for the static variables of `lib_motor.c`, one operator per setter, `motor_event` as the composition of `CommandTimeout`, `SlewStep` and `Packets` in the order of the code |
| `MCMotorDrive` | the commands and replies of its checked instance |
| `MotorDriveProofs` | theorems about `MotorDrive` |
| `DockSearch` | abstract specification: what a dock search promises |
| `Recharger` | the recharger's automaton, one action per event and console command, one operator per state handler; refines `DockSearch` |
| `MCRecharger` | the light sensors, obstacles and voltages of its checked instance |
| `RechargerProofs` | theorems about `Recharger` |
| `PowerCharge` | the power board: samples and filters, supply switch, `charge()`, EEPROM, reset |
| `MCPowerCharge` | the voltages of its checked instance |
| `PowerChargeProofs` | theorems about `PowerCharge` |
| `AvrMotor` | one motor controller: the SPI interrupt's bytes against the control loop, current and voltage limits, the H-bridge; with the ARM that sends to it |
| `MCAvrMotor` | set points, voltages and readings of its checked instance |
| `AvrMotorProofs` | theorems about `AvrMotor` |
| `SpiQueue` | abstract specification: a queue of packets |
| `SpiBus` | `spi_send_packet` statement by statement, its interrupt, the two DMA channels and the SPI unit; refines `SpiQueue` |
| `MCSpiBus` | the packets of its checked instance |
| `SpiBusProofs` | theorems about `SpiBus` |
| `SerialTasks` | the ARM's serial line composed with the tasks that share it: ring, console, machine interface, boot loader, event loop, transmitter |
| `MCSerialTasks` | header, commands and images of its checked instance |
| `SerialTasksProofs` | theorems about `SerialTasks` |
| `HostDriver` | the four threads of the C++ driver: client list, last action, hand-over to the writer |
| `MCHostDriver` | clients and actions of its checked instance |
| `HostDriverProofs` | theorems about `HostDriver` |
| `NatSets` | induction over the natural numbers, for the proofs of `SpiBus` and `SerialTasks` |

### MotorDrive

State: `motor` (speed, final speed, slew state, mode, timeout counter), `drive`,
`charging`, and `sent`, what the last tick handed to the SPI queue, the LEDs and the error
register.  `used` and `quiet` describe the callers: which kinds of command
they give in this behaviour, and whether they have fallen silent.  Actions: `motor_event`,
`Slew`, `XYTheta`, `Voltage`, `Speed`, `motor_init`, `SetDrive`, `SetCharging`, `CallersStop`.

The integers are those of the code: clamping, conversion to `signed char`, division that
truncates toward zero, 16.16 fixed point whose shift rounds down, and division by zero as
`__div0` returns it (0).  `MOTOR_MAX_SPEED`, `MOTOR_TIMEOUT` and `MOTOR_SLEW_RATE` are
constants; `SlewAssumption` says that the step count fits the `unsigned char` that holds it.

### Recharger

State: the file-level variables of `lib_recharger.c`, `mi_disabled_commands`, and the
inputs `moving` and `volts`, which interrupts write.  `fresh` is a history variable: how many
readings have been taken since the recharger was last enabled.  A step reads one light
reading and one set of obstacles, takes the handler of its state, and gives
at most one velocity to the motor task.  `recharger_act_forward`'s rotation is left out
because `FSA_MAX_ROTATION_COMPONENT` is 0 and clamps it to 0.  `beaconFrequency` and the
convolution factor are functions of the history and are not state of the model.

`DockSearch` has four phases; the refinement maps WANDER to *search*, FORWARD, ALIGN and
CLOSE to *approach*, ROTATE and DOCK to *dock*, DONE to *docked*.

### PowerCharge

State: where `main` is, the filters' counters and bits of `system_state`, `charge_state` and
the EEPROM byte, the enabled chargers, errors, batteries and computer, the ARM's command.
`charge()` is one operator per group of cases of its `switch`; the error codes 211 to 235 are
one state, `FUEL_ERROR`.  `Reset` is a loss of power at any point: RAM is cleared, the
EEPROM stays.  The voltages come from small sets of averaged readings around each threshold.

### AvrMotor

State: the byte of its packet the ARM sends next (`pos`) and the one the interrupt expects
(`rstate`), the three variables the interrupt writes, `event_count`, the statics of
`current_limit` in one record, the next step of the loop, and the bridge.  `Byte` is the interrupt
with a byte of the ARM; `Event`, `Expire`, `Limit` and `Drive` are the parts of the loop's body between
which the interrupt can change what they read.  `ArmRestart` and the initial states
put the two boards out of step.  The PID is any output within its bounds.
`good` and `stopped` are history variables: packets since the last disturbance, and silence.

### SpiBus and SpiQueue

State: the list (`head`, `tail`, `next`), the next statement of `spi_send_packet`, the two DMA channels,
the enabled interrupts, and the words between memory and memory: fetched (`fly`) and received
(`rdr`).  Each statement that touches shared state is a step; the interrupt runs, whole, before
the next one when a flag it is enabled for is up.  The transmitter is double buffered, so that its
counter reaches zero two words early.  Two settings are chosen once per behaviour: whether
clients send packets that are still queued (`careful`; only `lib_accel.c` waits) and whether the
build reads `spi_data_head` before it stops the DMA (`hoisted`; the pointers are not `volatile` and
the firmware is built with `-O2`, so either order may come out).  The refinement maps the linked list
to a sequence.

### SerialTasks

State: the unread bytes of the ring, the host's bytes under way, the step of the event loop, the
parser, `mi_disabled_commands`, the boot loader and the transmitter.  The position in the ring is
abstracted: the unread bytes may pass its end at any time, where `armgetnumchars` counts one byte too
many (`Counts`).  `events_do` is taken apart into the tasks a tick runs; `Parse` is one
turn of the loop of `mi_get_commands`, since bytes are counted anew on each.  `Lose` is
the cable.  The packets are those of the driver's `ActionWriter`: the motor mode and the speeds are one
byte of `Command`, the LED mode one, and each of `LEDS` bytes of LED data any byte of `Datum`; all of them may
equal a byte of the header.  A behaviour that prints is in a session of the machine interface or at the console (`mi`).
`since`, `clean`, `stored` and `mute` are history variables; a packet is *clean* when none of its bytes is
lost and none after its header is the first header byte.

### HostDriver

State: sockets (numbered like file descriptors, the lowest free number first), the client list and
the two copies threads make of it, the pending action, the writer's flag and buffers.  A step is what a
thread does between two accesses to shared data, or under a mutex.  The list and its copies are
sets: the order in which a copy is gone through is left open, and a number that is
in the list twice (possible only after `reused`) counts once.  Clients close, break
off and send drops in two parts.  `due`, `lost`, `unasked`, `overtaken` and `reused` are history variables:
`unasked` says that no signal started the write under way, `overtaken` that a write has set `dataWritten`
between a hand-over and its signal.

## 3. Runs

| Run | Expect | Shows |
|---|---|---|
| `motor_drive` | pass | type invariant, `SlewEndsAtFinal`, `SlewRateLimited`, `NoOvershoot`, `QuietOneKindStops` |
| `motor_mixed` | violation | `QuietStops`: mixed commands defeat the timeout |
| `recharger` | pass | type invariant, `NeverWraps`, `FreshHistory`, `DockingEnds`, `BlockedCloseEnds`, refinement of `DockSearch` |
| `recharger_align` | violation | `AlignedDrivesOn`: ALIGN may become its own last state |
| `recharger_done` | violation | `DoneDisables`: the DONE handler is never called |
| `recharger_power` | violation | `DoneOnShorePower`: a communication error counts as docked |
| `power_charge` | pass | type invariant, `ResumePoint`, `OneCharger`, `ChargerOfStage`, `FatalUntilReset`, `StageAdvances` |
| `power_disabled` | violation | `DisabledStaysDisabled`: the flag is consulted in one state only |
| `avr_motor` | pass | type invariant, `Resynchronised`, `NoShootThrough`, `SilenceStops`, `OverVoltageStops` |
| `spi_bus` | pass | type invariant, `ListWhole`, `OwnBuffer`, `ReadBeforeFinished`, `EveryPacketFinished`, refinement of `SpiQueue` |
| `serial_tasks` | pass | type invariant, `Resynchronised`, `NewestObeyed`, `FlashesWholeImage`, `SilenceEndsReception`, `SendsInOrder`, `PrintedIsSent` |
| `host_driver` | pass | type invariant, `WholePackets`, `HandedOverIsWritten`, `OpenListed`, `SpinEnds` |

### Bounds, and why they are enough

* `motor_drive`: maximum speed 3 instead of 100, timeout 3 instead of 50, one wheel command
  with three different deltas and one component beyond the maximum (clamped), one velocity
  in robot coordinates, one voltage, one out-of-range speed.  Deltas up to 6 in steps that do
  not divide 65536 show the truncation; a timeout shorter than the longest slew makes the
  timeout strike in the middle of one.  The theorems cover all other values.
* `recharger`: six sensors (ahead, side and the middle case of `ALIGN`'s comparison), history
  of 2, two ticks per step, counters of 1 or 2.  The counters are only compared with 0 and
  their limits, so short ones meet the same cases sooner.  Readings: none, strong and ahead
  (456, which the code truncates to 200), on the side, a glimmer below the threshold.
  `DOCK_CYCLE` = 2 visits all three phases of the docking motion.
* `power_charge`: counters of 1 to 4 for 3 to 55; every threshold of the code lies between two of
  the voltages.  Charger statuses are unconstrained: every sequence of the four is checked.
  EEPROM and RAM evolve under undocking and reset at every step.
* `avr_motor`: bytes below 12 instead of 256 with the same gap between set points and headers; both
  directions; a bus voltage that looks like a header (what keeps the interrupt out of step) and
  one too high to move; every counter of length 1 or 2, since they are only compared with their
  limits.  A restart of the ARM takes longer than the two packets it needs to be in step again.
* `spi_bus`: three packets, so that one can be in transfer, one queued and one under way to the
  queue; one word (the converter's) is shorter than what the transmitter holds, four words
  are the first length that is not.  At most one word passes during a call
  (`Slack`), which takes less time than a word.  Carelessness and early reading are not combined.
* `serial_tasks`: a header of two bytes, DE and AD; the motor byte of a packet may be DE, and
  each of two bytes of LED data DE or AD, so that the data may end like a header's first byte, spell a whole
  header, or do both, and `Enough` is two packets; a ring of 7, a
  console line of 4, images of one and two bytes in a buffer of 3 (the larger leaves no
  room for its CRC), a transmit buffer of 3.  A behaviour uses the line for one purpose - packets,
  images or printing - besides the console; bytes of a packet are not lost again before the parser is
  in step; what arrives during a tick counts as arriving before it.
* `host_driver`: two clients, the number needed for one number to be given away while another
  thread still has it, and two actions, the number needed for a torn packet.  In a behaviour
  either clients come and go, or one comes, stays and sends (`use`): the hand-over
  does not depend on the list.

### Fairness

`motor_event` and `recharger_event` are weakly fair: `events_do` calls every started task on each
timer interrupt.  Nothing is assumed of callers, console, readings or the power board,
which may do anything or nothing.  `PowerCharge` states no fairness; its properties are safety.

* `AvrMotor`: the control loop (its timer runs, its body ends); nothing obliges the ARM.
* `SpiBus`: a call that has begun is finished, a pending interrupt is served, the hardware goes on;
  nothing obliges a client to call.
* `SerialTasks`: the event loop, the DMA and its pending interrupt; printing only in a session of the machine
  interface, whose `mi_event` sends a status packet on every tick (`lib_mi.c:41-43`), since at the console nothing
  need be printed; nothing obliges the host.
* `HostDriver`: each of the four threads, the main loop because the robot sends a state on every
  tick; nothing obliges the clients, and a spurious wake-up may or may not come.

## 4. What is proved

`MotorDriveProofs`, from the constants' assumptions only:

* `TypeCorrect`: `Spec => []TypeOK`.
* `SlewReaches`: `Spec => []SlewEndsAtFinal`.
* `RateLimited` and `NeverOvershoots`: the two action properties.
* `StopsInTime`: the wheels' deadline once the callers are silent.

The inductive invariant is `IInv`: the type invariant; `RampInv`, which says of every wheel while
a slew runs that its fixed-point speed is within the maximum, its increment at most one unit, and
that the increments left would bring it less than one unit short of the final speed and never
beyond it; and, when all commands are velocity commands, `SlewInv`: the speed is the integer part
of the fixed-point one during a slew and the final speed after it.  The type invariant
alone is not inductive (nothing in it keeps the ramp below the maximum speed) and
`SlewEndsAtFinal` is not either (the last jump needs the bound on the rest).  The argument
rests on three arithmetic lemmas: truncated division (`QuotientBounds`), the floor of the
shift (`FloorDivision`), and that `steps` is at least every delta times the slew rate
(`LargestIsBound`), so that no interval exceeds one unit per tick.

`StopsInTime` is the safety half of `QuietOneKindStops`.  `TicksToStop` counts the ticks until the wheels
stand still: what is left of the slew to rest or, before the timeout, the rest of the timeout and the
`Longest` slew there is.  It never exceeds `MOTOR_TIMEOUT` + `Longest`, each tick of silence takes at
least one off, no other step changes it, and at 0 the wheels are still.  It needs `RestInv` (a slew to
rest takes at most `Longest` ticks) and `RawInv` (no slew runs when all commands are voltages or
speeds).  What is left to TLC is the step from there to "eventually", which is the fairness of
`motor_event`.

`PowerChargeProofs`, from the constants' assumptions only:

* `TypesHold`: `Spec => []TypeOK`.
* `Resumes`, `AtMostOneCharger`, `ChargerMatchesStage`: `ResumePoint`, `OneCharger`, `ChargerOfStage`.
* `OnlyAdvances` and `FatalLasts`: the two action properties.

The inductive invariant is `ChargeInv`.  None of the three invariants is inductive: with stage 8 in
RAM and 7 in the EEPROM, which `ResumePoint` allows, an interruption would resume stage 7 with charger
280 enabled.  `Saved` says exactly which states have been saved when they are entered (1, 3,
5, 7, 8, 10) and that an interrupted charge has such a state in the EEPROM; `Enabled` relates the one
charger that may be on to the state and, when the state hides the stage, to the saved byte.
Each step of `charge()` starts from a state it may be called in or resumed in (`Startable`) and
one lemma per group of cases shows what it leaves; `ChargeKeeps` composes them for a whole call.
The types of filters and supplies need no more than themselves (`Types`), and the fatal error
needs that it has cut the supplies (`FatalInv`).

`RechargerProofs`, from the constants' assumptions only:

* `TypesHold`: `Spec => []TypeOK`.
* `CountersNeverWrap`: `Spec => []NeverWraps`.
* `IsDockSearch`: `Spec => ImplementsSearch`, the refinement of `DockSearch`.
* `ActsOnFresh`: `FreshHistory`.
* `DockingEndsInTime`, `BlockedCloseEndsInTime`: the deadlines of a docking attempt and of a blocked robot.

The inductive invariant is `StepInv`: the ranges of the two counters with `NeverWraps`, and
`LastInv`, that an alignment returns only to FORWARD, CLOSE or itself.  Without it, `ALIGN`, whose
next state is the variable `lastFSAState`, could lead to DONE, which no step of `DockSearch` allows.
One lemma per state handler shows what it keeps and which phases it moves between; `NextKeeps`
adds the console.  `FreshHistory` rests on `FreshInv`: `time` counts the readings since the start
only while the recharger is enabled, since `recharger_init` clears one and not the other.

The deadlines are the safety halves of `DockingEnds` and `BlockedCloseEnds`.  An attempt counts
`immobileCounter` without motion and `wanderCounter` with it, and motion sets the first back, so that what always
falls is their combination `AttemptSteps`; in ticks, `CF_EVENT_INTERVAL` times that less `counter`.  They need
`ArmedInv`: both counters are armed wherever DOCK is entered, and `immobileCounter` never exceeds `CLOSE_IMMOBILE`
in CLOSE or in an alignment that returns to it.

`AvrMotorProofs`, from the constants' assumptions only:

* `TypeCorrect`: `Spec => []TypeOK`.
* `PacketsResynchronised`: `Spec => []Resynchronised`.
* `BridgeSafe`: `Spec => NoShootThrough`.
* `SilenceStopsInTime`, `OverVoltageStopsInTime`: the deadlines of a motor that must stop.

`StepInv` says how far the interrupt can be out of step: since no set point looks like a header
(`HeaderAssumption`), it never expects a set point where the ARM sends a voltage, and a voltage
that is no header leaves it in step or at most two packet ends away.  `BridgeInv` ties duty cycles and
low sides to the sign of the last voltage, which `SignChanges` compares.

The deadlines are counted in bodies of the control loop, each of which ends with `Drive`.  `BodiesToStop` is the
rest of the timeout and then one body for each unit of the correction an over-current has left, which a
stop does not clear; `MagnitudeInv` bounds it by the largest set point a byte holds (an interrupt that is out of
step may take any byte for one).  `BodiesAbove` is 2, 1 or 0: `voltage_limit` is computed in one half of the
body and used in the other, and the voltage may rise between them.

`SpiBusProofs`, from the constants' assumptions only:

* `TypeCorrect`: `Spec => []TypeOK`.
* `WordsReachTheirBuffer`: `Spec => []OwnBuffer`.
* `FinishedIsRead`: `Spec => ReadBeforeFinished`.
* `ListStaysWhole`: `Spec => []ListWhole`, under the one condition that the property itself has (not
  `hoisted`): it holds of careless clients and short packets too.
* `IsQueue`: `Spec => ImplementsQueue`, the refinement of `SpiQueue`.

The inductive invariant for the words counts them.  `WordsInv`: while a packet is in transfer, the words still to be
stored are those to be fetched, those on the way and the one in the receive register
(`rcr = OnTheWay`), all of that packet; so both counters at zero mean that nothing is on its way.  While
`spi_send_packet` starts a list, the receive counter is still zero, and only the length of
the packet (`Words > Ahead + Slack`, which is what `hasty` records) keeps the interrupt from taking it
for finished.  `ReceiverInv` says that no word is lost: the receiver is enabled, or the register has
room for the one word that passes during a call.  `HeadInv` says that a list is started only when
there is none, in both orders in which a build may read the head.

The last two theorems rest on `ListInv`: there is a sequence without repetitions, the chain, whose first
packet the head points to, each of whose packets points to the next, and the last of which is the tail
and points to nothing, except while a call is linking its packet behind it; and the DMA stands still from the
test of the head to the end of the call, so that the interrupt cannot empty the list meanwhile.  `ListWhole`
and the refinement mapping speak of the packets reached from the head, a recursive function of
the pointers; that they are the chain is an induction over its length, with `NatSets`.

`SerialTasksProofs`, from the constants' assumptions only:

* `TypeCorrect`: `Spec => []TypeOK`.
* `WholeImages`: `Spec => []FlashesWholeImage`.
* `InOrder`: `Spec => []SendsInOrder`.
* `BackInStep`: `Spec => []Resynchronised`.
* `ObeysNewest`: `Spec => []NewestObeyed`.

`BootInv` adds what `FlashesWholeImage` needs: the boot task runs only during a reception, no CRC is
good until its end, and `stored` follows `boot_data_head` up to the end of the buffer.  `CommandArrived` is
the lemma behind the type of a command: `armgetnumchars` counts at most one byte too many, so the first
of two has arrived.

`ParserInv` is the invariant for the parser.  It relates the parser to all bytes that have not been read yet, in
the ring and under way: they are a run of packets (`Follows`) that starts where the bytes
read end (`Ahead`), and the parser is either in step with that position or, between packets and within a clean
one, on the data of a command it believes to see (`Bound`), which swallows a bounded number of bytes.  A clean
packet shortens that data by its own length, since the parser looks for a header only from its first byte on; so
`Enough` of them in a row, the longest such data over the length of the shortest packet, bring it back in step,
and `StepInStep` keeps it there whatever the bytes are.  A packet that is not clean starts the count again:
nothing is assumed of where it leaves the parser (`ZeroBound`).  `Newest` says that the newest command is among the
unread bytes or has been obeyed.  `Sessions` and `Tasks` say which parts of the line a behaviour uses.
Of the bytes the proof assumes that those of the header differ from each other and that no packet spells
the console's command to receive an image (`ByteAssumption`).
The attempt also corrected `Motors`: two of the cases of an earlier
version overlapped, and TLA+ leaves open which of two true cases is taken.

`HostDriverProofs`, from the constants' assumptions only:

* `TypeCorrect`: `Spec => []TypeOK`.
* `PacketsAreWhole`: `Spec => []WholePackets`.
* `ListIsOpen`: `Spec => []OpenListed`.

`WriterInv` states the protocol of the unlocked buffers: a writer that was asked, and not `overtaken`, writes
only while the flag is false and the main loop is elsewhere; a false flag and a writer that waits mean that the
buffers are the main loop's; and between a hand-over and its signal the flag is true only when it was overtaken.  `ListInv` adds to `OpenListed` that the socket being accepted is open and
in no copy, and that a socket is closed before it is taken from the list.

Only model-checked: the liveness properties (`QuietOneKindStops`, `DockingEnds`, `BlockedCloseEnds`,
`SilenceStops`, `OverVoltageStops`, `EveryPacketFinished`, `SilenceEndsReception`, `PrintedIsSent`,
`HandedOverIsWritten`, `SpinEnds`), which need fairness and ENABLED and are out of the prover's reach.  Every
other property of a passing run is a theorem.  For the first five the theorems `...InTime` prove all but the
step from "each tick takes one off" to "in the end"; TLC checked these measures before they were proved.

Induction over data: the library's induction theorems take an operator, of which the installed provers do not
find instances.  `NatSets` states them with a set (`SetInduction`, `IntervalInduction`), derived from the
library's well-founded induction; a leaf then cites the set of numbers for which the fact holds.

## 5. Findings and conditions

### Findings

1. **Motors may run for ever after mixed commands** (`motor_mixed`).  `motor_set_speed_slew`
   returns early when the command equals the *final speed of the last slew*; a voltage command
   in between has changed the speed but not that.  The timeout then slews to rest, is
   taken for a repetition, and the wheels keep turning.
2. **Alignment may lead nowhere** (`recharger_align`).  CLOSE enters ALIGN by assignment and
   keeps the last state, which can be ALIGN itself.
3. **A docked robot is not given back** (`recharger_done`).  `recharger_fsa_done` is never called.
4. **A communication error counts as docked** (`recharger_power`).  255 stands for "unknown" in the
   motor task and for "above shore power" in the recharger.
5. **Disabling charging does not stop a charge** (`power_disabled`), contrary to `lib_motor.h`.

### Conditions

Some properties hold only under a condition, which is part of the property: without it the code
breaks what it promises.  The conditions that name a defect:

* `SpiBus`: *not `hoisted`*.  A build that reads `spi_data_head` before it stops the DMA may append to
  a list the interrupt has just emptied; the head then points to a packet nobody transfers, and every
  later packet waits for ever.
* `SpiBus`: *not `hasty`*.  A packet of three words or less that starts the list may be finished by the
  interrupt before its receive counter is written; its words then go to the next buffer.
* `SpiBus`: *`careful`*.  A packet sent again while it is queued cuts off the packets behind it.
* `SerialTasks`: *`since`* and *`clean`*.  The parser compares a byte that is not the expected one with nothing
  else, and any byte of a packet may look like one of its header.  Once it is out of step, LED data that ends DE AD
  leaves it waiting for the third header byte, it takes the next packet's first byte for a mismatch and so on,
  for as long as such packets come; data that spells a header makes it believe in a command.  Only a row of
  clean packets is sure to end that.  Of several packets read in one tick only the newest is obeyed.
* `SerialTasks`: *`mute`*.  An interrupt of the receiver stops the transmitter, and `armputchar` starts it
  again only when the buffer has room: with a full buffer the robot is silent for ever.
* `SerialTasks`: *not at the console*.  Stopped in the same way with room in the buffer, what was printed waits for
  the next character.  A session prints again on the next tick; at the console that may be never.
* `SerialTasks`: *`bootSize <= CODE`*.  An image of `BOOT_MAX_CODE_SIZE` - 1 bytes passes the test of its
  size, but its CRC does not fit into the buffer.
* `HostDriver`: *not `reused`*.  `removeClient` closes a socket that another thread may have in its copy;
  a new client gets the number and is closed, or left in no list, and the listener may turn round it for
  ever.
* `HostDriver`: *not `lost`*.  The signal of an action that comes between the flag and the wait is lost,
  and from then on every action is skipped.
* `HostDriver`: *not `unasked`*.  The writer writes at its start, and when the wait returns by itself,
  without looking at the flag: such a packet may mix two actions.
* `HostDriver`: *not `overtaken`*.  When such a write sets the flag after an action was handed over and before it
  is signalled, the write that the signal starts is not guarded: the next action may be handed over while it
  runs, its packet may mix the two, and it sets the flag too early again.  This can repeat from the start of the
  program on, until an action is handed over to a writer that waits.  Without this condition TLC finds
  `WholePackets` violated; nothing in the repository claims more of the hand-over, so that it is no finding.
* `AvrMotor`: the correction of an over-current outlives the set point it was made for and drives the
  motor at a set point of 0 until it has run out (`SilenceStops` says *in the end*); a bus voltage that
  looks like a header can keep the interrupt out of step for as long as it lasts (`good`).

## 6. Not modelled

* Register headers (`AT91SAM7S256.h`, `lib_AT91SAM7S256.h` and their copies under `compile-test`, more than
  11000 lines), assembly and start-up: definitions, no behaviour of their own.
* `lib_leddrive.c`, `lib_ledctl.c`, `led_sim.c`: animation, fixed tables and floating point.
* The `printf` and `scanf` families, most console commands (they print or set a pin), usage texts.
* `serialstress.c` and the other programs of `programmer`: tools, not part of the robot.
* The Java simulator and visualiser: sequential floating-point simulation and display.
* Older boards (`RLAI_Motor`, `RLAI_Power`): superseded; the current boards are modelled.
* `lib_ssc.c`: a copy of the SPI queue with the same list, the same race and the same early end.
* `lib_error.c`, `lib_monitor.c`: flags that only the status packet reports; the monitor's calls to the
  motor task are actions of `MotorDrive`.
* The writing of the flash (`boot_core`, `lib_flash.c`): it runs with interrupts off and ends in a reset,
  and is one step (`ended`); only the page arithmetic is left, see the plan.

The files above hold most of the repository's lines, which is why the share of all lines that `map`
covers stays small although the control of the running robot is modelled.

Within the modelled parts: fans, battery currents, the 3 V bus, the averaging of the converter's
readings, the PID's arithmetic, the status packet, the statistics of the host driver's action
buffer, and the bytes of the SPI replies that nothing reads back.

Steps that are coarser than the code, or cases of it that are left out:

* `MotorDrive`: `power_rx_data` is read once; the code reads it again after the transfer was started
  (`lib_motor.c:153`).  Only `sent` depends on it.
* `PowerCharge`: a write of the EEPROM byte is atomic; a power loss within it would leave 0xFF, which is
  read as stage 0 (`power_avr_utils.c:86-88`).
* `AvrMotor`: `event_count++` (`critterbot_motor.c:193`) is atomic against its reset in the interrupt (line 41);
  `current_limit` reads the voltage, current and clicks once (`avr_motor.c:126-194` reads them again).
  `OverVoltageStops` is about the constant `MAX_MOVE_VOLTAGE`; the comment at `avr_motor.c:181` gives 17.5 V, which
  the constant matches only roughly.
* `SpiBus`: at most one word passes during a call (`Slack`), which no other interrupt lengthens beyond the words of a
  short packet (`lib_spi.c:99-115`).
* `SerialTasks`: the loop of `mi_get_commands` also ends after `SER_RX_BUF_SIZE` bytes (`lib_mi.c:170-171`), more than
  arrive for one tick here; an overrun of the receiver, whose interrupt is enabled (`armio.c:459`) and
  whose flag nothing clears, does not happen.
* `HostDriver`: the copy of the list and `select` on it are one step (`Server.cpp:93-105`), so that no number is
  closed and given away between the two; `fcntl` does not fail on a new client (`Server.cpp:75-84`, which would leave
  its socket open and in no list); the robot always sends states (`Critterdriver.cpp:33-34`,
  `CritterSerialLink.cpp:251-258` return early without one), and sending to a client that has closed its side succeeds
  once, as it does unless the client closes only one direction.

## 7. Plan

What remains, in this order:

1. The Java Disco interface: the client list that one thread extends while another iterates over it, the
   bounded queue of drops.
2. The parser of state packets (`CritterSerialLink::readStateDrop`): the count of matched header bytes that
   garbage does not reset; composed with `HostDriver`, where a state arrives whole now.
3. The page and padding arithmetic of the boot loader, as operators against a reference.
4. The TWI sequence of `lib_thermo.c` and the monitor's hysteresis, composed with `MotorDrive`.
5. Proofs: deadlines like `StopsInTime` for the other liveness properties: the boot loader's silence
   (`SilenceEndsReception`), the words until a queued packet is finished (`EveryPacketFinished`), the hand-over to
   the host's writer (`HandedOverIsWritten`).
