----------------------------- MODULE SerialTasks -----------------------------
(***************************************************************************)
(* The serial line of the ARM and the tasks that share it: the receive     *)
(* ring and the transmit buffer of armio.c, and the readers of the ring:   *)
(* the console (lib_ui.c), the machine interface that takes the console's  *)
(* place (lib_mi.c) and the boot loader (lib_boot.c), as the event loop    *)
(* (lib_events.c) runs them on every tick.                                 *)
(*                                                                         *)
(* A byte is a member of a small set; a console command is one "byte"      *)
(* followed by CR, and the motor mode and the speeds of a packet are one.  *)
(* Any byte of a packet may look like one of its header.                   *)
(* The ring is the sequence of the unread bytes, which may pass its end at *)
(* any time; read_loc only remembers where the search for CR has stopped.  *)
(***************************************************************************)
EXTENDS Integers, Sequences, Functions

CONSTANTS
  RING,       \* SER_RX_BUF_SIZE
  HEADER,     \* MI_HEADER1 .. MI_HEADER4
  LEDS,       \* the bytes of LED data in a packet
  LINE,       \* sizeof(ui_command_string)
  TIMEOUT,    \* BOOT_RECEIVE_TIMEOUT
  CODE,       \* BOOT_MAX_CODE_SIZE
  TX,         \* SER_TX_BUF_SIZE
  Command,    \* the motor mode and the speeds of the packets
  Datum,      \* what a byte of the LED data may be
  ImageSize   \* the size that each "bootloader cookie" command announces

CR == "\r"
EOF == "EOF"
None == "none"

ASSUME RingAssumption == RING \in Nat \ {0, 1}
Word ==
  {CR, EOF, None, "data", "led", "custom", "exit", "mi on", "recharge start",
   "recharge stop", "bootloader program"}

\* The bytes of the header differ.  No packet leaves the machine interface but
\* that which is meant to.  Bound: what a packet carries does not spell the
\* console's command to receive an image.
ASSUME ByteAssumption ==
  /\ \A i, j \in DOMAIN HEADER : HEADER[i] = HEADER[j] => i = j
  /\ (Range(HEADER) \cup Command \cup Datum) \cap ({EOF} \cup DOMAIN ImageSize) = {}
  /\ Command \cap {"exit", None} = {}
  /\ DOMAIN ImageSize \cap Word = {}
ASSUME SizeAssumption ==
  /\ {LEDS, LINE, TIMEOUT, CODE, TX} \subseteq Nat \ {0}
  /\ HEADER \in Seq(STRING) /\ HEADER # <<>>
  /\ ImageSize \in [DOMAIN ImageSize -> 1 .. CODE - 1]

VARIABLES
  use,            \* what this behaviour uses the line for
  unread,         \* the bytes from ser_rx_head to US_RPR
  out, sending,   \* the bytes the host has to send of its last packet, and the packet
  task,           \* what the event loop does, "wait" between two ticks
  mi,             \* ui_io_handler is mi_event
  state,          \* of the parser: the header byte it waits for, or data
  command,        \* the last command read in this tick
  disabled,       \* mi_disabled_commands
  effect,         \* what was last commanded to the motor task
  receiving,      \* boot_receiving: the boot task runs and the console does not
  bootHead, bootSize, bootTimer, crcGood,
  ended,          \* boot_core has replaced the program, or hangs
  head, tpr, tcr, \* ser_tx_head, US_TPR and US_TCR
  txen, endtx     \* the DMA and its interrupt are enabled

\* History variables
VARIABLES
  since,          \* clean packets in a row that have arrived since a byte was lost
  clean,          \* the packet under way is one: none of its bytes is lost, and
                  \* after its header none is the first header byte
  stored,         \* the bytes of the boot buffer that hold the image
  mute            \* the transmitter was stopped while its buffer was full

host == <<out, sending>>
parser == <<state, command>>
boot == <<receiving, bootHead, bootSize, bootTimer, crcGood, stored>>
tx == <<head, tpr, tcr, txen, endtx, mute>>
count == <<since, clean>>
vars == <<use, unread, host, task, mi, parser, disabled, effect, boot, ended, tx, count>>

Receives == use # "print" /\ ~ended /\ UNCHANGED <<use, tx>>
At(t) == task = t /\ Receives
Quiet == unread = <<>> /\ out = <<>>
-----------------------------------------------------------------------------
(***************************************************************************)
(* The receive ring                                                        *)
(***************************************************************************)

\* armgetnumchars: its pointer wraps one byte later than the ring, so that a
\* byte too many is counted when the unread bytes pass the end.
Counts == IF unread = <<>> THEN {0} ELSE {Len(unread), Len(unread) + 1}

\* armgetchar: what is not there reads as EOF.
Got(i) == IF i \in DOMAIN unread THEN unread[i] ELSE EOF
Consume(n) == unread' = SubSeq(unread, n + 1, Len(unread))

\* armreadline: the first n bytes are a line, which has ended.
LineOf(n) ==
  /\ n + 1 \in DOMAIN unread /\ unread[n + 1] = CR
  /\ \A i \in 1 .. n : unread[i] # CR
-----------------------------------------------------------------------------
(***************************************************************************)
(* The host sends commands to the console, packets to the machine          *)
(* interface, which it knows by its status packets, and images.            *)
(***************************************************************************)

\* Bound: a behaviour has sessions of one kind.
Lines == IF use = "packets" THEN {"mi on", "recharge start", "recharge stop"}
         ELSE {"bootloader program"} \cup DOMAIN ImageSize

\* What may follow the header: the motor mode and speeds, the LED mode, LED data.
PacketsOf(c) ==
  {<<c, "none">>} \cup {<<c, "custom">> \o leds : leds \in [1 .. LEDS -> Datum]}
Packets == (UNION {PacketsOf(c) : c \in Command}) \cup {<<"exit", "exit">>}
Clean(p) == HEADER[1] \notin Range(p)

Sends(bytes, c, counts) ==
  /\ out = <<>>
  /\ out' = bytes /\ sending' = c /\ clean' = counts

HostSends ==
  /\ Receives
  /\ \/ /\ ~mi /\ ~receiving
        /\ \E l \in Lines : Sends(<<l, CR>>, None, FALSE)
     \/ /\ receiving
        /\ Sends(<<"data">>, None, FALSE)
     \/ /\ mi
        /\ \E p \in Packets : Sends(HEADER \o p, p[1], Clean(p))
  /\ UNCHANGED <<unread, task, mi, parser, disabled, effect, boot, ended, since>>

\* So many clean packets bring the parser back in step: more than its longest
\* packet, after the header, can swallow.
Enough == (LEDS + 2) \div (Len(HEADER) + 2) + 1
CountAnew == since' = 0 /\ clean' = FALSE

\* The DMA writes a byte into the ring.
\* Bounds: the host sends no more than the ring holds before it is read, and
\* what arrives during a tick counts as arriving before it.
Arrive ==
  /\ At("wait")
  /\ out # <<>> /\ Len(unread) < RING - 1
  /\ unread' = Append(unread, Head(out)) /\ out' = Tail(out)
  /\ IF out' = <<>> /\ sending # None
     THEN since' = (IF since > Enough THEN since
                    ELSE IF clean \/ since = Enough THEN since + 1 ELSE 0)
     ELSE UNCHANGED since
  /\ UNCHANGED <<sending, clean, task, mi, parser, disabled, effect, boot, ended>>

\* Bytes of a packet or of an image are lost.
\* Bound: not again before the parser is in step again.
Lose ==
  /\ At("wait")
  /\ (sending # None /\ since >= Enough) \/ receiving
  /\ \E n \in 1 .. Len(out) : out' = SubSeq(out, n + 1, Len(out))
  /\ CountAnew
  /\ UNCHANGED <<unread, sending, task, mi, parser, disabled, effect, boot, ended>>
-----------------------------------------------------------------------------
(***************************************************************************)
(* events_do: on every tick the boot task, then the console, each when its *)
(* flag is set at that moment.                                             *)
(***************************************************************************)

Tick ==
  /\ At("wait")
  /\ task' = (IF receiving THEN "boot" ELSE "ui")
  /\ UNCHANGED <<unread, host, mi, parser, disabled, effect, boot, ended, count>>

\* Nothing has come for TIMEOUT ticks: boot_verify and boot_end_receive.  With
\* the right number of bytes the CRC decides.
Timeout ==
  /\ bootTimer + 1 >= TIMEOUT
  /\ bootTimer' = bootTimer + 1
  /\ crcGood' \in (IF bootHead = bootSize THEN BOOLEAN ELSE {crcGood})
  /\ receiving' = FALSE
  /\ task' = "ui"
  /\ UNCHANGED <<unread, bootHead, bootSize, stored>>

\* Mutant: a tick without data is not counted.
WaitUncounted ==
  /\ bootTimer + 1 < TIMEOUT /\ unread = <<>>
  /\ task' = "wait"
  /\ UNCHANGED <<unread, boot>>

Wait ==
  /\ bootTimer + 1 < TIMEOUT /\ unread = <<>>
  /\ bootTimer' = bootTimer + 1
  /\ task' = "wait"
  /\ UNCHANGED <<unread, receiving, bootHead, bootSize, crcGood, stored>>

Room == IF bootSize < CODE THEN bootSize ELSE CODE

\* The bytes that have come go to the buffer while it has room.
\* Bound: boot_data_head is not counted beyond boot_data_size + 1.
Load ==
  LET all == bootHead + Len(unread)
  IN /\ bootTimer + 1 < TIMEOUT /\ unread # <<>>
     /\ bootTimer' = 0
     /\ bootHead' = (IF all > bootSize THEN bootSize + 1 ELSE all)
     /\ stored' = (IF all > Room THEN Room ELSE all)
     /\ Consume(Len(unread))
     /\ task' = "wait"
     /\ UNCHANGED <<receiving, bootSize, crcGood>>

boot_event ==
  /\ At("boot")
  /\ Timeout \/ Wait \/ Load
  /\ UNCHANGED <<host, mi, parser, disabled, effect, ended, count>>

\* Mutant: crc_was_good is left as it is.
BeginReceiveKeepsCrc(size) ==
  /\ receiving' = TRUE
  /\ bootHead' = 0 /\ bootSize' = size + 2 /\ bootTimer' = 0
  /\ crcGood' = crcGood /\ stored' = 0

\* boot_begin_receive
BeginReceive(size) ==
  /\ receiving' = TRUE
  /\ bootHead' = 0 /\ bootSize' = size + 2 /\ bootTimer' = 0
  /\ crcGood' = FALSE /\ stored' = 0

\* ui_mi, ui_recharge and ui_bootloader; other lines are no commands here.
Dispatch(line) ==
  /\ IF line = <<"mi on">>
     THEN mi' = TRUE /\ CountAnew
     ELSE UNCHANGED <<mi, count>>
  /\ disabled' = (IF line = <<"recharge start">> THEN TRUE
                  ELSE IF line = <<"recharge stop">> THEN FALSE ELSE disabled)
  /\ ended' = (line = <<"bootloader program">> /\ bootSize > 0 /\ crcGood)
  /\ IF line # <<>> /\ line[1] \in DOMAIN ImageSize /\ Len(line) = 1
     THEN BeginReceive(ImageSize[line[1]])
     ELSE UNCHANGED boot

\* A line that does not fit into LINE bytes is dropped in part.
Console ==
  /\ At("ui") /\ ~mi
  /\ \/ /\ \A n \in 0 .. Len(unread) : ~LineOf(n)
        /\ UNCHANGED <<unread, mi, disabled, boot, ended, count>>
     \/ \E n \in 0 .. Len(unread) :
          /\ LineOf(n) /\ n > LINE - 1
          /\ Consume(LINE - 1)
          /\ UNCHANGED <<mi, disabled, boot, ended, count>>
     \/ \E n \in 0 .. Len(unread) :
          /\ LineOf(n) /\ n <= LINE - 1
          /\ Consume(n + 1)
          /\ Dispatch(SubSeq(unread, 1, n))
  /\ task' = "wait"
  /\ UNCHANGED <<host, parser, effect>>
-----------------------------------------------------------------------------
(***************************************************************************)
(* mi_event                                                                *)
(***************************************************************************)

MOTORDATA == Len(HEADER) + 1
LEDDATA == Len(HEADER) + 2
\* Mutant: the motor data is read as soon as the header is complete.
packet_size_none == IF state = MOTORDATA THEN 0 ELSE IF state = LEDDATA THEN LEDS ELSE 1

packet_size == IF state = MOTORDATA THEN 2 ELSE IF state = LEDDATA THEN LEDS ELSE 1

mi_event ==
  /\ At("ui") /\ mi
  /\ task' = "parse"
  /\ UNCHANGED <<unread, host, mi, parser, disabled, effect, boot, ended, count>>

ParseHeader ==
  /\ state < MOTORDATA
  /\ state' = (IF Got(1) = HEADER[state] THEN state + 1 ELSE 1)
  /\ UNCHANGED command

\* Mutant: the first command of a tick is kept.
ParseFirst ==
  /\ state = MOTORDATA
  /\ command' = (IF command = <<>> THEN <<Got(1), Got(2)>> ELSE command)
  /\ state' = (IF Got(2) = "custom" THEN LEDDATA ELSE 1)

ParseMotor ==
  /\ state = MOTORDATA
  /\ command' = <<Got(1), Got(2)>>
  /\ state' = (IF Got(2) = "custom" THEN LEDDATA ELSE 1)

\* Mutant: the LED data does not end the packet.
ParseLedsForEver ==
  /\ state = LEDDATA
  /\ UNCHANGED <<state, command>>

ParseLeds ==
  /\ state = LEDDATA
  /\ state' = 1
  /\ UNCHANGED command

\* One turn of the loop of mi_get_commands.  It also ends after SER_RX_BUF_SIZE
\* bytes, more than the ring holds at one tick: see Arrive.
Parse ==
  /\ At("parse")
  /\ \E n \in Counts : n >= packet_size
  /\ ParseHeader \/ ParseMotor \/ ParseLeds
  /\ Consume(packet_size)
  /\ IF packet_size > Len(unread) THEN CountAnew ELSE UNCHANGED count
  /\ UNCHANGED <<host, task, mi, disabled, effect, boot, ended>>

\* The last command that was read; what is no mode stops the wheels.
Motors ==
  LET c == command[1]
  IN IF c = "exit" \/ (disabled /\ c # "enable charging") THEN effect
     ELSE IF c \in Command THEN c ELSE "stop"

\* The rest of mi_get_commands.
Execute ==
  /\ At("parse")
  /\ \E n \in Counts : n < packet_size
  /\ task' = "wait"
  /\ mi' = (command # <<"exit", "exit">>)
  /\ effect' = (IF command = <<>> THEN effect ELSE Motors)
  /\ command' = <<>>
  /\ UNCHANGED <<unread, host, state, disabled, boot, ended, count>>
-----------------------------------------------------------------------------
(***************************************************************************)
(* The transmitter                                                         *)
(***************************************************************************)

Transmits ==
  /\ use = "print"
  /\ UNCHANGED <<use, unread, host, task, mi, parser, disabled, effect, boot, ended,
                 count>>

\* Mutant: the DMA is not started.
armputcharOnly ==
  /\ Transmits
  /\ head < TX
  /\ head' = head + 1 /\ tcr' = tcr + 1
  /\ endtx' = TRUE
  /\ UNCHANGED <<txen, tpr, mute>>

\* A character that finds the buffer full is dropped.
armputchar ==
  /\ Transmits
  /\ head < TX
  /\ head' = head + 1 /\ tcr' = tcr + 1
  /\ endtx' = TRUE /\ txen' = TRUE
  /\ UNCHANGED <<tpr, mute>>

SendChar ==
  /\ Transmits
  /\ txen /\ tcr > 0
  /\ tpr' = tpr + 1 /\ tcr' = tcr - 1
  /\ UNCHANGED <<head, txen, endtx, mute>>

\* Mutant: every interrupt starts the buffer again.
StopsAnew ==
  /\ txen' = FALSE
  /\ head' = 0 /\ tpr' = 0 /\ endtx' = FALSE
  /\ mute' = (mute \/ (tcr > 0 /\ head = TX))
  /\ UNCHANGED tcr

\* The interrupt stops the transmitter, whatever its cause; the buffer starts
\* again when everything is sent.
Stops ==
  /\ txen' = FALSE
  /\ IF tcr = 0 THEN head' = 0 /\ tpr' = 0 /\ endtx' = FALSE
     ELSE UNCHANGED <<head, tpr, endtx>>
  /\ mute' = (mute \/ (tcr > 0 /\ head = TX))
  /\ UNCHANGED tcr

EndOfTransmission == Transmits /\ endtx /\ tcr = 0 /\ Stops

\* The receive ring has wrapped, or a frame or parity error.
\* Bound: the receiver is not overrun, a flag that nothing would clear.
ReceiveInterrupt == Transmits /\ Stops
-----------------------------------------------------------------------------
Init ==
  \* Bound: a behaviour uses the line for one purpose, beside the console.
  /\ use \in {"packets", "images", "print"}
  /\ unread = <<>> /\ out = <<>> /\ sending = None
  /\ task = "wait"
  \* Bound: while it prints, the robot stays in a session, or at the console.
  /\ mi \in (IF use = "print" THEN BOOLEAN ELSE {FALSE})
  /\ state = 1 /\ command = <<>>
  /\ disabled = FALSE /\ effect = "stop"
  /\ receiving = FALSE /\ bootHead = 0 /\ bootSize = 0 /\ bootTimer = 0
  /\ crcGood = FALSE /\ stored = 0
  /\ ended = FALSE
  /\ head = 0 /\ tpr = 0 /\ tcr = 0 /\ txen = TRUE /\ endtx = FALSE
  /\ since = 0 /\ clean = FALSE
  /\ mute = FALSE

events_do == Tick \/ boot_event \/ Console \/ mi_event \/ Parse \/ Execute
Next ==
  \/ HostSends \/ Arrive \/ Lose
  \/ events_do
  \/ armputchar \/ SendChar \/ EndOfTransmission \/ ReceiveInterrupt

\* The timer interrupt keeps the event loop going, and in a session of the
\* machine interface it prints a status packet on every tick; the DMA sends what
\* it is told to, and a pending interrupt is served.  Nothing obliges the host,
\* and at the console nothing need be printed.
Fairness ==
  /\ WF_vars(events_do)
  /\ WF_vars(mi /\ armputchar) /\ WF_vars(SendChar) /\ WF_vars(EndOfTransmission)
Spec == Init /\ [][Next]_vars /\ Fairness
-----------------------------------------------------------------------------
Byte ==
  (Word \ {EOF}) \cup {"stop"} \cup Range(HEADER) \cup Command \cup Datum
    \cup DOMAIN ImageSize

\* The types; the receive buffer and the image's buffer are not overrun, and a
\* command has a mode that has arrived: where armgetnumchars counts a byte too
\* many, at the end of the ring, it can only be an LED mode.
TypeOK ==
  /\ use \in {"packets", "images", "print"}
  /\ unread \in Seq(Byte) /\ Len(unread) < RING
  /\ out \in Seq(Byte) /\ sending \in Byte
  /\ task \in {"wait", "boot", "ui", "parse"}
  /\ mi \in BOOLEAN
  /\ state \in 1 .. LEDDATA /\ command \in {<<>>} \cup (Byte \X (Byte \cup {EOF}))
  /\ disabled \in BOOLEAN /\ effect \in Byte
  /\ receiving \in BOOLEAN
  /\ bootSize \in 0 .. CODE + 1 /\ bootHead \in 0 .. bootSize + 1
  /\ bootTimer \in 0 .. TIMEOUT /\ crcGood \in BOOLEAN
  /\ stored \in 0 .. CODE
  /\ ended \in BOOLEAN
  /\ head \in 0 .. TX /\ tpr \in 0 .. TX /\ tcr \in 0 .. TX
  /\ txen \in BOOLEAN /\ endtx \in BOOLEAN
  /\ since \in 0 .. Enough + 1 /\ clean \in BOOLEAN
  /\ mute \in BOOLEAN

\* After lost bytes, a session that was left in the middle of a packet, or the
\* byte too many that armgetnumchars counts at the end of the ring, the parser
\* is between packets again after Enough clean packets in a row, and then
\* stays in step whatever the packets carry.  Until then a packet that carries
\* the first header byte may hide the next header (its data ends with the first
\* bytes of a header: the parser then takes the next packet's first byte for a
\* mismatch) or contain a false one, and so on for as long as such packets come.
Resynchronised ==
  (mi /\ task = "wait" /\ Quiet /\ since >= Enough) => state = 1

\* From then on the robot does what the newest packet says, although earlier
\* packets that arrived for the same tick are overtaken (an order to enable or
\* disable charging is lost for good then: nothing repeats it).  While the
\* recharger has disabled the computer's commands, only the return to the console
\* and the enabling of charging are obeyed.
NewestObeyed ==
  (mi /\ task = "wait" /\ Quiet /\ since > Enough) =>
    /\ sending # "exit"
    /\ (sending = "enable charging" \/ ~disabled) => effect = sending

\* What "bootloader program" would write into the flash is a whole image whose
\* CRC was right: no later reception, timeout or excess of bytes leaves
\* crc_was_good set for a buffer that has changed.  (An image of CODE - 1 bytes
\* passes the test of its size, but does not fit with its CRC.)
FlashesWholeImage ==
  crcGood => /\ ~receiving
             /\ bootSize <= CODE => stored = bootSize

\* The boot loader gives the line back to the console when the host is silent.
SilenceEndsReception == <>[]Quiet => <>[]~receiving

\* The characters in the buffer are those the DMA still has to send: none is
\* skipped or sent twice when the interrupt starts the buffer again.
SendsInOrder == tpr + tcr = head

\* What was printed is sent, but for two cases in which an interrupt of the
\* receiver has stopped the transmitter.  Its buffer was full: armputchar then
\* returns before it starts the transmitter again, for ever.  Or nothing more is
\* printed: in a session the next status packet starts the transmitter again, at
\* the console the characters wait for the next ones.
PrintedIsSent == (tcr > 0) ~> (tcr = 0 \/ mute \/ (~mi /\ ~txen))
=============================================================================
