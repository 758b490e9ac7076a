------------------------------- MODULE SpiBus -------------------------------
(***************************************************************************)
(* The SPI queue of the ARM, src/firmware/arm/lib_spi.c: a linked list of  *)
(* packets that the tasks extend (spi_send_packet, in the main loop) and   *)
(* the SPI interrupt consumes, above the two DMA channels that move the    *)
(* words of the first packet to the bus and back.                          *)
(*                                                                         *)
(* The statements of spi_send_packet that touch shared state are separate  *)
(* steps; the hardware makes its own steps between them, and the interrupt *)
(* runs, whole, before the next statement as soon as one of its conditions *)
(* holds.  The transmitter is double buffered: the DMA runs ahead of the   *)
(* bus by up to two words, so its counter reaches zero early.              *)
(*                                                                         *)
(* The list's pointers are shared without being volatile, a data race: the *)
(* compiler may read spi_data_head before the store that stops the DMA.    *)
(* hoisted says whether this build does; a pointer that spi_send_packet    *)
(* has just assigned is kept in a register (the firmware is built -O2).    *)
(***************************************************************************)
EXTENDS Integers, Sequences, FiniteSets

CONSTANTS
  Packet,      \* the packets of the clients
  Words,       \* num_words of each packet
  Null,        \* NULL
  Slack        \* words that may pass on the bus during one spi_send_packet

\* There are finitely many packets, and each has a buffer for what is read.  A
\* call takes less time than a word.
ASSUME PacketAssumption ==
  /\ IsFiniteSet(Packet)
  /\ Words \in [Packet -> Nat \ {0}]
  /\ Null \notin Packet
  /\ Slack \in 0 .. 1

VARIABLES
  head, tail,   \* spi_data_head (the last packet) and spi_data_tail (the first)
  next,         \* next_packet of each packet
  pending,      \* packets sent whose finished has not been incremented since
  pc, packet,   \* the next statement of spi_send_packet, and its argument
  last,         \* spi_data_head as read before the DMA was stopped
  tcr, rcr,     \* the words the DMA has still to fetch and to store
  txen, rxen,   \* the DMA channels are enabled
  txp, rxp,     \* the packets whose buffers they use
  ier,          \* the enabled interrupts
  fly,          \* the packets of the words fetched and not yet on the bus
  rdr,          \* the packet of the word in the receive register
  late,         \* words that have passed since this call stopped the DMA
  hasty,        \* history: a short packet was sent while the list was empty
  careful,      \* no client sends a packet that is still queued
  hoisted       \* the build reads spi_data_head before it stops the DMA

list == <<head, tail, next, pending>>
call == <<pc, packet, last, late>>
dma == <<tcr, rcr, txen, rxen, txp, rxp>>
bus == <<fly, rdr>>
setting == <<careful, hoisted>>
vars == <<list, call, dma, ier, bus, hasty, setting>>

TXBUFE == "TXBUFE"
RXBUFF == "RXBUFF"
Ahead == 2              \* the words of the transmit register and the shifter

\* The flags of SPI_SR: both are levels computed from the counters.
Flags == (IF tcr = 0 THEN {TXBUFE} ELSE {}) \cup (IF rcr = 0 THEN {RXBUFF} ELSE {})
Interrupt == ier \cap Flags # {}

\* The packets on the list, the one in transfer first.
Listed ==
  LET at[i \in 0 .. Cardinality(Packet)] ==
        IF i = 0 THEN tail
        ELSE IF at[i - 1] = Null THEN Null ELSE next[at[i - 1]]
      long == {i \in 0 .. Cardinality(Packet) : at[i] # Null}
  IN [i \in 1 .. Cardinality(long) |-> at[i - 1]]
OnList == {Listed[i] : i \in DOMAIN Listed}
-----------------------------------------------------------------------------
(***************************************************************************)
(* spi_send_packet                                                         *)
(***************************************************************************)

At(label) == pc = label /\ ~Interrupt
Goto(label) == pc' = label /\ UNCHANGED <<packet, last, late>>
Return == pc' = "idle" /\ packet' = Null /\ last' = Null /\ late' = 0

\* A task calls spi_send_packet.  Only lib_accel.c waits until the packet it
\* sent before is finished.
Call(p) ==
  /\ At("idle")
  /\ careful => p \notin OnList
  /\ packet' = p /\ last' = (IF hoisted THEN head ELSE Null)
  /\ pc' = "disable"
  /\ pending' = pending \cup {p}
  /\ UNCHANGED <<head, tail, next, late, dma, ier, bus, hasty, setting>>

\* Mutant: the DMA goes on during the call.
DisableNot ==
  /\ At("disable")
  /\ pc' = "terminate" /\ late' = (IF rdr = Null THEN 0 ELSE 1)
  /\ UNCHANGED <<packet, last, list, dma, ier, bus, hasty, setting>>

Disable ==
  /\ At("disable")
  /\ txen' = FALSE /\ rxen' = FALSE
  /\ pc' = "terminate" /\ late' = (IF rdr = Null THEN 0 ELSE 1)
  /\ UNCHANGED <<packet, last, list, tcr, rcr, txp, rxp, ier, bus, hasty, setting>>

\* spi_data_head, as the build reads it
LastPacket == IF hoisted THEN last ELSE head

\* Mutant: packet->next_packet keeps its value.
TerminateNot ==
  /\ At("terminate")
  /\ Goto(IF LastPacket # Null THEN "append" ELSE "first")
  /\ UNCHANGED <<list, dma, ier, bus, hasty, setting>>

\* packet->next_packet = NULL, and the test of the list
Terminate ==
  /\ At("terminate")
  /\ next' = [next EXCEPT ![packet] = Null]
  /\ Goto(IF LastPacket # Null THEN "append" ELSE "first")
  /\ UNCHANGED <<head, tail, pending, dma, ier, bus, hasty, setting>>

Link ==
  /\ At("append")
  /\ next' = [next EXCEPT ![LastPacket] = packet]
  /\ Goto("head")
  /\ UNCHANGED <<head, tail, pending, dma, ier, bus, hasty, setting>>

MoveHead ==
  /\ At("head")
  /\ head' = packet
  /\ Goto("enable")
  /\ UNCHANGED <<tail, next, pending, dma, ier, bus, hasty, setting>>

\* Mutant: only the receiver is enabled again.
EnableReceiver ==
  /\ At("enable")
  /\ rxen' = TRUE
  /\ Return
  /\ UNCHANGED <<list, tcr, rcr, txen, txp, rxp, ier, bus, hasty, setting>>

Enable ==
  /\ At("enable")
  /\ txen' = TRUE /\ rxen' = TRUE
  /\ Return
  /\ UNCHANGED <<list, tcr, rcr, txp, rxp, ier, bus, hasty, setting>>

\* Mutant: the transmitter is enabled before its pointer is set.
FirstNoPointer ==
  /\ At("first")
  /\ head' = packet /\ tail' = packet
  /\ tcr' = Words[packet] /\ txen' = TRUE
  /\ Goto("ier")
  /\ hasty' = (hasty \/ Words[packet] <= Ahead + Slack)
  /\ UNCHANGED <<next, pending, txp, rcr, rxen, rxp, ier, bus, setting>>

\* The first packet of the list: the transmitter is set up and enabled.
First ==
  /\ At("first")
  /\ head' = packet /\ tail' = packet
  /\ txp' = packet /\ tcr' = Words[packet] /\ txen' = TRUE
  /\ Goto("ier")
  /\ hasty' = (hasty \/ Words[packet] <= Ahead + Slack)
  /\ UNCHANGED <<next, pending, rcr, rxen, rxp, ier, bus, setting>>

EnableTxbufe ==
  /\ At("ier")
  /\ ier' = ier \cup {TXBUFE}
  /\ Goto("receive")
  /\ UNCHANGED <<list, dma, bus, hasty, setting>>

Receive ==
  /\ At("receive")
  /\ rxp' = packet /\ rcr' = Words[packet] /\ rxen' = TRUE
  /\ ier' = ier \cup {RXBUFF}
  /\ Return
  /\ UNCHANGED <<list, tcr, txen, txp, bus, hasty, setting>>
-----------------------------------------------------------------------------
(***************************************************************************)
(* spi_isr                                                                 *)
(***************************************************************************)

\* Both channels are done: the packet is finished and the next one started.
Advance ==
  LET new == next[tail]
  IN /\ pending' = pending \ {tail}
     /\ tail' = new
     /\ \/ /\ new # Null
           /\ txp' = new /\ tcr' = Words[new] /\ txen' = TRUE
           /\ rxp' = new /\ rcr' = Words[new] /\ rxen' = TRUE
           /\ ier' = {TXBUFE, RXBUFF}
           /\ UNCHANGED head
        \/ /\ new = Null
           /\ head' = Null
           /\ txen' = FALSE /\ rxen' = FALSE
           /\ ier' = {}
           /\ UNCHANGED <<txp, tcr, rxp, rcr>>

\* Mutant: the packet is taken for finished when it has been fetched.
IsrOnTxbufe ==
  /\ Interrupt
  /\ \/ /\ tail # Null /\ TXBUFE \in Flags
        /\ Advance
     \/ /\ tail = Null \/ TXBUFE \notin Flags
        /\ ier' = ier \ Flags
        /\ UNCHANGED <<head, tail, pending, dma>>
  /\ UNCHANGED <<next, call, bus, hasty, setting>>

\* The conditions that hold are disabled.  With one of them only, the
\* interrupt waits for the other.
spi_isr ==
  /\ Interrupt
  /\ \/ /\ tail # Null /\ Flags = {TXBUFE, RXBUFF}
        /\ Advance
     \/ /\ tail = Null \/ Flags # {TXBUFE, RXBUFF}
        /\ ier' = ier \ Flags
        /\ UNCHANGED <<head, tail, pending, dma>>
  /\ UNCHANGED <<next, call, bus, hasty, setting>>
-----------------------------------------------------------------------------
(***************************************************************************)
(* The DMA controller and the SPI unit.                                    *)
(***************************************************************************)

Calling == pc \notin {"idle", "disable"}

Fetch ==
  /\ txen /\ tcr > 0 /\ Len(fly) < Ahead
  /\ tcr' = tcr - 1
  /\ fly' = Append(fly, txp)
  /\ UNCHANGED <<list, call, rcr, txen, rxen, txp, rxp, ier, rdr, hasty, setting>>

\* A word passes on the bus; one that finds the receive register full is lost.
\* The DMA empties the register in time while it may.
\* Bound: at most Slack words pass during a call of spi_send_packet.
Shift ==
  /\ fly # <<>>
  /\ (~Calling /\ rxen) => rdr = Null
  /\ Calling => late < Slack
  /\ late' = (IF Calling THEN late + 1 ELSE late)
  /\ fly' = Tail(fly)
  /\ rdr' = Head(fly)
  /\ UNCHANGED <<list, pc, packet, last, dma, ier, hasty, setting>>

Store ==
  /\ rxen /\ rcr > 0 /\ rdr # Null
  /\ rcr' = rcr - 1
  /\ rdr' = Null
  /\ UNCHANGED <<list, call, tcr, txen, rxen, txp, rxp, ier, fly, hasty, setting>>
-----------------------------------------------------------------------------
Init ==
  /\ head = Null /\ tail = Null
  /\ next = [p \in Packet |-> Null]
  /\ pending = {}
  /\ pc = "idle" /\ packet = Null /\ last = Null
  /\ tcr = 0 /\ rcr = 0
  /\ txen = FALSE /\ rxen = FALSE
  /\ txp = Null /\ rxp = Null
  /\ ier = {}
  /\ fly = <<>> /\ rdr = Null
  /\ late = 0
  /\ hasty = FALSE
  \* Bound: the two are not combined.
  /\ careful \in BOOLEAN /\ hoisted \in BOOLEAN
  /\ careful \/ ~hoisted

spi_send_packet ==
  Disable \/ Terminate \/ Link \/ MoveHead \/ Enable \/ First \/ EnableTxbufe \/ Receive
Hardware == Fetch \/ Shift \/ Store
Next == (\E p \in Packet : Call(p)) \/ spi_send_packet \/ spi_isr \/ Hardware

\* A call that has begun is finished, a pending interrupt is served, and the
\* hardware goes on; nothing obliges a client to call.
Fairness == WF_vars(spi_send_packet) /\ WF_vars(spi_isr) /\ WF_vars(Hardware)
Spec == Init /\ [][Next]_vars /\ Fairness
-----------------------------------------------------------------------------
TypeOK ==
  /\ head \in Packet \cup {Null} /\ tail \in Packet \cup {Null}
  /\ next \in [Packet -> Packet \cup {Null}]
  /\ pending \subseteq Packet
  /\ pc \in {"idle", "disable", "terminate", "append", "head", "enable", "first",
             "ier", "receive"}
  /\ packet \in Packet \cup {Null}
  /\ (pc = "idle") = (packet = Null)
  /\ last \in Packet \cup {Null}
  /\ tcr \in Nat /\ rcr \in Nat
  /\ txen \in BOOLEAN /\ rxen \in BOOLEAN
  /\ txp \in Packet \cup {Null} /\ rxp \in Packet \cup {Null}
  /\ ier \subseteq {TXBUFE, RXBUFF}
  /\ fly \in Seq(Packet) /\ Len(fly) <= Ahead
  /\ rdr \in Packet \cup {Null}
  /\ late \in 0 .. 1
  /\ hasty \in BOOLEAN /\ careful \in BOOLEAN /\ hoisted \in BOOLEAN

\* spi_data_head is the end of the list that starts at spi_data_tail, and both
\* are NULL together, whatever the interrupt did between the statements of
\* spi_send_packet and even when clients send packets that are queued: a
\* spi_data_head without a list would make every later packet wait for ever.
ListWhole ==
  (~hoisted /\ pc \in {"idle", "disable", "terminate", "receive"}) =>
    IF head = Null THEN tail = Null
    ELSE head \in OnList /\ (careful => next[head] = Null)

\* A word read from the bus is stored in the buffer of the packet whose word
\* was written at that moment, unless a short packet has started the list.
OwnBuffer ==
  (~hasty /\ rdr # Null) => rdr = rxp \/ pc \in {"ier", "receive"}

\* "finished" is incremented only when every word of the packet has passed on
\* the bus and is in memory, although the transmit counter reaches zero two
\* words before, unless a short packet has started the list.
ReadBeforeFinished ==
  [][(~hasty /\ pending' # pending /\ pc = pc') =>
       fly = <<>> /\ rdr = Null /\ tcr = 0 /\ rcr = 0]_vars

\* What the clients are promised: the packets are finished in the order in
\* which they were sent, none is lost and none is finished twice.
Queue == INSTANCE SpiQueue WITH queue <- Listed
ImplementsQueue == Queue!Spec

\* A packet that was sent is finished in the end.
EveryPacketFinished ==
  \A p \in Packet : (careful /\ ~hoisted /\ p \in pending) ~> p \notin pending
=============================================================================
