---------------------------- MODULE SpiBusProofs ----------------------------
(***************************************************************************)
(* Proofs about SpiBus, for every set of packets, of any number of words.  *)
(***************************************************************************)
EXTENDS SpiBus, SequenceTheorems, FiniteSetTheorems, NatSets, TLAPS

Held == IF rdr = Null THEN 0 ELSE 1
Starting == pc \in {"ier", "receive"}
OnTheWay == tcr + Len(fly) + Held

\* The list without a head is empty, whatever the compiler read before the DMA
\* was stopped; spi_send_packet starts the DMA only then, and the DMA has a
\* buffer.
HeadInv ==
  /\ head = Null => tail = Null
  /\ hoisted /\ pc \in {"disable", "terminate"} /\ last = Null => tail = Null
  /\ pc = "first" => tail = Null
  /\ tcr > 0 => txp # Null

\* The words of a transfer, unless a short packet has started the list: every
\* word of the first packet is still to be fetched, on its way, held by the
\* receiver or stored.
WordsInv ==
  /\ tail = Null => fly = <<>> /\ rdr = Null /\ tcr = 0 /\ rcr = 0 /\ ier = {}
  /\ tail # Null => /\ txp = tail
                    /\ \A i \in 1 .. Len(fly) : fly[i] = tail
                    /\ rdr \in {Null, tail}
                    /\ ~Starting => rxp = tail /\ rcr = OnTheWay
  /\ Starting => /\ tail = packet
                 /\ rcr = 0 /\ ier \subseteq {TXBUFE}
                 /\ OnTheWay = Words[packet] /\ Words[packet] > Ahead + Slack
                 /\ Held <= Slack

\* The receiver is enabled whenever words may pass, except during a call, in
\* which one word fits into its register.
ReceiverInv ==
  /\ pc \in {"idle", "disable"} /\ tail # Null => rxen
  /\ pc \notin {"idle", "disable"} /\ late = 0 => rdr = Null

IInv == TypeOK /\ HeadInv /\ (hasty \/ (WordsInv /\ ReceiverInv))
-----------------------------------------------------------------------------
\* The parts of TypeOK.
ListTyped ==
  /\ head \in Packet \cup {Null} /\ tail \in Packet \cup {Null}
  /\ next \in [Packet -> Packet \cup {Null}]
  /\ pending \subseteq Packet
CallTyped ==
  /\ pc \in {"idle", "disable", "terminate", "append", "head", "enable", "first",
             "ier", "receive"}
  /\ packet \in Packet \cup {Null}
  /\ (pc = "idle") = (packet = Null)
  /\ last \in Packet \cup {Null}
  /\ late \in 0 .. 1
DmaTyped ==
  /\ tcr \in Nat /\ rcr \in Nat
  /\ txp \in Packet \cup {Null} /\ rxp \in Packet \cup {Null}
  /\ ier \subseteq {TXBUFE, RXBUFF}
BusTyped ==
  /\ fly \in Seq(Packet) /\ Len(fly) <= Ahead
  /\ rdr \in Packet \cup {Null}
FlagsTyped ==
  /\ txen \in BOOLEAN /\ rxen \in BOOLEAN
  /\ hasty \in BOOLEAN /\ careful \in BOOLEAN /\ hoisted \in BOOLEAN

LEMMA TypeParts ==
  /\ TypeOK <=> ListTyped /\ CallTyped /\ DmaTyped /\ BusTyped /\ FlagsTyped
  /\ TypeOK' <=> ListTyped' /\ CallTyped' /\ DmaTyped' /\ BusTyped' /\ FlagsTyped'
<1>1. TypeOK <=> ListTyped /\ CallTyped /\ DmaTyped /\ BusTyped /\ FlagsTyped
  BY Zenon DEF TypeOK, ListTyped, CallTyped, DmaTyped, BusTyped, FlagsTyped
<1> QED BY <1>1, PTL

\* The words on the way to the bus.
LEMMA WordsOnTheWay ==
  ASSUME BusTyped
  PROVE  /\ Len(fly) \in 0 .. 2 /\ Held \in 0 .. 1
         /\ fly = <<>> <=> Len(fly) = 0
         /\ \A i \in 1 .. Len(fly) : fly[i] \in Packet
<1>1. fly \in Seq(Packet) /\ Len(fly) \in Nat /\ Len(fly) <= 2
  BY LenProperties DEF BusTyped, Ahead
<1>2. fly = <<>> <=> Len(fly) = 0
  BY <1>1, EmptySeq
<1>3. \A i \in 1 .. Len(fly) : fly[i] \in Packet
  BY <1>1, ElementOfSeq
<1>4. Held \in 0 .. 1
  BY DEF Held
<1>5. \A n \in Nat : n <= 2 => n \in 0 .. 2
  OBVIOUS
<1>6. Len(fly) \in 0 .. 2
  BY <1>1, <1>5, Zenon
<1> QED BY <1>2, <1>3, <1>4, <1>6, Zenon

LEMMA Fetched ==
  ASSUME BusTyped, NEW p \in Packet, fly' = Append(fly, p), Len(fly) < Ahead
  PROVE  /\ fly' \in Seq(Packet) /\ Len(fly') = Len(fly) + 1
         /\ \A i \in 1 .. Len(fly') : fly'[i] = IF i = Len(fly') THEN p ELSE fly[i]
BY WordsOnTheWay, AppendProperties DEF BusTyped

LEMMA Shifted ==
  ASSUME BusTyped, fly # <<>>, fly' = Tail(fly), rdr' = Head(fly)
  PROVE  /\ fly' \in Seq(Packet) /\ Len(fly') = Len(fly) - 1
         /\ \A i \in 1 .. Len(fly') : fly'[i] = fly[i + 1]
         /\ rdr' = fly[1] /\ rdr' \in Packet
BY WordsOnTheWay, HeadTailProperties DEF BusTyped
-----------------------------------------------------------------------------
LEMMA InitInv ==
  ASSUME Init
  PROVE  IInv
<1>1. ListTyped /\ CallTyped /\ DmaTyped
  BY DEF Init, ListTyped, CallTyped, DmaTyped
<1>2. BusTyped
  BY EmptySeq DEF Init, BusTyped, Ahead
<1>3. FlagsTyped
  BY Zenon DEF Init, FlagsTyped
<1>4. HeadInv
  BY DEF Init, HeadInv
<1>5. WordsInv /\ ReceiverInv
  BY DEF Init, WordsInv, ReceiverInv, Starting
<1> QED BY <1>1, <1>2, <1>3, <1>4, <1>5, TypeParts DEF IInv

LEMMA FlagsNext ==
  ASSUME FlagsTyped, [Next]_vars
  PROVE  FlagsTyped'
<1> USE DEF FlagsTyped, setting
<1>1. ASSUME NEW p \in Packet, Call(p) PROVE FlagsTyped'
  BY <1>1, Zenon DEF Call, dma
<1>2. CASE Disable
  BY <1>2, Zenon DEF Disable
<1>3. CASE Terminate
  BY <1>3, Zenon DEF Terminate, dma
<1>4. CASE Link
  BY <1>4, Zenon DEF Link, dma
<1>5. CASE MoveHead
  BY <1>5, Zenon DEF MoveHead, dma
<1>6. CASE Enable
  BY <1>6, Zenon DEF Enable
<1>7. CASE First
  BY <1>7, Zenon DEF First
<1>8. CASE EnableTxbufe
  BY <1>8, Zenon DEF EnableTxbufe, dma
<1>9. CASE Receive
  BY <1>9, Zenon DEF Receive
<1>10. CASE spi_isr
  BY <1>10, Zenon DEF spi_isr, Advance, dma
<1>11. CASE Fetch
  BY <1>11, Zenon DEF Fetch
<1>12. CASE Shift
  BY <1>12, Zenon DEF Shift, dma
<1>13. CASE Store
  BY <1>13, Zenon DEF Store
<1>14. CASE UNCHANGED vars
  BY <1>14, Zenon DEF vars, dma
<1> QED
  BY <1>1, <1>2, <1>3, <1>4, <1>5, <1>6, <1>7, <1>8, <1>9, <1>10, <1>11, <1>12, <1>13, <1>14
  DEF Next, spi_send_packet, Hardware

LEMMA TypeNext ==
  ASSUME TypeOK, HeadInv, [Next]_vars
  PROVE  TypeOK'
<1> USE PacketAssumption
<1>1. ListTyped /\ CallTyped /\ DmaTyped /\ BusTyped /\ FlagsTyped
  BY TypeParts
<1>2. FlagsTyped'
  BY <1>1, FlagsNext
<1> SUFFICES ListTyped' /\ CallTyped' /\ DmaTyped' /\ BusTyped'
  BY <1>2, TypeParts
<1> USE <1>1 DEF ListTyped, CallTyped, DmaTyped
<1>3. ASSUME NEW p \in Packet, Call(p)
      PROVE  ListTyped' /\ CallTyped' /\ DmaTyped' /\ BusTyped'
  BY <1>3 DEF Call, BusTyped, dma, bus
<1>4. CASE Disable
  BY <1>4 DEF Disable, list, bus, BusTyped, At
<1>5. CASE Terminate
  BY <1>5 DEF Terminate, Goto, dma, bus, BusTyped, At
<1>6. CASE Link
  BY <1>6 DEF Link, Goto, dma, bus, BusTyped, At
<1>7. CASE MoveHead
  BY <1>7 DEF MoveHead, Goto, dma, bus, BusTyped, At
<1>8. CASE Enable
  BY <1>8 DEF Enable, Return, list, bus, BusTyped, At
<1>9. CASE First
  BY <1>9 DEF First, Goto, bus, BusTyped, At
<1>10. CASE EnableTxbufe
  BY <1>10 DEF EnableTxbufe, Goto, list, dma, bus, TXBUFE, RXBUFF, BusTyped, At
<1>11. CASE Receive
  BY <1>11 DEF Receive, Return, list, bus, TXBUFE, RXBUFF, BusTyped, At
<1>12. CASE spi_isr
  <2>1. CallTyped' /\ BusTyped' /\ next' = next
    BY <1>12 DEF spi_isr, BusTyped, call, bus
  <2>2. CASE Advance /\ tail # Null
    BY <2>1, <2>2 DEF Advance, TXBUFE, RXBUFF
  <2>3. CASE ier' = ier \ Flags /\ UNCHANGED <<head, tail, pending, dma>>
    BY <2>1, <2>3 DEF dma
  <2> QED BY <1>12, <2>2, <2>3 DEF spi_isr
<1>13. CASE Fetch
  <2>1. txp \in Packet
    BY <1>13 DEF Fetch, HeadInv
  <2> QED BY <1>13, <2>1, Fetched, WordsOnTheWay DEF Fetch, BusTyped, list, call, Ahead
<1>14. CASE Shift
  BY <1>14, Shifted, WordsOnTheWay DEF Shift, BusTyped, list, dma, Ahead
<1>15. CASE Store
  BY <1>15 DEF Store, BusTyped, list, call
<1>16. CASE UNCHANGED vars
  BY <1>16 DEF vars, BusTyped, list, call, dma, bus
<1> QED
  BY <1>3, <1>4, <1>5, <1>6, <1>7, <1>8, <1>9, <1>10, <1>11, <1>12, <1>13, <1>14, <1>15, <1>16
  DEF Next, spi_send_packet, Hardware
-----------------------------------------------------------------------------
LEMMA HeadNext ==
  ASSUME TypeOK, HeadInv, [Next]_vars
  PROVE  HeadInv'
<1> USE PacketAssumption DEF HeadInv, setting
<1>1. ListTyped /\ CallTyped /\ DmaTyped
  BY TypeParts
<1> USE <1>1 DEF ListTyped, CallTyped, DmaTyped
<1>2. ASSUME NEW p \in Packet, Call(p) PROVE HeadInv'
  BY <1>2 DEF Call, dma
<1>3. CASE Disable
  BY <1>3 DEF Disable, list, At
<1>4. CASE Terminate
  BY <1>4 DEF Terminate, Goto, LastPacket, dma, At
<1>5. CASE Link
  BY <1>5 DEF Link, Goto, dma, At
<1>6. CASE MoveHead
  BY <1>6 DEF MoveHead, Goto, dma, At
<1>7. CASE Enable
  BY <1>7 DEF Enable, Return, list, At
<1>8. CASE First
  BY <1>8 DEF First, Goto, At
<1>9. CASE EnableTxbufe
  BY <1>9 DEF EnableTxbufe, Goto, list, dma, At
<1>10. CASE Receive
  BY <1>10 DEF Receive, Return, list, At
<1>11. CASE spi_isr
  <2>1. UNCHANGED <<pc, last, hoisted>>
    BY <1>11 DEF spi_isr, call
  <2>2. CASE Advance /\ tail # Null
    BY <2>1, <2>2 DEF Advance
  <2>3. CASE ier' = ier \ Flags /\ UNCHANGED <<head, tail, pending, dma>>
    BY <2>1, <2>3 DEF dma
  <2> QED BY <1>11, <2>2, <2>3 DEF spi_isr
<1>12. CASE Hardware
  BY <1>12 DEF Hardware, Fetch, Shift, Store, list, call, dma
<1>13. CASE UNCHANGED vars
  BY <1>13 DEF vars, list, call, dma
<1> QED
  BY <1>2, <1>3, <1>4, <1>5, <1>6, <1>7, <1>8, <1>9, <1>10, <1>11, <1>12, <1>13
  DEF Next, spi_send_packet

\* The interrupt, when both channels are done: nothing is on its way.
LEMMA Done ==
  ASSUME TypeOK, WordsInv, Interrupt, tail # Null
  PROVE  /\ ~Starting
         /\ Flags = {TXBUFE, RXBUFF} => fly = <<>> /\ rdr = Null /\ tcr = 0 /\ rcr = 0
<1>1. /\ Len(fly) \in 0 .. 2 /\ Held \in 0 .. 1 /\ tcr \in Nat
      /\ fly = <<>> <=> Len(fly) = 0
  BY TypeParts, WordsOnTheWay DEF DmaTyped
<1>2. ~Starting
  <2> SUFFICES ASSUME Starting PROVE FALSE
    OBVIOUS
  <2>1. /\ ier \subseteq {TXBUFE} /\ OnTheWay = Words[packet]
        /\ Words[packet] > Ahead + Slack /\ Held <= Slack
    BY DEF WordsInv
  <2>2. tcr = Words[packet] - Len(fly) - Held /\ Words[packet] \in Int
    <3>1. packet \in Packet
      BY TypeParts DEF Starting, CallTyped
    <3> QED BY <3>1, <1>1, <2>1, PacketAssumption DEF OnTheWay
  <2>3. tcr > 0
    <3>1. \A w \in Int, l \in 0 .. 2, h \in 0 .. 1, k \in 0 .. 1 :
            w > 2 + k /\ h <= k => w - l - h > 0
      OBVIOUS
    <3>2. Slack \in 0 .. 1
      BY PacketAssumption
    <3> QED BY <1>1, <2>1, <2>2, <3>1, <3>2 DEF Ahead
  <2> QED BY <2>1, <2>3 DEF Interrupt, Flags, TXBUFE, RXBUFF
<1>3. ASSUME Flags = {TXBUFE, RXBUFF} PROVE fly = <<>> /\ rdr = Null /\ tcr = 0 /\ rcr = 0
  <2>1. tcr = 0 /\ rcr = 0
    BY <1>3 DEF Flags, TXBUFE, RXBUFF
  <2>2. tcr + Len(fly) + Held = 0
    BY <1>2, <2>1 DEF WordsInv, OnTheWay
  <2>3. Len(fly) = 0 /\ Held = 0
    BY <1>1, <2>1, <2>2
  <2> QED BY <1>1, <2>1, <2>3 DEF Held
<1> QED BY <1>2, <1>3

LEMMA WordsNext ==
  ASSUME TypeOK, HeadInv, WordsInv, ReceiverInv, [Next]_vars
  PROVE  hasty' \/ (WordsInv' /\ ReceiverInv')
<1> USE PacketAssumption DEF setting
<1>1. /\ ListTyped /\ CallTyped /\ DmaTyped /\ BusTyped
      /\ Len(fly) \in 0 .. 2 /\ Held \in 0 .. 1
      /\ fly = <<>> <=> Len(fly) = 0
      /\ \A i \in 1 .. Len(fly) : fly[i] \in Packet
  BY TypeParts, WordsOnTheWay
<1> USE <1>1 DEF ListTyped, CallTyped, DmaTyped
\* Steps that leave the transfer alone.
<1>2. ASSUME UNCHANGED <<tail, txp, rxp, tcr, rcr, ier, fly, rdr>>, ~Starting, ~Starting'
      PROVE  WordsInv'
  BY <1>2 DEF WordsInv, OnTheWay, Held
<1>3. ASSUME NEW p \in Packet, Call(p) PROVE WordsInv' /\ ReceiverInv'
  <2>1. WordsInv'
    BY <1>2, <1>3 DEF Call, At, dma, bus, Starting
  <2> QED BY <1>3, <2>1 DEF Call, At, dma, bus, ReceiverInv
<1>4. CASE Disable
  <2>1. WordsInv'
    BY <1>2, <1>4 DEF Disable, At, list, bus, Starting
  <2> QED BY <1>4, <2>1 DEF Disable, At, list, bus, ReceiverInv
<1>5. CASE Terminate \/ Link \/ MoveHead
  <2>1. WordsInv'
    BY <1>2, <1>5 DEF Terminate, Link, MoveHead, At, Goto, dma, bus, Starting
  <2> QED BY <1>5, <2>1 DEF Terminate, Link, MoveHead, At, Goto, dma, bus, ReceiverInv
<1>6. CASE Enable
  <2>1. WordsInv'
    BY <1>2, <1>6 DEF Enable, At, Return, list, bus, Starting
  <2> QED BY <1>6, <2>1 DEF Enable, At, Return, list, bus, ReceiverInv
<1>7. CASE First
  <2>1. /\ tail = Null /\ fly = <<>> /\ rdr = Null /\ rcr = 0 /\ ier = {}
        /\ packet \in Packet
    BY <1>7 DEF First, At, HeadInv, WordsInv
  <2>2. /\ tail' = packet /\ txp' = packet /\ tcr' = Words[packet] /\ packet' = packet
        /\ pc' = "ier" /\ late' = late
        /\ UNCHANGED <<rcr, ier, fly, rdr>>
    BY <1>7 DEF First, Goto, bus
  <2>3. hasty' \/ Words[packet] > Ahead + Slack
    <3>1. hasty' = (hasty \/ Words[packet] <= Ahead + Slack)
      BY <1>7, Zenon DEF First
    <3>2. CASE Words[packet] <= Ahead + Slack
      BY <3>1, <3>2, Zenon
    <3>3. CASE ~(Words[packet] <= Ahead + Slack)
      BY <2>1, <3>3 DEF Ahead
    <3> QED BY <3>2, <3>3
  <2>4. /\ Held' = 0 /\ Len(fly') = 0 /\ OnTheWay' = Words[packet]
    BY <2>1, <2>2 DEF Held, OnTheWay
  <2>5. ASSUME ~hasty' PROVE WordsInv'
    BY <2>1, <2>2, <2>3, <2>4, <2>5 DEF WordsInv, Starting
  <2>6. ReceiverInv'
    BY <2>1, <2>2 DEF ReceiverInv
  <2> QED BY <2>5, <2>6
<1>8. CASE EnableTxbufe
  <2>1. pc = "ier" /\ pc' = "receive" /\ ier' = ier \cup {TXBUFE}
        /\ UNCHANGED <<tail, txp, rxp, tcr, rcr, fly, rdr, packet, late>>
    BY <1>8 DEF EnableTxbufe, At, Goto, list, dma, bus
  <2>2. WordsInv'
    BY <2>1 DEF WordsInv, Starting, OnTheWay, Held
  <2> QED BY <2>1, <2>2 DEF ReceiverInv
<1>9. CASE Receive
  <2>1. /\ pc = "receive" /\ pc' = "idle" /\ rxp' = packet /\ rcr' = Words[packet] /\ rxen'
        /\ UNCHANGED <<tail, txp, tcr, fly, rdr>>
    BY <1>9 DEF Receive, At, Return, list, bus
  <2>2. tail = packet /\ packet # Null /\ OnTheWay = Words[packet] /\ OnTheWay' = OnTheWay
    BY <2>1 DEF WordsInv, Starting, OnTheWay, Held
  <2>3. WordsInv'
    BY <2>1, <2>2 DEF WordsInv, Starting
  <2> QED BY <2>1, <2>3 DEF ReceiverInv
<1>10. CASE spi_isr
  <2>1. UNCHANGED <<pc, packet, late, fly, rdr>> /\ Interrupt
    BY <1>10 DEF spi_isr, call, bus
  <2>2. tail # Null /\ ~Starting
    BY <2>1, Done DEF Interrupt, WordsInv
  <2>3. CASE Flags = {TXBUFE, RXBUFF}
    <3>1. fly = <<>> /\ rdr = Null /\ tcr = 0 /\ rcr = 0
      BY <2>1, <2>2, <2>3, Done
    <3>2. Advance
      BY <1>10, <2>2, <2>3 DEF spi_isr
    <3>3. Held' = 0 /\ Len(fly') = 0
      BY <2>1, <3>1 DEF Held
    <3>4. CASE next[tail] # Null
      <4>1. /\ tail' = next[tail] /\ txp' = next[tail] /\ rxp' = next[tail]
            /\ tcr' = Words[next[tail]] /\ rcr' = Words[next[tail]] /\ rxen'
            /\ next[tail] \in Packet
        BY <2>2, <3>2, <3>4 DEF Advance
      <4>2. OnTheWay' = rcr'
        BY <3>3, <4>1 DEF OnTheWay
      <4> QED BY <2>1, <2>2, <3>1, <3>3, <4>1, <4>2 DEF WordsInv, ReceiverInv, Starting
    <3>5. CASE next[tail] = Null
      BY <2>1, <2>2, <3>1, <3>2, <3>5 DEF Advance, WordsInv, ReceiverInv, Starting
    <3> QED BY <3>4, <3>5
  <2>4. CASE Flags # {TXBUFE, RXBUFF}
    <3>1. UNCHANGED <<tail, txp, rxp, tcr, rcr, rxen>>
      BY <1>10, <2>2, <2>4 DEF spi_isr, dma
    <3> QED BY <2>1, <2>2, <3>1 DEF WordsInv, ReceiverInv, Starting, OnTheWay, Held
  <2> QED BY <2>3, <2>4
<1>11. CASE Fetch
  <2>1. /\ tcr > 0 /\ tcr' = tcr - 1 /\ fly' = Append(fly, txp) /\ Len(fly) < Ahead
        /\ UNCHANGED <<tail, pc, packet, late, rcr, rxen, txp, rxp, ier, rdr>>
    BY <1>11 DEF Fetch, list, call
  <2>2. tail # Null /\ txp = tail /\ txp \in Packet
    BY <2>1 DEF WordsInv
  <2>3. /\ Len(fly') = Len(fly) + 1
        /\ \A i \in 1 .. Len(fly') : fly'[i] = IF i = Len(fly') THEN txp ELSE fly[i]
    BY <2>1, <2>2, Fetched
  <2>4. \A i \in 1 .. Len(fly') : fly'[i] = tail
    BY <2>2, <2>3 DEF WordsInv
  <2>5. Held' = Held /\ OnTheWay' = OnTheWay
    BY <2>1, <2>3 DEF Held, OnTheWay
  <2>6. WordsInv'
    BY <2>1, <2>2, <2>4, <2>5 DEF WordsInv, Starting
  <2> QED BY <2>1, <2>6 DEF ReceiverInv
<1>12. CASE Shift
  <2>1. /\ fly # <<>> /\ fly' = Tail(fly) /\ rdr' = Head(fly)
        /\ (~Calling /\ rxen) => rdr = Null
        /\ Calling => late < Slack
        /\ late' = IF Calling THEN late + 1 ELSE late
        /\ UNCHANGED <<tail, pc, packet, tcr, rcr, rxen, txp, rxp, ier>>
    BY <1>12 DEF Shift, list, dma
  <2>2. /\ Len(fly') = Len(fly) - 1 /\ \A i \in 1 .. Len(fly') : fly'[i] = fly[i + 1]
        /\ rdr' = fly[1] /\ rdr' \in Packet /\ Len(fly) > 0
    BY <2>1, Shifted
  <2>3. tail # Null /\ rdr' = tail /\ \A i \in 1 .. Len(fly') : fly'[i] = tail
    BY <2>1, <2>2 DEF WordsInv
  <2>4. rdr = Null
    <3>1. CASE Calling
      BY <2>1, <3>1 DEF ReceiverInv, Calling
    <3>2. CASE ~Calling
      BY <2>1, <2>3, <3>2 DEF ReceiverInv, Calling
    <3> QED BY <3>1, <3>2
  <2>5. Held = 0 /\ Held' = 1
    BY <2>2, <2>4 DEF Held
  <2>6. OnTheWay' = OnTheWay
    BY <2>1, <2>2, <2>5 DEF OnTheWay
  <2>7. Starting => Held' <= Slack
    BY <2>1, <2>5 DEF Starting, Calling
  <2>8. WordsInv'
    BY <2>1, <2>2, <2>3, <2>6, <2>7 DEF WordsInv, Starting
  <2> QED BY <2>1, <2>8 DEF ReceiverInv, Calling
<1>13. CASE Store
  <2>1. /\ rcr > 0 /\ rdr # Null /\ rcr' = rcr - 1 /\ rdr' = Null
        /\ UNCHANGED <<tail, pc, packet, late, tcr, rxen, txp, rxp, ier, fly>>
    BY <1>13 DEF Store, list, call
  <2>2. tail # Null /\ ~Starting
    BY <2>1 DEF WordsInv
  <2>3. Held = 1 /\ Held' = 0
    BY <2>1 DEF Held
  <2>4. OnTheWay' = OnTheWay - 1
    BY <2>1, <2>3 DEF OnTheWay
  <2>5. WordsInv'
    BY <2>1, <2>2, <2>4 DEF WordsInv, Starting
  <2> QED BY <2>1, <2>5 DEF ReceiverInv
<1>14. CASE UNCHANGED vars
  BY <1>14 DEF vars, list, call, dma, bus, WordsInv, ReceiverInv, Starting, OnTheWay, Held
<1> QED
  BY <1>3, <1>4, <1>5, <1>6, <1>7, <1>8, <1>9, <1>10, <1>11, <1>12, <1>13, <1>14
  DEF Next, spi_send_packet, Hardware

\* A hasty start stays one.
LEMMA HastyLasts ==
  ASSUME hasty, [Next]_vars
  PROVE  hasty'
BY DEF Next, Call, spi_send_packet, Disable, Terminate, Link, MoveHead, Enable, First, EnableTxbufe,
   Receive, spi_isr, Hardware, Fetch, Shift, Store, vars

\* Only the interrupt finishes a packet; a call only adds one.
LEMMA FinishesDone ==
  ASSUME IInv, [Next]_vars, ~hasty, pending' # pending, pc = pc'
  PROVE  fly = <<>> /\ rdr = Null /\ tcr = 0 /\ rcr = 0
<1>1. WordsInv /\ TypeOK
  BY DEF IInv
<1>2. spi_isr
  BY DEF Next, Call, At, spi_send_packet, Disable, Terminate, Link, MoveHead, Enable, First,
     EnableTxbufe, Receive, Hardware, Fetch, Shift, Store, vars, list
<1>3. Interrupt /\ tail # Null /\ Flags = {TXBUFE, RXBUFF}
  BY <1>2 DEF spi_isr
<1> QED BY <1>1, <1>3, Done
-----------------------------------------------------------------------------
LEMMA Invariance == Spec => []IInv
<1>1. IInv /\ [Next]_vars => IInv'
  BY TypeNext, HeadNext, WordsNext, HastyLasts DEF IInv
<1> QED BY InitInv, <1>1, PTL DEF Spec

\* The pointers of the list, the DMA's counters and the call are well formed,
\* even when clients send packets that are queued.
THEOREM TypeCorrect == Spec => []TypeOK
  BY Invariance, PTL DEF IInv

\* No word is stored in another packet's buffer.
THEOREM WordsReachTheirBuffer == Spec => []OwnBuffer
<1>1. IInv => OwnBuffer
  BY TypeParts DEF IInv, WordsInv, OwnBuffer, Starting
<1> QED BY <1>1, Invariance, PTL

\* No packet is finished before its last word is in memory.
THEOREM FinishedIsRead == Spec => ReadBeforeFinished
<1>1. IInv /\ [Next]_vars =>
        [(~hasty /\ pending' # pending /\ pc = pc') =>
           fly = <<>> /\ rdr = Null /\ tcr = 0 /\ rcr = 0]_vars
  BY FinishesDone
<1> QED BY <1>1, Invariance, PTL DEF Spec, ReadBeforeFinished
-----------------------------------------------------------------------------
(***************************************************************************)
(* The list.                                                               *)
(***************************************************************************)

\* q are the packets from the first to the last of the list, each of them once.  A
\* careless client may make the last packet its own successor.
Chain(q) ==
  /\ q \in Seq(Packet)
  /\ \A i, j \in 1 .. Len(q) : q[i] = q[j] => i = j
  /\ tail = IF q = <<>> THEN Null ELSE q[1]
  /\ \A i \in 1 .. Len(q) - 1 : next[q[i]] = q[i + 1]
  /\ q # <<>> => next[q[Len(q)]] \in {Null} \cup (IF careful THEN {} ELSE {q[Len(q)]})

\* The function at of Listed.
Walk ==
  CHOOSE at : at = [i \in 0 .. Cardinality(Packet) |->
        IF i = 0 THEN tail
        ELSE IF at[i - 1] = Null THEN Null ELSE next[at[i - 1]]]

\* A list without repetitions has no more packets than there are.
LEMMA ChainFits ==
  ASSUME NEW q \in Seq(Packet), \A i, j \in 1 .. Len(q) : q[i] = q[j] => i = j
  PROVE  Len(q) \in Nat /\ Cardinality(Packet) \in Nat /\ Len(q) <= Cardinality(Packet)
<1>1. Len(q) \in Nat /\ q \in [1 .. Len(q) -> Packet]
  BY LenProperties
<1>2. q \in Injection(1 .. Len(q), Packet)
  BY <1>1 DEF Injection, IsInjective
<1>3. Cardinality(1 .. Len(q)) <= Cardinality(Packet)
  BY <1>2, PacketAssumption, FS_Injection
<1>4. Cardinality(1 .. Len(q)) = Len(q)
  BY <1>1, FS_Interval
<1> QED BY <1>1, <1>3, <1>4, PacketAssumption, FS_CardinalityType

\* Listed's walk along next_packet passes the packets of the chain in order.
LEMMA Walked ==
  ASSUME ListTyped, NEW q, Chain(q)
  PROVE  /\ q = <<>> => \A i \in 0 .. Cardinality(Packet) : Walk[i] = Null
         /\ q # <<>> => \A i \in 0 .. Cardinality(Packet) :
              Walk[i] = IF i < Len(q) THEN q[i + 1] ELSE next[q[Len(q)]]
<1> DEFINE C == Cardinality(Packet)
           from(i) == IF i < Len(q) THEN q[i + 1]
                      ELSE IF q = <<>> THEN Null ELSE next[q[Len(q)]]
           step(g, i) == IF i = 0 THEN tail
                         ELSE IF g[i - 1] = Null THEN Null ELSE next[g[i - 1]]
           f == [i \in 0 .. C |-> from(i)]
<1>1. /\ q \in Seq(Packet) /\ Len(q) \in 0 .. C /\ C \in Nat /\ Null \notin Packet
      /\ q = <<>> <=> Len(q) = 0
      /\ \A i \in 1 .. Len(q) : q[i] \in Packet
  BY ChainFits, EmptySeq, ElementOfSeq, PacketAssumption DEF Chain
<1> HIDE DEF C
<1>2. from(0) = tail
  BY <1>1 DEF Chain
<1>3. ASSUME NEW i \in 0 .. C, i # 0
      PROVE  from(i) = IF from(i - 1) = Null THEN Null ELSE next[from(i - 1)]
  <2> DEFINE e == next[q[Len(q)]]
  <2>1. CASE i < Len(q)
    <3>1. i \in 1 .. Len(q) - 1 /\ i - 1 < Len(q) /\ i - 1 + 1 = i
      BY <1>1, <1>3, <2>1
    <3>2. next[q[i]] = q[i + 1]
      BY <3>1 DEF Chain
    <3>3. q[i] \in Packet
      BY <1>1, <3>1
    <3>4. from(i) = q[i + 1] /\ from(i - 1) = q[i]
      BY <2>1, <3>1
    <3> HIDE DEF from
    <3> QED BY <1>1, <3>2, <3>3, <3>4
  <2>2. CASE i = Len(q)
    <3>1. i \in 1 .. Len(q) /\ i - 1 < Len(q) /\ i - 1 + 1 = i /\ ~(i < Len(q)) /\ q # <<>>
      BY <1>1, <1>3, <2>2
    <3>2. q[i] \in Packet
      BY <1>1, <3>1
    <3>3. from(i) = e /\ from(i - 1) = q[i]
      BY <3>1
    <3> HIDE DEF from
    <3> QED BY <1>1, <2>2, <3>2, <3>3
  <2>3. CASE i > Len(q)
    <3>1. CASE q = <<>>
      BY <1>1, <2>3, <3>1
    <3>2. CASE q # <<>>
      <4>1. from(i) = e /\ from(i - 1) = e
        BY <1>1, <2>3, <3>2
      <4>2. e = Null \/ (e = q[Len(q)] /\ q[Len(q)] \in Packet)
        BY <1>1, <3>2 DEF Chain
      <4> HIDE DEF from
      <4> QED BY <1>1, <4>1, <4>2
    <3> QED BY <3>1, <3>2
  <2> QED BY <1>1, <2>1, <2>2, <2>3
<1>4. f = [i \in 0 .. C |-> step(f, i)]
  <2>1. ASSUME NEW i \in 0 .. C PROVE f[i] = step(f, i)
    BY <1>1, <1>2, <1>3
  <2> QED BY <2>1
<1>5. Walk = [i \in 0 .. C |-> step(Walk, i)]
  BY <1>4 DEF Walk, C
<1>6. \A n \in 0 .. C : Walk[n] = from(n)
  <2> DEFINE S == {n \in 0 .. C : Walk[n] = from(n)}
  <2>1. 0 \in S
    BY <1>1, <1>2, <1>5
  <2>2. \A n \in 0 .. C - 1 : n \in S => n + 1 \in S
    <3> SUFFICES ASSUME NEW n \in 0 .. C - 1, Walk[n] = from(n) PROVE Walk[n + 1] = from(n + 1)
      BY <1>1
    <3>1. n + 1 \in 0 .. C /\ n + 1 # 0 /\ n + 1 - 1 = n
      BY <1>1
    <3>2. Walk[n + 1] = step(Walk, n + 1)
      BY <1>5, <3>1
    <3> HIDE DEF from
    <3> QED BY <1>3, <3>1, <3>2
  <2>3. \A n \in 0 .. C : n \in S
    <3> HIDE DEF S
    <3> QED BY <1>1, <2>1, <2>2, IntervalInduction
  <2> QED BY <2>3
<1> QED BY <1>1, <1>6 DEF C

\* Listed is the chain, unless it ends in a loop.
LEMMA ListedIs ==
  ASSUME ListTyped, NEW q, Chain(q)
  PROVE  /\ \A i \in 1 .. Len(q) : q[i] \in OnList
         /\ (q # <<>> => next[q[Len(q)]] = Null) => Listed = q
<1> DEFINE C == Cardinality(Packet)
           long == {i \in 0 .. C : Walk[i] # Null}
<1>1. Listed = [i \in 1 .. Cardinality(long) |-> Walk[i - 1]]
  BY DEF Listed, Walk
<1>2. /\ q \in Seq(Packet) /\ Len(q) \in 0 .. C /\ C \in Nat /\ Null \notin Packet
      /\ q = <<>> <=> Len(q) = 0
      /\ \A i \in 1 .. Len(q) : q[i] \in Packet
  BY ChainFits, EmptySeq, ElementOfSeq, PacketAssumption DEF Chain
<1>3. \A i \in 0 .. C : i < Len(q) => Walk[i] = q[i + 1]
  BY <1>2, Walked
<1> HIDE DEF C
<1>4. 0 .. Len(q) - 1 \subseteq long
  BY <1>2, <1>3
<1>5. IsFiniteSet(long) /\ Cardinality(long) \in Nat
  <2>1. IsFiniteSet(0 .. C)
    BY <1>2, FS_Interval
  <2>2. IsFiniteSet(long)
    BY <2>1, FS_Subset
  <2> QED BY <2>2, FS_CardinalityType
<1>6. Cardinality(0 .. Len(q) - 1) = Len(q)
  <2>1. Len(q) \in Int /\ Len(q) - 1 \in Int /\ Len(q) >= 0
    BY <1>2
  <2>2. Cardinality(0 .. Len(q) - 1) = IF 0 > Len(q) - 1 THEN 0 ELSE Len(q) - 1 - 0 + 1
    BY <2>1, FS_Interval
  <2> QED BY <2>1, <2>2
<1>7. Len(q) <= Cardinality(long)
  BY <1>4, <1>5, <1>6, FS_Subset
<1>8. ASSUME NEW i \in 1 .. Len(q) PROVE q[i] \in OnList
  <2>1. i \in DOMAIN Listed /\ Listed[i] = q[i]
    <3> HIDE DEF long
    <3> QED BY <1>1, <1>2, <1>3, <1>5, <1>7
  <2> QED BY <2>1 DEF OnList
<1>9. ASSUME q # <<>> => next[q[Len(q)]] = Null PROVE Listed = q
  <2>1. \A i \in 0 .. C : i >= Len(q) => Walk[i] = Null
    BY <1>2, <1>9, Walked DEF C
  <2>2. long = 0 .. Len(q) - 1
    BY <1>2, <1>3, <1>4, <2>1
  <2>3. Listed = [i \in 1 .. Len(q) |-> Walk[i - 1]]
    BY <1>1, <1>6, <2>2
  <2>4. \A i \in 1 .. Len(q) : Walk[i - 1] = q[i]
    BY <1>2, <1>3
  <2>5. q = [i \in 1 .. Len(q) |-> q[i]]
    BY <1>2, LenProperties
  <2> QED BY <2>3, <2>4, <2>5
<1> QED BY <1>8, <1>9

In(p, q) == \E i \in 1 .. Len(q) : q[i] = p
Ends(q, p) == q # <<>> => p = q[Len(q)]

\* Where the pointers are during a call.
Place(q) ==
  /\ pc \notin {"append", "head"} => Ends(q, head)
  /\ ~hoisted /\ pc # "head" /\ q = <<>> => head = Null
  /\ ~hoisted /\ pc \in {"append", "head"} => q # <<>>
  /\ hoisted /\ pc \in {"disable", "terminate", "append"} => Ends(q, last)
  /\ careful /\ pc \in {"disable", "terminate", "append", "first"} => ~In(packet, q)
  /\ pc \in {"append", "first"} => next[packet] = Null
  /\ ~hoisted /\ pc = "append" =>
       \/ ~In(packet, q) /\ Ends(q, head)
       \/ Ends(q, packet) /\ (head = packet \/ ~In(head, q))
  /\ pc \in {"head", "enable"} => Ends(q, packet)

\* With the DMA stopped no interrupt comes between the statements that extend the
\* list.
Stopped ==
  pc \in {"terminate", "append", "head", "enable", "first"} =>
    ~txen /\ ~rxen /\ ~Interrupt

ListInv ==
  /\ careful \/ ~hoisted
  /\ Stopped
  /\ \E q : Chain(q) /\ Place(q)

\* What a step may do to the list of careful clients.
Moves(q, r) ==
  \/ r = q
  \/ \E p \in Packet : ~In(p, q) /\ r = Append(q, p)
  \/ q # <<>> /\ r = Tail(q)

LEMMA StoppedNext ==
  ASSUME TypeOK, Stopped, [Next]_vars
  PROVE  Stopped'
<1> USE DEF Stopped
<1>1. CASE UNCHANGED <<pc, txen, rxen, ier, tcr, rcr>>
  BY <1>1 DEF Interrupt, Flags
<1>2. ASSUME NEW p \in Packet, Call(p) PROVE Stopped'
  BY <1>2 DEF Call
<1>3. CASE Disable
  BY <1>3 DEF Disable, At, Interrupt, Flags
<1>4. CASE Terminate \/ Link \/ MoveHead
  BY <1>4 DEF Terminate, Link, MoveHead, At, Goto, dma, Interrupt, Flags
<1>5. CASE Enable \/ First \/ EnableTxbufe \/ Receive
  BY <1>5 DEF Enable, First, EnableTxbufe, Receive, Goto, Return
<1>6. CASE spi_isr
  <2>1. pc' = pc /\ Interrupt
    BY <1>6 DEF spi_isr, call
  <2> QED BY <2>1
<1>7. CASE Fetch \/ Store
  <2>1. pc' = pc /\ (txen \/ rxen)
    BY <1>7 DEF Fetch, Store, call
  <2> QED BY <2>1
<1>8. CASE Shift
  BY <1>1, <1>8 DEF Shift, dma
<1>9. CASE UNCHANGED vars
  BY <1>1, <1>9 DEF vars, call, dma
<1> QED
  BY <1>2, <1>3, <1>4, <1>5, <1>6, <1>7, <1>8, <1>9 DEF Next, spi_send_packet, Hardware

\* A step that changes no pointer of the list keeps the chain.
LEMMA Steady ==
  ASSUME NEW q, Chain(q), UNCHANGED <<tail, next, careful>>
  PROVE  Chain(q)'
BY DEF Chain

\* Every step keeps a chain; for careful clients it is the same one, one that a
\* packet was appended to, or one that has lost its first packet.
LEMMA ChainNext ==
  ASSUME TypeOK, HeadInv, ListInv, [Next]_vars, NEW q, Chain(q), Place(q)
  PROVE  /\ UNCHANGED setting
         /\ \E r : Chain(r)' /\ Place(r)' /\ (careful => Moves(q, r))
<1>1. /\ ListTyped /\ CallTyped /\ Null \notin Packet
      /\ q \in Seq(Packet) /\ Len(q) \in Nat /\ (q = <<>> <=> Len(q) = 0)
      /\ \A i \in 1 .. Len(q) : q[i] \in Packet
  BY TypeParts, PacketAssumption, LenProperties, EmptySeq, ElementOfSeq DEF Chain
<1>2. tail = Null <=> q = <<>>
  BY <1>1 DEF Chain
\* Steps that leave the list alone.
<1>3. ASSUME Chain(q)', Place(q)', UNCHANGED setting
      PROVE  /\ UNCHANGED setting
             /\ \E r : Chain(r)' /\ Place(r)' /\ (careful => Moves(q, r))
  BY <1>3 DEF Moves
<1>4. ASSUME NEW p \in Packet, Call(p)
      PROVE  Chain(q)' /\ Place(q)' /\ UNCHANGED setting
  <2>1. /\ pc = "idle" /\ pc' = "disable" /\ packet' = p
        /\ last' = (IF hoisted THEN head ELSE Null)
        /\ careful => p \notin OnList
        /\ UNCHANGED <<head, tail, next, careful, hoisted>>
    BY <1>4 DEF Call, At, setting
  <2>2. careful => ~In(p, q)
    BY <1>1, <2>1, ListedIs DEF In
  <2>3. Chain(q)'
    BY <2>1, Steady
  <2>4. Place(q)'
    BY <2>1, <2>2 DEF Place, Ends, In
  <2> QED BY <2>1, <2>3, <2>4 DEF setting
<1>5. CASE Disable
  <2>1. pc = "disable" /\ pc' = "terminate"
        /\ UNCHANGED <<head, tail, next, careful, hoisted, packet, last>>
    BY <1>5 DEF Disable, At, setting, list
  <2>2. Chain(q)'
    BY <2>1, Steady
  <2>3. Place(q)'
    BY <2>1 DEF Place, Ends, In
  <2> QED BY <1>3, <2>1, <2>2, <2>3 DEF setting
<1>6. CASE Enable \/ EnableTxbufe \/ Receive
  <2>1. pc \in {"enable", "ier", "receive"} /\ pc' \in {"idle", "receive"}
        /\ UNCHANGED <<head, tail, next, careful, hoisted>>
    BY <1>6 DEF Enable, EnableTxbufe, Receive, At, Goto, Return, setting, list
  <2>2. Chain(q)'
    BY <2>1, Steady
  <2>3. Place(q)'
    BY <2>1 DEF Place, Ends, In
  <2> QED BY <1>3, <2>1, <2>2, <2>3 DEF setting
<1>7. CASE Hardware \/ UNCHANGED vars
  <2>1. UNCHANGED <<pc, head, tail, next, careful, hoisted, packet, last>>
    BY <1>7 DEF Hardware, Fetch, Shift, Store, vars, call, setting, list
  <2>2. Chain(q)'
    BY <2>1, Steady
  <2>3. Place(q)'
    BY <2>1 DEF Place, Ends, In
  <2> QED BY <1>3, <2>1, <2>2, <2>3 DEF setting
<1>8. CASE MoveHead
  <2>1. pc = "head" /\ pc' = "enable" /\ head' = packet
        /\ UNCHANGED <<tail, next, careful, hoisted, packet, last>>
    BY <1>8 DEF MoveHead, At, Goto, setting
  <2>2. Chain(q)'
    BY <2>1, Steady
  <2>3. Place(q)'
    BY <2>1 DEF Place, Ends, In
  <2> QED BY <1>3, <2>1, <2>2, <2>3 DEF setting
<1>9. CASE First
  <2>1. /\ pc = "first" /\ pc' = "ier" /\ head' = packet /\ tail' = packet
        /\ UNCHANGED <<next, careful, hoisted, packet, last>>
        /\ packet \in Packet /\ next[packet] = Null
    BY <1>1, <1>9 DEF First, At, Goto, setting, Place, CallTyped
  <2>2. q = <<>>
    BY <1>2, <2>1 DEF HeadInv
  <2>10. PICK r : r = Append(q, packet)
    OBVIOUS
  <2>3. /\ r \in Seq(Packet) /\ Len(r) = 1 /\ r[1] = packet /\ r # <<>>
    BY <1>1, <2>1, <2>2, <2>10, AppendProperties
  <2>4. ~In(packet, q)
    BY <1>1, <2>2 DEF In
  <2>5. Moves(q, r)
    BY <2>1, <2>10, <2>4 DEF Moves
  <2>6. Chain(r)'
    <3>1. \A i, j \in 1 .. Len(r) : i = 1 /\ j = 1
      BY <2>3
    <3>2. \A i \in 1 .. Len(r) - 1 : FALSE
      BY <2>3
    <3> QED BY <2>1, <2>3, <3>1, <3>2 DEF Chain
  <2>7. Place(r)'
    BY <2>1, <2>3 DEF Place, Ends
  <2> QED BY <2>1, <2>5, <2>6, <2>7 DEF setting
<1>10. CASE Terminate
  <2>1. /\ pc = "terminate" /\ packet \in Packet
        /\ next' = [next EXCEPT ![packet] = Null]
        /\ pc' = (IF LastPacket # Null THEN "append" ELSE "first")
        /\ UNCHANGED <<head, tail, careful, hoisted, packet, last>>
    BY <1>1, <1>10 DEF Terminate, At, Goto, setting, CallTyped
  <2>2. next' \in [Packet -> Packet \cup {Null}] /\ next'[packet] = Null
        /\ \A p \in Packet : p # packet => next'[p] = next[p]
    BY <1>1, <2>1 DEF ListTyped
  <2>3. Ends(q, head) /\ (hoisted => Ends(q, last)) /\ (~hoisted /\ q = <<>> => head = Null)
        /\ (careful => ~In(packet, q))
    BY <2>1 DEF Place
  <2>4. CASE ~In(packet, q)
    <3>1. \A i \in 1 .. Len(q) : next'[q[i]] = next[q[i]]
      BY <1>1, <2>2, <2>4 DEF In
    <3>2. Chain(q)'
      BY <1>1, <2>1, <3>1 DEF Chain
    <3>3. Place(q)'
      BY <2>1, <2>2, <2>3, <2>4 DEF Place, In, Ends, LastPacket
    <3> QED BY <1>3, <2>1, <3>2, <3>3 DEF setting
  <2>5. CASE In(packet, q)
    <3>1. PICK k \in 1 .. Len(q) : q[k] = packet
      BY <2>5 DEF In
    <3>2. ~careful /\ ~hoisted /\ q # <<>>
      BY <1>1, <2>3, <2>5, <3>1 DEF ListInv
    <3>3. PICK r : r = SubSeq(q, 1, k)
      OBVIOUS
    <3>4. k \in Int /\ k >= 1 /\ k <= Len(q)
      BY <1>1, <3>1
    <3>5. \A i \in 1 .. k : i \in 1 .. Len(q) /\ q[i] \in Packet
      BY <1>1, <3>4
    <3>6. r \in Seq(Packet) /\ Len(r) = k /\ r # <<>> /\ \A i \in 1 .. k : r[i] = q[i]
      <4>1. /\ SubSeq(q, 1, k) \in Seq(Packet)
            /\ Len(SubSeq(q, 1, k)) = IF 1 <= k THEN k - 1 + 1 ELSE 0
            /\ \A i \in 1 .. k - 1 + 1 : SubSeq(q, 1, k)[i] = q[1 + i - 1]
        BY <3>4, <3>5, SubSeqProperties
      <4>2. Len(r) = k /\ \A i \in 1 .. k : r[i] = q[i]
        BY <3>3, <3>4, <4>1
      <4>3. r # <<>>
        BY <3>4, <4>2, EmptySeq
      <4> QED BY <3>3, <4>1, <4>2, <4>3
    <3>7. \A i \in 1 .. k - 1 : q[i] # packet /\ next'[q[i]] = q[i + 1]
      <4> SUFFICES ASSUME NEW i \in 1 .. k - 1 PROVE q[i] # packet /\ next'[q[i]] = q[i + 1]
        OBVIOUS
      <4>1. i \in 1 .. Len(q) /\ i \in 1 .. Len(q) - 1 /\ i # k
        BY <1>1, <3>4
      <4>2. q[i] # packet
        BY <3>1, <4>1 DEF Chain
      <4>3. next[q[i]] = q[i + 1]
        BY <4>1 DEF Chain
      <4> QED BY <1>1, <2>2, <4>1, <4>2, <4>3
    <3>8. Chain(r)'
      <4>1. r[1] = q[1] /\ 1 \in 1 .. k
        BY <3>4, <3>6
      <4>2. \A i, j \in 1 .. Len(r) : r[i] = r[j] => i = j
        BY <3>5, <3>6 DEF Chain
      <4>3. \A i \in 1 .. Len(r) - 1 : next'[r[i]] = r[i + 1]
        BY <3>4, <3>6, <3>7
      <4>4. next'[r[Len(r)]] = Null
        BY <2>2, <3>1, <3>4, <3>6
      <4>5. tail' = r[1]
        BY <2>1, <3>2, <4>1 DEF Chain
      <4> QED BY <3>6, <4>2, <4>3, <4>4, <4>5 DEF Chain
    <3>9. head = q[Len(q)] /\ head \in Packet
      BY <1>1, <2>3, <3>2, <3>4 DEF Ends
    <3>10. pc' = "append" /\ Ends(r, packet)
      BY <1>1, <2>1, <3>1, <3>2, <3>4, <3>6, <3>9 DEF Ends, LastPacket
    <3>11. head = packet \/ ~In(head, r)
      <4> SUFFICES ASSUME NEW i \in 1 .. Len(r), r[i] = head PROVE head = packet
        BY DEF In
      <4>1. i \in 1 .. Len(q) /\ Len(q) \in 1 .. Len(q) /\ q[i] = q[Len(q)]
        BY <1>1, <3>4, <3>6, <3>9
      <4>2. i = Len(q)
        BY <4>1 DEF Chain
      <4>3. i = k
        BY <1>1, <3>4, <3>6, <4>2
      <4> QED BY <3>1, <3>6, <4>3
    <3>12. Place(r)'
      BY <2>1, <2>2, <3>2, <3>6, <3>10, <3>11 DEF Place, In, Ends
    <3> QED BY <2>1, <3>2, <3>8, <3>12 DEF setting
  <2> QED BY <2>4, <2>5
<1>11. CASE Link
  <2>1. /\ pc = "append" /\ pc' = "head" /\ packet \in Packet
        /\ next' = [next EXCEPT ![LastPacket] = packet]
        /\ UNCHANGED <<head, tail, careful, hoisted, packet, last>>
    BY <1>1, <1>11 DEF Link, At, Goto, setting, CallTyped
  <2>2. /\ LastPacket \in Packet => next'[LastPacket] = packet
        /\ \A p \in Packet : p # LastPacket => next'[p] = next[p]
    BY <1>1, <2>1 DEF ListTyped
  <2>3. next[packet] = Null /\ (~hoisted => q # <<>>)
    BY <2>1 DEF Place
  <2>4. CASE q # <<>> /\ ~In(packet, q) /\ Ends(q, LastPacket)
    <3>1. PICK r : r = Append(q, packet)
      OBVIOUS
    <3>2. /\ r \in Seq(Packet) /\ r # <<>> /\ Len(r) = Len(q) + 1
          /\ r[Len(q) + 1] = packet
          /\ \A i \in 1 .. Len(q) : r[i] = q[i]
      BY <1>1, <2>1, <3>1, AppendProperties
    <3>3. Moves(q, r)
      BY <2>1, <2>4, <3>1 DEF Moves
    <3>4. LastPacket = q[Len(q)] /\ Len(q) \in 1 .. Len(q) /\ 1 \in 1 .. Len(q)
      BY <1>1, <2>4 DEF Ends
    <3>5. \A i \in 1 .. Len(q) : q[i] # packet
      BY <2>4 DEF In
    <3>6. next'[packet] = Null
      BY <2>1, <2>2, <2>3, <3>4, <3>5
    <3>7. \A i \in 1 .. Len(q) : next'[r[i]] = r[i + 1]
      <4> SUFFICES ASSUME NEW i \in 1 .. Len(q) PROVE next'[r[i]] = r[i + 1]
        OBVIOUS
      <4>1. CASE i = Len(q)
        BY <1>1, <2>2, <3>2, <3>4, <4>1
      <4>2. CASE i # Len(q)
        <5>1. i \in 1 .. Len(q) - 1 /\ i + 1 \in 1 .. Len(q)
          BY <1>1, <4>2
        <5>2. q[i] # q[Len(q)]
          BY <3>4, <4>2 DEF Chain
        <5>3. next[q[i]] = q[i + 1]
          BY <5>1 DEF Chain
        <5> QED BY <1>1, <2>2, <3>2, <3>4, <5>1, <5>2, <5>3
      <4> QED BY <4>1, <4>2
    <3>8. \A i, j \in 1 .. Len(r) : r[i] = r[j] => i = j
      <4> SUFFICES ASSUME NEW i \in 1 .. Len(r), NEW j \in 1 .. Len(r), r[i] = r[j]
                   PROVE  i = j
        OBVIOUS
      <4>1. CASE i \in 1 .. Len(q) /\ j \in 1 .. Len(q)
        BY <3>2, <4>1 DEF Chain
      <4>2. CASE ~(i \in 1 .. Len(q) /\ j \in 1 .. Len(q))
        BY <1>1, <3>2, <3>5, <4>2
      <4> QED BY <4>1, <4>2
    <3>9. Chain(r)'
      <4>1. tail' = r[1]
        BY <2>1, <2>4, <3>2, <3>4 DEF Chain
      <4>2. Len(r) - 1 = Len(q) /\ r[Len(r)] = packet
        BY <1>1, <3>2
      <4> QED BY <3>2, <3>6, <3>7, <3>8, <4>1, <4>2 DEF Chain
    <3>10. Place(r)'
      BY <1>1, <2>1, <3>2 DEF Place, Ends
    <3> QED BY <2>1, <3>3, <3>9, <3>10 DEF setting
  <2>5. CASE q = <<>>
    <3>1. hoisted
      BY <2>3, <2>5
    <3>2. Chain(q)'
      BY <1>1, <1>2, <2>1, <2>5 DEF Chain
    <3>3. Place(q)'
      BY <2>1, <2>5, <3>1 DEF Place, Ends
    <3> QED BY <1>3, <2>1, <3>2, <3>3 DEF setting
  <2>6. CASE ~hoisted /\ Ends(q, packet) /\ (head = packet \/ ~In(head, q)) /\ In(packet, q)
    <3>1. LastPacket = head /\ ~careful /\ q # <<>>
      BY <2>1, <2>3, <2>6 DEF LastPacket, Place
    <3>2. packet = q[Len(q)] /\ Len(q) \in 1 .. Len(q)
      BY <1>1, <2>6, <3>1 DEF Ends
    <3>3. \A i \in 1 .. Len(q) - 1 : next'[q[i]] = q[i + 1]
      <4> SUFFICES ASSUME NEW i \in 1 .. Len(q) - 1 PROVE next'[q[i]] = q[i + 1]
        OBVIOUS
      <4>1. i \in 1 .. Len(q) /\ i # Len(q)
        BY <1>1
      <4>2. q[i] # packet
        BY <3>2, <4>1 DEF Chain
      <4>3. q[i] # head
        BY <2>6, <4>1, <4>2 DEF In
      <4>4. next[q[i]] = q[i + 1]
        BY DEF Chain
      <4> QED BY <1>1, <2>2, <3>1, <4>1, <4>3, <4>4
    <3>4. next'[packet] \in {Null, packet}
      BY <2>1, <2>2, <2>3, <3>1
    <3>5. Chain(q)'
      BY <1>1, <2>1, <3>1, <3>2, <3>3, <3>4 DEF Chain
    <3>6. Place(q)'
      BY <2>1, <2>6, <3>1 DEF Place, Ends
    <3> QED BY <1>3, <2>1, <3>5, <3>6 DEF setting
  <2> QED
    <3>1. CASE hoisted
      BY <2>1, <2>4, <2>5, <3>1 DEF Place, ListInv, LastPacket
    <3>2. CASE ~hoisted
      <4>1. Ends(q, packet) /\ q # <<>> => In(packet, q)
        BY <1>1 DEF Ends, In
      <4> QED BY <2>1, <2>3, <2>4, <2>6, <3>2, <4>1 DEF Place, LastPacket
    <3> QED BY <3>1, <3>2
<1>12. CASE spi_isr
  <2>1. /\ pc \notin {"terminate", "append", "head", "enable", "first"}
        /\ UNCHANGED <<next, pc, packet, last, careful, hoisted>>
    BY <1>12 DEF spi_isr, call, setting, ListInv, Stopped
  <2>2. CASE UNCHANGED <<head, tail>>
    <3>1. Chain(q)'
      BY <2>1, <2>2, Steady
    <3>2. Place(q)'
      BY <2>1, <2>2 DEF Place, Ends, In
    <3> QED BY <1>3, <2>1, <3>1, <3>2 DEF setting
  <2>3. CASE tail # Null /\ Advance
    <3>1. /\ q # <<>> /\ tail = q[1] /\ 1 \in 1 .. Len(q) /\ Len(q) \in 1 .. Len(q)
          /\ tail' = next[tail]
          /\ head' = IF next[tail] # Null THEN head ELSE Null
      BY <1>1, <1>2, <2>3 DEF Chain, Advance
    <3>2. Ends(q, head) /\ (hoisted /\ pc = "disable" => Ends(q, last))
          /\ (careful /\ pc = "disable" => ~In(packet, q))
      BY <2>1 DEF Place
    <3>3. CASE Len(q) = 1 /\ next[tail] # Null
      <4>1. tail' = tail /\ head' = head
        BY <3>1, <3>3 DEF Chain
      <4> QED BY <2>2, <4>1
    <3>4. CASE Len(q) # 1 \/ next[tail] = Null
      <4>1. PICK r : r = Tail(q)
        OBVIOUS
      <4>2. /\ r \in Seq(Packet) /\ Len(r) = Len(q) - 1
            /\ \A i \in 1 .. Len(r) : r[i] = q[i + 1]
            /\ (r = <<>> <=> Len(r) = 0)
        BY <1>1, <3>1, <4>1, HeadTailProperties, EmptySeq
      <4>3. Moves(q, r)
        BY <3>1, <4>1 DEF Moves
      <4>4. \A i \in 1 .. Len(r) : i \in 1 .. Len(q) - 1 /\ i + 1 \in 1 .. Len(q)
        BY <1>1, <4>2
      <4>5. CASE r = <<>>
        <5>1. Len(q) = 1 /\ tail' = Null /\ head' = Null
          BY <1>1, <3>1, <3>4, <4>2, <4>5
        <5>2. Chain(r)'
          BY <4>2, <4>5, <5>1 DEF Chain
        <5>3. Place(r)'
          BY <2>1, <4>2, <4>5, <5>1 DEF Place, Ends, In
        <5> QED BY <2>1, <4>3, <5>2, <5>3 DEF setting
      <4>6. CASE r # <<>>
        <5>1. /\ 1 \in 1 .. Len(q) - 1 /\ 1 \in 1 .. Len(r) /\ Len(r) \in 1 .. Len(r)
              /\ Len(r) + 1 = Len(q)
          BY <1>1, <4>2, <4>6
        <5>2. next[tail] = q[2] /\ q[2] \in Packet /\ r[1] = q[2] /\ r[Len(r)] = q[Len(q)]
          BY <1>1, <3>1, <4>2, <4>4, <5>1 DEF Chain
        <5>3. tail' = r[1] /\ head' = head
          BY <1>1, <3>1, <5>2
        <5>4. \A i, j \in 1 .. Len(r) : r[i] = r[j] => i = j
          <6> SUFFICES ASSUME NEW i \in 1 .. Len(r), NEW j \in 1 .. Len(r), r[i] = r[j]
                       PROVE  i = j
            OBVIOUS
          <6>1. q[i + 1] = q[j + 1] /\ i + 1 \in 1 .. Len(q) /\ j + 1 \in 1 .. Len(q)
            BY <4>2, <4>4
          <6>2. i + 1 = j + 1
            BY <6>1 DEF Chain
          <6> QED BY <1>1, <4>2, <6>2
        <5>5. \A i \in 1 .. Len(r) - 1 : next[r[i]] = r[i + 1]
          <6> SUFFICES ASSUME NEW i \in 1 .. Len(r) - 1 PROVE next[r[i]] = r[i + 1]
            OBVIOUS
          <6>1. i \in 1 .. Len(r) /\ i + 1 \in 1 .. Len(r) /\ i + 1 \in 1 .. Len(q) - 1
            BY <1>1, <4>2
          <6>2. next[q[i + 1]] = q[i + 1 + 1]
            BY <6>1 DEF Chain
          <6> QED BY <4>2, <6>1, <6>2
        <5>6. Chain(r)'
          BY <2>1, <3>1, <4>2, <4>6, <5>2, <5>3, <5>4, <5>5 DEF Chain
        <5>7. careful /\ pc = "disable" => ~In(packet, r)
          BY <3>2, <4>2, <4>4 DEF In
        <5>8. Place(r)'
          BY <2>1, <3>1, <3>2, <4>6, <5>2, <5>3, <5>7 DEF Place, Ends, In
        <5> QED BY <2>1, <4>3, <5>6, <5>8 DEF setting
      <4> QED BY <4>5, <4>6
    <3> QED BY <3>3, <3>4
  <2> QED BY <1>12, <2>2, <2>3 DEF spi_isr
<1> QED
  BY <1>3, <1>4, <1>5, <1>6, <1>7, <1>8, <1>9, <1>10, <1>11, <1>12
  DEF Next, spi_send_packet

LEMMA ListInit ==
  ASSUME Init
  PROVE  ListInv
<1>1. PICK q : q = <<>>
  OBVIOUS
<1>2. q \in Seq(Packet) /\ Len(q) = 0
  BY <1>1, EmptySeq
<1>3. Chain(q) /\ Place(q)
  BY <1>1, <1>2 DEF Init, Chain, Place, Ends, In
<1> QED BY <1>3 DEF Init, ListInv, Stopped

LEMMA ListNext ==
  ASSUME TypeOK, HeadInv, ListInv, [Next]_vars
  PROVE  ListInv'
<1>1. PICK q : Chain(q) /\ Place(q)
  BY DEF ListInv
<1>2. UNCHANGED setting /\ \E r : Chain(r)' /\ Place(r)'
  BY <1>1, ChainNext
<1>3. Stopped'
  BY StoppedNext DEF ListInv
<1> QED BY <1>2, <1>3 DEF ListInv, setting

LEMMA ListInvariance == Spec => []ListInv
<1>1. TypeOK /\ HeadInv /\ ListInv /\ [Next]_vars => ListInv'
  BY ListNext
<1>2. IInv => TypeOK /\ HeadInv
  BY DEF IInv
<1> QED BY ListInit, Invariance, <1>1, <1>2, PTL DEF Spec

\* The last packet that was sent can be reached from the first one, even when
\* clients send packets that are queued: no later packet waits for ever.
THEOREM ListStaysWhole == Spec => []ListWhole
<1>1. IInv /\ ListInv => ListWhole
  <2> SUFFICES ASSUME IInv, ListInv, ~hoisted,
                      pc \in {"idle", "disable", "terminate", "receive"}, head # Null
               PROVE  head \in OnList /\ (careful => next[head] = Null)
    BY DEF IInv, HeadInv, ListWhole
  <2>1. PICK q : Chain(q) /\ Place(q)
    BY DEF ListInv
  <2>2. ListTyped
    BY TypeParts DEF IInv
  <2>3. q # <<>> /\ head = q[Len(q)]
    BY <2>1 DEF Place, Ends
  <2>4. Len(q) \in 1 .. Len(q)
    <3>1. Len(q) \in Nat \ {0}
      BY <2>1, <2>3, EmptySeq DEF Chain
    <3> QED BY <3>1
  <2> QED BY <2>1, <2>2, <2>3, <2>4, ListedIs DEF Chain
<1> QED BY <1>1, Invariance, ListInvariance, PTL

\* What careful clients see of the list, now and after a step.
LEMMA CarefulList ==
  /\ \A q : ListTyped /\ careful /\ Chain(q) => Listed = q
  /\ \A q : ListTyped' /\ careful' /\ Chain(q)' => Listed' = q
<1>1. \A q : ListTyped /\ careful /\ Chain(q) => Listed = q
  BY ListedIs DEF Chain
<1>2. (\A q : ListTyped /\ careful /\ Chain(q) => Listed = q)'
  BY <1>1, PTL
<1> QED BY <1>1, <1>2

LEMMA QueueInit ==
  ASSUME Init
  PROVE  Queue!Init
<1>1. PICK q : q = <<>>
  OBVIOUS
<1>2. Chain(q)
  BY <1>1, EmptySeq DEF Init, Chain
<1>3. ListTyped
  BY InitInv, TypeParts DEF IInv
<1>4. Listed = <<>>
  BY <1>1, <1>2, <1>3, ListedIs
<1> QED BY <1>4 DEF Init, Queue!Init

LEMMA QueueNext ==
  ASSUME TypeOK, TypeOK', HeadInv, ListInv, [Next]_vars
  PROVE  [Queue!Next]_<<Listed, careful>>
<1>1. PICK q : Chain(q) /\ Place(q)
  BY DEF ListInv
<1>2. UNCHANGED setting /\ \E r : Chain(r)' /\ Place(r)' /\ (careful => Moves(q, r))
  BY <1>1, ChainNext
<1>3. PICK r : Chain(r)' /\ (careful => Moves(q, r))
  BY <1>2
<1>4. ListTyped /\ ListTyped' /\ careful' = careful
  BY <1>2, TypeParts DEF setting
<1>5. CASE ~careful
  BY <1>4, <1>5 DEF Queue!Next, Queue!Careless
<1>6. CASE careful
  <2>1. Listed = q /\ Listed' = r
    BY <1>1, <1>3, <1>4, <1>6, CarefulList
  <2>2. CASE r = q
    BY <1>4, <2>1, <2>2
  <2>3. ASSUME NEW p \in Packet, ~In(p, q), r = Append(q, p) PROVE Queue!Send(p)
    BY <1>4, <2>1, <2>3 DEF Queue!Send, Queue!Contains, In
  <2>4. CASE q # <<>> /\ r = Tail(q)
    BY <1>4, <2>1, <2>4 DEF Queue!Next, Queue!Finish
  <2> QED BY <1>3, <1>6, <2>2, <2>3, <2>4 DEF Moves, Queue!Next
<1> QED BY <1>5, <1>6

\* For careful clients the linked list, which the interrupt shortens between the
\* statements that extend it, is a queue.
THEOREM IsQueue == Spec => ImplementsQueue
<1>1. IInv /\ IInv' /\ ListInv /\ [Next]_vars => [Queue!Next]_<<Listed, careful>>
  BY QueueNext DEF IInv
<1> QED BY <1>1, QueueInit, Invariance, ListInvariance, PTL DEF Spec, ImplementsQueue, Queue!Spec
=============================================================================
