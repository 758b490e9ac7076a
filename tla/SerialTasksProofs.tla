-------------------------- MODULE SerialTasksProofs --------------------------
(***************************************************************************)
(* Proofs about SerialTasks, for every header, ring, line and image size.  *)
(***************************************************************************)
EXTENDS SerialTasks, SequenceTheorems, NatSets, TLAPS

\* The parts of TypeOK.
LineTyped ==
  /\ unread \in Seq(Byte) /\ Len(unread) < RING
  /\ out \in Seq(Byte) /\ sending \in Byte
  /\ since \in 0 .. Enough + 1
TaskTyped ==
  /\ use \in {"packets", "images", "print"}
  /\ task \in {"wait", "boot", "ui", "parse"}
  /\ state \in 1 .. LEDDATA /\ command \in {<<>>} \cup (Byte \X (Byte \cup {EOF}))
  /\ effect \in Byte
BootTyped ==
  /\ bootSize \in 0 .. CODE + 1 /\ bootHead \in 0 .. bootSize + 1
  /\ bootTimer \in 0 .. TIMEOUT /\ stored \in 0 .. CODE
TransmitterTyped == head \in 0 .. TX /\ tpr \in 0 .. TX /\ tcr \in 0 .. TX
FlagsTyped ==
  /\ mi \in BOOLEAN /\ disabled \in BOOLEAN /\ receiving \in BOOLEAN
  /\ crcGood \in BOOLEAN /\ ended \in BOOLEAN
  /\ txen \in BOOLEAN /\ endtx \in BOOLEAN /\ mute \in BOOLEAN
  /\ clean \in BOOLEAN

\* The boot task runs only while an image is received, and until then no CRC is
\* good; the buffer holds what has come, as far as it fits.
BootInv ==
  /\ task = "boot" => receiving
  /\ receiving => ~crcGood /\ bootTimer < TIMEOUT
  /\ stored = IF bootHead > Room THEN Room ELSE bootHead
  /\ FlashesWholeImage

IInv == TypeOK /\ BootInv /\ SendsInOrder
-----------------------------------------------------------------------------
LEMMA Sizes ==
  /\ HEADER \in Seq(Byte) /\ Len(HEADER) \in Nat \ {0}
  /\ MOTORDATA = Len(HEADER) + 1 /\ LEDDATA = Len(HEADER) + 2
  /\ Enough \in Nat
  /\ RING \in Nat /\ LEDS \in Nat \ {0} /\ LINE \in Nat \ {0} /\ TIMEOUT \in Nat \ {0}
  /\ CODE \in Nat \ {0} /\ TX \in Nat \ {0}
  /\ EOF \notin Byte
<1>1. /\ RING \in Nat /\ LEDS \in Nat \ {0} /\ LINE \in Nat \ {0} /\ TIMEOUT \in Nat \ {0}
      /\ CODE \in Nat \ {0} /\ TX \in Nat \ {0}
  BY RingAssumption, SizeAssumption
<1>2. HEADER \in Seq(Byte) /\ Len(HEADER) \in Nat \ {0}
  <2>1. HEADER \in Seq(STRING) /\ Len(HEADER) \in Nat \ {0} /\ DOMAIN HEADER = 1 .. Len(HEADER)
    BY SizeAssumption, EmptySeq, LenProperties
  <2>2. \A i \in 1 .. Len(HEADER) : HEADER[i] \in Byte
    BY <2>1 DEF Byte, Word, Range
  <2>3. SubSeq(HEADER, 1, Len(HEADER)) \in Seq(Byte)
    BY <2>1, <2>2, SubSeqProperties
  <2>4. SubSeq(HEADER, 1, Len(HEADER)) = HEADER
    BY <2>1, SubSeqFull
  <2> QED BY <2>1, <2>3, <2>4
<1>3. Enough \in Nat
  BY <1>1, <1>2 DEF Enough
<1>4. EOF \notin Byte
  BY ByteAssumption DEF Byte, Word, EOF, CR, None
<1> QED BY <1>1, <1>2, <1>3, <1>4 DEF MOTORDATA, LEDDATA

LEMMA TypeParts ==
  /\ TypeOK <=> LineTyped /\ TaskTyped /\ BootTyped /\ TransmitterTyped /\ FlagsTyped
  /\ TypeOK' <=> /\ LineTyped' /\ TaskTyped' /\ BootTyped' /\ TransmitterTyped'
                 /\ FlagsTyped'
<1>1. TypeOK <=> LineTyped /\ TaskTyped /\ BootTyped /\ TransmitterTyped /\ FlagsTyped
  BY Zenon DEF TypeOK, LineTyped, TaskTyped, BootTyped, TransmitterTyped, FlagsTyped
<1> QED BY <1>1, PTL

\* What is left of the line is typed and no longer than before.
LEMMA Consumed ==
  ASSUME LineTyped, NEW n \in Nat, Consume(n)
  PROVE  unread' \in Seq(Byte) /\ Len(unread') < RING
<1>1. unread \in Seq(Byte) /\ Len(unread) \in Nat /\ Len(unread) < RING /\ RING \in Nat \ {0}
  BY RingAssumption DEF LineTyped
<1>2. \A i \in n + 1 .. Len(unread) : unread[i] \in Byte
  BY <1>1
<1>3. /\ SubSeq(unread, n + 1, Len(unread)) \in Seq(Byte)
      /\ Len(SubSeq(unread, n + 1, Len(unread))) =
           IF n + 1 <= Len(unread) THEN Len(unread) - (n + 1) + 1 ELSE 0
  BY <1>1, <1>2, SubSeqProperties
<1> QED BY <1>1, <1>3 DEF Consume

LEMMA InitInv ==
  ASSUME Init
  PROVE  IInv
<1>1. LineTyped /\ TaskTyped /\ BootTyped /\ TransmitterTyped
  <2>1. "stop" \in Byte /\ "none" \in Byte
    BY DEF Byte, Word, CR, EOF, None
  <2>2. LineTyped
    <3>1. <<>> \in Seq(Byte) /\ Len(<<>>) = 0
      BY EmptySeq
    <3> QED BY <2>1, <3>1, RingAssumption, Sizes DEF Init, LineTyped, None
  <2>3. TaskTyped
    BY <2>1, Sizes DEF Init, TaskTyped
  <2>4. BootTyped /\ TransmitterTyped
    BY Sizes DEF Init, BootTyped, TransmitterTyped
  <2> QED BY <2>2, <2>3, <2>4
<1>2. FlagsTyped
  BY Zenon DEF Init, FlagsTyped
<1>3. BootInv
  BY Sizes DEF Init, BootInv, FlashesWholeImage, Room
<1>4. SendsInOrder
  BY DEF Init, SendsInOrder
<1> QED BY <1>1, <1>2, <1>3, <1>4, TypeParts DEF IInv
-----------------------------------------------------------------------------
LEMMA TransmitterNext ==
  ASSUME TransmitterTyped, SendsInOrder, [Next]_vars
  PROVE  TransmitterTyped' /\ SendsInOrder'
<1> USE Sizes DEF TransmitterTyped, SendsInOrder
<1>1. CASE UNCHANGED tx
  BY <1>1 DEF tx
<1>2. CASE HostSends \/ Arrive \/ Lose \/ events_do
  BY <1>1, <1>2 DEF HostSends, Arrive, Lose, events_do, Tick, boot_event, Console, mi_event, Parse,
     Execute, At, Receives
<1>3. CASE armputchar
  BY <1>3 DEF armputchar
<1>4. CASE SendChar
  BY <1>4 DEF SendChar
<1>5. CASE EndOfTransmission \/ ReceiveInterrupt
  BY <1>5 DEF EndOfTransmission, ReceiveInterrupt, Stops
<1>6. CASE UNCHANGED vars
  BY <1>1, <1>6 DEF vars
<1> QED BY <1>2, <1>3, <1>4, <1>5, <1>6 DEF Next

\* A transmitter's step changes nothing else, and no other step is one.
LEMMA TransmitterOnly ==
  ASSUME armputchar \/ SendChar \/ EndOfTransmission \/ ReceiveInterrupt \/ UNCHANGED vars
  PROVE  UNCHANGED <<use, unread, host, task, mi, parser, disabled, effect, boot, ended, count>>
<1>1. CASE UNCHANGED vars
  BY <1>1 DEF vars
<1>2. CASE armputchar \/ SendChar \/ EndOfTransmission \/ ReceiveInterrupt
  BY <1>2 DEF armputchar, SendChar, EndOfTransmission, ReceiveInterrupt, Transmits
<1> QED BY <1>1, <1>2

LEMMA BootNext ==
  ASSUME TypeOK, BootInv, [Next]_vars
  PROVE  BootTyped' /\ BootInv'
<1> USE Sizes DEF BootTyped, BootInv, FlashesWholeImage, Room
<1>1. BootTyped
  BY TypeParts
<1>2. CASE UNCHANGED <<boot, task>>
  BY <1>1, <1>2 DEF boot
<1>3. CASE HostSends \/ Arrive \/ Lose \/ Parse
  BY <1>2, <1>3 DEF HostSends, Arrive, Lose, Parse
<1>4. CASE Tick \/ mi_event \/ Execute
  BY <1>1, <1>4 DEF Tick, mi_event, Execute, boot
<1>5. CASE boot_event
  <2>1. receiving
    BY <1>5 DEF boot_event, At
  <2>2. CASE Timeout
    BY <1>1, <1>5, <2>1, <2>2 DEF Timeout
  <2>3. CASE Wait
    BY <1>1, <1>5, <2>1, <2>3 DEF Wait
  <2>4. CASE Load
    <3>1. Len(unread) \in Nat
      BY LenProperties DEF TypeOK
    <3> DEFINE all == bootHead + Len(unread)
    <3>2. /\ bootHead' = IF all > bootSize THEN bootSize + 1 ELSE all
          /\ stored' = IF all > Room THEN Room ELSE all
          /\ bootTimer' = 0 /\ bootTimer + 1 < TIMEOUT
          /\ UNCHANGED <<receiving, bootSize, crcGood>> /\ task' = "wait"
      BY <2>4 DEF Load
    <3>3. all \in Nat
      BY <1>1, <3>1
    <3> HIDE DEF all
    <3> QED BY <1>1, <2>1, <3>2, <3>3
  <2> QED BY <1>5, <2>2, <2>3, <2>4 DEF boot_event
<1>6. CASE Console
  <2>1. task' = "wait"
    BY <1>6 DEF Console
  <2>2. CASE UNCHANGED boot
    BY <1>1, <2>1, <2>2 DEF boot
  <2>3. ASSUME NEW line, Dispatch(line) PROVE BootTyped' /\ BootInv'
    <3>1. CASE UNCHANGED boot
      BY <2>2, <3>1
    <3>2. ASSUME NEW size \in 1 .. CODE - 1, BeginReceive(size) PROVE BootTyped' /\ BootInv'
      BY <2>1, <3>2 DEF BeginReceive
    <3>3. \A l \in DOMAIN ImageSize : ImageSize[l] \in 1 .. CODE - 1
      BY SizeAssumption
    <3> QED BY <2>3, <3>1, <3>2, <3>3 DEF Dispatch
  <2> QED BY <1>6, <2>2, <2>3 DEF Console
<1>7. CASE armputchar \/ SendChar \/ EndOfTransmission \/ ReceiveInterrupt \/ UNCHANGED vars
  BY <1>2, <1>7, TransmitterOnly
<1> QED BY <1>3, <1>4, <1>5, <1>6, <1>7 DEF Next, events_do
-----------------------------------------------------------------------------
\* The two bytes after the header, and the LED data.
LEMMA PacketIs ==
  ASSUME NEW p \in Packets
  PROVE  /\ p \in Seq(Byte) /\ Len(p) = (IF p[2] = "custom" THEN LEDS + 2 ELSE 2)
         /\ p[1] \in Command \cup {"exit"} /\ p[2] \in {"none", "custom", "exit"}
         /\ p[1] = "exit" <=> p[2] = "exit"
         /\ p[1] \in Byte /\ p[1] # None
         /\ \A i \in 1 .. Len(p) : p[i] \notin DOMAIN ImageSize
<1>0. /\ Command \subseteq Byte /\ Datum \subseteq Byte
      /\ {"none", "custom", "exit"} \subseteq Byte \ DOMAIN ImageSize
      /\ \A c \in Command : c # "exit" /\ c # None /\ c \notin DOMAIN ImageSize
      /\ \A d \in Datum : d \notin DOMAIN ImageSize
  <2>1. {"none", "custom", "exit"} \subseteq Word \ {EOF}
    BY DEF Word, EOF, None
  <2> QED BY <2>1, ByteAssumption DEF Byte
<1>1. CASE p = <<"exit", "exit">>
  BY <1>0, <1>1 DEF None
<1>2. ASSUME NEW c \in Command, p = <<c, "none">>
      PROVE  /\ p \in Seq(Byte) /\ Len(p) = 2 /\ p[1] = c /\ p[2] = "none"
             /\ \A i \in 1 .. Len(p) : p[i] \notin DOMAIN ImageSize
  BY <1>0, <1>2
<1>3. ASSUME NEW c \in Command, NEW leds \in [1 .. LEDS -> Datum], p = <<c, "custom">> \o leds
      PROVE  /\ p \in Seq(Byte) /\ Len(p) = LEDS + 2 /\ p[1] = c /\ p[2] = "custom"
             /\ \A i \in 1 .. Len(p) : p[i] \notin DOMAIN ImageSize
  <2> DEFINE front == <<c, "custom">>
             S == Byte \ DOMAIN ImageSize
  <2>1. LEDS \in Nat /\ leds \in Seq(S) /\ Len(leds) = LEDS
    <3>1. LEDS \in Nat
      BY Sizes
    <3>2. Datum \subseteq S
      BY <1>0
    <3> HIDE DEF S
    <3> QED BY <3>1, <3>2
  <2>2. front \in Seq(S) /\ Len(front) = 2 /\ front[1] = c /\ front[2] = "custom"
    <3>1. c \in S /\ "custom" \in S
      BY <1>0
    <3> HIDE DEF S
    <3> QED BY <3>1
  <2> HIDE DEF front, S
  <2>3. /\ p \in Seq(S) /\ Len(p) = LEDS + 2
        /\ p[1] = front[1] /\ p[2] = front[2]
    BY <1>3, <2>1, <2>2, ConcatProperties DEF front
  <2>4. S \subseteq Byte /\ \A d \in S : d \notin DOMAIN ImageSize
    BY DEF S
  <2>5. p \in Seq(Byte)
    BY <2>3, <2>4
  <2>6. \A i \in 1 .. Len(p) : p[i] \in S
    BY <2>3, ElementOfSeq
  <2> QED BY <2>2, <2>3, <2>4, <2>5, <2>6
<1>4. \/ p = <<"exit", "exit">>
      \/ \E c \in Command : p = <<c, "none">>
      \/ \E c \in Command : \E leds \in [1 .. LEDS -> Datum] : p = <<c, "custom">> \o leds
  <2>1. CASE p = <<"exit", "exit">>
    BY <2>1
  <2>2. ASSUME NEW c \in Command, p \in PacketsOf(c)
        PROVE  \/ p = <<c, "none">>
               \/ \E leds \in [1 .. LEDS -> Datum] : p = <<c, "custom">> \o leds
    BY <2>2 DEF PacketsOf
  <2>3. p = <<"exit", "exit">> \/ \E c \in Command : p \in PacketsOf(c)
    BY DEF Packets
  <2> QED BY <2>1, <2>2, <2>3
<1>5. ASSUME NEW c \in Command, p[1] = c, p[2] \in {"none", "custom"}
      PROVE  /\ p[1] \in Command \cup {"exit"} /\ p[2] \in {"none", "custom", "exit"}
             /\ p[1] = "exit" <=> p[2] = "exit"
             /\ p[1] \in Byte /\ p[1] # None
  BY <1>0, <1>5
<1>6. CASE \E c \in Command : p = <<c, "none">>
  BY <1>2, <1>5, <1>6
<1>7. CASE \E c \in Command : \E leds \in [1 .. LEDS -> Datum] : p = <<c, "custom">> \o leds
  BY <1>3, <1>5, <1>7
<1> QED BY <1>1, <1>4, <1>6, <1>7

Bytes(p) == HEADER \o p

LEMMA BytesOfPacket ==
  ASSUME NEW p \in Packets
  PROVE  Bytes(p) \in Seq(Byte) /\ p[1] \in Byte
  BY PacketIs, Sizes, ConcatProperties DEF Bytes

LEMMA LineNext ==
  ASSUME TypeOK, [Next]_vars
  PROVE  LineTyped'
<1> USE Sizes
<1>1. LineTyped
  BY TypeParts
<1>2. CASE UNCHANGED <<unread, out, sending, since>>
  BY <1>1, <1>2 DEF LineTyped
<1>3. CASE HostSends
  <2>1. UNCHANGED <<unread, since>>
    BY <1>3 DEF HostSends
  <2>2. ASSUME NEW bytes \in Seq(Byte), NEW p \in Byte, NEW counts, Sends(bytes, p, counts)
        PROVE  LineTyped'
    BY <1>1, <2>1, <2>2 DEF Sends, LineTyped
  <2>3. ASSUME NEW l \in Lines, Sends(<<l, CR>>, None, FALSE) PROVE LineTyped'
    <3>1. l \in Byte /\ CR \in Byte /\ None \in Byte
      BY DEF Lines, Byte, Word, CR, EOF, None
    <3>2. <<l, CR>> \in Seq(Byte)
      BY <3>1
    <3> QED BY <2>2, <2>3, <3>1, <3>2
  <2>4. CASE Sends(<<"data">>, None, FALSE)
    <3>1. "data" \in Byte /\ None \in Byte
      BY DEF Byte, Word, CR, EOF, None
    <3>2. <<"data">> \in Seq(Byte)
      BY <3>1
    <3> QED BY <2>2, <2>4, <3>1, <3>2
  <2>5. ASSUME NEW p \in Packets, Sends(HEADER \o p, p[1], Clean(p))
        PROVE  LineTyped'
    BY <2>2, <2>5, BytesOfPacket DEF Bytes
  <2> QED BY <1>3, <2>3, <2>4, <2>5 DEF HostSends
<1>4. CASE Arrive
  <2>1. out # <<>> /\ Len(unread) < RING - 1 /\ Len(unread) \in Nat
    BY <1>1, <1>4, LenProperties DEF Arrive, LineTyped
  <2>2. Head(out) \in Byte /\ Tail(out) \in Seq(Byte)
    BY <1>1, <2>1, HeadTailProperties DEF LineTyped
  <2>3. /\ Append(unread, Head(out)) \in Seq(Byte)
        /\ Len(Append(unread, Head(out))) = Len(unread) + 1
    BY <1>1, <2>2, AppendProperties DEF LineTyped
  <2>4. unread' = Append(unread, Head(out)) /\ out' = Tail(out) /\ sending' = sending
    BY <1>4 DEF Arrive
  <2>5. since' \in {0, since} \/ (~(since > Enough) /\ since' = since + 1)
    BY <1>4 DEF Arrive
  <2>6. since' \in 0 .. Enough + 1
    BY <1>1, <2>5 DEF LineTyped
  <2> QED BY <1>1, <2>1, <2>2, <2>3, <2>4, <2>6 DEF LineTyped
<1>5. CASE Lose
  <2>1. PICK n \in 1 .. Len(out) : out' = SubSeq(out, n + 1, Len(out))
    BY <1>5 DEF Lose
  <2>2. out \in Seq(Byte) /\ Len(out) \in Nat
    BY <1>1, LenProperties DEF LineTyped
  <2>3. \A i \in n + 1 .. Len(out) : out[i] \in Byte
    BY <2>2, ElementOfSeq
  <2>4. SubSeq(out, n + 1, Len(out)) \in Seq(Byte)
    BY <2>2, <2>3, SubSeqProperties
  <2> QED BY <1>1, <1>5, <2>1, <2>4 DEF Lose, CountAnew, LineTyped
<1>6. CASE Tick \/ mi_event \/ Execute
  BY <1>2, <1>6 DEF Tick, mi_event, Execute, host, count
<1>7. CASE boot_event
  <2>1. UNCHANGED <<out, sending, since>>
    BY <1>7 DEF boot_event, host, count
  <2>2. CASE Consume(Len(unread))
    <3>1. Len(unread) \in Nat
      BY <1>1, LenProperties DEF LineTyped
    <3> QED BY <1>1, <2>1, <2>2, <3>1, Consumed DEF LineTyped
  <2> QED BY <1>2, <1>7, <2>1, <2>2 DEF boot_event, Timeout, Wait, Load
<1>8. CASE Console
  <2>1. UNCHANGED <<out, sending>>
    BY <1>8 DEF Console, host
  <2>2. since' \in {0, since}
    BY <1>8 DEF Console, Dispatch, CountAnew, count
  <2>3. ASSUME NEW n \in Nat, Consume(n) PROVE LineTyped'
    BY <1>1, <2>1, <2>2, <2>3, Consumed DEF LineTyped
  <2>4. LINE - 1 \in Nat
    OBVIOUS
  <2>5. Len(unread) \in Nat
    BY <1>1, LenProperties DEF LineTyped
  <2>6. CASE UNCHANGED unread
    BY <1>1, <2>1, <2>2, <2>6 DEF LineTyped
  <2>7. ASSUME NEW n \in 0 .. Len(unread), Consume(n + 1) PROVE LineTyped'
    <3>1. n + 1 \in Nat
      BY <2>5
    <3> QED BY <2>3, <2>7, <3>1
  <2> QED BY <1>8, <2>3, <2>4, <2>6, <2>7 DEF Console
<1>9. CASE Parse
  <2>1. UNCHANGED <<out, sending>> /\ since' \in {0, since} /\ Consume(packet_size)
    BY <1>9 DEF Parse, CountAnew, host, count
  <2>2. packet_size \in Nat
    BY DEF packet_size
  <2> QED BY <1>1, <2>1, <2>2, Consumed DEF LineTyped
<1>10. CASE armputchar \/ SendChar \/ EndOfTransmission \/ ReceiveInterrupt \/ UNCHANGED vars
  BY <1>2, <1>10, TransmitterOnly DEF host, count
<1> QED BY <1>3, <1>4, <1>5, <1>6, <1>7, <1>8, <1>9, <1>10 DEF Next, events_do

\* A motor command has at least its mode: armgetnumchars counts at most one byte
\* too many.
LEMMA CommandArrived ==
  ASSUME TypeOK, Parse, ParseMotor
  PROVE  command' \in Byte \X (Byte \cup {EOF})
<1>1. PICK n \in Counts : n >= packet_size
  BY DEF Parse
<1>2. packet_size = 2
  BY DEF ParseMotor, packet_size
<1>3. unread \in Seq(Byte) /\ Len(unread) \in Nat
  BY LenProperties DEF TypeOK
<1>4. Len(unread) >= 1
  BY <1>1, <1>2, <1>3 DEF Counts
<1>5. Got(1) \in Byte /\ Got(2) \in Byte \cup {EOF}
  BY <1>3, <1>4, ElementOfSeq DEF Got
<1> QED BY <1>5 DEF ParseMotor

LEMMA TaskNext ==
  ASSUME TypeOK, [Next]_vars
  PROVE  TaskTyped'
<1> USE Sizes DEF TaskTyped
<1>1. TaskTyped
  BY TypeParts
<1>2. CASE UNCHANGED <<use, task, parser, effect>>
  BY <1>1, <1>2 DEF parser
<1>3. CASE HostSends \/ Arrive \/ Lose
  BY <1>2, <1>3 DEF HostSends, Arrive, Lose, At, Receives
<1>4. CASE Tick \/ mi_event
  BY <1>1, <1>4 DEF Tick, mi_event, parser, At, Receives
<1>5. CASE boot_event
  BY <1>1, <1>5 DEF boot_event, Timeout, Wait, Load, parser, At, Receives
<1>6. CASE Console
  BY <1>1, <1>6 DEF Console, parser, At, Receives
<1>7. CASE Parse
  <2>1. UNCHANGED <<use, task, effect>>
    BY <1>7 DEF Parse, At, Receives
  <2>2. CASE ParseHeader
    BY <1>1, <2>1, <2>2 DEF ParseHeader
  <2>3. CASE ParseMotor
    BY <1>1, <1>7, <2>1, <2>3, CommandArrived DEF ParseMotor
  <2>4. CASE ParseLeds
    BY <1>1, <2>1, <2>4 DEF ParseLeds
  <2> QED BY <1>7, <2>2, <2>3, <2>4 DEF Parse
<1>8. CASE Execute
  <2>1. use' = use /\ task' = "wait" /\ state' = state /\ command' = <<>>
    BY <1>8 DEF Execute, At, Receives
  <2>2. command # <<>> => Motors \in Byte
    BY <1>1 DEF Motors, Byte, Word, CR, EOF, None
  <2>3. effect' \in Byte
    BY <1>1, <1>8, <2>2 DEF Execute
  <2> QED BY <1>1, <2>1, <2>3
<1>9. CASE armputchar \/ SendChar \/ EndOfTransmission \/ ReceiveInterrupt \/ UNCHANGED vars
  BY <1>2, <1>9, TransmitterOnly
<1> QED BY <1>3, <1>4, <1>5, <1>6, <1>7, <1>8, <1>9 DEF Next, events_do

LEMMA FlagsNext ==
  ASSUME TypeOK, [Next]_vars
  PROVE  FlagsTyped'
<1>1. FlagsTyped
  BY TypeParts
<1> USE DEF FlagsTyped
<1>2. CASE HostSends \/ Arrive \/ Lose \/ Tick \/ mi_event \/ Parse
  <2>1. UNCHANGED <<mi, disabled, receiving, crcGood, ended, txen, endtx, mute>>
    BY <1>2, Zenon DEF HostSends, Arrive, Lose, Tick, mi_event, Parse, At, Receives, tx, boot
  <2>2. clean' \in BOOLEAN
    BY <1>1, <1>2, Zenon DEF HostSends, Sends, Clean, Arrive, Lose, Tick, mi_event, Parse,
       CountAnew, count
  <2> QED BY <1>1, <2>1, <2>2
<1>3. CASE boot_event
  BY <1>1, <1>3, Zenon DEF boot_event, Timeout, Wait, Load, At, Receives, tx, boot, count
<1>4. CASE Console
  <2>1. mi' \in BOOLEAN /\ disabled' \in BOOLEAN /\ ended' \in BOOLEAN
    BY <1>1, <1>4, Zenon DEF Console, Dispatch
  <2>2. receiving' \in BOOLEAN /\ crcGood' \in BOOLEAN
    BY <1>1, <1>4, Zenon DEF Console, Dispatch, BeginReceive, boot
  <2>3. txen' \in BOOLEAN /\ endtx' \in BOOLEAN /\ mute' \in BOOLEAN
    BY <1>1, <1>4, Zenon DEF Console, At, Receives, tx
  <2>4. clean' \in BOOLEAN
    BY <1>1, <1>4, Zenon DEF Console, Dispatch, CountAnew, count
  <2> QED BY <2>1, <2>2, <2>3, <2>4
<1>5. CASE Execute
  BY <1>1, <1>5, Zenon DEF Execute, At, Receives, tx, boot, count
<1>6. CASE armputchar \/ SendChar \/ EndOfTransmission \/ ReceiveInterrupt
  <2>1. UNCHANGED <<mi, disabled, receiving, crcGood, ended, clean>>
    BY <1>6, TransmitterOnly DEF boot, count
  <2>2. txen' \in BOOLEAN /\ endtx' \in BOOLEAN /\ mute' \in BOOLEAN
    BY <1>1, <1>6, Zenon DEF armputchar, SendChar, EndOfTransmission, ReceiveInterrupt, Stops
  <2> QED BY <1>1, <2>1, <2>2
<1>7. CASE UNCHANGED vars
  BY <1>1, <1>7 DEF vars, boot, tx, count
<1> QED BY <1>2, <1>3, <1>4, <1>5, <1>6, <1>7 DEF Next, events_do
-----------------------------------------------------------------------------
LEMMA Invariance == Spec => []IInv
<1>1. IInv /\ [Next]_vars => IInv'
  BY LineNext, TaskNext, BootNext, TransmitterNext, FlagsNext, TypeParts DEF IInv
<1> QED BY InitInv, <1>1, PTL DEF Spec

\* Neither the receive ring nor the boot buffer is overrun, and the machine
\* interface executes no command before its mode has arrived.
THEOREM TypeCorrect == Spec => []TypeOK
  BY Invariance, PTL DEF IInv

\* What the boot loader would flash is the image whose CRC was right.
THEOREM WholeImages == Spec => []FlashesWholeImage
  BY Invariance, PTL DEF IInv, BootInv

\* No character is skipped or sent twice, whatever interrupts stop the
\* transmitter.
THEOREM InOrder == Spec => []SendsInOrder
  BY Invariance, PTL DEF IInv
-----------------------------------------------------------------------------
(***************************************************************************)
(* The parser.  Its position is the number of bytes of a packet that it    *)
(* has read, or will have read after some of the unread bytes: a run over  *)
(* the unread bytes says where each of them leaves it.                     *)
(***************************************************************************)
Header == Len(HEADER)
Shortest == Header + 2
Most == Shortest + LEDS

\* The position after position x and the byte b.
Read(x, b) ==
  IF x < Header THEN IF b = HEADER[x + 1] THEN x + 1 ELSE 0
  ELSE IF x = Header THEN x + 1
  ELSE IF x = Header + 1 THEN IF b = "custom" THEN x + 1 ELSE 0
  ELSE IF x + 1 = Most THEN 0 ELSE x + 1
From(s) == IF s = LEDDATA THEN LEDDATA ELSE s - 1
Run(w, x, u) ==
  /\ w \in [0 .. Len(u) -> 0 .. Most - 1]
  /\ w[0] = x
  /\ \A i \in 1 .. Len(u) : w[i] = Read(w[i - 1], u[i])

\* The position of a parser that is in step, when r bytes of p are to come.
Whole(p) == IF p[2] = "custom" THEN Most ELSE Shortest
Place(p, r) == IF r = 0 THEN 0 ELSE Whole(p) - r

\* A parser that is not in step takes no more bytes than these for a command and
\* its data; they end before Enough clean packets have arrived, n of them so far.
\* It matches header bytes only at the beginning of a clean packet.
Rest(x) == IF x < Header THEN 0 ELSE Most - x
Span(k) == k * Shortest
Bound(x, p, r, n) ==
  /\ n < Enough
  /\ IF r = 0 THEN Rest(x) < Span(Enough - n)
     ELSE /\ Rest(x) - r < Span(Enough - n - 1)
          /\ x \in 1 .. Header - 1 => r = Whole(p)

LEMMA Lengths ==
  /\ Header \in Nat \ {0} /\ Shortest \in Nat /\ LEDS \in Nat \ {0} /\ Most \in Nat
  /\ Shortest = Header + 2 /\ Most = Shortest + LEDS
  /\ MOTORDATA = Header + 1 /\ LEDDATA = Shortest
  /\ DOMAIN HEADER = 1 .. Header
<1>1. DOMAIN HEADER = 1 .. Len(HEADER)
  BY Sizes
<1> QED BY <1>1, Sizes DEF Header, Shortest, Most

LEMMA ReadIs ==
  ASSUME NEW x \in 0 .. Most - 1, NEW b
  PROVE  Read(x, b) \in 0 .. Most - 1
  BY Lengths DEF Read

LEMMA Spans ==
  /\ Span(0) = 0
  /\ \A k \in Nat : Span(k) \in Nat /\ Span(k + 1) = Span(k) + Shortest
<1>1. Shortest \in Nat
  BY Lengths
<1> HIDE DEF Shortest
<1>2. 0 * Shortest = 0
  BY <1>1
<1>3. ASSUME NEW k \in Nat
      PROVE k * Shortest \in Nat /\ (k + 1) * Shortest = k * Shortest + Shortest
  BY <1>1
<1> QED BY <1>2, <1>3 DEF Span

\* Wherever the parser is between two packets, what it takes for a command ends
\* soon enough.
LEMMA ZeroBound ==
  ASSUME NEW x \in 0 .. Most - 1, NEW p
  PROVE  Bound(x, p, 0, 0)
<1> DEFINE q == (LEDS + 2) \div Shortest
<1>1. q \in Nat /\ LEDS + 2 < (q + 1) * Shortest
  <2>1. LEDS + 2 \in Nat /\ Shortest \in Nat \ {0}
    BY Lengths
  <2> HIDE DEF Shortest
  <2>2. PICK m \in Nat : m = LEDS + 2
    BY <2>1
  <2>3. /\ q \in Nat /\ m = (q * Shortest) + (m % Shortest)
        /\ m % Shortest \in 0 .. Shortest - 1
    BY <2>1, <2>2
  <2>4. (q + 1) * Shortest = q * Shortest + Shortest /\ q * Shortest \in Nat
    BY <2>1, <2>3
  <2> HIDE DEF q
  <2> QED BY <2>1, <2>2, <2>3, <2>4
<1>2. Enough = q + 1
  BY DEF Enough, Shortest, Header
<1> HIDE DEF q
<1>3. LEDS + 2 < Span(q + 1) /\ Span(q + 1) \in Nat
  BY <1>1, Spans DEF Span
<1>4. Rest(x) \in Nat /\ Rest(x) <= LEDS + 2
  BY Lengths DEF Rest
<1>5. Enough - 0 = q + 1 /\ 0 < Enough
  BY <1>1, <1>2
<1> HIDE DEF Rest, Span
<1> QED BY <1>3, <1>4, <1>5, Lengths DEF Bound

\* The bytes of a packet, by their place.
LEMMA BytesAre ==
  ASSUME NEW p \in Packets
  PROVE  /\ Whole(p) \in {Shortest, Most} /\ Whole(p) = Header + Len(p)
         /\ Len(Bytes(p)) = Whole(p)
         /\ \A i \in 1 .. Header : Bytes(p)[i] = HEADER[i]
         /\ \A i \in Header + 1 .. Whole(p) : Bytes(p)[i] = p[i - Header]
         /\ Bytes(p)[Header + 1] = p[1] /\ Bytes(p)[Header + 2] = p[2]
         /\ Clean(p) => \A i \in Header + 1 .. Whole(p) : Bytes(p)[i] # HEADER[1]
<1>1. HEADER \in Seq(Byte) /\ Len(HEADER) = Header /\ Header \in Nat
  BY Sizes DEF Header
<1>2. p \in Seq(Byte) /\ Len(p) = (IF p[2] = "custom" THEN LEDS + 2 ELSE 2)
  BY PacketIs
<1>3. Len(p) \in Nat /\ Len(p) >= 2 /\ Whole(p) \in {Shortest, Most} /\ Whole(p) = Header + Len(p)
  BY <1>2, Lengths DEF Whole
<1>4. /\ Len(Bytes(p)) = Header + Len(p)
      /\ \A i \in 1 .. Header + Len(p) :
           Bytes(p)[i] = IF i <= Header THEN HEADER[i] ELSE p[i - Header]
  BY <1>1, <1>2, ConcatProperties DEF Bytes
<1>5. /\ \A i \in 1 .. Header : Bytes(p)[i] = HEADER[i]
      /\ \A i \in Header + 1 .. Whole(p) : Bytes(p)[i] = p[i - Header]
  BY <1>1, <1>3, <1>4
<1>6. Bytes(p)[Header + 1] = p[1] /\ Bytes(p)[Header + 2] = p[2]
  <2>1. Header + 1 \in Header + 1 .. Whole(p) /\ Header + 2 \in Header + 1 .. Whole(p)
        /\ (Header + 1) - Header = 1 /\ (Header + 2) - Header = 2
    BY <1>1, <1>3
  <2> QED BY <1>5, <2>1
<1>7. ASSUME Clean(p), NEW i \in Header + 1 .. Whole(p) PROVE Bytes(p)[i] # HEADER[1]
  <2>1. i - Header \in 1 .. Len(p)
    BY <1>1, <1>3
  <2>2. p[i - Header] \in Range(p)
    <3>1. DOMAIN p = 1 .. Len(p)
      <4>1. p \in Seq(Byte)
        BY PacketIs
      <4> QED BY <4>1, LenProperties
    <3> QED BY <2>1, <3>1 DEF Range
  <2> QED BY <1>5, <1>7, <2>2 DEF Clean
<1> QED BY <1>3, <1>4, <1>5, <1>6, <1>7

\* A parser in step stays in step, and knows the mode when it has read it.
LEMMA StepInStep ==
  ASSUME NEW p \in Packets, NEW r \in 1 .. Whole(p),
         NEW b, b = Bytes(p)[Whole(p) - r + 1]
  PROVE  /\ Read(Place(p, r), b) = Place(p, r - 1)
         /\ Place(p, r - 1) = Header + 1 => b = p[1]
<1>0. /\ Whole(p) \in {Shortest, Most} /\ Whole(p) \in Nat /\ Shortest = Header + 2
      /\ Header \in Nat \ {0} /\ LEDS \in Nat \ {0} /\ Most = Shortest + LEDS
  BY Lengths DEF Whole
<1>a. /\ \A i \in 1 .. Header : Bytes(p)[i] = HEADER[i]
      /\ Bytes(p)[Header + 1] = p[1]
      /\ Bytes(p)[Header + 2] = p[2]
  BY BytesAre
<1> DEFINE x == Whole(p) - r
<1>1. Place(p, r) = x /\ x + 1 = Whole(p) - r + 1 /\ x \in 0 .. Whole(p) - 1
  BY <1>0 DEF Place
<1>2. Place(p, r - 1) = IF x + 1 = Whole(p) THEN 0 ELSE x + 1
  BY <1>0, <1>1 DEF Place
<1> HIDE DEF x
<1>3. CASE x < Header
  <2>1. b = HEADER[x + 1] /\ x + 1 # Whole(p)
    BY <1>1, <1>3, <1>0, <1>a
  <2> QED BY <1>1, <1>2, <1>3, <2>1, <1>0 DEF Read
<1>4. CASE x = Header
  <2>1. b = p[1] /\ x + 1 # Whole(p)
    BY <1>1, <1>4, <1>0, <1>a
  <2> QED BY <1>1, <1>2, <1>4, <2>1, <1>0 DEF Read
<1>5. CASE x = Header + 1
  <2>1. b = p[2]
    BY <1>1, <1>5, <1>0, <1>a
  <2>2. x + 1 = Whole(p) <=> p[2] # "custom"
    BY <1>5, <1>0 DEF Whole
  <2> QED BY <1>1, <1>2, <1>5, <2>1, <2>2, <1>0 DEF Read
<1>6. CASE x >= Shortest
  <2>1. Whole(p) = Most
    BY <1>1, <1>6, <1>0
  <2> QED BY <1>1, <1>2, <1>6, <2>1, <1>0 DEF Read
<1> QED BY <1>1, <1>3, <1>4, <1>5, <1>6, <1>0

\* In a clean packet, a parser that is not in step has at least one byte less to
\* take for a command, or looks for a header that does not begin here.
LEMMA StepOut ==
  ASSUME NEW p \in Packets, Clean(p), NEW r \in 1 .. Whole(p),
         NEW b, b = Bytes(p)[Whole(p) - r + 1],
         NEW x \in 0 .. Most - 1, x # Place(p, r),
         x \in 1 .. Header - 1 => r = Whole(p)
  PROVE  /\ x < Header => Read(x, b) = 0
         /\ x >= Header => Rest(Read(x, b)) < Rest(x)
         /\ Read(x, b) \notin 1 .. Header - 1
<1>0. /\ Whole(p) \in {Shortest, Most} /\ Whole(p) \in Nat /\ Shortest = Header + 2
      /\ Header \in Nat \ {0} /\ LEDS \in Nat \ {0} /\ Most = Shortest + LEDS
  BY Lengths DEF Whole
<1> DEFINE n == Whole(p) - r
<1>1. Place(p, r) = n /\ n + 1 = Whole(p) - r + 1 /\ n \in 0 .. Whole(p) - 1 /\ x # n
  BY <1>0 DEF Place
<1>2. r = Whole(p) => n = 0
  BY <1>0
<1> HIDE DEF n
<1>3. /\ n < Header => b = HEADER[n + 1]
      /\ n >= Header => b # HEADER[1]
  <2>1. /\ n < Header => n + 1 \in 1 .. Header
        /\ n >= Header => n + 1 \in Header + 1 .. Whole(p)
    BY <1>0, <1>1
  <2> QED BY <1>1, <2>1, BytesAre
<1>4. ASSUME x < Header PROVE b # HEADER[x + 1]
  <2>1. x + 1 \in 1 .. Header
    BY <1>4, <1>0
  <2>2. CASE n < Header
    <3>1. n + 1 \in 1 .. Header /\ n + 1 # x + 1
      BY <1>1, <2>2, <1>0
    <3> QED BY <1>3, <2>1, <2>2, <3>1, ByteAssumption, Lengths
  <2>3. CASE n >= Header
    <3>1. x = 0
      BY <1>0, <1>1, <1>2, <1>4, <2>3
    <3> QED BY <1>3, <2>3, <3>1
  <2> QED BY <1>0, <1>1, <2>2, <2>3
<1>5. CASE x < Header
  BY <1>4, <1>5, <1>0 DEF Read
<1>6. CASE x >= Header
  BY <1>6, <1>0 DEF Read, Rest
<1> QED BY <1>5, <1>6, <1>0

\* The byte that the host sends next keeps the parser in step or, in a clean
\* packet, leaves it where it will be in step soon enough.
LEMMA Advance ==
  ASSUME NEW p \in Packets, NEW r \in 1 .. Whole(p),
         NEW b, b = Bytes(p)[Whole(p) - r + 1],
         NEW x \in 0 .. Most - 1, NEW n \in 0 .. Enough + 1, NEW m,
         x = Place(p, r) \/ Bound(x, p, r, n), x # Place(p, r) => Clean(p),
         m = IF r > 1 THEN n ELSE n + 1
  PROVE  \/ Read(x, b) = Place(p, r - 1) /\ (Read(x, b) = Header + 1 => b = p[1])
         \/ Bound(Read(x, b), p, r - 1, m)
<1>0. /\ Whole(p) \in {Shortest, Most} /\ Whole(p) \in Nat /\ Shortest = Header + 2
      /\ Header \in Nat \ {0} /\ LEDS \in Nat \ {0} /\ Most = Shortest + LEDS
  BY Lengths DEF Whole
<1>1. CASE x = Place(p, r)
  BY <1>1, StepInStep
<1>2. CASE x # Place(p, r)
  <2> DEFINE y == Read(x, b)
  <2>1. /\ n < Enough /\ Enough \in Nat /\ Rest(x) - r < Span(Enough - n - 1)
        /\ x \in 1 .. Header - 1 => r = Whole(p)
    BY <1>2, Sizes, <1>0 DEF Bound
  <2>2. /\ x < Header => y = 0
        /\ x >= Header => Rest(y) < Rest(x)
        /\ y \notin 1 .. Header - 1
    BY <1>2, <2>1, StepOut
  <2>3. y \in 0 .. Most - 1
    BY ReadIs
  <2>4. Rest(x) \in Nat /\ (x < Header => Rest(x) = 0) /\ Rest(0) = 0
        /\ Rest(y) \in Nat /\ (Rest(y) = 0 => y < Header)
    BY <2>3, Lengths DEF Rest
  <2>5. Rest(y) = 0 \/ Rest(y) <= Rest(x) - 1
    BY <2>2, <2>4, <1>0
  <2> HIDE DEF y, Rest
  <2>6. Enough - n - 1 \in Nat
    BY <2>1
  <2>7. Span(Enough - n - 1) \in Nat
    BY <2>6, Spans
  <2>8. CASE r > 1
    <3>1. Rest(y) - (r - 1) < Span(Enough - n - 1)
      BY <2>1, <2>4, <2>5, <2>7, <2>8
    <3> QED BY <2>1, <2>2, <2>8, <3>1, <1>0 DEF Bound, y
  <2>9. CASE r = 1
    <3>1. m = n + 1 /\ r - 1 = 0
      BY <2>9
    <3>2. CASE Enough - n - 1 = 0
      <4>1. Rest(y) = 0
        BY <2>1, <2>4, <2>5, <2>9, <3>2, Spans
      <4>2. y = 0
        BY <2>2, <2>3, <2>4, <4>1, <1>0
      <4> QED BY <3>1, <4>2, Lengths DEF Place, y
    <3>3. CASE Enough - n - 1 > 0
      <4> DEFINE k == Enough - n - 2
      <4>1. k \in Nat /\ Enough - n - 1 = k + 1 /\ Enough - m = k + 1 /\ m < Enough
        BY <2>1, <3>1, <3>3
      <4>2. Span(k + 1) > 0 /\ Span(k + 1) \in Nat
        <5>1. Span(k) \in Nat /\ Span(k + 1) = Span(k) + Shortest
          BY <4>1, Spans
        <5> QED BY <1>0, <5>1
      <4> HIDE DEF k
      <4>3. Rest(y) < Span(k + 1)
        BY <2>1, <2>4, <2>5, <2>9, <4>1, <4>2
      <4>4. Bound(y, p, 0, m)
        BY <4>1, <4>3 DEF Bound
      <4>5. Bound(y, p, r - 1, m)
        BY <3>1, <4>4
      <4> QED BY <4>5 DEF y
    <3> QED BY <2>1, <2>6, <3>2, <3>3
  <2> QED BY <2>8, <2>9, <1>0
<1> QED BY <1>1, <1>2
-----------------------------------------------------------------------------
\* Runs over the unread bytes u, from position x.

LEMMA RunExists ==
  ASSUME NEW S, NEW u \in Seq(S), NEW x \in 0 .. Most - 1
  PROVE  \E w : Run(w, x, u)
<1> DEFINE Upto(n, w) ==
      /\ w \in [0 .. n -> 0 .. Most - 1] /\ w[0] = x
      /\ \A i \in 1 .. n : w[i] = Read(w[i - 1], u[i])
    T == {n \in Nat : \E w : Upto(n, w)}
<1>1. Len(u) \in Nat
  BY LenProperties
<1>2. 0 \in T
  <2>1. Upto(0, [i \in 0 .. 0 |-> x])
    OBVIOUS
  <2> QED BY <2>1
<1>3. ASSUME NEW n \in 0 .. Len(u) - 1, n \in T PROVE n + 1 \in T
  <2>1. PICK w : Upto(n, w)
    BY <1>3
  <2> DEFINE v == [i \in 0 .. n + 1 |-> IF i = n + 1 THEN Read(w[n], u[n + 1]) ELSE w[i]]
  <2>2. Read(w[n], u[n + 1]) \in 0 .. Most - 1
    BY <1>1, <2>1, ReadIs
  <2>3. v \in [0 .. n + 1 -> 0 .. Most - 1] /\ v[0] = x
    BY <1>1, <2>1, <2>2
  <2>4. ASSUME NEW i \in 1 .. n + 1 PROVE v[i] = Read(v[i - 1], u[i])
    <3>1. CASE i = n + 1
      BY <1>1, <2>4, <3>1
    <3>2. CASE i \in 1 .. n
      BY <1>1, <2>1, <3>2
    <3> QED BY <1>1, <3>1, <3>2
  <2>5. Upto(n + 1, v)
    BY <2>3, <2>4
  <2> HIDE DEF v, Upto
  <2> QED BY <1>1, <2>5
<1>4. \A n \in 0 .. Len(u) : n \in T
  <2> HIDE DEF T
  <2> QED BY <1>1, <1>2, <1>3, IntervalInduction
<1>5. PICK w : Upto(Len(u), w)
  <2> HIDE DEF Upto
  <2> QED BY <1>1, <1>4
<1>6. Run(w, x, u)
  BY <1>1, <1>5 DEF Run
<1> QED BY <1>6

\* The run with one byte more.
Longer(w, u, b) == [i \in 0 .. Len(u) + 1 |->
  IF i = Len(u) + 1 THEN Read(w[Len(u)], b) ELSE w[i]]

LEMMA RunLonger ==
  ASSUME NEW S, NEW u \in Seq(S), NEW b \in S, NEW x, NEW w, Run(w, x, u)
  PROVE  Run(Longer(w, u, b), x, Append(u, b))
<1> DEFINE v == Longer(w, u, b)
<1>1. Len(u) \in Nat /\ Len(Append(u, b)) = Len(u) + 1 /\ Append(u, b)[Len(u) + 1] = b
      /\ \A i \in 1 .. Len(u) : Append(u, b)[i] = u[i]
  OBVIOUS
<1>2. w \in [0 .. Len(u) -> 0 .. Most - 1] /\ w[0] = x
      /\ \A i \in 1 .. Len(u) : w[i] = Read(w[i - 1], u[i])
  BY DEF Run
<1>3. Read(w[Len(u)], b) \in 0 .. Most - 1
  BY <1>1, <1>2, ReadIs
<1>4. v \in [0 .. Len(u) + 1 -> 0 .. Most - 1] /\ v[0] = x
  BY <1>1, <1>2, <1>3 DEF Longer
<1>5. ASSUME NEW i \in 1 .. Len(u) + 1 PROVE v[i] = Read(v[i - 1], Append(u, b)[i])
  <2>1. CASE i = Len(u) + 1
    <3>1. v[i] = Read(w[Len(u)], b) /\ i - 1 = Len(u) /\ v[i - 1] = w[Len(u)]
      BY <1>1, <2>1 DEF Longer
    <3> QED BY <1>1, <2>1, <3>1
  <2>2. CASE i \in 1 .. Len(u)
    <3>1. v[i] = w[i] /\ v[i - 1] = w[i - 1]
      BY <1>1, <2>2 DEF Longer
    <3> QED BY <1>1, <1>2, <2>2, <3>1
  <2> QED BY <1>1, <2>1, <2>2
<1> HIDE DEF v
<1>6. Run(v, x, Append(u, b))
  BY <1>1, <1>4, <1>5 DEF Run
<1> QED BY <1>6 DEF v

\* What is left of a run when k bytes are consumed.
Shorter(w, u, k) == [i \in 0 .. Len(u) - k |-> w[i + k]]

LEMMA RunShorter ==
  ASSUME NEW S, NEW u \in Seq(S), NEW k \in 0 .. Len(u), NEW x, NEW w, Run(w, x, u)
  PROVE  /\ Run(Shorter(w, u, k), w[k], SubSeq(u, k + 1, Len(u)))
         /\ Len(SubSeq(u, k + 1, Len(u))) = Len(u) - k
         /\ \A i \in 1 .. Len(u) - k : SubSeq(u, k + 1, Len(u))[i] = u[i + k]
<1> DEFINE v == Shorter(w, u, k)
           s == SubSeq(u, k + 1, Len(u))
<1>1. Len(u) \in Nat /\ k \in Nat
  BY LenProperties
<1>2. Len(s) = Len(u) - k /\ \A i \in 1 .. Len(u) - k : s[i] = u[i + k]
  BY <1>1, SubSeqProperties
<1>3. w \in [0 .. Len(u) -> 0 .. Most - 1]
      /\ \A i \in 1 .. Len(u) : w[i] = Read(w[i - 1], u[i])
  BY DEF Run
<1>4. v \in [0 .. Len(u) - k -> 0 .. Most - 1] /\ v[0] = w[k]
  BY <1>1, <1>3 DEF Shorter
<1>5. ASSUME NEW i \in 1 .. Len(u) - k PROVE v[i] = Read(v[i - 1], s[i])
  <2>1. v[i] = w[i + k] /\ v[i - 1] = w[i + k - 1] /\ i + k \in 1 .. Len(u)
    BY <1>1 DEF Shorter
  <2> QED BY <1>2, <1>3, <2>1
<1> HIDE DEF v, s
<1>6. Run(v, w[k], s)
  BY <1>2, <1>4, <1>5 DEF Run
<1> QED BY <1>2, <1>6 DEF v, s

\* A parser that waits for LED data takes all of it.
LEMMA RunOfLeds ==
  ASSUME NEW S, NEW u \in Seq(S), NEW w, Run(w, Shortest, u)
  PROVE  /\ \A i \in 0 .. Len(u) : i < LEDS => w[i] = Shortest + i
         /\ LEDS <= Len(u) => w[LEDS] = 0
<1> DEFINE T == {n \in Nat : n < LEDS => w[n] = Shortest + n}
<1>1. Len(u) \in Nat
  BY LenProperties
<1>2. w[0] = Shortest /\ \A i \in 1 .. Len(u) : w[i] = Read(w[i - 1], u[i])
  BY DEF Run
<1>3. 0 \in T
  BY <1>2, Lengths
<1>4. ASSUME NEW n \in 0 .. Len(u) - 1, n \in T PROVE n + 1 \in T
  <2>1. CASE n + 1 < LEDS
    <3>1. w[n] = Shortest + n /\ w[n + 1] = Read(w[n], u[n + 1])
      BY <1>1, <1>2, <1>4, <2>1, Lengths
    <3> QED BY <1>1, <2>1, <3>1, Lengths DEF Read
  <2> QED BY <1>1, <2>1
<1>5. \A n \in 0 .. Len(u) : n \in T
  <2> HIDE DEF T
  <2> QED BY <1>1, <1>3, <1>4, IntervalInduction
<1>6. ASSUME LEDS <= Len(u) PROVE w[LEDS] = 0
  <2>1. LEDS - 1 \in T /\ LEDS \in 1 .. Len(u)
    BY <1>1, <1>5, <1>6, Lengths
  <2>2. w[LEDS - 1] = Most - 1 /\ w[LEDS] = Read(w[LEDS - 1], u[LEDS])
    BY <1>2, <2>1, Lengths
  <2> QED BY <2>2, Lengths DEF Read
<1> QED BY <1>5, <1>6, Lengths
-----------------------------------------------------------------------------
\* No command to receive an image comes in a session of packets, and the machine
\* interface is not entered in one of images.
Kind == IF use = "packets" THEN Byte \ DOMAIN ImageSize ELSE Byte \ {"mi on"}
Sessions ==
  /\ unread \in Seq(Kind) /\ out \in Seq(Kind)
  /\ use = "packets" => ~receiving
  /\ use = "images" => ~mi

\* A command lives within one tick; packets are counted from the first one on.
Tasks ==
  /\ task # "parse" => command = <<>>
  /\ task = "parse" => mi
  /\ task = "boot" => receiving
  /\ mi /\ sending = None => since = 0

\* The host still has to send the end of packet p.
Sent(p) ==
  /\ sending = p[1] /\ (clean => Clean(p)) /\ Len(out) \in 0 .. Whole(p)
  /\ \A i \in 1 .. Len(out) : out[i] = Bytes(p)[Whole(p) - Len(out) + i]

\* Where the unread bytes will leave the parser: in step with packet p, or out of
\* step for some clean packets more.  Nothing is known of it within a packet that
\* is not clean: the count starts again at its end.
Ahead(p, w) ==
  LET x == w[Len(unread)]
  IN \/ x = Place(p, Len(out)) /\ (x = Header + 1 => unread[Len(unread)] = p[1])
     \/ /\ since < Enough
        /\ out = <<>> \/ clean => Bound(x, p, Len(out), since)

\* The command of p was read in this tick, or it has been executed.
Obeyed(p) ==
  IF command = <<>>
  THEN p[1] # "exit" /\ (p[1] = "enable charging" \/ ~disabled => effect = p[1])
  ELSE command[1] = p[1] /\ (p[1] = "exit" => command[2] = "exit")

\* Once a packet was received in step its command is the last one among the
\* unread bytes, or it is obeyed.
Ends(w, i) == w[i - 1] = Header + 1
Arrived(p) ==
  /\ IF out = <<>> THEN since > Enough ELSE since >= Enough
  /\ Len(out) <= Whole(p) - Shortest
Unread(p, w) ==
  \E i \in 2 .. Len(unread) :
    /\ Ends(w, i) /\ unread[i - 1] = p[1] /\ (p[1] = "exit" => unread[i] = "exit")
    /\ \A j \in i + 1 .. Len(unread) : ~Ends(w, j)
Newest(p, w) ==
  Arrived(p) => \/ Unread(p, w)
                \/ (\A j \in 1 .. Len(unread) : ~Ends(w, j)) /\ Obeyed(p)

Following(p, w) == Run(w, From(state), unread) /\ Ahead(p, w) /\ Newest(p, w)
Follows ==
  sending # None =>
    \E p \in Packets :
      Sent(p) /\ (mi => \E w : Following(p, w))

ParserInv == TypeOK /\ Sessions /\ Tasks /\ Follows

LEMMA Remaining ==
  ASSUME NEW S, NEW u \in Seq(S), NEW n \in Nat
  PROVE  SubSeq(u, n + 1, Len(u)) \in Seq(S)
<1>1. Len(u) \in Nat /\ \A i \in n + 1 .. Len(u) : u[i] \in S
  BY LenProperties, ElementOfSeq
<1> QED BY <1>1, SubSeqProperties

LEMMA SessionsNext ==
  ASSUME TypeOK, Sessions, Tasks, [Next]_vars
  PROVE  Sessions'
<1>1. use' = use
  BY TransmitterOnly DEF Next, vars, HostSends, Arrive, Lose, events_do, Tick, boot_event,
     Console, mi_event, Parse, Execute, At, Receives
<1>2. Kind' = Kind
  BY <1>1 DEF Kind
<1>3. CASE UNCHANGED <<unread, out, mi, receiving>>
  BY <1>1, <1>2, <1>3 DEF Sessions
<1>4. CASE HostSends
  <2>1. UNCHANGED <<unread, mi, receiving>>
    BY <1>4 DEF HostSends, boot
  <2>2. ASSUME NEW bytes \in Seq(Kind), NEW p, NEW counts, Sends(bytes, p, counts)
        PROVE  Sessions'
    BY <1>1, <1>2, <2>1, <2>2 DEF Sessions, Sends
  <2>3. ASSUME NEW l \in Lines, Sends(<<l, CR>>, None, FALSE) PROVE Sessions'
    <3>1. l \in Kind /\ CR \in Kind
      BY ByteAssumption DEF Lines, Kind, Byte, Word, CR, EOF, None
    <3>2. <<l, CR>> \in Seq(Kind)
      BY <3>1
    <3> QED BY <2>2, <2>3, <3>2
  <2>4. CASE Sends(<<"data">>, None, FALSE)
    <3>1. "data" \in Kind
      BY ByteAssumption DEF Kind, Byte, Word, CR, EOF, None
    <3>2. <<"data">> \in Seq(Kind)
      BY <3>1
    <3> QED BY <2>2, <2>4, <3>2
  <2>5. ASSUME mi, NEW p \in Packets,
               Sends(HEADER \o p, p[1], Clean(p))
        PROVE  Sessions'
    <3>1. Kind = Byte \ DOMAIN ImageSize
      BY <1>4, <2>5 DEF HostSends, Receives, Sessions, Kind, TypeOK
    <3>2. Bytes(p) \in Seq(Byte) /\ Len(Bytes(p)) = Whole(p)
      BY BytesOfPacket, BytesAre
    <3>3. ASSUME NEW i \in 1 .. Len(Bytes(p)) PROVE Bytes(p)[i] \notin DOMAIN ImageSize
      <4>1. CASE i \in 1 .. Header
        <5>1. HEADER[i] \in Range(HEADER) /\ Bytes(p)[i] = HEADER[i]
          BY <4>1, BytesAre, Lengths DEF Range
        <5> QED BY <5>1, ByteAssumption
      <4>2. CASE i \in Header + 1 .. Whole(p)
        <5>1. i - Header \in 1 .. Len(p) /\ Bytes(p)[i] = p[i - Header]
          <6>1. Whole(p) = Header + Len(p)
            BY BytesAre
          <6>2. p \in Seq(Byte)
            BY PacketIs
          <6>3. Len(p) \in Nat /\ Header \in Nat
            BY <6>2, LenProperties, Lengths
          <6>4. i - Header \in 1 .. Len(p)
            BY <4>2, <6>1, <6>3
          <6> QED BY <4>2, <6>4, BytesAre
        <5> QED BY <5>1, PacketIs
      <4> QED BY <3>2, <4>1, <4>2, Lengths
    <3>4. Bytes(p) \in Seq(Kind)
      <4> DEFINE B == Bytes(p)
      <4>1. \A i \in 1 .. Len(B) : B[i] \in Kind
        BY <3>1, <3>2, <3>3, ElementOfSeq
      <4> HIDE DEF B
      <4>2. B \in Seq(Byte)
        BY <3>2 DEF B
      <4>3. B \in Seq(Kind)
        BY <4>1, <4>2
      <4> QED BY <4>3 DEF B
    <3> QED BY <2>2, <2>5, <3>4 DEF Bytes
  <2> QED BY <1>4, <2>3, <2>4, <2>5 DEF HostSends
<1>5. CASE Arrive
  <2>1. /\ out # <<>> /\ out \in Seq(Kind) /\ unread \in Seq(Kind)
        /\ unread' = Append(unread, Head(out)) /\ out' = Tail(out) /\ UNCHANGED <<mi, receiving>>
    BY <1>5 DEF Arrive, Sessions, boot
  <2>2. Append(unread, Head(out)) \in Seq(Kind) /\ Tail(out) \in Seq(Kind)
    BY <2>1, HeadTailProperties, AppendProperties
  <2> QED BY <1>1, <1>2, <2>1, <2>2 DEF Sessions
<1>6. CASE Lose
  <2>1. PICK n \in 1 .. Len(out) : out' = SubSeq(out, n + 1, Len(out))
    BY <1>6 DEF Lose
  <2>2. out' \in Seq(Kind)
    <3>1. n \in Nat
      BY LenProperties DEF Sessions
    <3> QED BY <2>1, <3>1, Remaining DEF Sessions
  <2> QED BY <1>1, <1>2, <1>6, <2>2 DEF Lose, Sessions, boot
<1>7. CASE Tick \/ mi_event
  BY <1>3, <1>7 DEF Tick, mi_event, host, boot
<1>8. ASSUME NEW n \in Nat, Consume(n) PROVE unread' \in Seq(Kind)
  BY <1>8, Remaining DEF Sessions, Consume
<1>9. CASE boot_event
  <2>1. unread' = unread \/ Consume(Len(unread))
    BY <1>9 DEF boot_event, Timeout, Wait, Load
  <2>2. Len(unread) \in Nat
    BY LenProperties DEF Sessions
  <2>3. unread' \in Seq(Kind)
    BY <1>8, <2>1, <2>2 DEF Sessions
  <2>4. UNCHANGED <<out, mi>> /\ (receiving' => receiving)
    BY <1>9 DEF boot_event, host, Timeout, Wait, Load, At
  <2> QED BY <1>1, <1>2, <2>3, <2>4 DEF Sessions
<1>10. CASE Console
  <2>1. UNCHANGED out /\ ~mi
    BY <1>10 DEF Console, host
  <2>2. Len(unread) \in Nat /\ LINE - 1 \in Nat
    BY LenProperties, Sizes DEF Sessions
  <2>3. CASE \/ UNCHANGED <<unread, mi, boot>>
             \/ Consume(LINE - 1) /\ UNCHANGED <<mi, boot>>
    BY <1>1, <1>2, <1>8, <2>1, <2>2, <2>3 DEF Sessions, boot
  <2>4. ASSUME NEW n \in 0 .. Len(unread), LineOf(n), Consume(n + 1),
               Dispatch(SubSeq(unread, 1, n))
        PROVE  Sessions'
    <3> DEFINE line == SubSeq(unread, 1, n)
    <3>1. unread' \in Seq(Kind)
      <4>1. n + 1 \in Nat
        BY <2>2
      <4> QED BY <1>8, <2>4, <4>1
    <3>2. line \in Seq(Kind)
      <4>1. \A i \in 1 .. n : unread[i] \in Kind
        BY <2>2, ElementOfSeq DEF Sessions
      <4> QED BY <2>2, <4>1, SubSeqProperties DEF Sessions
    <3>3. line # <<>> => line[1] \in Kind
      BY <3>2
    <3>4. CASE use = "packets"
      <4>1. UNCHANGED boot
        BY <2>4, <3>3, <3>4 DEF Dispatch, Kind
      <4> QED BY <1>1, <1>2, <2>1, <3>1, <3>4, <4>1 DEF Sessions, boot
    <3>5. CASE use # "packets"
      <4>1. line # <<"mi on">>
        <5>1. "mi on" \notin Kind
          BY <3>5 DEF Kind
        <5>2. <<"mi on">>[1] = "mi on" /\ <<"mi on">> # <<>>
          OBVIOUS
        <5> HIDE DEF line
        <5> QED BY <3>3, <5>1, <5>2
      <4>2. UNCHANGED mi
        BY <2>4, <4>1 DEF Dispatch
      <4> QED BY <1>1, <1>2, <2>1, <3>1, <3>5, <4>2 DEF Sessions
    <3> QED BY <3>4, <3>5
  <2> QED BY <1>10, <2>3, <2>4 DEF Console
<1>11. CASE Parse
  <2>1. Consume(packet_size) /\ UNCHANGED <<out, mi, receiving>>
    BY <1>11 DEF Parse, host, boot
  <2>2. packet_size \in Nat
    BY Sizes DEF packet_size
  <2> QED BY <1>1, <1>2, <1>8, <2>1, <2>2 DEF Sessions
<1>12. CASE Execute
  <2>1. UNCHANGED <<unread, out, receiving>>
    BY <1>12 DEF Execute, host, boot
  <2>2. task = "parse"
    BY <1>12 DEF Execute, At
  <2> QED BY <1>1, <1>2, <2>1, <2>2 DEF Sessions, Tasks
<1>13. CASE armputchar \/ SendChar \/ EndOfTransmission \/ ReceiveInterrupt \/ UNCHANGED vars
  BY <1>3, <1>13, TransmitterOnly DEF host, boot
<1> QED BY <1>4, <1>5, <1>6, <1>7, <1>9, <1>10, <1>11, <1>12, <1>13 DEF Next, events_do

LEMMA TasksNext ==
  ASSUME TypeOK, BootInv, Sessions, Tasks, [Next]_vars
  PROVE  Tasks'
<1>1. CASE UNCHANGED <<task, command, mi, receiving, sending, since>>
  BY <1>1 DEF Tasks
<1>2. CASE HostSends
  <2>1. UNCHANGED <<task, command, mi, receiving, since>>
    BY <1>2 DEF HostSends, parser, boot
  <2>2. CASE ~mi
    BY <2>1, <2>2 DEF Tasks
  <2>3. CASE mi
    <3>1. ~receiving
      BY <1>2, <2>3 DEF HostSends, Receives, Sessions, TypeOK
    <3>2. PICK p \in Packets : sending' = p[1]
      BY <1>2, <2>3, <3>1 DEF HostSends, Sends
    <3>3. p[1] # None
      BY PacketIs
    <3> QED BY <2>1, <3>2, <3>3 DEF Tasks
  <2> QED BY <2>2, <2>3
<1>3. CASE Arrive \/ Lose
  <2>1. UNCHANGED <<task, command, mi, receiving, sending>>
    BY <1>3 DEF Arrive, Lose, parser, boot
  <2>2. sending = None => since' \in {0, since}
    BY <1>3 DEF Arrive, Lose, CountAnew
  <2> QED BY <2>1, <2>2 DEF Tasks
<1>4. CASE Tick \/ mi_event
  BY <1>4 DEF Tick, mi_event, At, host, parser, boot, count, Tasks
<1>5. CASE boot_event
  BY <1>5 DEF boot_event, Timeout, Wait, Load, At, host, parser, count, Tasks
<1>6. CASE Console
  <2>1. task' = "wait" /\ command' = command /\ ~mi /\ task = "ui"
    BY <1>6 DEF Console, parser, At
  <2>2. mi' = mi \/ since' = 0
    BY <1>6 DEF Console, Dispatch, CountAnew, count
  <2> QED BY <2>1, <2>2 DEF Tasks
<1>7. CASE Parse
  <2>1. UNCHANGED <<task, mi, receiving, sending>> /\ task = "parse" /\ since' \in {0, since}
    BY <1>7 DEF Parse, At, CountAnew, host, boot, count
  <2> QED BY <2>1 DEF Tasks
<1>8. CASE Execute
  BY <1>8 DEF Execute, At, host, count, Tasks
<1>9. CASE armputchar \/ SendChar \/ EndOfTransmission \/ ReceiveInterrupt \/ UNCHANGED vars
  BY <1>1, <1>9, TransmitterOnly DEF host, parser, boot, count
<1> QED BY <1>2, <1>3, <1>4, <1>5, <1>6, <1>7, <1>8, <1>9 DEF Next, events_do
-----------------------------------------------------------------------------
LEMMA FromIs ==
  ASSUME TypeOK
  PROVE  /\ From(state) \in 0 .. Most - 1 /\ From(state) # Header + 1
         /\ state = MOTORDATA => From(state) = Header
         /\ state < MOTORDATA => From(state) = state - 1 /\ From(state) < Header
         /\ state = LEDDATA => From(state) = Shortest
         /\ state \in Nat /\ (state < MOTORDATA \/ state = MOTORDATA \/ state = LEDDATA)
  BY Lengths DEF TypeOK, From

\* When the count of packets has started anew the parser may be anywhere.
LEMMA Anywhere ==
  TypeOK /\ since = 0 /\ ~clean => \A p \in Packets : \E w : Following(p, w)
<1> SUFFICES ASSUME TypeOK, since = 0, ~clean, NEW p \in Packets PROVE \E w : Following(p, w)
  OBVIOUS
<1>1. unread \in Seq(Byte) /\ Len(unread) \in Nat /\ Len(out) \in Nat
  BY LenProperties DEF TypeOK
<1>2. PICK w : Run(w, From(state), unread)
  BY <1>1, RunExists, FromIs
<1>3. w[Len(unread)] \in 0 .. Most - 1
  BY <1>1, <1>2 DEF Run
<1>4. Ahead(p, w)
  <2>1. Bound(w[Len(unread)], p, 0, 0) /\ 0 < Enough
    BY <1>3, ZeroBound DEF Bound
  <2>2. out = <<>> => Len(out) = 0
    BY EmptySeq
  <2> QED BY <2>1, <2>2 DEF Ahead
<1>5. ~Arrived(p)
  <2>1. 0 < Enough /\ Enough \in Nat
    BY <1>1, <1>3, ZeroBound, Sizes DEF Bound
  <2> QED BY <2>1 DEF Arrived
<1> QED BY <1>2, <1>4, <1>5 DEF Following, Newest

LEMMA AnywhereNext ==
  ASSUME TypeOK', since' = 0, ~clean'
  PROVE  \A p \in Packets : (\E w : Following(p, w))'
<1>1. (TypeOK /\ since = 0 /\ ~clean => \A p \in Packets : \E w : Following(p, w))'
  BY Anywhere, PTL
<1> QED BY <1>1

\* The steps that leave the line, the parser and the motors alone.
LEMMA FollowsSame ==
  ASSUME Follows,
         UNCHANGED <<unread, out, sending, since, clean, state, command, mi, disabled, effect>>
  PROVE  Follows'
<1>1. CASE sending = None
  BY <1>1 DEF Follows
<1>2. CASE sending # None
  <2>1. PICK p \in Packets :
          Sent(p) /\ (mi => \E w : Following(p, w))
    BY <1>2 DEF Follows
  <2>2. Sent(p)'
    BY <2>1 DEF Sent
  <2>3. ASSUME NEW w, Following(p, w) PROVE Following(p, w)'
    BY <2>3 DEF Following, Ahead, Newest, Arrived, Unread, Obeyed
  <2> QED BY <2>1, <2>2, <2>3 DEF Follows
<1> QED BY <1>1, <1>2

\* The steps that start to count packets anew, or leave the machine interface.
LEMMA FollowsAnew ==
  ASSUME TypeOK', Follows, UNCHANGED <<out, sending>>,
         clean' => clean, mi' => since' = 0 /\ ~clean'
  PROVE  Follows'
<1>1. CASE sending = None
  BY <1>1 DEF Follows
<1>2. CASE sending # None
  <2>1. PICK p \in Packets : Sent(p)
    BY <1>2 DEF Follows
  <2>2. Sent(p)'
    BY <2>1 DEF Sent
  <2> QED BY <2>2, AnywhereNext DEF Follows
<1> QED BY <1>1, <1>2

LEMMA FollowsSend ==
  ASSUME TypeOK, TypeOK', Sessions, Tasks, Follows, HostSends
  PROVE  Follows'
<1>1. UNCHANGED <<unread, mi, state, since>>
  BY DEF HostSends, parser
<1>2. CASE sending' = None
  BY <1>2 DEF Follows
<1>3. ASSUME mi, NEW p \in Packets, Sends(HEADER \o p, p[1], Clean(p))
      PROVE  Follows'
  <2>1. /\ out = <<>> /\ Len(out) = 0
        /\ out' = Bytes(p) /\ sending' = p[1] /\ clean' = Clean(p)
    BY <1>3, EmptySeq DEF Sends, Bytes
  <2>2. Len(out') = Whole(p) /\ Whole(p) \in Nat /\ Whole(p) >= Shortest
    BY <2>1, BytesAre, Lengths
  <2>3. Sent(p)'
    BY <2>1, <2>2 DEF Sent
  <2>4. PICK w : /\ Run(w, From(state), unread)
                 /\ w[Len(unread)] = 0 \/ Bound(w[Len(unread)], p, 0, since)
    <3>1. unread \in Seq(Byte) /\ Len(unread) \in Nat
      BY LenProperties DEF TypeOK
    <3>2. CASE sending = None
      <4>1. PICK w : Run(w, From(state), unread)
        BY <3>1, RunExists, FromIs
      <4>2. w[Len(unread)] \in 0 .. Most - 1 /\ since = 0
        BY <1>3, <3>1, <3>2, <4>1 DEF Run, Tasks
      <4> QED BY <4>1, <4>2, ZeroBound
    <3>3. CASE sending # None
      <4>0. PICK q \in Packets : \E w : Following(q, w)
        BY <1>3, <3>3 DEF Follows
      <4>1. PICK w : Following(q, w)
        BY <4>0
      <4> QED BY <2>1, <4>1 DEF Following, Ahead, Place, Bound
    <3> QED BY <3>2, <3>3
  <2> DEFINE x == w[Len(unread)]
  <2>5. Ahead(p, w)'
    <3>1. CASE x = 0
      <4>1. x = Place(p, Len(out'))
        BY <2>2, <3>1, Lengths DEF Place
      <4> QED BY <1>1, <3>1, <4>1, Lengths DEF Ahead
    <3>2. CASE Bound(x, p, 0, since)
      <4>1. since < Enough /\ Rest(x) < Span(Enough - since) /\ since \in Nat /\ Enough \in Nat
        BY <3>2, Sizes DEF Bound, TypeOK
      <4>2. Enough - since - 1 \in Nat /\ Enough - since = (Enough - since - 1) + 1
        BY <4>1
      <4>3. /\ Span(Enough - since) = Span(Enough - since - 1) + Shortest
            /\ Span(Enough - since - 1) \in Nat
        BY <4>2, Spans
      <4>4. Rest(x) \in Int
        <5>1. Len(unread) \in Nat
          BY LenProperties DEF TypeOK
        <5>2. x \in 0 .. Most - 1
          BY <2>4, <5>1 DEF Run
        <5> QED BY <5>2, Lengths DEF Rest
      <4>5. Rest(x) - Whole(p) < Span(Enough - since - 1)
        BY <2>2, <4>1, <4>3, <4>4, Lengths
      <4>6. Bound(x, p, Whole(p), since)
        BY <2>2, <4>1, <4>5, Lengths DEF Bound
      <4> QED BY <1>1, <2>2, <4>1, <4>6 DEF Ahead
    <3> QED BY <2>4, <3>1, <3>2
  <2>6. ~Arrived(p)'
    BY <2>2, Lengths DEF Arrived
  <2>7. Following(p, w)'
    BY <1>1, <2>4, <2>5, <2>6 DEF Following, Newest
  <2> QED BY <2>3, <2>7 DEF Follows
<1> QED BY <1>2, <1>3 DEF HostSends, Sends

LEMMA FollowsArrive ==
  ASSUME TypeOK, TypeOK', Tasks, Follows, Arrive
  PROVE  Follows'
<1>1. /\ UNCHANGED <<sending, clean, mi, state, command, disabled, effect>> /\ out # <<>>
      /\ unread' = Append(unread, Head(out)) /\ out' = Tail(out)
  BY DEF Arrive, parser
<1>2. CASE sending = None
  BY <1>1, <1>2 DEF Follows
<1>3. CASE sending # None
  <2>1. PICK p \in Packets :
          Sent(p) /\ (mi => \E w : Following(p, w))
    BY <1>3 DEF Follows
  <2> DEFINE r == Len(out)
             b == Head(out)
  <2>2. /\ out \in Seq(Byte) /\ r \in Nat \ {0} /\ b = out[1] /\ Len(out') = r - 1
        /\ \A i \in 1 .. r - 1 : out'[i] = out[i + 1]
        /\ unread \in Seq(Byte) /\ Len(unread) \in Nat /\ b \in Byte
    <3>1. out \in Seq(Byte) /\ unread \in Seq(Byte)
      BY DEF TypeOK
    <3>2. r \in Nat \ {0} /\ b = out[1] /\ b \in Byte
      BY <1>1, <3>1, EmptySeq, LenProperties, HeadTailProperties, ElementOfSeq
    <3>3. Len(out') = r - 1 /\ \A i \in 1 .. r - 1 : out'[i] = out[i + 1]
      BY <1>1, <3>1, HeadTailProperties
    <3> QED BY <3>1, <3>2, <3>3, LenProperties
  <2>3. r \in 1 .. Whole(p) /\ b = Bytes(p)[Whole(p) - r + 1] /\ Whole(p) \in Nat
    BY <2>1, <2>2, Lengths DEF Sent, Whole
  <2>4. Sent(p)'
    <3>1. ASSUME NEW i \in 1 .. r - 1
          PROVE  out'[i] = Bytes(p)[Whole(p) - (r - 1) + i]
      <4>1. out[i + 1] = Bytes(p)[Whole(p) - r + (i + 1)]
        BY <2>1, <2>2 DEF Sent
      <4>2. Whole(p) - r + (i + 1) = Whole(p) - (r - 1) + i
        BY <2>2, <2>3
      <4> QED BY <2>2, <4>1, <4>2
    <3> QED BY <1>1, <2>1, <2>2, <2>3, <3>1 DEF Sent
  <2>5. CASE ~mi
    BY <1>1, <2>4, <2>5 DEF Follows
  <2>6. ASSUME mi, NEW w, Following(p, w) PROVE (\E v : Following(p, v))'
    <3> DEFINE x == w[Len(unread)]
               y == Read(x, b)
    <3>0. PICK v : v = Longer(w, unread, b)
      OBVIOUS
    <3>1. Run(w, From(state), unread) /\ Ahead(p, w) /\ Newest(p, w) /\ x \in 0 .. Most - 1
      <4>1. Run(w, From(state), unread) /\ Ahead(p, w) /\ Newest(p, w)
        BY <2>6 DEF Following
      <4>2. Len(unread) \in 0 .. Len(unread)
        BY <2>2
      <4>3. x \in 0 .. Most - 1
        BY <4>1, <4>2 DEF Run
      <4> QED BY <4>1, <4>3
    <3>2. Run(v, From(state'), unread')
      BY <1>1, <2>2, <3>0, <3>1, RunLonger
    <3>3. /\ Len(unread') = Len(unread) + 1 /\ unread'[Len(unread) + 1] = b
          /\ \A i \in 1 .. Len(unread) : unread'[i] = unread[i]
          /\ v[Len(unread) + 1] = y /\ \A i \in 0 .. Len(unread) : v[i] = w[i]
      BY <1>1, <2>2, <3>0 DEF Longer
    <3>4. since' = IF r > 1 \/ since > Enough THEN since
                   ELSE IF clean \/ since = Enough THEN since + 1 ELSE 0
      <4>1. out' = <<>> <=> r = 1
        BY <1>1, <2>2, EmptySeq
      <4> QED BY <1>3, <2>2, <4>1 DEF Arrive
    <3>5. since \in 0 .. Enough + 1 /\ Enough \in Nat
      BY Sizes DEF TypeOK
    <3>6. y \in 0 .. Most - 1 /\ out # <<>> /\ Len(out') = r - 1 /\ (out' = <<>> <=> r = 1)
      BY <1>1, <2>2, <3>1, ReadIs, EmptySeq
    <3>7. \/ y = Place(p, r - 1) /\ (y = Header + 1 => b = p[1])
          \/ since' < Enough /\ (out' = <<>> \/ clean => Bound(y, p, r - 1, since'))
      <4> HIDE DEF x, r, b
      <4>1. b = Bytes(p)[Whole(p) - r + 1] /\ r \in 1 .. Whole(p) /\ x \in 0 .. Most - 1
        BY <2>3, <3>1
      <4>2. CASE x = Place(p, r)
        BY <4>1, <4>2, StepInStep
      <4>3. CASE since < Enough /\ clean /\ Bound(x, p, r, since)
        <5>1. Clean(p)
          BY <2>1, <4>3 DEF Sent
        <5>2. since' = IF r > 1 THEN since ELSE since + 1
          BY <3>4, <3>5, <4>3
        <5>3. \/ y = Place(p, r - 1) /\ (y = Header + 1 => b = p[1])
              \/ Bound(y, p, r - 1, since')
          BY <3>5, <4>1, <4>3, <5>1, <5>2, Advance
        <5> QED BY <5>3 DEF Bound
      <4>4. CASE since < Enough /\ ~clean
        <5>1. CASE r = 1
          <6>1. since' = 0 /\ r - 1 = 0
            BY <3>4, <3>5, <4>4, <5>1
          <6>2. Bound(y, p, 0, 0)
            BY <3>6, ZeroBound
          <6> QED BY <6>1, <6>2 DEF Bound
        <5>2. CASE r # 1
          BY <3>4, <3>6, <4>1, <4>4, <5>2
        <5> QED BY <5>1, <5>2
      <4> QED BY <3>1, <3>6, <4>2, <4>3, <4>4 DEF Ahead, x, r
    <3>8. Ahead(p, v)'
      <4> HIDE DEF y, b
      <4>1. /\ v[Len(unread')] = y /\ unread'[Len(unread')] = b
            /\ Len(out') = r - 1 /\ clean' = clean
        BY <1>1, <2>2, <3>3
      <4> HIDE DEF r
      <4> QED BY <3>7, <4>1 DEF Ahead
    <3> HIDE DEF y
    <3>9. Newest(p, v)'
      <4> SUFFICES ASSUME Arrived(p)'
                   PROVE  \/ Unread(p, v)'
                          \/ (\A j \in 1 .. Len(unread') : ~Ends(v, j)) /\ Obeyed(p)'
        BY DEF Newest
      <4>1. since >= Enough /\ r - 1 <= Whole(p) - Shortest
        BY <2>2, <3>4, <3>5, EmptySeq DEF Arrived
      <4>2. x = Place(p, r) /\ (x = Header + 1 => unread[Len(unread)] = p[1])
        BY <3>1, <3>5, <4>1 DEF Ahead
      <4>3. x = Whole(p) - r /\ x >= Header + 1
        <5> HIDE DEF x, r, b
        <5>1. r >= 1 /\ r \in Nat /\ Whole(p) \in Nat
          BY <2>3
        <5>2. Whole(p) - r >= Header + 1 /\ Whole(p) - r \in Nat /\ Header \in Nat
          BY <4>1, <5>1, Lengths
        <5>3. r # 0
          BY <5>1
        <5>4. x = Whole(p) - r
          BY <4>2, <5>3 DEF Place
        <5> QED BY <5>2, <5>4
      <4>4. \A j \in 1 .. Len(unread) : Ends(v, j) <=> Ends(w, j)
        BY <2>2, <3>3 DEF Ends
      <4>5. Ends(v, Len(unread) + 1) <=> x = Header + 1
        <5>1. v[Len(unread) + 1 - 1] = x
          BY <2>2, <3>3
        <5> QED BY <5>1 DEF Ends
      <4>6. CASE x = Header + 1
        <5>1. Len(unread) # 0
          BY <3>1, <4>6, FromIs DEF Run
        <5>2. p[1] = "exit" => b = "exit"
          <6>1. b = p[2]
            BY <2>3, <4>3, <4>6, BytesAre, Lengths
          <6> QED BY <6>1, PacketIs
        <5>3. Len(unread) + 1 \in 2 .. Len(unread')
          BY <2>2, <3>3, <5>1
        <5>4. unread'[(Len(unread) + 1) - 1] = p[1]
          BY <2>2, <3>3, <4>2, <4>6, <5>1
        <5> QED BY <2>2, <3>3, <4>5, <4>6, <5>2, <5>3, <5>4 DEF Unread
      <4>7. CASE x > Header + 1
        <5>1. Arrived(p)
          BY <2>2, <2>3, <4>1, <4>3, <4>7, EmptySeq, Lengths DEF Arrived
        <5>2. ~Ends(v, Len(unread) + 1)
          BY <3>1, <4>5, <4>7, Lengths
        <5>3. CASE Unread(p, w)
          <6>1. PICK i \in 2 .. Len(unread) :
                  /\ Ends(w, i) /\ unread[i - 1] = p[1] /\ (p[1] = "exit" => unread[i] = "exit")
                  /\ \A j \in i + 1 .. Len(unread) : ~Ends(w, j)
            BY <5>3 DEF Unread
          <6>2. /\ i \in 2 .. Len(unread') /\ Ends(v, i)
                /\ unread'[i - 1] = p[1] /\ (p[1] = "exit" => unread'[i] = "exit")
            <7>1. i \in 1 .. Len(unread) /\ i - 1 \in 1 .. Len(unread) /\ i \in 2 .. Len(unread')
              BY <2>2, <3>3
            <7> QED BY <3>3, <4>4, <6>1, <7>1
          <6>3. \A j \in i + 1 .. Len(unread') : ~Ends(v, j)
            <7>1. ASSUME NEW j \in i + 1 .. Len(unread') PROVE ~Ends(v, j)
              <8>1. j = Len(unread) + 1 \/ (j \in 1 .. Len(unread) /\ j \in i + 1 .. Len(unread))
                <9>1. Len(unread) \in Nat /\ Len(unread') = Len(unread) + 1
                  BY <2>2, <3>3
                <9> QED BY <9>1
              <8> QED BY <4>4, <5>2, <6>1, <8>1
            <7> QED BY <7>1
          <6> QED BY <6>2, <6>3 DEF Unread
        <5>4. CASE (\A j \in 1 .. Len(unread) : ~Ends(w, j)) /\ Obeyed(p)
          <6>1. \A j \in 1 .. Len(unread') : ~Ends(v, j)
            BY <2>2, <3>3, <4>4, <5>2, <5>4
          <6> QED BY <1>1, <5>4, <6>1 DEF Obeyed
        <5> QED BY <3>1, <5>1, <5>3, <5>4 DEF Newest
      <4> QED BY <3>1, <4>3, <4>6, <4>7, Lengths
    <3> QED BY <3>2, <3>8, <3>9 DEF Following
  <2> QED BY <1>1, <2>1, <2>4, <2>5, <2>6 DEF Follows
<1> QED BY <1>2, <1>3

LEMMA FollowsLose ==
  ASSUME TypeOK, TypeOK', Follows, Lose
  PROVE  Follows'
<1>1. PICK n \in 1 .. Len(out) : out' = SubSeq(out, n + 1, Len(out))
  BY DEF Lose
<1>2. UNCHANGED <<sending, mi>> /\ since' = 0 /\ clean' = FALSE
  BY DEF Lose, CountAnew
<1>3. CASE sending = None
  BY <1>2, <1>3 DEF Follows
<1>4. CASE sending # None
  <2>1. PICK p \in Packets : Sent(p)
    BY <1>4 DEF Follows
  <2>2. Len(out) \in Nat /\ out \in Seq(Byte) /\ Whole(p) \in Nat
    BY LenProperties, Lengths DEF TypeOK, Whole
  <2>3. Len(out') = Len(out) - n /\ \A i \in 1 .. Len(out') : out'[i] = out[i + n]
    BY <1>1, <2>2, SubSeqProperties
  <2>4. ASSUME NEW i \in 1 .. Len(out')
        PROVE  out'[i] = Bytes(p)[Whole(p) - Len(out') + i]
    <3>1. out[i + n] = Bytes(p)[Whole(p) - Len(out) + (i + n)]
      BY <2>1, <2>2, <2>3 DEF Sent
    <3>2. Whole(p) - Len(out) + (i + n) = Whole(p) - Len(out') + i
      BY <2>2, <2>3
    <3> QED BY <2>3, <3>1, <3>2
  <2>5. Sent(p)'
    BY <1>2, <2>1, <2>2, <2>3, <2>4 DEF Sent
  <2> QED BY <1>2, <2>5, AnywhereNext DEF Follows
<1> QED BY <1>3, <1>4

\* One turn of the parser: it takes from the run what it consumes, and the mode
\* it reads is the command.
LEMMA FollowsParse ==
  ASSUME TypeOK, TypeOK', Follows, Parse
  PROVE  Follows'
<1>1. /\ UNCHANGED <<out, sending, mi, disabled, effect>> /\ Consume(packet_size)
      /\ ParseHeader \/ ParseMotor \/ ParseLeds
      /\ IF packet_size > Len(unread) THEN since' = 0 /\ clean' = FALSE
         ELSE UNCHANGED <<since, clean>>
  BY DEF Parse, CountAnew, host, count
<1>2. CASE packet_size > Len(unread)
  BY <1>1, <1>2, FollowsAnew
<1>3. CASE sending = None
  BY <1>1, <1>3 DEF Follows
<1>4. CASE packet_size <= Len(unread) /\ sending # None
  <2>1. PICK p \in Packets :
          Sent(p) /\ (mi => \E w : Following(p, w))
    BY <1>4 DEF Follows
  <2>2. Sent(p)'
    BY <1>1, <2>1 DEF Sent
  <2>3. CASE ~mi
    BY <1>1, <2>2, <2>3 DEF Follows
  <2>4. ASSUME NEW w, Following(p, w) PROVE (\E v : Following(p, v))'
    <3>1. PICK k : k = packet_size
      OBVIOUS
    <3>2. PICK v : v = Shorter(w, unread, k)
      OBVIOUS
    <3>3. /\ unread \in Seq(Byte) /\ Len(unread) \in Nat /\ k \in 1 .. Len(unread)
          /\ unread' = SubSeq(unread, k + 1, Len(unread)) /\ UNCHANGED <<since, clean>>
      <4>1. unread \in Seq(Byte) /\ Len(unread) \in Nat
        BY LenProperties DEF TypeOK
      <4>2. k \in Nat \ {0}
        BY <3>1, Lengths DEF packet_size
      <4> QED BY <1>1, <1>4, <3>1, <4>1, <4>2 DEF Consume
    <3>4. /\ Run(w, From(state), unread) /\ w[0] = From(state)
          /\ w \in [0 .. Len(unread) -> 0 .. Most - 1]
          /\ \A i \in 1 .. Len(unread) : w[i] = Read(w[i - 1], unread[i])
      BY <2>4 DEF Following, Run
    <3>5. /\ Run(v, w[k], unread') /\ Len(unread') = Len(unread) - k
          /\ \A i \in 1 .. Len(unread) - k : unread'[i] = unread[i + k]
          /\ \A i \in 0 .. Len(unread) - k : v[i] = w[i + k]
      <4>1. \A i \in 0 .. Len(unread) - k : v[i] = w[i + k]
        BY <3>2 DEF Shorter
      <4>2. k \in 0 .. Len(unread)
        BY <3>3
      <4>3. /\ Run(Shorter(w, unread, k), w[k], SubSeq(unread, k + 1, Len(unread)))
            /\ Len(SubSeq(unread, k + 1, Len(unread))) = Len(unread) - k
            /\ \A i \in 1 .. Len(unread) - k :
                 SubSeq(unread, k + 1, Len(unread))[i] = unread[i + k]
        BY <3>3, <3>4, <4>2, RunShorter
      <4> QED BY <3>2, <3>3, <4>1, <4>3
    \* What each part of a packet does, and which of its bytes ends a command.
    <3>6. /\ w[k] = From(state') /\ w[k] # Header + 1
          /\ \A i \in 1 .. k : Ends(w, i) => state = MOTORDATA /\ i = 2
          /\ IF state = MOTORDATA
             THEN k = 2 /\ Ends(w, 2) /\ command' = <<unread[1], unread[2]>>
             ELSE command' = command
      <4>1. CASE ParseHeader
        <5>1. k = 1 /\ state < MOTORDATA /\ command' = command
          BY <3>1, <4>1, Lengths, FromIs DEF ParseHeader, packet_size
        <5>2. /\ w[0] = state - 1 /\ w[0] < Header /\ w[1] = Read(w[0], unread[1])
              /\ Got(1) = unread[1] /\ state \in Nat
          BY <3>3, <3>4, <5>1, FromIs DEF Got
        <5>3. w[1] = state' - 1 /\ w[1] <= Header /\ state' < LEDDATA
          BY <4>1, <5>1, <5>2, Lengths, FromIs DEF ParseHeader, Read
        <5>4. w[1] = From(state')
          BY <5>3, Lengths DEF From
        <5> QED BY <5>1, <5>2, <5>3, <5>4, Lengths DEF Ends
      <4>2. CASE ParseMotor
        <5>1. k = 2 /\ state = MOTORDATA
          BY <3>1, <4>2 DEF ParseMotor, packet_size
        <5>2. /\ w[0] = Header /\ w[1] = Read(w[0], unread[1]) /\ w[2] = Read(w[1], unread[2])
              /\ Got(1) = unread[1] /\ Got(2) = unread[2]
          BY <3>3, <3>4, <5>1, FromIs DEF Got
        <5>3. w[1] = Header + 1 /\ w[2] = IF unread[2] = "custom" THEN Shortest ELSE 0
          BY <5>2, Lengths DEF Read
        <5>4. w[2] = From(state')
          BY <4>2, <5>2, <5>3, Lengths DEF From, ParseMotor
        <5> QED BY <4>2, <5>1, <5>2, <5>3, <5>4, Lengths DEF Ends, ParseMotor
      <4>3. CASE ParseLeds
        <5>1. k = LEDS /\ state = LEDDATA /\ state' = 1 /\ command' = command
          BY <3>1, <4>3, Lengths DEF ParseLeds, packet_size
        <5>2. Run(w, Shortest, unread)
          BY <3>4, <5>1, FromIs
        <5>3. w[k] = 0 /\ \A i \in 0 .. k - 1 : w[i] = Shortest + i
          BY <3>3, <5>1, <5>2, RunOfLeds
        <5>4. ASSUME NEW i \in 1 .. k PROVE ~Ends(w, i)
          BY <3>3, <5>3, Lengths DEF Ends
        <5>5. From(state') = 0 /\ state # MOTORDATA
          BY <5>1, Lengths DEF From
        <5> QED BY <5>1, <5>3, <5>4, <5>5, Lengths
      <4> QED BY <1>1, <4>1, <4>2, <4>3
    <3>7. Ahead(p, v)'
      <4>1. v[Len(unread')] = w[Len(unread)]
        BY <3>3, <3>5
      <4>2. ASSUME w[Len(unread)] = Header + 1 PROVE unread'[Len(unread')] = unread[Len(unread)]
        <5>1. Len(unread) # k
          BY <3>6, <4>2
        <5>2. Len(unread) - k \in 1 .. Len(unread) - k /\ (Len(unread) - k) + k = Len(unread)
          BY <3>3, <5>1
        <5> QED BY <3>5, <5>2
      <4> QED BY <1>1, <2>4, <3>3, <4>1, <4>2 DEF Following, Ahead
    <3>8. Newest(p, v)'
      <4> SUFFICES ASSUME Arrived(p)'
                   PROVE  \/ Unread(p, v)'
                          \/ (\A j \in 1 .. Len(unread') : ~Ends(v, j)) /\ Obeyed(p)'
        BY DEF Newest
      <4>1. Arrived(p)
        BY <1>1, <3>3 DEF Arrived
      <4>2. ASSUME NEW j \in 1 .. Len(unread') PROVE Ends(v, j) <=> Ends(w, j + k)
        <5>1. v[j - 1] = w[(j + k) - 1]
          <6>1. j - 1 \in 0 .. Len(unread) - k /\ (j - 1) + k = (j + k) - 1
            BY <3>3, <3>5, <4>2
          <6> QED BY <3>5, <6>1
        <5> QED BY <5>1, Zenon DEF Ends
      <4>3. CASE Unread(p, w)
        <5>1. PICK i \in 2 .. Len(unread) :
                /\ Ends(w, i) /\ unread[i - 1] = p[1] /\ (p[1] = "exit" => unread[i] = "exit")
                /\ \A j \in i + 1 .. Len(unread) : ~Ends(w, j)
          BY <4>3 DEF Unread
        <5>2. CASE i <= k
          <6>1. i = 2 /\ k = 2 /\ command' = <<unread[1], unread[2]>>
            BY <3>3, <3>6, <5>1, <5>2
          <6>2. Obeyed(p)'
            BY <5>1, <6>1 DEF Obeyed
          <6>3. ASSUME NEW j \in 1 .. Len(unread') PROVE ~Ends(v, j)
            <7>1. j + k \in i + 1 .. Len(unread)
              BY <3>3, <3>5, <6>1
            <7> QED BY <4>2, <5>1, <7>1
          <6> QED BY <6>2, <6>3
        <5>3. CASE i > k
          <6>1. i - k # 1
            BY <3>3, <3>6, <5>1 DEF Ends
          <6>2. i - k \in 2 .. Len(unread') /\ i - k \in 1 .. Len(unread')
            BY <3>3, <3>5, <5>1, <5>3, <6>1
          <6>3. Ends(v, i - k)
            <7>1. (i - k) + k = i
              BY <3>3
            <7> QED BY <4>2, <5>1, <6>2, <7>1
          <6>4. unread'[i - k - 1] = unread[i - 1] /\ unread'[i - k] = unread[i]
            BY <3>3, <3>5, <6>2
          <6>5. ASSUME NEW j \in i - k + 1 .. Len(unread') PROVE ~Ends(v, j)
            <7>1. j + k \in i + 1 .. Len(unread) /\ j \in 1 .. Len(unread')
              BY <3>3, <3>5, <5>3
            <7> QED BY <4>2, <5>1, <7>1
          <6>6. PICK h : h = i - k
            OBVIOUS
          <6>7. Unread(p, v)'
            BY <5>1, <6>2, <6>3, <6>4, <6>5, <6>6 DEF Unread
          <6> QED BY <6>7
        <5> QED BY <3>3, <5>2, <5>3
      <4>4. CASE (\A j \in 1 .. Len(unread) : ~Ends(w, j)) /\ Obeyed(p)
        <5>1. command' = command
          BY <3>3, <3>6, <4>4
        <5>2. Obeyed(p)'
          BY <1>1, <4>4, <5>1 DEF Obeyed
        <5>3. ASSUME NEW j \in 1 .. Len(unread') PROVE ~Ends(v, j)
          <6>1. j + k \in 1 .. Len(unread)
            BY <3>3, <3>5
          <6> QED BY <4>2, <4>4, <6>1
        <5> QED BY <5>2, <5>3
      <4> QED BY <2>4, <4>1, <4>3, <4>4 DEF Following, Newest
    <3>9. Run(v, From(state'), unread')
      BY <3>5, <3>6
    <3> QED BY <3>7, <3>8, <3>9 DEF Following
  <2> QED BY <1>1, <2>1, <2>2, <2>3, <2>4 DEF Follows
<1>5. packet_size \in Nat /\ Len(unread) \in Nat
  BY Sizes, LenProperties DEF packet_size, TypeOK
<1> QED BY <1>2, <1>3, <1>4, <1>5

LEMMA FollowsExecute ==
  ASSUME TypeOK, TypeOK', Tasks, Follows, Execute
  PROVE  Follows'
<1>1. /\ UNCHANGED <<unread, out, sending, since, clean, state, disabled>>
      /\ command' = <<>>
      /\ mi' = (command # <<"exit", "exit">>)
      /\ effect' = (IF command = <<>> THEN effect ELSE Motors)
      /\ mi /\ \E n \in Counts : n < packet_size
  BY Zenon DEF Execute, At, Tasks, host, parser, count
<1>2. CASE sending = None
  BY <1>1, <1>2 DEF Follows
<1>3. CASE sending # None
  <2>0. PICK p \in Packets :
          Sent(p) /\ \E w : Following(p, w)
    BY <1>1, <1>3 DEF Follows
  <2>1. PICK w : Sent(p) /\ Following(p, w)
    BY <2>0
  <2>2. Sent(p)'
    BY <1>1, <2>1 DEF Sent
  <2>3. CASE command = <<"exit", "exit">>
    BY <1>1, <2>2, <2>3 DEF Follows
  <2>4. CASE command # <<"exit", "exit">>
    <3>1. unread \in Seq(Byte) /\ Len(unread) \in Nat /\ Len(unread) < packet_size
      <4>1. unread \in Seq(Byte) /\ Len(unread) \in Nat
        BY LenProperties DEF TypeOK
      <4>2. packet_size \in Nat
        BY Lengths DEF packet_size
      <4>3. PICK n \in Counts : n < packet_size
        BY <1>1
      <4>4. n \in {Len(unread), Len(unread) + 1}
        BY <4>3, EmptySeq DEF Counts
      <4> QED BY <4>1, <4>2, <4>3, <4>4
    <3>2. Run(w, From(state), unread) /\ w[0] = From(state)
      BY <2>1 DEF Following, Run
    \* Too few bytes are left for a command.
    <3>3. ASSUME NEW j \in 1 .. Len(unread) PROVE ~Ends(w, j)
      <4>1. CASE state = MOTORDATA
        <5>1. j - 1 = 0
          BY <3>1, <3>3, <4>1 DEF packet_size
        <5> QED BY <3>2, <4>1, <5>1, FromIs DEF Ends
      <4>2. CASE state = LEDDATA
        <5>1. packet_size = LEDS
          BY <4>2, Lengths DEF packet_size
        <5>2. Run(w, Shortest, unread)
          BY <3>2, <4>2, FromIs
        <5>3. \A i \in 0 .. Len(unread) : i < LEDS => w[i] = Shortest + i
          BY <3>1, <5>2, RunOfLeds
        <5>4. w[j - 1] = Shortest + (j - 1)
          BY <3>1, <5>1, <5>3, Lengths
        <5> QED BY <3>1, <5>4, Lengths DEF Ends
      <4>3. CASE state < MOTORDATA
        <5>1. packet_size = 1
          BY <4>3, FromIs, Lengths DEF packet_size
        <5> QED BY <3>1, <5>1
      <4> QED BY <4>1, <4>2, <4>3, FromIs
    <3>4. ASSUME Arrived(p) PROVE Obeyed(p)'
      <4>1. Obeyed(p)
        <5>1. ~Unread(p, w)
          <6>1. ASSUME NEW i \in 2 .. Len(unread) PROVE ~Ends(w, i)
            BY <3>1, <3>3
          <6> QED BY <6>1 DEF Unread
        <5> QED BY <2>1, <3>4, <5>1 DEF Following, Newest
      <4>2. CASE command = <<>>
        BY <1>1, <4>1, <4>2 DEF Obeyed
      <4>3. CASE command # <<>>
        <5>1. command[1] = p[1] /\ (p[1] = "exit" => command[2] = "exit")
          BY <4>1, <4>3 DEF Obeyed
        <5>2. command \in Byte \X (Byte \cup {EOF})
          BY <4>3 DEF TypeOK
        <5>3. p[1] # "exit" /\ p[1] \in Command
          <6>1. CASE p[1] = "exit"
            <7>1. command = <<"exit", "exit">>
              BY <5>1, <5>2, <6>1
            <7> QED BY <2>4, <7>1
          <6> QED BY <6>1, PacketIs
        <5>4. effect' = IF p[1] # "enable charging" /\ disabled THEN effect ELSE p[1]
          BY <1>1, <4>3, <5>1, <5>3 DEF Motors
        <5> QED BY <1>1, <5>3, <5>4 DEF Obeyed
      <4> QED BY <4>2, <4>3
    <3>5. Arrived(p)' <=> Arrived(p)
      BY <1>1 DEF Arrived
    <3>6. Newest(p, w)'
      BY <1>1, <3>3, <3>4, <3>5 DEF Newest
    <3>7. Ahead(p, w)'
      BY <1>1, <2>1 DEF Following, Ahead
    <3>8. Following(p, w)'
      BY <1>1, <3>2, <3>6, <3>7 DEF Following
    <3> QED BY <2>2, <3>8 DEF Follows
  <2> QED BY <2>3, <2>4
<1> QED BY <1>2, <1>3

LEMMA FollowsNext ==
  ASSUME TypeOK, TypeOK', BootInv, Sessions, Tasks, Follows, [Next]_vars
  PROVE  Follows'
<1>1. CASE Tick \/ mi_event
  BY <1>1, FollowsSame DEF Tick, mi_event, host, parser, count
<1>2. CASE boot_event
  <2>1. ~mi
    BY <1>2 DEF boot_event, At, Receives, Tasks, Sessions, TypeOK
  <2>2. UNCHANGED <<out, sending, clean, mi>>
    BY <1>2 DEF boot_event, host, count
  <2> QED BY <2>1, <2>2, FollowsAnew
<1>3. CASE Console
  <2>1. UNCHANGED <<out, sending>> /\ ~mi
    BY <1>3 DEF Console, host
  <2>2. (clean' => clean) /\ (mi' => since' = 0 /\ ~clean')
    BY <1>3, <2>1 DEF Console, Dispatch, CountAnew, count
  <2> QED BY <2>1, <2>2, FollowsAnew
<1>4. CASE armputchar \/ SendChar \/ EndOfTransmission \/ ReceiveInterrupt \/ UNCHANGED vars
  BY <1>4, TransmitterOnly, FollowsSame DEF host, parser, count
<1> QED BY <1>1, <1>2, <1>3, <1>4, FollowsSend, FollowsArrive, FollowsLose, FollowsParse,
           FollowsExecute DEF Next, events_do

LEMMA ParserInvariance == Spec => [](IInv /\ ParserInv)
<1>1. Init => ParserInv
  <2> SUFFICES ASSUME Init PROVE ParserInv
    OBVIOUS
  <2>1. TypeOK
    BY InitInv DEF IInv
  <2>2. Sessions /\ Tasks /\ Follows
    BY EmptySeq DEF Init, Sessions, Tasks, Follows
  <2> QED BY <2>1, <2>2 DEF ParserInv
<1>2. IInv /\ ParserInv /\ [Next]_vars /\ IInv' => ParserInv'
  <2> SUFFICES ASSUME IInv, ParserInv, [Next]_vars, IInv' PROVE ParserInv'
    OBVIOUS
  <2>1. TypeOK /\ TypeOK' /\ BootInv /\ Sessions /\ Tasks /\ Follows
    BY DEF IInv, ParserInv
  <2> QED BY <2>1, SessionsNext, TasksNext, FollowsNext DEF ParserInv
<1> QED BY Invariance, <1>1, <1>2, PTL DEF Spec

\* After Enough clean packets in a row the parser is between two packets when the
\* line is quiet, and stays in step whatever comes next, for every header, length
\* and values of LED data, and loss of bytes.
THEOREM BackInStep == Spec => []Resynchronised
<1>1. ParserInv => Resynchronised
  <2> SUFFICES ASSUME ParserInv, mi, task = "wait", Quiet, since >= Enough PROVE state = 1
    BY DEF Resynchronised
  <2>1. Len(unread) = 0 /\ Len(out) = 0 /\ TypeOK /\ since \in 0 .. Enough + 1 /\ Enough \in Nat
    BY EmptySeq, Sizes DEF Quiet, ParserInv, TypeOK
  <2>2. sending # None
    <3>1. 0 < Enough
      <4>1. 0 \in 0 .. Most - 1 /\ 0 \in Nat
        BY Lengths
      <4> QED BY <4>1, ZeroBound DEF Bound
    <3> QED BY <2>1, <3>1 DEF ParserInv, Tasks
  <2>3a. PICK p \in Packets : \E w : Following(p, w)
    BY <2>2 DEF ParserInv, Follows
  <2>3. PICK w : Following(p, w)
    BY <2>3a
  <2>4. w[0] = From(state) /\ ~(since < Enough)
    BY <2>1, <2>3 DEF Following, Run
  <2>5. From(state) = 0
    BY <2>1, <2>3, <2>4 DEF Following, Ahead, Place
  <2> QED BY <2>1, <2>5, FromIs, Lengths
<1> QED BY ParserInvariance, <1>1, PTL

\* From then on what the newest packet says is done, however many packets arrive
\* in one tick and whatever they carry, unless the recharger has disabled the
\* computer's commands.  Of the packets it overtakes nothing is said.
THEOREM ObeysNewest == Spec => []NewestObeyed
<1>1. ParserInv => NewestObeyed
  <2> SUFFICES ASSUME ParserInv, mi, task = "wait", Quiet, since > Enough
               PROVE  /\ sending # "exit"
                      /\ (sending = "enable charging" \/ ~disabled) => effect = sending
    BY DEF NewestObeyed
  <2>1. Len(unread) = 0 /\ Len(out) = 0 /\ TypeOK /\ since \in 0 .. Enough + 1 /\ Enough \in Nat
    BY EmptySeq, Sizes DEF Quiet, ParserInv, TypeOK
  <2>2. sending # None /\ command = <<>>
    BY <2>1 DEF ParserInv, Tasks
  <2>3a. PICK p \in Packets :
           Sent(p) /\ \E w : Following(p, w)
    BY <2>2 DEF ParserInv, Follows
  <2>3. PICK w : Sent(p) /\ Following(p, w)
    BY <2>3a
  <2>4. Arrived(p)
    BY <2>1, Lengths DEF Arrived, Quiet, Whole
  <2>5. Obeyed(p)
    BY <2>1, <2>3, <2>4 DEF Following, Newest, Unread
  <2> QED BY <2>2, <2>3, <2>5 DEF Obeyed, Sent
<1> QED BY ParserInvariance, <1>1, PTL
=============================================================================
