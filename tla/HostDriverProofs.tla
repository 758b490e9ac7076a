-------------------------- MODULE HostDriverProofs --------------------------
(***************************************************************************)
(* Proofs about HostDriver, for every set of clients and actions.          *)
(***************************************************************************)
EXTENDS HostDriver, TLAPS

\* The hand-over to the writer.  While the writer waits and the flag is false,
\* what the main loop has put into the buffers is of the action in due; between a
\* hand-over and its signal the flag is true only when it was overtaken.  A write
\* that was asked for, and not overtaken, runs with the flag false and the buffers
\* complete, while the main loop is somewhere else.
Guarded == ~unasked /\ ~overtaken
WriterInv ==
  /\ ~dataWritten /\ writer \in {"wait", "asleep"} =>
       /\ main \in {"motors", "leds", "signal"} => due = taken
       /\ main # "motors" => motorData = due
       /\ main \notin {"motors", "leds"} => ledData = due
  /\ dataWritten /\ main \in {"motors", "leds", "signal"} => overtaken
  /\ Guarded /\ writer \in {"motors", "leds", "flag"} =>
       /\ ~dataWritten
       /\ main \notin {"motors", "leds", "signal"}
  /\ Guarded /\ writer \in {"motors", "leds"} => motorData = due /\ ledData = due
  /\ Guarded /\ writer = "leds" => written = <<due, due>>
  /\ Guarded /\ writer = "flag" => due = None

\* The list of clients, while no number was reused too early: the socket being
\* accepted is open, in no list and in no copy, and a socket that a thread is
\* about to take from the list is closed.
ListInv ==
  ~reused =>
    /\ OpenListed
    /\ accepted # None => /\ owner[accepted] # None
                          /\ accepted \notin clientList \cup Copied
    /\ main = "unlist" => owner[served] = None
    /\ ear = "unlist" => owner[heard] = None

IInv == TypeOK /\ WriterInv /\ ListInv
-----------------------------------------------------------------------------
LEMMA SocketNumbers == Socket \subseteq Nat /\ None \notin Socket
  BY NoneAssumption DEF Socket

\* The parts of TypeOK.
SocketsTyped ==
  /\ owner \in [Socket -> Maybe(Client)]
  /\ peer \in [Client -> {"new", "open", "closed", "gone", "broken"}]
  /\ inbox \in [Client -> Maybe(Action) \cup {"part"}]
  /\ clientList \subseteq Socket /\ accepted \in Maybe(Socket)
  /\ action \in Maybe(Action)
LoopTyped ==
  /\ main \in {"take", "test", "motors", "leds", "signal", "state", "send",
               "close", "unlist"}
  /\ todo \subseteq Socket /\ served \in Maybe(Socket)
  /\ (served = None) = (main \notin {"send", "close", "unlist"})
  /\ taken \in Maybe(Action)
ListenerTyped ==
  /\ ear \in {"select", "recv", "close", "unlist"}
  /\ ready \subseteq Socket /\ heard \in Maybe(Socket)
  /\ (heard = None) = (ear = "select")
OutputTyped ==
  /\ writer \in {"motors", "leds", "flag", "wait", "asleep"}
  /\ {motorData, ledData, due} \subseteq Maybe(Action)
  /\ written \in Maybe(Action) \X Maybe(Action)
FlagsTyped ==
  /\ dataWritten \in BOOLEAN /\ lost \in BOOLEAN
  /\ unasked \in BOOLEAN /\ overtaken \in BOOLEAN /\ reused \in BOOLEAN

LEMMA TypeParts ==
  /\ TypeOK <=> SocketsTyped /\ LoopTyped /\ ListenerTyped /\ OutputTyped /\ FlagsTyped
  /\ TypeOK' <=> /\ SocketsTyped' /\ LoopTyped' /\ ListenerTyped' /\ OutputTyped'
                 /\ FlagsTyped'
<1>1. TypeOK <=> SocketsTyped /\ LoopTyped /\ ListenerTyped /\ OutputTyped /\ FlagsTyped
  BY Zenon DEF TypeOK, SocketsTyped, LoopTyped, ListenerTyped, OutputTyped, FlagsTyped
<1> QED BY <1>1, PTL

LEMMA NextReadyType ==
  ASSUME ListenerTyped, NextReady
  PROVE  ListenerTyped'
BY SocketNumbers DEF ListenerTyped, NextReady, Maybe

LEMMA NextOfType ==
  ASSUME NEW clients \in SUBSET Socket, NextOf(clients), taken' \in Maybe(Action)
  PROVE  LoopTyped'
BY SocketNumbers DEF LoopTyped, NextOf, Maybe

LEMMA TypeNext ==
  ASSUME TypeOK, [Next]_vars
  PROVE  TypeOK'
<1> SocketsTyped /\ LoopTyped /\ ListenerTyped /\ OutputTyped /\ FlagsTyped
  BY TypeParts
<1> SUFFICES /\ SocketsTyped' /\ LoopTyped' /\ ListenerTyped' /\ OutputTyped'
             /\ FlagsTyped'
  BY TypeParts
<1>1. ASSUME NEW c \in Client, Accept(c) PROVE TypeOK'
  BY <1>1, SocketNumbers, NoneAssumption DEF Accept, TypeOK, Maybe, loop, listener, output
<1>2. CASE addClient
  BY <1>2, SocketNumbers, NoneAssumption, TypeParts DEF addClient, TypeOK, Maybe, loop, listener, output
<1>3. CASE Select
  <2>1. SocketsTyped' /\ LoopTyped' /\ OutputTyped' /\ FlagsTyped'
    BY <1>3 DEF Select, SocketsTyped, LoopTyped, OutputTyped, FlagsTyped, sockets, loop, output
  <2>2. ListenerTyped'
    BY <1>3, SocketNumbers DEF Select, Readable, SocketsTyped, ListenerTyped, Maybe
  <2> QED BY <2>1, <2>2
<1>4. CASE recvActionDrop
  <2>1. LoopTyped' /\ OutputTyped' /\ FlagsTyped'
    BY <1>4 DEF recvActionDrop, Push, Fail, sockets, LoopTyped, OutputTyped, FlagsTyped, loop,
                output
  <2>2. CASE Push
    <3>1. heard \in Socket
      BY <1>4 DEF recvActionDrop, ListenerTyped, Maybe
    <3>2. SocketsTyped'
      BY <1>4, <2>2, <3>1 DEF Push, SocketsTyped, Maybe
    <3> QED BY <2>1, <2>2, <3>2, NextReadyType DEF Push
  <2>3. CASE Fail
    <3>1. SocketsTyped'
      BY <2>3 DEF Fail, SocketsTyped, sockets
    <3>2. ListenerTyped'
      BY <1>4, <2>3 DEF recvActionDrop, Fail, ListenerTyped, Maybe
    <3> QED BY <2>1, <3>1, <3>2
  <2> QED BY <1>4, <2>2, <2>3 DEF recvActionDrop
<1>5. CASE ListenerRemoves
  <2>1. LoopTyped' /\ OutputTyped' /\ FlagsTyped' /\ SocketsTyped'
    <3>1. LoopTyped' /\ OutputTyped' /\ FlagsTyped'
      BY <1>5 DEF ListenerRemoves, Close, Unlist, LoopTyped, OutputTyped, FlagsTyped, loop, output
    <3>2. SocketsTyped'
      BY <1>5 DEF ListenerRemoves, Close, Unlist, SocketsTyped, Maybe
    <3> QED BY <3>1, <3>2
  <2>2. CASE ear = "close"
    BY <1>5, <2>1, <2>2 DEF ListenerRemoves, ListenerTyped, Maybe
  <2>3. CASE ear = "unlist"
    BY <1>5, <2>1, <2>3, NextReadyType DEF ListenerRemoves
  <2> QED BY <1>5, <2>2, <2>3 DEF ListenerRemoves
<1>6. CASE getLastAction
  BY <1>6, SocketNumbers, NoneAssumption, TypeParts DEF getLastAction, TypeOK, Maybe, sockets, listener, output
<1>7. CASE Skip
  BY <1>7, SocketNumbers, NoneAssumption, TypeParts DEF Skip, TypeOK, Maybe, sockets, listener, output
<1>8. CASE HandOver
  <2>1. SocketsTyped' /\ LoopTyped' /\ ListenerTyped' /\ OutputTyped'
    BY <1>8 DEF HandOver, SocketsTyped, LoopTyped, ListenerTyped, OutputTyped, sockets, listener,
                Maybe
  <2>2. FlagsTyped'
    BY <1>8, Zenon DEF HandOver, FlagsTyped, sockets
  <2> QED BY <2>1, <2>2
<1>9. CASE PrepareMotors
  BY <1>9, SocketNumbers, NoneAssumption, TypeParts DEF PrepareMotors, TypeOK, Maybe, sockets, listener
<1>10. CASE PrepareLeds
  BY <1>10, SocketNumbers, NoneAssumption, TypeParts DEF PrepareLeds, TypeOK, Maybe, sockets, listener
<1>11. CASE Signal
  BY <1>11, SocketNumbers, NoneAssumption, TypeParts DEF Signal, TypeOK, Maybe, sockets, listener
<1>12. CASE readStateDrop
  <2>1. SocketsTyped' /\ ListenerTyped' /\ OutputTyped' /\ FlagsTyped'
    BY <1>12 DEF readStateDrop, SocketsTyped, ListenerTyped, OutputTyped, FlagsTyped, sockets,
                listener, output
  <2>2. LoopTyped'
    BY <1>12, NextOfType DEF readStateDrop, SocketsTyped, Maybe
  <2> QED BY <2>1, <2>2
<1>13. CASE sendDropToClient
  <2>1. ListenerTyped' /\ OutputTyped' /\ FlagsTyped'
    BY <1>13 DEF sendDropToClient, ListenerTyped, OutputTyped, FlagsTyped, listener, output
  <2>2. SocketsTyped'
    BY <1>13 DEF sendDropToClient, Served, Unserved, SocketsTyped
  <2>3. CASE Served
    <3>1. todo \in SUBSET Socket /\ taken' \in Maybe(Action) /\ NextOf(todo)
      BY <1>13, <2>3 DEF sendDropToClient, Served, LoopTyped
    <3> QED BY <2>1, <2>2, <3>1, NextOfType
  <2>4. CASE Unserved
    BY <1>13, <2>1, <2>2, <2>4 DEF sendDropToClient, Unserved, LoopTyped, Maybe
  <2> QED BY <1>13, <2>3, <2>4 DEF sendDropToClient
<1>14. CASE MainRemoves
  <2>1. ListenerTyped' /\ OutputTyped' /\ FlagsTyped'
    BY <1>14 DEF MainRemoves, Close, Unlist, ListenerTyped, OutputTyped, FlagsTyped, listener, output
  <2>2. SocketsTyped'
    BY <1>14 DEF MainRemoves, Close, Unlist, SocketsTyped, Maybe
  <2>3. CASE main = "close"
    BY <1>14, <2>1, <2>2, <2>3 DEF MainRemoves, LoopTyped, Maybe
  <2>4. CASE main = "unlist"
    <3>1. todo \in SUBSET Socket /\ taken' \in Maybe(Action) /\ NextOf(todo)
      BY <1>14, <2>4 DEF MainRemoves, LoopTyped
    <3> QED BY <2>1, <2>2, <3>1, NextOfType
  <2> QED BY <1>14, <2>3, <2>4 DEF MainRemoves
<1>15. CASE WriteMotors
  BY <1>15, SocketNumbers, NoneAssumption, TypeParts DEF WriteMotors, TypeOK, Maybe, sockets, loop, listener
<1>16. CASE WriteLeds
  BY <1>16, SocketNumbers, NoneAssumption, TypeParts DEF WriteLeds, TypeOK, Maybe, sockets, loop, listener
<1>17. CASE SetDataWritten
  BY <1>17, SocketNumbers, NoneAssumption, TypeParts DEF SetDataWritten, TypeOK, Maybe, sockets, loop, listener
<1>18. CASE Sleep
  <2>1. SocketsTyped' /\ LoopTyped' /\ ListenerTyped' /\ OutputTyped'
    BY <1>18 DEF Sleep, SocketsTyped, LoopTyped, ListenerTyped, OutputTyped, sockets, loop, listener
  <2>2. FlagsTyped'
    BY <1>18, Zenon DEF Sleep, FlagsTyped, sockets
  <2> QED BY <2>1, <2>2
<1>19. CASE \E c \in Client : Sends(c)
  BY <1>19, SocketNumbers, NoneAssumption, TypeParts DEF Sends, TypeOK, Maybe, loop, listener, output
<1>20. CASE \E c \in Client : Leaves(c)
  BY <1>20, SocketNumbers, NoneAssumption, TypeParts DEF Leaves, TypeOK, Maybe, loop, listener, output
<1>21. CASE WakeSpuriously
  BY <1>21, SocketNumbers, NoneAssumption, TypeParts DEF WakeSpuriously, TypeOK, Maybe, sockets, loop, listener
<1>22. CASE UNCHANGED vars
  BY <1>22, TypeParts DEF vars, sockets, loop, listener, output, TypeOK
<1> QED
  BY TypeParts, <1>1, <1>2, <1>3, <1>4, <1>5, <1>6, <1>7, <1>8, <1>9, <1>10, <1>11, <1>12,
     <1>13, <1>14, <1>15, <1>16, <1>17, <1>18, <1>19, <1>20, <1>21, <1>22
  DEF Next, Acceptor, Listener, MainLoop, Writer, Environment
-----------------------------------------------------------------------------
LEMMA InitInv ==
  ASSUME Init
  PROVE  IInv
<1>1. SocketsTyped /\ LoopTyped /\ ListenerTyped /\ OutputTyped
  BY DEF Init, SocketsTyped, LoopTyped, ListenerTyped, OutputTyped, Maybe
<1>2. FlagsTyped
  BY Zenon DEF Init, FlagsTyped
<1>3. WriterInv
  BY DEF Init, WriterInv, Guarded
<1>4. ListInv
  BY DEF Init, ListInv, OpenListed, UnderRemoval
<1> QED BY <1>1, <1>2, <1>3, <1>4, TypeParts DEF IInv

\* The hand-over: only the main loop and the writer take part in it.
LEMMA WriterNext ==
  ASSUME TypeOK, WriterInv, [Next]_vars
  PROVE  WriterInv'
<1> USE DEF TypeOK, WriterInv, Guarded
<1>1. CASE UNCHANGED <<main, taken, output>>
  BY <1>1 DEF output
<1>2. CASE Acceptor \/ Listener \/ \E c \in Client : Sends(c) \/ Leaves(c)
  BY <1>1, <1>2 DEF Acceptor, Listener, Accept, addClient, Select, recvActionDrop,
     ListenerRemoves, Sends, Leaves, loop
<1>3. CASE getLastAction \/ Skip
  BY <1>3 DEF getLastAction, Skip, output
<1>4. CASE HandOver
  BY <1>4 DEF HandOver
<1>5. CASE PrepareMotors
  BY <1>5 DEF PrepareMotors
<1>6. CASE PrepareLeds
  BY <1>6 DEF PrepareLeds
<1>7. CASE Signal
  BY <1>7 DEF Signal
<1>8. CASE readStateDrop \/ sendDropToClient \/ MainRemoves
  BY <1>8 DEF readStateDrop, sendDropToClient, Served, Unserved, MainRemoves, NextOf, output
<1>9. CASE WriteMotors
  BY <1>9 DEF WriteMotors, loop
<1>10. CASE WriteLeds
  BY <1>10 DEF WriteLeds, loop
<1>11. CASE SetDataWritten
  BY <1>11 DEF SetDataWritten, loop
<1>12. CASE Sleep
  BY <1>12 DEF Sleep, loop
<1>13. CASE WakeSpuriously
  BY <1>13 DEF WakeSpuriously, loop
<1>14. CASE UNCHANGED vars
  BY <1>1, <1>14 DEF vars, loop
<1> QED
  BY <1>2, <1>3, <1>4, <1>5, <1>6, <1>7, <1>8, <1>9, <1>10, <1>11, <1>12, <1>13, <1>14
  DEF Next, MainLoop, Writer, Environment

\* The list: every step but those of the writer may disturb it.
LEMMA ListNext ==
  ASSUME TypeOK, ListInv, [Next]_vars
  PROVE  ListInv'
<1> USE SocketNumbers, NoneAssumption DEF TypeOK, ListInv, OpenListed, UnderRemoval, Maybe
<1>1. CASE UNCHANGED <<owner, clientList, accepted, reused, main, served, todo, listener>>
  BY <1>1 DEF listener, Copied
<1>2. ASSUME NEW c \in Client, Accept(c) PROVE ListInv'
  <2>1. PICK n \in Socket : /\ owner[n] = None
                            /\ owner' = [owner EXCEPT ![n] = c]
                            /\ accepted' = n
                            /\ reused' = (reused \/ n \in Copied)
    BY <1>2 DEF Accept
  <2>2. UNCHANGED <<clientList, main, served, todo, ear, heard, ready>> /\ accepted = None
    BY <1>2 DEF Accept, loop, listener
  <2> SUFFICES ASSUME ~reused' PROVE ListInv'
    OBVIOUS
  <2>3. n \notin Copied /\ n # served /\ n # heard /\ ~reused
    BY <2>1 DEF Copied
  <2>4. n \notin clientList
    BY <2>1, <2>2, <2>3
  <2> QED BY <2>1, <2>2, <2>3, <2>4 DEF Copied
<1>3. CASE addClient
  BY <1>3 DEF addClient, loop, listener, Copied
<1>4. CASE Select
  BY <1>4 DEF Select, Readable, sockets, loop, Copied
<1>5. CASE recvActionDrop
  BY <1>5 DEF recvActionDrop, Push, Fail, NextReady, sockets, loop, Copied
<1>6. CASE ListenerRemoves
  BY <1>6 DEF ListenerRemoves, Close, Unlist, NextReady, loop, Copied
<1>7. CASE getLastAction \/ Skip \/ HandOver \/ PrepareMotors \/ PrepareLeds \/ Signal
  BY <1>7 DEF getLastAction, Skip, HandOver, PrepareMotors, PrepareLeds, Signal, sockets, listener,
     Copied
<1>8. CASE readStateDrop
  BY <1>8 DEF readStateDrop, NextOf, sockets, listener, Copied
<1>9. CASE sendDropToClient
  BY <1>9 DEF sendDropToClient, Served, Unserved, NextOf, listener, Copied
<1>10. CASE MainRemoves
  BY <1>10 DEF MainRemoves, Close, Unlist, NextOf, listener, Copied
<1>11. CASE Writer
  BY <1>1, <1>11 DEF Writer, WriteMotors, WriteLeds, SetDataWritten, Sleep, sockets, loop
<1>12. CASE Environment
  BY <1>1, <1>12 DEF Environment, Sends, Leaves, WakeSpuriously, sockets, loop
<1>13. CASE UNCHANGED vars
  BY <1>1, <1>13 DEF vars, sockets, loop
<1> QED
  BY <1>2, <1>3, <1>4, <1>5, <1>6, <1>7, <1>8, <1>9, <1>10, <1>11, <1>12, <1>13
  DEF Next, Acceptor, Listener, MainLoop
-----------------------------------------------------------------------------
LEMMA Invariance == Spec => []IInv
<1>1. IInv /\ [Next]_vars => IInv'
  BY TypeNext, WriterNext, ListNext DEF IInv
<1> QED BY InitInv, <1>1, PTL DEF Spec

\* Every number in a list, in a copy and in a thread's hands is a socket's, and
\* a thread has a socket in hand exactly when it works on one.
THEOREM TypeCorrect == Spec => []TypeOK
  BY Invariance, PTL DEF IInv

\* The unlocked buffers of the writer: a packet is never of two actions when a
\* signal started the writer and no write that was not asked for has set
\* dataWritten between the hand-over and that signal.
THEOREM PacketsAreWhole == Spec => []WholePackets
<1>1. IInv => WholePackets
  BY DEF IInv, WriterInv, Guarded, WholePackets
<1> QED BY <1>1, Invariance, PTL

\* removeClient from two threads, and addClient from a third: the list stays
\* that of the open sockets as long as no number is reused too early.
THEOREM ListIsOpen == Spec => []OpenListed
<1>1. IInv => OpenListed
  BY DEF IInv, ListInv, OpenListed
<1> QED BY <1>1, Invariance, PTL
=============================================================================
