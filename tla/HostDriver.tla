----------------------------- MODULE HostDriver -----------------------------
(***************************************************************************)
(* The driver on the robot's computer (src/Critterdriver): four threads    *)
(* that pass actions from the clients to the robot and its states back.    *)
(* The main loop takes the last action, hands it to the writer and sends a *)
(* state to every client; the writer writes to the serial line; the        *)
(* listener receives the clients' actions; the acceptor accepts clients.   *)
(*                                                                         *)
(* What a thread does between two accesses to shared data is one step, and *)
(* what it does under a mutex is one step.  Sockets are numbered like file *)
(* descriptors: a new connection gets the lowest number that is free.      *)
(***************************************************************************)
EXTENDS Integers, FiniteSets

CONSTANTS
  Client,     \* the clients; each connects once
  Action,     \* the actions they send
  None

ASSUME NoneAssumption == None \notin Client \cup Action \cup Nat

\* Bound: in one behaviour the clients come and go and send nothing, in another
\* one client comes, stays and sends; see Sends, Leaves and Accept.
VARIABLE use

VARIABLES
  owner,        \* the connection behind each open socket
  peer,         \* the client's side of each connection
  inbox,        \* what a client has sent and the driver has not received
  clientList,   \* the sockets in the list; the order in which a copy of it is
                \* gone through is left open
  accepted,     \* the acceptor's new socket, not yet in the list
  action,       \* lastControlDrop, None when no action is pending
  main, served, todo,   \* the main loop: its next step, the socket it serves,
                        \* those it has still to serve,
  taken,                \* and the action it has taken
  ear, heard, ready,    \* the listener: its next step, the socket it reads and
                        \* those it has still to read
  writer,       \* the next step of the writer
  dataWritten,
  motorData,    \* the action whose velocities are in the buffer
  ledData,      \* and the one whose LED mode and colours are
  written       \* the actions that the velocities and the LED mode written last are of

\* History variables
VARIABLES
  due,          \* the action that was handed over and not written since
  lost,         \* a signal was sent while the writer did not wait for it
  unasked,      \* the writer is writing although no signal has woken it
  overtaken,    \* such a write has set dataWritten between a hand-over and its
                \* signal, so that the write the signal starts runs with the flag true
  reused        \* a number was given away while a thread had it in its copy of the list

sockets == <<owner, peer, inbox, clientList, accepted, reused>>
loop == <<main, served, todo, taken>>
listener == <<ear, heard, ready>>
output == <<writer, dataWritten, motorData, ledData, written, due, lost, unasked,
            overtaken>>
vars == <<use, sockets, action, loop, listener, output>>

Socket == 1 .. Cardinality(Client)

\* The numbers the threads have in their copies of the list.
Copied == ({served, heard} \cup todo \cup ready) \ {None}
-----------------------------------------------------------------------------
(***************************************************************************)
(* The clients and their connections                                       *)
(***************************************************************************)

\* A drop may arrive in two parts.
\* Bound: one drop of a client is on its way.
Sends(c) ==
  /\ use = "actions" /\ peer[c] = "open"
  /\ \/ inbox[c] = None /\ inbox' = [inbox EXCEPT ![c] = "part"]
     \/ /\ inbox[c] \in {None, "part"}
        /\ \E a \in Action : inbox' = [inbox EXCEPT ![c] = a]
  /\ UNCHANGED <<owner, peer, clientList, accepted, reused, action, loop, listener, output>>

\* A client closes its connection, or it breaks.
Leaves(c) ==
  /\ use = "clients" /\ peer[c] = "open"
  /\ \E how \in {"closed", "broken"} : peer' = [peer EXCEPT ![c] = how]
  /\ UNCHANGED <<owner, inbox, clientList, accepted, reused, action, loop, listener, output>>

\* The connection gets the lowest free number.
\* Bound: setting its flags with fcntl does not fail.
Accept(c) ==
  /\ peer[c] = "new" /\ accepted = None
  /\ use = "actions" => peer \in [Client -> {"new"}]
  /\ \E n \in Socket :
       /\ owner[n] = None /\ \A g \in Socket : owner[g] = None => n <= g
       /\ owner' = [owner EXCEPT ![n] = c]
       /\ accepted' = n
       /\ reused' = (reused \/ n \in Copied)
  /\ peer' = [peer EXCEPT ![c] = "open"]
  /\ UNCHANGED <<inbox, clientList, action, loop, listener, output>>

addClient ==
  /\ accepted # None
  /\ clientList' = clientList \cup {accepted}
  /\ accepted' = None
  /\ UNCHANGED <<owner, peer, inbox, reused, action, loop, listener, output>>

\* removeClient closes the socket before it takes it from the list.  Closing a
\* socket that is closed has no effect.
Close(f) ==
  /\ owner' = [owner EXCEPT ![f] = None]
  /\ UNCHANGED <<peer, inbox, clientList, accepted, reused>>
\* Mutant: the client stays in the list.
UnlistNothing(f) == UNCHANGED <<owner, peer, inbox, clientList, accepted, reused>>
Unlist(f) ==
  /\ clientList' = clientList \ {f}
  /\ UNCHANGED <<owner, peer, inbox, accepted, reused>>
-----------------------------------------------------------------------------
(***************************************************************************)
(* The listener                                                            *)
(***************************************************************************)

\* The copy of the list and select on it, which fails, to be tried again, while
\* a socket is closed.
\* Bound: no number is closed and given away between the copy and select.
Readable == {f \in clientList : inbox[owner[f]] # None \/ peer[owner[f]] # "open"}
Select ==
  /\ ear = "select"
  /\ \A f \in clientList : owner[f] # None
  /\ heard' \in Readable
  /\ ready' = Readable \ {heard'}
  /\ ear' = "recv"
  /\ UNCHANGED <<sockets, action, loop, output>>

NextReady ==
  \/ /\ ready # {}
     /\ heard' \in ready /\ ready' = ready \ {heard'}
     /\ ear' = "recv"
  \/ /\ ready = {}
     /\ heard' = None /\ ready' = {}
     /\ ear' = "select"

\* recvActionDrop: a drop that has arrived is pushed.  Of a drop in two parts
\* the second one is written elsewhere when it is there in time, and what is
\* pushed is anything.
Push ==
  /\ LET c == owner[heard]
     IN /\ c # None /\ inbox[c] # None
        /\ action' \in (IF inbox[c] = "part" THEN Action ELSE {inbox[c]})
        /\ inbox' = [inbox EXCEPT ![c] = None]
  /\ NextReady
  /\ UNCHANGED <<owner, peer, clientList, accepted, reused>>

\* The socket is closed, the connection broken or there is nothing (more) to
\* read: the client is removed.
Fail ==
  /\ LET c == owner[heard]
     IN \/ c = None
        \/ c # None /\ inbox[c] # None /\ inbox[c] = "part"
        \/ c # None /\ inbox[c] = None /\ peer[c] \in {"open", "broken"}
  /\ ear' = "close"
  /\ UNCHANGED <<sockets, action, heard, ready>>

\* recv returns 0 as long as a closed connection is not removed by the main
\* loop: the listener goes round and round.
Spins == ear = "recv" /\ LET c == owner[heard]
                         IN c # None /\ inbox[c] = None /\ peer[c] \in {"closed", "gone"}

recvActionDrop ==
  /\ ear = "recv"
  /\ Push \/ Fail
  /\ UNCHANGED <<loop, output>>

ListenerRemoves ==
  /\ \/ ear = "close" /\ Close(heard) /\ ear' = "unlist" /\ UNCHANGED <<heard, ready>>
     \/ ear = "unlist" /\ Unlist(heard) /\ NextReady
  /\ UNCHANGED <<action, loop, output>>
-----------------------------------------------------------------------------
(***************************************************************************)
(* The main loop                                                           *)
(***************************************************************************)

\* getLastAction; the loop starts when the robot has sent data.
getLastAction ==
  /\ main = "take"
  /\ taken' = action /\ action' = None
  /\ main' = (IF action = None THEN "state" ELSE "test")
  /\ UNCHANGED <<sockets, served, todo, listener, output>>

\* isActionWritten: an action that comes too early is skipped.
Skip ==
  /\ main = "test" /\ ~dataWritten
  /\ main' = "state"
  /\ UNCHANGED <<sockets, action, served, todo, taken, listener, output>>

\* Mutant: isActionWritten is not asked.
HandOverUntested ==
  /\ main = "test"
  /\ dataWritten' = FALSE
  /\ due' = taken /\ lost' = FALSE
  /\ overtaken' = (overtaken /\ writer \notin {"wait", "asleep"})
  /\ main' = "motors"
  /\ UNCHANGED <<sockets, action, served, todo, taken, listener, writer, motorData, ledData, written,
                 unasked>>

\* The flag is tested and reset under two locks, between which only the main
\* loop could reset it.
HandOver ==
  /\ main = "test" /\ dataWritten
  /\ dataWritten' = FALSE
  /\ due' = taken /\ lost' = FALSE
  /\ overtaken' = (overtaken /\ writer \notin {"wait", "asleep"})
  /\ main' = "motors"
  /\ UNCHANGED <<sockets, action, served, todo, taken, listener, writer, motorData, ledData, written,
                 unasked>>

\* prepareActionData
PrepareMotors ==
  /\ main = "motors"
  /\ motorData' = taken
  /\ main' = "leds"
  /\ UNCHANGED <<sockets, action, served, todo, taken, listener, writer, dataWritten, ledData,
                 written, due, lost, unasked, overtaken>>

PrepareLeds ==
  /\ main = "leds"
  /\ ledData' = taken
  /\ main' = "signal"
  /\ UNCHANGED <<sockets, action, served, todo, taken, listener, writer, dataWritten, motorData,
                 written, due, lost, unasked, overtaken>>

\* Mutant: the writer is not woken.
SignalNobody ==
  /\ main = "signal"
  /\ main' = "state"
  /\ UNCHANGED <<sockets, action, served, todo, taken, listener, output>>

Signal ==
  /\ main = "signal"
  /\ writer' = (IF writer = "asleep" THEN "motors" ELSE writer)
  /\ unasked' = (unasked /\ writer # "asleep")
  /\ lost' = (writer # "asleep")
  /\ main' = "state"
  /\ UNCHANGED <<sockets, action, served, todo, taken, listener, dataWritten, motorData, ledData,
                 written, due, overtaken>>

\* Mutant: the loop over the clients does not end.
NextAlways(clients) ==
  /\ main' = "send"
  /\ served' \in clients \cup {None} /\ todo' = clients \ {served'}

\* The next of the clients that are still to be served.
NextOf(clients) ==
  \/ /\ clients # {}
     /\ served' \in clients /\ todo' = clients \ {served'}
     /\ main' = "send"
  \/ /\ clients = {}
     /\ served' = None /\ todo' = {}
     /\ main' = "take"

\* readStateDrop, and processStateDrop with its copy of the list.
readStateDrop ==
  /\ main = "state"
  /\ taken' = None
  /\ NextOf(clientList)
  /\ UNCHANGED <<sockets, action, listener, output>>

\* Sending fails on a closed socket and on a broken connection; to a client that
\* has closed its side it succeeds once.
Line(f) == IF owner[f] = None THEN "none" ELSE peer[owner[f]]
Served ==
  /\ NextOf(todo)
  /\ \/ Line(served) = "open" /\ UNCHANGED peer
     \/ Line(served) = "closed" /\ peer' = [peer EXCEPT ![owner[served]] = "gone"]
\* Mutant: the result of sending is ignored.
UnservedIgnored ==
  /\ Line(served) \in {"none", "gone", "broken"}
  /\ NextOf(todo)
  /\ UNCHANGED peer
Unserved ==
  /\ Line(served) \in {"none", "gone", "broken"}
  /\ main' = "close"
  /\ UNCHANGED <<served, todo, peer>>
sendDropToClient ==
  /\ main = "send"
  /\ Served \/ Unserved
  /\ UNCHANGED <<owner, inbox, clientList, accepted, reused, action, taken, listener, output>>

MainRemoves ==
  /\ \/ main = "close" /\ Close(served) /\ main' = "unlist" /\ UNCHANGED <<served, todo>>
     \/ main = "unlist" /\ Unlist(served) /\ NextOf(todo)
  /\ UNCHANGED <<action, taken, listener, output>>
-----------------------------------------------------------------------------
(***************************************************************************)
(* The writer                                                              *)
(***************************************************************************)

WriteMotors ==
  /\ writer = "motors"
  /\ written' = <<motorData, ledData>>
  /\ writer' = "leds"
  /\ UNCHANGED <<sockets, action, loop, listener, dataWritten, motorData, ledData, due, lost,
                 unasked, overtaken>>

\* The colours follow when ledMode, a copy of its own, says so.
WriteLeds ==
  /\ writer = "leds"
  /\ due' = (IF written = <<due, due>> /\ ledData = due THEN None ELSE due)
  /\ writer' = "flag"
  /\ UNCHANGED <<sockets, action, loop, listener, dataWritten, motorData, ledData, written,
                 lost, unasked, overtaken>>

SetDataWritten ==
  /\ writer = "flag"
  /\ dataWritten' = TRUE
  /\ overtaken' = (overtaken \/ main \in {"motors", "leds", "signal"})
  /\ writer' = "wait"
  /\ UNCHANGED <<sockets, action, loop, listener, motorData, ledData, written, due, lost,
                 unasked>>

Sleep ==
  /\ writer = "wait"
  /\ writer' = "asleep" /\ unasked' = FALSE
  /\ UNCHANGED <<sockets, action, loop, listener, dataWritten, motorData, ledData, written,
                 due, lost, overtaken>>

\* pthread_cond_wait may return without a signal.
WakeSpuriously ==
  /\ writer = "asleep"
  /\ writer' = "motors" /\ unasked' = TRUE
  /\ UNCHANGED <<sockets, action, loop, listener, dataWritten, motorData, ledData, written,
                 due, lost, overtaken>>
-----------------------------------------------------------------------------
Init ==
  /\ use \in {"clients", "actions"}
  /\ owner = [f \in Socket |-> None]
  /\ peer = [c \in Client |-> "new"]
  /\ inbox = [c \in Client |-> None]
  /\ clientList = {} /\ accepted = None
  /\ action = None
  /\ main = "take" /\ served = None /\ todo = {} /\ taken = None
  /\ ear = "select" /\ heard = None /\ ready = {}
  /\ writer = "motors" /\ dataWritten = TRUE
  /\ motorData = None /\ ledData = None /\ written = <<None, None>>
  /\ due = None /\ lost = FALSE /\ unasked = TRUE /\ overtaken = FALSE /\ reused = FALSE

MainLoop ==
  /\ \/ getLastAction \/ Skip \/ HandOver \/ PrepareMotors \/ PrepareLeds \/ Signal
     \/ readStateDrop \/ sendDropToClient \/ MainRemoves
  /\ UNCHANGED use
Listener == (Select \/ recvActionDrop \/ ListenerRemoves) /\ UNCHANGED use
Writer == (WriteMotors \/ WriteLeds \/ SetDataWritten \/ Sleep) /\ UNCHANGED use
Acceptor == ((\E c \in Client : Accept(c)) \/ addClient) /\ UNCHANGED use
Environment == ((\E c \in Client : Sends(c) \/ Leaves(c)) \/ WakeSpuriously) /\ UNCHANGED use
Next == Acceptor \/ Listener \/ MainLoop \/ Writer \/ Environment

\* Every thread goes on; the main loop because the robot sends a state on every
\* tick.  Nothing obliges the clients.
Fairness == WF_vars(Acceptor) /\ WF_vars(Listener) /\ WF_vars(MainLoop) /\ WF_vars(Writer)
Spec == Init /\ [][Next]_vars /\ Fairness
-----------------------------------------------------------------------------
Maybe(S) == S \cup {None}
TypeOK ==
  /\ owner \in [Socket -> Maybe(Client)]
  /\ peer \in [Client -> {"new", "open", "closed", "gone", "broken"}]
  /\ inbox \in [Client -> Maybe(Action) \cup {"part"}]
  /\ clientList \subseteq Socket /\ accepted \in Maybe(Socket)
  /\ action \in Maybe(Action) /\ taken \in Maybe(Action)
  /\ main \in {"take", "test", "motors", "leds", "signal", "state", "send",
               "close", "unlist"}
  /\ todo \subseteq Socket /\ served \in Maybe(Socket)
  /\ (served = None) = (main \notin {"send", "close", "unlist"})
  /\ ear \in {"select", "recv", "close", "unlist"}
  /\ ready \subseteq Socket /\ heard \in Maybe(Socket)
  /\ (heard = None) = (ear = "select")
  /\ writer \in {"motors", "leds", "flag", "wait", "asleep"} /\ dataWritten \in BOOLEAN
  /\ {motorData, ledData, due} \subseteq Maybe(Action)
  /\ written \in Maybe(Action) \X Maybe(Action)
  /\ lost \in BOOLEAN /\ unasked \in BOOLEAN /\ overtaken \in BOOLEAN /\ reused \in BOOLEAN

\* The buffers of the writer are not locked, only guarded by dataWritten.  What
\* is written was handed over and has the velocities, the LED mode and the
\* colours of one action, with two exceptions.  The writer began without being
\* asked, as it does when the program starts and when pthread_cond_wait returns
\* by itself.  Or it was asked, but such a write had set the flag between the
\* hand-over and its signal: the flag then lets the next action into the buffers
\* while they are written, that write sets the flag too early again, and so on
\* until an action is handed over to a writer that waits.
WholePackets == writer = "flag" /\ ~unasked /\ ~overtaken => due = None

\* A thread is removing the socket.
UnderRemoval(f) ==
  \/ main \in {"close", "unlist"} /\ f = served
  \/ ear \in {"close", "unlist"} /\ f = heard

\* The list has exactly the sockets that are open, except for the one being
\* accepted and those a thread is removing - as long as no number was given to a
\* new client while a thread still had it in its copy of the list.
OpenListed ==
  ~reused => \A f \in Socket :
    \/ UnderRemoval(f) \/ f = accepted
    \/ (owner[f] # None) = (f \in clientList)

\* An action that was handed over is written, unless the signal came when the
\* writer did not wait for it (it may come between setDataWritten and the wait,
\* which tests no condition) or a write that was not asked for, or that the flag
\* did not guard any more, got in between.
HandedOverIsWritten == (due # None) ~> (due = None \/ lost \/ unasked \/ overtaken)

\* The listener does not turn for ever round a client that has left: the main
\* loop removes the client when sending to it fails.  (A client that got a number
\* too early may be in the listener's copy and in no list: it is never removed.)
SpinEnds == Spins ~> (~Spins \/ reused)
=============================================================================
