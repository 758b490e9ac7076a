------------------------------ MODULE SpiQueue ------------------------------
(***************************************************************************)
(* What lib_spi.c promises its clients: packets are transferred one after  *)
(* the other in the order in which they were sent, each of them whole.     *)
(* The promise holds while no client sends a packet that is still queued.  *)
(***************************************************************************)
EXTENDS Sequences, SequencesExt

CONSTANT Packet

VARIABLES
  queue,    \* the packets sent and not yet finished, in order
  careful   \* the clients send no packet that is queued

Init == queue = <<>> /\ careful \in BOOLEAN

Send(p) ==
  /\ ~Contains(queue, p)
  /\ queue' = Append(queue, p)
  /\ UNCHANGED careful

Finish ==
  /\ queue # <<>>
  /\ queue' = Tail(queue)
  /\ UNCHANGED careful

\* Nothing is promised to clients that are not careful.
Careless == ~careful /\ UNCHANGED careful

Next == (\E p \in Packet : Send(p)) \/ Finish \/ Careless

Spec == Init /\ [][Next]_<<queue, careful>>
=============================================================================
