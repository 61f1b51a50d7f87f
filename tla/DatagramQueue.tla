--------------------------- MODULE DatagramQueue ---------------------------
(***************************************************************************)
(* What a proxy socket promises to the game that reads from it: datagrams  *)
(* are received in the order in which they arrived, each at most once; one *)
(* is lost only when Capacity newer ones wait behind it; and once a closed *)
(* socket has thrown its queue away nothing is received from it again.     *)
(***************************************************************************)
EXTENDS Integers, Sequences

CONSTANTS Threads, Capacity, Refusals

VARIABLES
  queue,        \* the waiting datagrams, by their numbers
  arrived,      \* the number of the last one
  closed, result

abstractVars == <<queue, arrived, closed, result>>

QInit ==
  /\ queue = <<>> /\ arrived = 0 /\ closed = FALSE
  /\ result = [t \in Threads |-> [code |-> "none", datagram |-> 0]]

Arrive ==
  /\ ~closed
  /\ arrived' = arrived + 1
  /\ queue' = Append(IF Len(queue) = Capacity THEN Tail(queue) ELSE queue,
                     arrived + 1)
  /\ UNCHANGED <<closed, result>>

\* MSG_PEEK leaves the datagram where it is.
Receive(t) ==
  /\ queue # <<>>
  /\ result' = [result EXCEPT ![t] = [code |-> "data", datagram |-> Head(queue)]]
  /\ queue' \in {queue, Tail(queue)}
  /\ UNCHANGED <<arrived, closed>>

Refuse(t) ==
  /\ \E r \in Refusals :
       result' = [result EXCEPT ![t] = [code |-> r, datagram |-> 0]]
  /\ UNCHANGED <<queue, arrived, closed>>

Shut == closed' = TRUE /\ UNCHANGED <<queue, arrived, result>>

Discard == closed /\ queue' = <<>> /\ UNCHANGED <<arrived, closed, result>>

QNext ==
  \/ Arrive \/ Shut \/ Discard
  \/ \E t \in Threads : Receive(t) \/ Refuse(t)

QSpec == QInit /\ [][QNext]_abstractVars
=============================================================================
