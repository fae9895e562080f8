----------------------------- MODULE IngestRing -----------------------------
(***************************************************************************)
(* What the syslog server promises the code that consumes its messages:   *)
(* a bounded buffer between many message sources and one consumer.  Every  *)
(* source offers its messages one by one; an offer is accepted while there *)
(* is room, and refused only when the buffer is full or the consumer is    *)
(* gone; the consumer sees what was accepted in the order of acceptance.   *)
(* SyslogServer is shown to implement this specification, and Daemon uses  *)
(* it in place of the server.                                              *)
(***************************************************************************)
EXTENDS Naturals, Sequences

CONSTANTS
  Sources,    \* the receiver threads that offer messages
  Capacity    \* slots of the buffer, config.ring_capacity.max(1)

ASSUME CapacityAssumption == Capacity \in Nat \ {0}

VARIABLES
  q,          \* the messages accepted and not yet taken
  open,       \* the consumer still holds the receiving end
  offered,    \* per source, how many messages it has offered
  refused     \* how many offers were refused

ringVars == <<q, open, offered, refused>>

\* The n-th message of source s.
Message(s, n) == [src |-> s, n |-> n]

Messages == [src : Sources, n : Nat]

RingInit ==
  /\ q = <<>>
  /\ open = TRUE
  /\ offered = [s \in Sources |-> 0]
  /\ refused = 0

\* try_send returns Ok.
Accept(s) ==
  /\ open
  /\ Len(q) < Capacity
  /\ q' = Append(q, Message(s, offered[s] + 1))
  /\ offered' = [offered EXCEPT ![s] = @ + 1]
  /\ UNCHANGED <<open, refused>>

\* try_send returns Full or Disconnected.
Refuse(s) ==
  /\ ~open \/ Len(q) >= Capacity
  /\ offered' = [offered EXCEPT ![s] = @ + 1]
  /\ refused' = refused + 1
  /\ UNCHANGED <<q, open>>

\* recv_timeout or try_recv returns a message.
Take ==
  /\ open
  /\ q # <<>>
  /\ q' = Tail(q)
  /\ UNCHANGED <<open, offered, refused>>

\* The receiving end is dropped, and what is still buffered with it.
Close ==
  /\ open
  /\ open' = FALSE
  /\ q' = <<>>
  /\ UNCHANGED <<offered, refused>>

RingNext ==
  \/ \E s \in Sources : Accept(s) \/ Refuse(s)
  \/ Take
  \/ Close

RingSpec == RingInit /\ [][RingNext]_ringVars
=============================================================================
