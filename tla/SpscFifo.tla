------------------------------ MODULE SpscFifo ------------------------------
(***************************************************************************)
(* What the shared-memory backend promises its two users: one sender and   *)
(* one receiver share a FIFO of at most Capacity messages.  A message is   *)
(* identified by the order in which it was sent, so the whole queue is two *)
(* counters; what the receiver holds after a receive is every word of the  *)
(* oldest message not yet taken, and of no other.                          *)
(*                                                                         *)
(* The promise is the one src/crates/backend-shm/src/lib.rs:7-16 makes:    *)
(* the message becomes visible at once, and a full ring makes the producer *)
(* wait, it never drops.                                                   *)
(***************************************************************************)
EXTENDS Integers

CONSTANTS Capacity,   \* messages the queue holds
          Words       \* the pieces a message is copied in

VARIABLES sent,       \* messages accepted from the sender so far
          taken,      \* messages handed to the receiver so far
          out         \* the receiver's buffer: word -> the message it is of

fifoVars == <<sent, taken, out>>

Init == /\ sent = 0
        /\ taken = 0
        /\ out = [w \in Words |-> -1]

Send == /\ sent - taken < Capacity
        /\ sent' = sent + 1
        /\ UNCHANGED <<taken, out>>

Receive == /\ taken < sent
           /\ taken' = taken + 1
           /\ out' = [w \in Words |-> taken]
           /\ UNCHANGED sent

Next == Send \/ Receive

Spec == Init /\ [][Next]_fifoVars
=============================================================================
