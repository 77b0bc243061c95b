---------------------------- MODULE ShmRoundTrip ----------------------------
(***************************************************************************)
(* A run over shared memory, end to end: the two rings of                  *)
(* src/crates/backend-shm/src/lib.rs, the echo process that moves messages *)
(* from one to the other, and run_rtt's two threads                        *)
(* (src/crates/harness/src/scenario.rs) at the other ends, up to the exit  *)
(* of the runner process (src/crates/runner/src/main.rs).                  *)
(*                                                                         *)
(* Each ring is the FIFO that ShmRing is shown to implement.  What is new  *)
(* here is what the parties do to each other: a ring has no end of file,   *)
(* so the death of the echo process shows only as silence to one thread    *)
(* and as a full ring to the other, and two timeouts of different length   *)
(* tell a slow party from a dead one.  Any party may go unscheduled for a  *)
(* while, and the echo process may die.                                    *)
(***************************************************************************)
EXTENDS Integers

CONSTANTS
    Total,         \* messages of the run
    Capacity,      \* slots of each ring
    RecvTimeout,   \* RECV_TIMEOUT
    FullTimeout,   \* FULL_TIMEOUT
    Gap,           \* bound: time between two sends of the schedule
    Stalls,        \* bound: how long a party may go unscheduled at a time
    MaxStalls      \* bound: how often

ASSUME RoundTripAssumption ==
    /\ {Total, Capacity, RecvTimeout, FullTimeout} \subseteq Nat \ {0}
    /\ {Gap, MaxStalls} \subseteq Nat
    /\ Stalls \subseteq Nat \ {0}

Parties == {"sender", "echo", "receiver"}

VARIABLES
    c2sSent, c2sTaken, ebuf,    \* ring c2s, and the buffer of the echo loop
    s2cSent, s2cTaken, slot,    \* ring s2c, and what was taken from it last
    echoed,                     \* the messages written to s2c, in order
    spc, due,                   \* sending thread; when its next send is due
    epc, rpc,                   \* echo process; receive thread
    txDone, result,             \* the flag tx_done; what run_rtt returned
    left,                       \* party -> time to the deadline it has set
    away,                       \* party -> how long it is not scheduled yet
    stalls, stalled, died       \* history: stalls and their total length;
                                \* the echo process died on its own

ringC2s == <<c2sSent, c2sTaken, ebuf>>
ringS2c == <<s2cSent, s2cTaken, slot, echoed>>
sender  == <<spc, due, txDone, result>>
faults  == <<away, stalls, stalled, died>>
vars    == <<ringC2s, ringS2c, sender, epc, rpc, left, faults>>

\* The rings, a message being one word: ShmRing shows that none is torn.
Word == {0}
C2S == INSTANCE SpscFifo WITH Words <- Word, sent <- c2sSent, taken <- c2sTaken,
                              out <- ebuf
S2C == INSTANCE SpscFifo WITH Words <- Word, sent <- s2cSent, taken <- s2cTaken,
                              out <- slot

Full(sent, taken) == sent - taken >= Capacity
C2sFull == Full(c2sSent, c2sTaken)
S2cFull == Full(s2cSent, s2cTaken)

Init ==
    /\ C2S!Init /\ S2C!Init
    /\ echoed = [k \in 0 .. Total - 1 |-> -1]
    /\ spc = "wait" /\ due = 0 /\ txDone = FALSE /\ result = "none"
    /\ epc = "recv" /\ rpc = "loop"
    /\ left = [p \in Parties |-> 0]
    /\ away = [p \in Parties |-> 0]
    /\ stalls = 0 /\ stalled = 0 /\ died = FALSE

Awake(p) == away[p] = 0

\* A deadline is set, or found to have passed, by the party alone.
Arm(p, timeout) == left' = [left EXCEPT ![p] = timeout]
Expired(p) == left[p] = 0

-----------------------------------------------------------------------------
(* The sending thread: run_rtt's loop, RingProducer::send on c2s           *)

StartSend ==
    /\ spc = "wait" /\ c2sSent < Total /\ due <= 0
    /\ spc' = "send"
    /\ UNCHANGED <<ringC2s, ringS2c, due, txDone, result, epc, rpc, left, faults>>

\* Mutant of FindFull: a full ring is an error at once.
FindFullFails ==
    /\ spc = "send" /\ C2sFull
    /\ spc' = "returned" /\ result' = "err"
    /\ UNCHANGED <<ringC2s, ringS2c, due, txDone, epc, rpc, left, faults>>

\* The ring is full: from now on the deadline runs.
FindFull ==
    /\ spc = "send" /\ C2sFull
    /\ spc' = "full"
    /\ Arm("sender", FullTimeout)
    /\ UNCHANGED <<ringC2s, ringS2c, due, txDone, result, epc, rpc, faults>>

Send ==
    /\ spc \in {"send", "full"}
    /\ C2S!Send
    /\ spc' = "wait"
    /\ due' = due + Gap
    /\ UNCHANGED <<ringS2c, txDone, result, epc, rpc, left, faults>>

\* Mutant of SendTimesOut: run_rtt joins its receive thread on every path.
SendTimesOutAndJoins ==
    /\ spc = "full" /\ Expired("sender")
    /\ spc' = "join"
    /\ UNCHANGED <<ringC2s, ringS2c, due, txDone, result, epc, rpc, left, faults>>

\* The deadline has passed when the clock is read, whatever the consumer has
\* done since the cursor was: run_rtt returns the error at once, with tx_done
\* unset and the receive thread left to itself.
SendTimesOut ==
    /\ spc = "full" /\ Expired("sender")
    /\ spc' = "returned" /\ result' = "err"
    /\ UNCHANGED <<ringC2s, ringS2c, due, txDone, epc, rpc, left, faults>>

FinishSending ==
    /\ spc = "wait" /\ c2sSent = Total
    /\ txDone' = TRUE
    /\ spc' = "join"
    /\ UNCHANGED <<ringC2s, ringS2c, due, result, epc, rpc, left, faults>>

Join ==
    /\ spc = "join" /\ rpc = "done"
    /\ spc' = "returned" /\ result' = "ok"
    /\ UNCHANGED <<ringC2s, ringS2c, due, txDone, epc, rpc, left, faults>>

\* EchoChild::stop, called by rtt() or by the drop of the child.
StopEcho ==
    /\ spc = "returned"
    /\ spc' = "stopped"
    /\ epc' = "dead"
    /\ UNCHANGED <<ringC2s, ringS2c, due, txDone, result, rpc, left, faults>>

\* main returns; a receive thread that was left to itself ends with it.
Exit ==
    /\ spc = "stopped"
    /\ spc' = "exited"
    /\ rpc' = "done"
    /\ UNCHANGED <<ringC2s, ringS2c, due, txDone, result, epc, left, faults>>

-----------------------------------------------------------------------------
(* The echo process: echo()'s loop                                         *)

\* Mutant of EchoRecv: a read that timed out is echoed like a message.
EchoRecvAnything ==
    /\ epc = "recv"
    /\ epc' = "send"
    /\ C2S!Receive \/ (c2sTaken > 0 /\ UNCHANGED ringC2s)
    /\ UNCHANGED <<ringS2c, sender, rpc, left, faults>>

\* rx.recv returned Msg; TimedOut changes nothing and is left out.
EchoRecv ==
    /\ epc = "recv"
    /\ C2S!Receive
    /\ epc' = "send"
    /\ UNCHANGED <<ringS2c, sender, rpc, left, faults>>

EchoFindsFull ==
    /\ epc = "send" /\ S2cFull
    /\ epc' = "full"
    /\ Arm("echo", FullTimeout)
    /\ UNCHANGED <<ringC2s, ringS2c, sender, rpc, faults>>

\* Mutant of EchoSend: goes round without forgetting that it has a message.
EchoSendTwice ==
    /\ epc \in {"send", "full"} /\ s2cSent < Total
    /\ S2C!Send
    /\ echoed' = [echoed EXCEPT ![s2cSent] = ebuf[0]]
    /\ epc' \in {"recv", "send"}
    /\ UNCHANGED <<ringC2s, sender, rpc, left, faults>>

EchoSend ==
    /\ epc \in {"send", "full"}
    /\ S2C!Send
    /\ echoed' = [echoed EXCEPT ![s2cSent] = ebuf[0]]
    /\ epc' = "recv"
    /\ UNCHANGED <<ringC2s, sender, rpc, left, faults>>

\* echo() returns the error of tx.send, and the process ends.
EchoTimesOut ==
    /\ epc = "full" /\ Expired("echo")
    /\ epc' = "dead"
    /\ UNCHANGED <<ringC2s, ringS2c, sender, rpc, left, faults>>

-----------------------------------------------------------------------------
(* The receive thread: run_rtt's closure, RingConsumer::recv on s2c        *)

RecvLoop ==
    /\ rpc = "loop"
    /\ rpc' = IF s2cTaken < Total THEN "recv" ELSE "done"
    /\ UNCHANGED <<ringC2s, ringS2c, sender, epc, left, faults>>

\* Long enough without a stamp for the clock to be consulted: the deadline is
\* set now, not when recv was called.
RecvMiss ==
    /\ rpc = "recv" /\ s2cTaken = s2cSent
    /\ rpc' = "missed"
    /\ Arm("receiver", RecvTimeout)
    /\ UNCHANGED <<ringC2s, ringS2c, sender, epc, faults>>

RecvMsg ==
    /\ rpc \in {"recv", "missed"}
    /\ S2C!Receive
    /\ rpc' = "loop"
    /\ UNCHANGED <<ringC2s, echoed, sender, epc, left, faults>>

\* As in send, the stamp was read before the clock.
RecvTimesOut ==
    /\ rpc = "missed" /\ Expired("receiver")
    /\ rpc' = "timedout"
    /\ UNCHANGED <<ringC2s, ringS2c, sender, epc, left, faults>>

DrainDecision ==
    /\ rpc = "timedout"
    /\ rpc' = IF txDone THEN "done" ELSE "loop"
    /\ UNCHANGED <<ringC2s, ringS2c, sender, epc, left, faults>>

-----------------------------------------------------------------------------
(* What happens to the parties, and the clock                              *)

EchoDies ==
    /\ epc # "dead"
    /\ epc' = "dead" /\ died' = TRUE
    /\ UNCHANGED <<ringC2s, ringS2c, sender, rpc, left, away, stalls, stalled>>

Stall(p) ==
    /\ stalls < MaxStalls /\ Awake(p)
    /\ \E d \in Stalls : /\ away' = [away EXCEPT ![p] = d]
                         /\ stalled' = stalled + d
    /\ stalls' = stalls + 1
    /\ UNCHANGED <<ringC2s, ringS2c, sender, epc, rpc, left, died>>

\* The clock waits for a party that is scheduled and has something to do.
SenderIsBusy   == \/ spc = "wait" /\ (due <= 0 \/ c2sSent = Total)
                  \/ spc \in {"send", "returned", "stopped"}
                  \/ spc = "full" /\ (~C2sFull \/ Expired("sender"))
                  \/ spc = "join" /\ rpc = "done"
EchoIsBusy     == \/ epc = "recv" /\ c2sTaken < c2sSent
                  \/ epc = "send"
                  \/ epc = "full" /\ (~S2cFull \/ Expired("echo"))
ReceiverIsBusy == \/ rpc \in {"loop", "recv", "timedout"}
                  \/ rpc = "missed" /\ (s2cTaken < s2cSent \/ Expired("receiver"))

\* The schedule is absolute: what is due goes on falling behind during a stall.
Elapse(t) == IF t > 0 THEN t - 1 ELSE 0

Tick ==
    /\ spc # "exited"
    /\ ~(Awake("sender") /\ SenderIsBusy)
    /\ ~(Awake("echo") /\ EchoIsBusy)
    /\ ~(Awake("receiver") /\ ReceiverIsBusy)
    /\ left' = [p \in Parties |-> Elapse(left[p])]
    /\ away' = [p \in Parties |-> Elapse(away[p])]
    /\ due' = IF spc \in {"wait", "send", "full"} THEN due - 1 ELSE due
    /\ UNCHANGED <<ringC2s, ringS2c, spc, txDone, result, epc, rpc, stalls, stalled, died>>

Sender   == StartSend \/ FindFull \/ Send \/ SendTimesOut \/ FinishSending
              \/ Join \/ StopEcho \/ Exit
Echo     == EchoRecv \/ EchoFindsFull \/ EchoSend \/ EchoTimesOut
Receiver == RecvLoop \/ RecvMiss \/ RecvMsg \/ RecvTimesOut \/ DrainDecision

Exited == spc = "exited" /\ UNCHANGED vars

Next == \/ /\ spc # "exited"
           /\ \/ Awake("sender") /\ Sender
              \/ Awake("echo") /\ Echo
              \/ Awake("receiver") /\ Receiver
              \/ EchoDies
              \/ \E p \in Parties : Stall(p)
        \/ Tick
        \/ Exited

Spec == Init /\ [][Next]_vars

\* Whoever is scheduled runs, and the clock advances.
FairSpec == Spec /\ WF_vars(Next)

-----------------------------------------------------------------------------
(* Properties                                                              *)

TypeOK ==
    /\ c2sSent \in 0 .. Total /\ c2sTaken \in 0 .. c2sSent
    /\ s2cSent \in 0 .. Total /\ s2cTaken \in 0 .. s2cSent
    /\ ebuf \in [Word -> -1 .. Total - 1] /\ slot \in [Word -> -1 .. Total - 1]
    /\ echoed \in [0 .. Total - 1 -> -1 .. Total - 1]
    /\ spc \in {"wait", "send", "full", "join", "returned", "stopped", "exited"}
    /\ epc \in {"recv", "send", "full", "dead"}
    /\ rpc \in {"loop", "recv", "missed", "timedout", "done"}
    /\ due \in Int /\ stalls \in Nat /\ stalled \in Nat
    /\ txDone \in BOOLEAN /\ died \in BOOLEAN /\ result \in {"none", "ok", "err"}
    /\ left \in [Parties -> Nat] /\ away \in [Parties -> Nat]

\* Neither ring holds more than it has slots for.
RingsBounded == c2sSent - c2sTaken <= Capacity /\ s2cSent - s2cTaken <= Capacity

\* The echo loop has at most the one message in hand that it took last, and
\* what it has written back is what it took, in order.
EchoVerbatim ==
    /\ epc = "recv" => s2cSent = c2sTaken
    /\ epc \in {"send", "full"} => s2cSent = c2sTaken - 1
    /\ s2cSent \in {c2sTaken - 1, c2sTaken}
    /\ ebuf = [w \in Word |-> c2sTaken - 1]
    /\ \A k \in 0 .. s2cSent - 1 : echoed[k] = k

\* No slot is written when the schedule is over, and what the receive thread
\* took last is the slot before the one it waits for.
EndsInOrder ==
    /\ spc \in {"send", "full"} => c2sSent < Total
    /\ slot = [w \in Word |-> s2cTaken - 1]

\* Inductive: both rings are within their bounds and the echo loop is between
\* them, with at most one message in its hand.
RoundTripInvariant == TypeOK /\ RingsBounded /\ EchoVerbatim /\ EndsInOrder

\* The round trip as the harness sees it: one FIFO, as large as both rings and
\* the echo's hand, that a dead or slow echo process makes neither lose, repeat
\* nor reorder anything it does deliver.
Loop == INSTANCE SpscFifo WITH
            Capacity <- 2 * Capacity + 1, Words <- Word,
            sent <- c2sSent, taken <- s2cTaken,
            out <- [w \in Word |-> IF s2cTaken = 0 THEN -1 ELSE echoed[slot[w]]]
ImplementsFifo == Loop!Spec

\* lib.rs:16-18: "a slow consumer show[s] up as send lag in the harness ...
\* instead of as silent message loss".  While all stalls together are shorter
\* than the read timeout and the echo process lives, a run neither fails nor
\* drops a message, however often the rings were full.
StallShowsAsLag ==
    ~died /\ Gap + stalled < RecvTimeout =>
        /\ result # "err"
        /\ result = "ok" => s2cTaken = Total

\* The runner exits whatever happens to the echo process and however long
\* anybody stalls, although the receive thread of a run that failed would go on
\* for ever.
RunEnds == <>(spc = "exited")
=============================================================================
