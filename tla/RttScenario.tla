----------------------------- MODULE RttScenario -----------------------------
(***************************************************************************)
(* run_rtt (src/crates/harness/src/scenario.rs): a sender fires Total      *)
(* numbered messages on a fixed schedule at a peer that echoes them, and a *)
(* receive thread counts the echoes and measures each from its *intended*  *)
(* send time.  The two share one flag, tx_done; the receive thread decides *)
(* on its own, from that flag and its read timeouts, when the run is over. *)
(*                                                                         *)
(* Time is discrete and explicit.  The transport is abstract: a message is *)
(* in flight for at most MaxDelay, may be lost or delivered twice up to a  *)
(* budget, and is not ordered.  The peer may close the connection, or go   *)
(* away unnoticed as one behind UDP does (src/crates/backend-sockets/src/  *)
(* udp.rs), and either end may fail, where the constants allow it.         *)
(***************************************************************************)
EXTENDS Integers, Sequences, FiniteSets

CONSTANTS
    Rate,        \* --rate, in messages per second
    WarmupSecs,  \* --warmup
    DurationSecs,\* --duration
    Second,      \* ticks of the clock in a second
    Lead,        \* how far ahead the schedule starts
    Spawn,       \* time spent on spawning the receive thread before `started`
    Timeout,     \* the receiver's read timeout
    MaxDelay,    \* bound: time from a send to the arrival of its echo
    MaxStall,    \* bound: lateness of the sender at each of its two waits
    MaxLost,     \* bound: messages or echoes the transport loses
    MaxDup,      \* bound: echoes the transport delivers twice
    MayClose,    \* may the peer close the connection, or go away?
    MayFail      \* may send() or recv() return an error?

ASSUME RttAssumption ==
    /\ {Rate, Second, Timeout} \subseteq Nat \ {0}
    /\ {WarmupSecs, DurationSecs, Lead, Spawn} \subseteq Nat
    /\ {MaxDelay, MaxStall, MaxLost, MaxDup} \subseteq Nat
    /\ {MayClose, MayFail} \subseteq BOOLEAN

VARIABLES
    now,         \* the clock, counting from `started`
    spc,         \* sending thread: "wait", "send", "sent", "join", "returned"
    seq,         \* sending thread: next message of the schedule
    sby,         \* sending thread: when its current wait ends at the latest
    lag,         \* sending thread: lag_ns of the message being sent
    sendLag,     \* the send_lag histogram, in send order
    sentBy,      \* history: when each send() returned
    flight,      \* transport: messages on their way, with arrival deadlines
    arrived,     \* transport: echoes waiting to be read
    delivered,   \* history: messages whose echo arrived
    losses, dups,\* transport: budget used
    peer,        \* transport: "up", "closed" (which recv() sees) or "gone"
    txDone,      \* the shared flag tx_done
    rpc,         \* receive thread: "loop", "recv", "timedout", "done", "failed"
    deadline,    \* receive thread: end of the read timeout of this recv()
    received,    \* receive thread: stats.received
    latency,     \* receive thread: the latency histogram, as [seq, ns]
    result       \* what run_rtt returned: "none", "ok", "err"

sending   == <<spc, seq, sby, lag, sendLag, sentBy>>
transport == <<flight, arrived, delivered, losses, dups, peer>>
receiving == <<rpc, deadline, received, latency>>
vars == <<now, sending, transport, txDone, receiving, result>>

MaxOf(a, b) == IF a > b THEN a ELSE b

\* The schedule: whole ticks between two messages, so that a rate that does not
\* divide a second runs a little fast; and how many messages there are, of which
\* the first Warmup are not measured.
Interval == Second \div Rate
Warmup   == Rate * WarmupSecs
Total    == Warmup + Rate * DurationSecs

\* The intended send time of message n.
Target(n) == Lead - Spawn + n * Interval

\* Mutant of LatencyOf: measured from the actual send, not the intended one.
LatencyFromActual(n, t) ==
    MaxOf(t - Target(n) - (IF n + 1 \in DOMAIN sendLag THEN sendLag[n + 1] ELSE lag), 1)

\* What the receive thread records for message n at time t: measured from the
\* schedule, saturating at zero, at least one unit.
LatencyOf(n, t) == MaxOf(t - Target(n), 1)

LagOf(n, t) == MaxOf(t - Target(n), 1)

Init ==
    /\ now = 0
    /\ spc = "wait" /\ seq = 0 /\ sby = MaxOf(0, Target(0)) + MaxStall /\ lag = 0
    /\ sendLag = <<>> /\ sentBy = <<>>
    /\ flight = {} /\ arrived = <<>> /\ delivered = {}
    /\ losses = 0 /\ dups = 0 /\ peer = "up"
    /\ txDone = FALSE
    /\ rpc = "loop" /\ deadline = 0 /\ received = 0 /\ latency = <<>>
    /\ result = "none"

-----------------------------------------------------------------------------
(* The sending thread                                                      *)

\* spin_sleep_until(target) returned: take the lag, enter tx.send().
StartSend ==
    /\ spc = "wait" /\ seq < Total
    /\ now >= Target(seq)
    /\ lag' = LagOf(seq, now)
    /\ spc' = "send"
    /\ sby' = now + MaxStall
    /\ UNCHANGED <<now, seq, sendLag, sentBy, transport, txDone, receiving, result>>

\* Inside tx.send(): the message is on its way (or, to no peer, is not).
Inject ==
    /\ spc = "send"
    /\ spc' = "sent"
    /\ flight' = IF peer # "up" THEN flight
                 ELSE flight \cup {[seq |-> seq, by |-> now + MaxDelay]}
    /\ UNCHANGED <<now, seq, sby, lag, sendLag, sentBy, arrived, delivered,
                   losses, dups, peer, txDone, receiving, result>>

\* tx.send() returned Ok: record the lag, go on to the next message.
SendReturns ==
    /\ spc = "sent"
    /\ sendLag' = Append(sendLag, lag)
    /\ sentBy' = Append(sentBy, now)
    /\ seq' = seq + 1
    /\ spc' = "wait"
    /\ sby' = MaxOf(now, Target(seq + 1)) + MaxStall
    /\ UNCHANGED <<now, lag, transport, txDone, receiving, result>>

\* tx.send() returned an error: run_rtt returns it at once, with tx_done unset
\* and the receive thread left to itself.
SendFails ==
    /\ MayFail
    /\ spc = "send"
    /\ spc' = "returned"
    /\ result' = "err"
    /\ UNCHANGED <<now, seq, sby, lag, sendLag, sentBy, transport, txDone, receiving>>

FinishSending ==
    /\ spc = "wait" /\ seq = Total
    /\ txDone' = TRUE
    /\ spc' = "join"
    /\ UNCHANGED <<now, seq, sby, lag, sendLag, sentBy, transport, receiving, result>>

\* join() the receive thread; its error, if any, becomes run_rtt's.
Join ==
    /\ spc = "join"
    /\ rpc \in {"done", "failed"}
    /\ result' = IF rpc = "failed" THEN "err" ELSE "ok"
    /\ spc' = "returned"
    /\ UNCHANGED <<now, seq, sby, lag, sendLag, sentBy, transport, txDone, receiving>>

-----------------------------------------------------------------------------
(* The transport and the echoing peer                                      *)

Arrive(m) ==
    /\ m \in flight
    /\ flight' = flight \ {m}
    /\ arrived' = Append(arrived, m.seq)
    /\ delivered' = delivered \cup {m.seq}
    /\ UNCHANGED <<now, losses, dups, peer, sending, txDone, receiving, result>>

ArriveTwice(m) ==
    /\ m \in flight /\ dups < MaxDup
    /\ dups' = dups + 1
    /\ arrived' = arrived \o <<m.seq, m.seq>>
    /\ flight' = flight \ {m}
    /\ delivered' = delivered \cup {m.seq}
    /\ UNCHANGED <<now, losses, peer, sending, txDone, receiving, result>>

Lose(m) ==
    /\ m \in flight /\ losses < MaxLost
    /\ losses' = losses + 1
    /\ flight' = flight \ {m}
    /\ UNCHANGED <<now, arrived, delivered, dups, peer, sending, txDone, receiving, result>>

\* What was on its way is gone with the peer.
PeerGoes ==
    /\ MayClose /\ peer = "up"
    /\ peer' \in {"closed", "gone"}
    /\ flight' = {}
    /\ UNCHANGED <<now, arrived, delivered, losses, dups, sending, txDone, receiving, result>>

-----------------------------------------------------------------------------
(* The receive thread                                                      *)

\* Mutant of RecvLoop: one deadline for the whole run instead of one per recv().
RecvLoopArmsOnce ==
    /\ rpc = "loop"
    /\ rpc' = IF received < Total THEN "recv" ELSE "done"
    /\ deadline' = IF deadline = 0 THEN now + Timeout ELSE deadline
    /\ UNCHANGED <<now, received, latency, sending, transport, txDone, result>>

\* while stats.received < total { rx.recv(..) }
RecvLoop ==
    /\ rpc = "loop"
    /\ rpc' = IF received < Total THEN "recv" ELSE "done"
    /\ deadline' = now + Timeout
    /\ UNCHANGED <<now, received, latency, sending, transport, txDone, result>>

RecvMsg ==
    /\ rpc = "recv"
    /\ arrived # <<>>
    /\ LET n == Head(arrived)
       IN  latency' = IF n >= Warmup
                        THEN Append(latency, [seq |-> n, ns |-> LatencyOf(n, now)])
                        ELSE latency
    /\ arrived' = Tail(arrived)
    /\ received' = received + 1
    /\ rpc' = "loop"
    /\ UNCHANGED <<now, deadline, flight, delivered, losses, dups, peer, sending, txDone, result>>

RecvTimedOut ==
    /\ rpc = "recv"
    /\ arrived = <<>> /\ peer # "closed"
    /\ now >= deadline
    /\ rpc' = "timedout"
    /\ UNCHANGED <<now, deadline, received, latency, sending, transport, txDone, result>>

\* The drain decision: tx_done is loaded after the timeout was reported.
DrainDecision ==
    /\ rpc = "timedout"
    /\ rpc' = IF txDone THEN "done" ELSE "loop"
    /\ UNCHANGED <<now, deadline, received, latency, sending, transport, txDone, result>>

\* Mutant of RecvClosed: a closed peer is one more quiet second.
RecvClosedGoesOn ==
    /\ rpc = "recv"
    /\ arrived = <<>> /\ peer = "closed"
    /\ rpc' = "loop"
    /\ UNCHANGED <<now, deadline, received, latency, sending, transport, txDone, result>>

RecvClosed ==
    /\ rpc = "recv"
    /\ arrived = <<>> /\ peer = "closed"
    /\ rpc' = "done"
    /\ UNCHANGED <<now, deadline, received, latency, sending, transport, txDone, result>>

RecvFails ==
    /\ MayFail
    /\ rpc = "recv"
    /\ rpc' = "failed"
    /\ UNCHANGED <<now, deadline, received, latency, sending, transport, txDone, result>>

-----------------------------------------------------------------------------
\* The clock waits for whoever has something to do now: a message whose
\* arrival is due, a sender at the end of its wait, and the receive thread,
\* which spins or is woken and is taken to be prompt.
SenderIsLate   == \/ spc \in {"wait", "send", "sent"} /\ now >= sby
                  \/ spc = "join" /\ rpc \in {"done", "failed"}
MessageIsDue   == \E m \in flight : now >= m.by
ReceiverIsBusy == \/ rpc \in {"loop", "timedout"}
                  \/ rpc = "recv" /\ (arrived # <<>> \/ peer = "closed" \/ now >= deadline)

Tick ==
    /\ result = "none"
    /\ ~SenderIsLate /\ ~MessageIsDue /\ ~ReceiverIsBusy
    /\ now' = now + 1
    /\ UNCHANGED <<sending, transport, txDone, receiving, result>>

Sender    == StartSend \/ Inject \/ SendReturns \/ SendFails \/ FinishSending \/ Join
Transport == (\E m \in flight : Arrive(m) \/ ArriveTwice(m) \/ Lose(m)) \/ PeerGoes
Receiver  == RecvLoop \/ RecvMsg \/ RecvTimedOut \/ DrainDecision \/ RecvClosed \/ RecvFails

\* After run_rtt has returned nothing more is observed of it.
Returned == result # "none" /\ UNCHANGED vars

Next == \/ result = "none" /\ (Sender \/ Transport \/ Receiver)
        \/ Tick
        \/ Returned

Spec == Init /\ [][Next]_vars

\* Both threads run, the clock advances, what is in flight arrives or is lost.
FairSpec == Spec /\ WF_vars(Next)

-----------------------------------------------------------------------------
(* Properties                                                              *)

SenderTypes ==
    /\ spc \in {"wait", "send", "sent", "join", "returned"}
    /\ seq \in 0 .. Total /\ sby \in Nat /\ lag \in Nat
    /\ sendLag \in Seq(Nat) /\ sentBy \in Seq(Nat)

TransportTypes ==
    /\ flight \subseteq [seq : 0 .. Total - 1, by : Nat]
    /\ arrived \in Seq(0 .. Total - 1)
    /\ delivered \subseteq 0 .. Total - 1
    /\ losses \in 0 .. MaxLost /\ dups \in 0 .. MaxDup
    /\ peer \in {"up", "closed", "gone"}

ReceiverTypes ==
    /\ rpc \in {"loop", "recv", "timedout", "done", "failed"}
    /\ deadline \in Nat
    /\ received \in 0 .. Total
    /\ latency \in Seq([seq : 0 .. Total - 1, ns : Nat])

TypeOK ==
    /\ now \in Nat /\ txDone \in BOOLEAN /\ result \in {"none", "ok", "err"}
    /\ SenderTypes /\ TransportTypes /\ ReceiverTypes

\* Messages the transport will never deliver.
Lost == (0 .. seq - 1) \ (delivered \cup {m.seq : m \in flight})

\* RunRecord::for_rtt: what the run puts on record.
Record == [sent |-> Total, received |-> received, dropped |-> Total - received,
           measured |-> Len(latency), elapsed |-> now]

DropsAreLosses == Record.dropped = MaxOf(Cardinality(Lost) - dups, 0)

EchoesAreMeasured == Record.measured \in Record.received - Warmup - dups .. Record.received

ElapsedCoversSchedule ==
    Total > 1 => (Total - 1) * (Second - Rate)
                   < Rate * (Record.elapsed + MaxOf(Spawn - Lead, 0))

\* The record says what happened.  The dropped count is exactly the number of
\* messages that were lost, less the number delivered twice (echoes are counted,
\* not matched): the receive thread neither gives up on a message that is still
\* coming nor counts one that is not.  Every echo of a message after the warmup
\* is measured, and no more than were received.  And the elapsed time, which the
\* achieved rate is computed from, is that of the whole schedule: the truncated
\* interval makes a run shorter by less than one tick per message, and a sender
\* that starts behind the schedule by what it is behind.
RecordIsTrue ==
    result = "ok" => DropsAreLosses /\ EchoesAreMeasured /\ ElapsedCoversSchedule

\* No coordinated omission: a stall of any earlier send shows in the latency
\* of every later message and in its send lag, because both count from the
\* schedule; and a latency is never less than the message's own send lag.
NoCoordinatedOmission ==
    /\ \A i \in DOMAIN latency :
          LET n == latency[i].seq IN
          /\ \A j \in 1 .. n : latency[i].ns >= sentBy[j] - Target(n)
          /\ n + 1 \in DOMAIN sendLag => latency[i].ns >= sendLag[n + 1]
    /\ \A k \in 2 .. Len(sendLag) : sendLag[k] >= sentBy[k - 1] - Target(k - 1)

\* run_rtt returns, whatever the transport loses and whoever fails.
RunReturns == <>(result # "none")

\* scenario.rs:109-111: "A timeout after the sender finished is the drain phase
\* ending: on a lossy transport the missing messages are never coming."  So
\* where nothing is lost, nothing is reported dropped.
LosslessMeansNoDrops == result = "ok" /\ losses = 0 => received = Total
=============================================================================
