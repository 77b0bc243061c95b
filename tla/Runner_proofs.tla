---------------------------- MODULE Runner_proofs -----------------------------
(***************************************************************************)
(* Proofs about what the runner does: the measurement itself               *)
(* (RttScenario), and the processes, files and record around it            *)
(* (RunLifecycle).                                                         *)
(***************************************************************************)
EXTENDS RttScenario, RunLifecycle, SequenceTheorems, FiniteSetTheorems, WellFoundedInduction, TLAPS

-----------------------------------------------------------------------------
(***************************************************************************)
(* Proofs about RttScenario for every rate, duration, delay and stall.     *)
(* The argument: every send that has returned did so before now, and the   *)
(* echo of message n can be recorded only after the first n sends have     *)
(* returned; since latency and lag both count from the schedule, each of   *)
(* those sends is in them, however late it was.                            *)
(***************************************************************************)

(* The schedule                                                            *)

\* The assumption on the constants, one by one.
LEMMA ConstantTypes ==
  /\ Rate \in Nat \ {0} /\ Second \in Nat \ {0} /\ Timeout \in Nat \ {0}
  /\ WarmupSecs \in Nat /\ DurationSecs \in Nat /\ Lead \in Nat /\ Spawn \in Nat
  /\ MaxDelay \in Nat /\ MaxStall \in Nat /\ MaxLost \in Nat /\ MaxDup \in Nat
  BY RttAssumption

\* Types of what is derived from the options.
LEMMA ScheduleTypes == Interval \in Nat /\ Warmup \in Nat /\ Total \in Nat
<1>1. Interval \in Nat
  BY ConstantTypes, SMTT(30) DEF Interval
<1>2. Warmup \in Nat /\ Total \in Nat
  BY ConstantTypes, SMTT(30) DEF Warmup, Total
<1> QED BY <1>1, <1>2

LEMMA TargetTypes == \A n \in Nat : Target(n) \in Int
  BY ScheduleTypes, ConstantTypes, SMTT(30) DEF Target

\* interval_ns is truncated: a second holds Rate intervals, and the time left
\* over is less than one tick per message (scenario.rs:77).
LEMMA IntervalTruncates ==
  Rate * Interval <= Second /\ Second < Rate * Interval + Rate
  BY ConstantTypes, SMTT(30) DEF Interval

LEMMA MaxOfBounds ==
  \A a, b \in Int : MaxOf(a, b) >= a /\ MaxOf(a, b) >= b /\ MaxOf(a, b) \in {a, b}
  BY DEF MaxOf

\* A lag and a latency are one and the same distance from the schedule.
LEMMA LagTypes ==
  \A n, t \in Nat : LagOf(n, t) \in Nat /\ LatencyOf(n, t) = LagOf(n, t)
<1> SUFFICES ASSUME NEW n \in Nat, NEW t \in Nat
             PROVE  LagOf(n, t) \in Nat /\ LatencyOf(n, t) = LagOf(n, t)
  OBVIOUS
<1>1. Target(n) \in Int
  BY TargetTypes
<1>2. MaxOf(t - Target(n), 1) \in Nat
  BY <1>1 DEF MaxOf
<1> QED BY <1>2 DEF LagOf, LatencyOf

-----------------------------------------------------------------------------
(* The inductive invariant                                                 *)

\* Message n has been given to the transport.
Out(n) == n < seq \/ (n = seq /\ spc = "sent")

\* One entry per send that returned, each not before its time and not after now.
SendsKept ==
    /\ Len(sentBy) = seq /\ Len(sendLag) = seq
    /\ \A j \in 1 .. seq : Target(j - 1) <= sentBy[j] /\ sentBy[j] <= now
    /\ spc \in {"join"} \/ result = "ok" => seq = Total
    /\ spc \in {"send", "sent"} => seq < Total /\ Target(seq) <= now
    /\ spc = "returned" \/ result = "none"

\* A lag counts from the schedule: it has every earlier send in it, and the time
\* now, counted like that, has it in it.
LagsKept ==
    /\ \A k \in 1 .. seq : sendLag[k] <= MaxOf(now - Target(k - 1), 1)
    /\ \A k \in 2 .. seq : sendLag[k] >= sentBy[k - 1] - Target(k - 1)
    /\ spc \in {"send", "sent"} =>
          /\ lag <= MaxOf(now - Target(seq), 1)
          /\ seq > 0 => lag >= sentBy[seq] - Target(seq)

\* Only what has been sent is on its way, has arrived or has been measured.
Causal ==
    /\ \A m \in flight : Out(m.seq)
    /\ \A i \in DOMAIN arrived : Out(arrived[i])
    /\ \A i \in DOMAIN latency : Out(latency[i].seq)

LatenciesKept ==
    \A i \in DOMAIN latency :
        /\ \A j \in 1 .. latency[i].seq : latency[i].ns >= sentBy[j] - Target(latency[i].seq)
        /\ latency[i].seq < seq => latency[i].ns >= sendLag[latency[i].seq + 1]
        /\ latency[i].seq = seq => latency[i].ns >= lag

Invariant == SendsKept /\ LagsKept /\ Causal /\ LatenciesKept

-----------------------------------------------------------------------------
(* Type correctness                                                        *)

\* A message that is being sent is one of the schedule, and a read is made only
\* while messages are missing.
InBounds == (spc \in {"send", "sent"} => seq < Total) /\ (rpc = "recv" => received < Total)

LEMMA TypeStep == TypeOK /\ InBounds /\ [Next]_vars => TypeOK' /\ InBounds'
<1> SUFFICES ASSUME TypeOK, InBounds, [Next]_vars PROVE TypeOK' /\ InBounds'
  OBVIOUS
<1> USE ConstantTypes, ScheduleTypes
<1> USE DEF TypeOK, InBounds
<1>1. CASE StartSend
  <2>1. seq \in Nat /\ LagOf(seq, now) \in Nat
    <3>1. seq \in Nat
      BY DEF SenderTypes
    <3> QED BY <3>1, LagTypes
  <2>2. now + MaxStall \in Nat
    OBVIOUS
  <2>3. SenderTypes'
    BY <1>1, <2>1, <2>2 DEF StartSend, SenderTypes
  <2> QED BY <1>1, <2>3 DEF StartSend, transport, receiving, TransportTypes, ReceiverTypes,
                            SenderTypes
<1>2. CASE Inject
  <2>1. flight' \subseteq [seq : 0 .. Total - 1, by : Nat]
    <3>1. [seq |-> seq, by |-> now + MaxDelay] \in [seq : 0 .. Total - 1, by : Nat]
      BY <1>2 DEF Inject, SenderTypes
    <3> QED BY <1>2, <3>1 DEF Inject, TransportTypes
  <2>2. TransportTypes'
    BY <1>2, <2>1 DEF Inject, TransportTypes
  <2> QED BY <1>2, <2>2 DEF Inject, receiving, ReceiverTypes, SenderTypes
<1>3. CASE SendReturns
  <2>1. sby' \in Nat /\ seq' \in 0 .. Total
    <3>1. seq + 1 \in Nat /\ seq' \in 0 .. Total
      BY <1>3 DEF SendReturns, SenderTypes
    <3>2. Target(seq + 1) \in Int
      BY <3>1, TargetTypes
    <3>3. MaxOf(now, Target(seq + 1)) \in Nat
      BY <3>2 DEF MaxOf
    <3>4. sby' = MaxOf(now, Target(seq + 1)) + MaxStall
      BY <1>3 DEF SendReturns
    <3> QED BY <3>1, <3>3, <3>4
  <2>2. sendLag' \in Seq(Nat) /\ sentBy' \in Seq(Nat)
    BY <1>3 DEF SendReturns, SenderTypes
  <2>3. SenderTypes'
    BY <1>3, <2>1, <2>2 DEF SendReturns, SenderTypes
  <2> QED BY <1>3, <2>3 DEF SendReturns, transport, receiving, TransportTypes, ReceiverTypes
<1>4. CASE SendFails \/ FinishSending \/ Join
  BY <1>4 DEF SendFails, FinishSending, Join, transport, receiving, SenderTypes,
              TransportTypes, ReceiverTypes
<1>5. ASSUME NEW m \in flight, Arrive(m) \/ ArriveTwice(m) \/ Lose(m)
      PROVE  TypeOK' /\ InBounds'
  <2>1. m.seq \in 0 .. Total - 1
    BY DEF TransportTypes
  <2>2. arrived' \in Seq(0 .. Total - 1)
    <3>1. /\ arrived \in Seq(0 .. Total - 1)
          /\ <<m.seq, m.seq>> \in Seq(0 .. Total - 1)
      BY <2>1 DEF TransportTypes
    <3>2. arrived' \in {arrived, Append(arrived, m.seq), arrived \o <<m.seq, m.seq>>}
      BY <1>5 DEF Arrive, ArriveTwice, Lose
    <3>3. Append(arrived, m.seq) \in Seq(0 .. Total - 1)
      BY <2>1, <3>1
    <3>4. arrived \o <<m.seq, m.seq>> \in Seq(0 .. Total - 1)
      BY <3>1
    <3> QED BY <3>1, <3>2, <3>3, <3>4
  <2>3. dups' \in 0 .. MaxDup /\ losses' \in 0 .. MaxLost
    <3>1. dups \in 0 .. MaxDup /\ losses \in 0 .. MaxLost
      BY DEF TransportTypes
    <3>2. dups' = dups \/ (dups < MaxDup /\ dups' = dups + 1)
      BY <1>5 DEF Arrive, ArriveTwice, Lose
    <3>3. losses' = losses \/ (losses < MaxLost /\ losses' = losses + 1)
      BY <1>5 DEF Arrive, ArriveTwice, Lose
    <3> QED BY ONLY <3>1, <3>2, <3>3, ConstantTypes
  <2>4. /\ flight' \subseteq flight /\ delivered' \subseteq delivered \cup {m.seq}
        /\ peer' = peer
    BY <1>5 DEF Arrive, ArriveTwice, Lose
  <2>5. TransportTypes'
    BY <2>1, <2>2, <2>3, <2>4 DEF TransportTypes
  <2>6. UNCHANGED <<now, txDone, result, sending, receiving>>
    BY <1>5 DEF Arrive, ArriveTwice, Lose
  <2> QED BY <2>5, <2>6 DEF sending, receiving, SenderTypes, ReceiverTypes
<1>6. CASE PeerGoes
  BY <1>6 DEF PeerGoes, sending, receiving, SenderTypes, TransportTypes, ReceiverTypes
<1>7. CASE RecvLoop \/ RecvTimedOut \/ DrainDecision \/ RecvClosed \/ RecvFails
  <2>1. UNCHANGED <<now, txDone, result, sending, transport, received, latency>>
    BY <1>7 DEF RecvLoop, RecvTimedOut, DrainDecision, RecvClosed, RecvFails
  <2>2. deadline' \in Nat
    BY <1>7
       DEF RecvLoop, RecvTimedOut, DrainDecision, RecvClosed, RecvFails, ReceiverTypes
  <2>3. /\ rpc' \in {"loop", "recv", "timedout", "done", "failed"}
        /\ rpc' = "recv" => received < Total
    BY <1>7 DEF RecvLoop, RecvTimedOut, DrainDecision, RecvClosed, RecvFails
  <2> QED BY <2>1, <2>2, <2>3 DEF sending, transport, SenderTypes, TransportTypes,
                                  ReceiverTypes
<1>8. CASE RecvMsg
  <2>1. arrived' \in Seq(0 .. Total - 1) /\ Head(arrived) \in 0 .. Total - 1
    BY <1>8 DEF RecvMsg, TransportTypes
  <2>2. LatencyOf(Head(arrived), now) \in Nat
    <3>1. Head(arrived) \in Nat
      BY <2>1
    <3> QED BY <3>1, LagTypes, ZenonT(30)
  <2>3. latency' \in Seq([seq : 0 .. Total - 1, ns : Nat])
    <3>1. [seq |-> Head(arrived), ns |-> LatencyOf(Head(arrived), now)]
             \in [seq : 0 .. Total - 1, ns : Nat]
      BY <2>1, <2>2
    <3>2. latency' \in {latency, Append(latency, [seq |-> Head(arrived),
                                                  ns |-> LatencyOf(Head(arrived), now)])}
      BY <1>8 DEF RecvMsg
    <3>3. latency \in Seq([seq : 0 .. Total - 1, ns : Nat])
      BY DEF ReceiverTypes
    <3>4. Append(latency, [seq |-> Head(arrived), ns |-> LatencyOf(Head(arrived), now)])
             \in Seq([seq : 0 .. Total - 1, ns : Nat])
      BY <3>1, <3>3
    <3> QED BY <3>2, <3>3, <3>4
  <2>4. received' \in 0 .. Total
    BY <1>8 DEF RecvMsg, ReceiverTypes
  <2>5. ReceiverTypes'
    BY <1>8, <2>3, <2>4 DEF RecvMsg, ReceiverTypes
  <2>6. TransportTypes'
    BY <1>8, <2>1 DEF RecvMsg, TransportTypes
  <2> QED BY <1>8, <2>5, <2>6 DEF RecvMsg, sending, SenderTypes
<1>9. CASE Tick
  BY <1>9 DEF Tick, sending, transport, receiving, SenderTypes, TransportTypes, ReceiverTypes
<1>10. CASE UNCHANGED vars
  BY <1>10 DEF vars, sending, transport, receiving, SenderTypes, TransportTypes, ReceiverTypes
<1> QED
  BY <1>1, <1>2, <1>3, <1>4, <1>5, <1>6, <1>7, <1>8, <1>9, <1>10
     DEF Next, Sender, Transport, Receiver, Returned

LEMMA TypeInit == Init => TypeOK /\ InBounds
<1> SUFFICES ASSUME Init PROVE TypeOK /\ InBounds
  OBVIOUS
<1> USE ConstantTypes, ScheduleTypes DEF Init
<1>1. SenderTypes
  <2>1. MaxOf(0, Target(0)) + MaxStall \in Nat
    <3>1. Target(0) \in Int
      BY TargetTypes
    <3> QED BY <3>1 DEF MaxOf
  <2> QED BY <2>1 DEF SenderTypes
<1>2. TransportTypes
  BY DEF TransportTypes
<1>3. ReceiverTypes
  BY DEF ReceiverTypes
<1> QED BY <1>1, <1>2, <1>3 DEF TypeOK, InBounds

\* Every variable of a run keeps its type; in particular no more messages are
\* counted as received than were to be sent, so sent - received cannot wrap.
THEOREM TypeCorrect == Spec => []TypeOK
<1>1. TypeOK /\ InBounds /\ [Next]_vars => (TypeOK /\ InBounds)'
  BY TypeStep
<1> QED BY <1>1, TypeInit, PTL DEF Spec
-----------------------------------------------------------------------------
(* The invariant is kept                                                   *)

\* An index of a sequence that one element was appended to.
LEMMA LastIndex == \A n \in Nat : \A i \in 1 .. n + 1 : i \in 1 .. n \/ i = n + 1
  OBVIOUS

LEMMA AppendedTo ==
  ASSUME NEW s \in Seq(Nat), NEW e \in Nat, NEW n \in Nat, Len(s) = n
  PROVE  /\ Len(Append(s, e)) = n + 1 /\ Append(s, e)[n + 1] = e
         /\ \A j \in 1 .. n : Append(s, e)[j] = s[j]
  BY AppendProperties

LEMMA TwiceAppendedTo ==
  ASSUME NEW S, NEW s \in Seq(S), NEW e \in S
  PROVE  \A i \in DOMAIN (s \o <<e, e>>) :
            (i \in DOMAIN s /\ (s \o <<e, e>>)[i] = s[i]) \/ (s \o <<e, e>>)[i] = e
<1> DEFINE two == <<e, e>>
<1>1. two \in Seq(S) /\ Len(two) = 2 /\ two[1] = e /\ two[2] = e
  OBVIOUS
<1> HIDE DEF two
<1>2. /\ s \o two \in Seq(S) /\ Len(s \o two) = Len(s) + Len(two)
      /\ \A i \in 1 .. Len(s) + Len(two) :
            (s \o two)[i] = IF i <= Len(s) THEN s[i] ELSE two[i - Len(s)]
  BY <1>1, ConcatProperties
<1>3. /\ DOMAIN (s \o two) = 1 .. Len(s \o two) /\ DOMAIN s = 1 .. Len(s) /\ Len(s) \in Nat
  BY <1>2, LenProperties
<1>4. \A k \in Nat : \A i \in 1 .. k + 2 :
         i \in 1 .. k \/ (~(i <= k) /\ i - k = 1) \/ (~(i <= k) /\ i - k = 2)
  OBVIOUS
<1>5. ASSUME NEW i \in DOMAIN (s \o two)
      PROVE  (i \in DOMAIN s /\ (s \o two)[i] = s[i]) \/ (s \o two)[i] = e
  <2>1. i \in 1 .. Len(s) + 2
    BY <1>1, <1>2, <1>3
  <2>2. CASE i \in 1 .. Len(s)
    BY <1>1, <1>2, <1>3, <2>1, <2>2
  <2>3. CASE ~(i <= Len(s)) /\ i - Len(s) = 1
    BY <1>1, <1>2, <1>3, <2>1, <2>3
  <2>4. CASE ~(i <= Len(s)) /\ i - Len(s) = 2
    BY <1>1, <1>2, <1>3, <2>1, <2>4
  <2> QED BY <1>3, <1>4, <2>1, <2>2, <2>3, <2>4
<1> QED BY <1>5 DEF two

\* The distance from the schedule only grows.
LEMMA LagGrows ==
  \A a, b \in Int : a <= b => MaxOf(a, 1) <= MaxOf(b, 1)
  BY DEF MaxOf

\* The types the steps below use, taken out of TypeOK.
LEMMA Facts ==
  ASSUME TypeOK, Invariant
  PROVE  /\ now \in Nat /\ seq \in Nat /\ lag \in Nat
         /\ \A j \in 1 .. seq : sentBy[j] \in Nat /\ sendLag[j] \in Nat
<1>1. /\ now \in Nat /\ seq \in Nat /\ lag \in Nat
      /\ sentBy \in Seq(Nat) /\ sendLag \in Seq(Nat)
  BY ScheduleTypes DEF TypeOK, SenderTypes
<1>2. Len(sentBy) = seq /\ Len(sendLag) = seq
  BY DEF Invariant, SendsKept
<1>3. \A j \in 1 .. seq : sentBy[j] \in Nat /\ sendLag[j] \in Nat
  BY <1>1, <1>2, ElementOfSeq
<1> QED BY <1>1, <1>3

LEMMA MessageFacts ==
  ASSUME TypeOK
  PROVE  /\ \A m \in flight : m.seq \in Nat
         /\ DOMAIN arrived = 1 .. Len(arrived) /\ Len(arrived) \in Nat
         /\ \A i \in DOMAIN arrived : arrived[i] \in Nat
         /\ DOMAIN latency = 1 .. Len(latency) /\ Len(latency) \in Nat
         /\ \A i \in DOMAIN latency : latency[i].seq \in Nat /\ latency[i].ns \in Nat
<1>1. \A m \in flight : m.seq \in Nat
  BY ScheduleTypes DEF TypeOK, TransportTypes
<1>2. /\ DOMAIN arrived = 1 .. Len(arrived) /\ Len(arrived) \in Nat
      /\ \A i \in DOMAIN arrived : arrived[i] \in Nat
  <2>1. arrived \in Seq(0 .. Total - 1)
    BY DEF TypeOK, TransportTypes
  <2>2. DOMAIN arrived = 1 .. Len(arrived) /\ Len(arrived) \in Nat
    BY <2>1, LenProperties
  <2>3. \A i \in DOMAIN arrived : arrived[i] \in 0 .. Total - 1
    BY <2>1, <2>2, ElementOfSeq
  <2> QED BY <2>2, <2>3, ScheduleTypes
<1>3. /\ DOMAIN latency = 1 .. Len(latency) /\ Len(latency) \in Nat
      /\ \A i \in DOMAIN latency : latency[i].seq \in Nat /\ latency[i].ns \in Nat
  <2> DEFINE Entries == [seq : 0 .. Total - 1, ns : Nat]
  <2>1. latency \in Seq(Entries)
    BY DEF TypeOK, ReceiverTypes
  <2>2. \A e \in Entries : e.seq \in Nat /\ e.ns \in Nat
    BY ScheduleTypes
  <2> HIDE DEF Entries
  <2>3. DOMAIN latency = 1 .. Len(latency) /\ Len(latency) \in Nat
    BY <2>1, LenProperties
  <2>4. \A i \in DOMAIN latency : latency[i] \in Entries
    BY <2>1, <2>3, ElementOfSeq
  <2> QED BY <2>2, <2>3, <2>4
<1> QED BY <1>1, <1>2, <1>3

\* What has been measured has been sent, or is being sent.
LEMMA MeasuredWasSent ==
  ASSUME TypeOK, Invariant
  PROVE  \A i \in DOMAIN latency :
            /\ latency[i].seq \in 0 .. seq /\ latency[i].ns \in Nat
            /\ latency[i].seq = seq => spc = "sent"
<1> SUFFICES ASSUME NEW i \in DOMAIN latency
             PROVE  /\ latency[i].seq \in 0 .. seq /\ latency[i].ns \in Nat
                    /\ latency[i].seq = seq => spc = "sent"
  OBVIOUS
<1>1. latency[i].seq \in Nat /\ latency[i].ns \in Nat /\ seq \in Nat
  BY MessageFacts, Facts
<1>2. Out(latency[i].seq)
  BY DEF Invariant, Causal
<1> QED BY <1>1, <1>2 DEF Out

\* Entering tx.send(): the lag is taken from the schedule.
LEMMA KeptByStartSend ==
  ASSUME TypeOK, Invariant, result = "none", StartSend PROVE Invariant'
<1>0. /\ now \in Nat /\ seq \in Nat /\ lag \in Nat
      /\ \A j \in 1 .. seq : sentBy[j] \in Nat /\ sendLag[j] \in Nat
  BY Facts
<1>t. /\ \A k \in Nat : Target(k) \in Int
      /\ Total \in Nat
  BY TargetTypes, ScheduleTypes
<1> USE <1>0, <1>t
<1>1. /\ spc = "wait" /\ spc' = "send" /\ seq < Total /\ Target(seq) <= now
      /\ lag' = MaxOf(now - Target(seq), 1) /\ result' = result
      /\ UNCHANGED <<now, seq, sendLag, sentBy, flight, arrived, latency>>
  BY DEF StartSend, LagOf, transport, receiving
<1>2. SendsKept'
  BY <1>1 DEF Invariant, SendsKept
<1>3. LagsKept'
  <2>1. seq > 0 => lag' >= sentBy[seq] - Target(seq)
    <3>1. CASE seq > 0
      <4>0. seq \in 1 .. seq
        BY <3>1
      <4>1. sentBy[seq] <= now /\ sentBy[seq] \in Nat
        BY <4>0 DEF Invariant, SendsKept
      <4>2. Target(seq) \in Int /\ now - Target(seq) \in Int
        OBVIOUS
      <4>3. lag' \in Int /\ lag' >= now - Target(seq)
        BY <1>1, <4>2, MaxOfBounds
      <4> QED BY <4>1, <4>2, <4>3
    <3> QED BY <3>1
  <2>2. lag' <= MaxOf(now - Target(seq), 1)
    <3>1. lag' \in Int
      BY <1>1, MaxOfBounds
    <3> QED BY <1>1, <3>1
  <2> QED BY <1>1, <2>1, <2>2 DEF Invariant, LagsKept
<1>4. Causal'
  BY <1>1 DEF Invariant, Causal, Out
<1>5. LatenciesKept'
  <2>1. \A i \in DOMAIN latency : latency[i].seq # seq
    BY <1>1, MeasuredWasSent
  <2> QED BY <1>1, <2>1 DEF Invariant, LatenciesKept
<1> QED BY <1>2, <1>3, <1>4, <1>5 DEF Invariant

\* tx.send() returned: the lag becomes the last entry of the histogram.
LEMMA KeptBySendReturns ==
  ASSUME TypeOK, InBounds, Invariant, result = "none", SendReturns PROVE Invariant'
<1>0. /\ now \in Nat /\ seq \in Nat /\ lag \in Nat
      /\ \A j \in 1 .. seq : sentBy[j] \in Nat /\ sendLag[j] \in Nat
  BY Facts
<1>t. /\ \A k \in Nat : Target(k) \in Int
      /\ Total \in Nat
  BY TargetTypes, ScheduleTypes
<1> USE <1>0, <1>t
<1>1. /\ spc = "sent" /\ spc' = "wait" /\ seq' = seq + 1 /\ seq < Total
      /\ sendLag' = Append(sendLag, lag) /\ sentBy' = Append(sentBy, now)
      /\ UNCHANGED <<now, lag, flight, arrived, latency, result>>
  BY DEF SendReturns, transport, receiving, InBounds
<1>2. Len(sentBy) = seq /\ Len(sendLag) = seq
  BY DEF Invariant, SendsKept
<1>3. /\ Len(sentBy') = seq + 1 /\ sentBy'[seq + 1] = now
      /\ Len(sendLag') = seq + 1 /\ sendLag'[seq + 1] = lag
      /\ \A j \in 1 .. seq : sentBy'[j] = sentBy[j] /\ sendLag'[j] = sendLag[j]
  <2>1. sentBy \in Seq(Nat) /\ sendLag \in Seq(Nat)
    BY DEF TypeOK, SenderTypes
  <2>2. /\ Len(Append(sentBy, now)) = seq + 1 /\ Append(sentBy, now)[seq + 1] = now
        /\ \A j \in 1 .. seq : Append(sentBy, now)[j] = sentBy[j]
    BY <1>2, <2>1, AppendedTo
  <2>3. /\ Len(Append(sendLag, lag)) = seq + 1 /\ Append(sendLag, lag)[seq + 1] = lag
        /\ \A j \in 1 .. seq : Append(sendLag, lag)[j] = sendLag[j]
    BY <1>2, <2>1, AppendedTo
  <2> QED BY <1>1, <2>2, <2>3
<1>4. SendsKept'
  <2>1. Target(seq) <= now
    BY <1>1 DEF Invariant, SendsKept
  <2>2. \A j \in 1 .. seq + 1 : Target(j - 1) <= sentBy'[j] /\ sentBy'[j] <= now
    <3>1. \A j \in 1 .. seq : Target(j - 1) <= sentBy'[j] /\ sentBy'[j] <= now
      BY <1>3 DEF Invariant, SendsKept
    <3>2. Target((seq + 1) - 1) <= sentBy'[seq + 1] /\ sentBy'[seq + 1] <= now
      <4>1. (seq + 1) - 1 = seq
        OBVIOUS
      <4> QED BY <1>3, <2>1, <4>1
    <3>3. \A j \in 1 .. seq + 1 : j \in 1 .. seq \/ j = seq + 1
      OBVIOUS
    <3> QED BY <3>1, <3>2, <3>3
  <2> QED BY <1>1, <1>3, <2>2 DEF Invariant, SendsKept
<1>5. LagsKept'
  <2>1. \A k \in 1 .. seq + 1 : sendLag'[k] <= MaxOf(now - Target(k - 1), 1)
    <3>1. \A k \in 1 .. seq : sendLag'[k] <= MaxOf(now - Target(k - 1), 1)
      BY <1>3 DEF Invariant, LagsKept
    <3>2. sendLag'[seq + 1] <= MaxOf(now - Target((seq + 1) - 1), 1)
      <4>1. (seq + 1) - 1 = seq
        OBVIOUS
      <4> QED BY <1>1, <1>3, <4>1 DEF Invariant, LagsKept
    <3>3. \A k \in 1 .. seq + 1 : k \in 1 .. seq \/ k = seq + 1
      OBVIOUS
    <3> QED BY <3>1, <3>2, <3>3
  <2>2. \A k \in 2 .. seq + 1 : sendLag'[k] >= sentBy'[k - 1] - Target(k - 1)
    <3>1. \A k \in 2 .. seq : sendLag'[k] >= sentBy'[k - 1] - Target(k - 1)
      <4>1. \A k \in 2 .. seq : k \in 1 .. seq /\ k - 1 \in 1 .. seq
        OBVIOUS
      <4>2. \A k \in 2 .. seq : sendLag[k] >= sentBy[k - 1] - Target(k - 1)
        BY DEF Invariant, LagsKept
      <4> QED BY <1>3, <4>1, <4>2
    <3>2. seq > 0 => sendLag'[seq + 1] >= sentBy'[(seq + 1) - 1] - Target((seq + 1) - 1)
      <4>1. (seq + 1) - 1 = seq /\ (seq > 0 => seq \in 1 .. seq)
        OBVIOUS
      <4>2. seq > 0 => lag >= sentBy[seq] - Target(seq)
        BY <1>1 DEF Invariant, LagsKept
      <4> QED BY <1>3, <4>1, <4>2
    <3>3. \A k \in 2 .. seq + 1 : k \in 2 .. seq \/ (k = seq + 1 /\ seq > 0)
      OBVIOUS
    <3> QED BY <3>1, <3>2, <3>3
  <2> QED BY <1>1, <2>1, <2>2 DEF LagsKept
<1>6. Causal'
  <2>1. \A n \in Nat : Out(n) => Out(n)'
    BY <1>1 DEF Out
  <2> QED BY <1>1, <2>1, MessageFacts DEF Invariant, Causal
<1>7. LatenciesKept'
  <2> SUFFICES ASSUME NEW i \in DOMAIN latency
               PROVE  /\ \A j \in 1 .. latency[i].seq :
                           latency[i].ns >= sentBy'[j] - Target(latency[i].seq)
                      /\ latency[i].seq < seq + 1 =>
                           latency[i].ns >= sendLag'[latency[i].seq + 1]
                      /\ latency[i].seq # seq + 1
    BY <1>1 DEF LatenciesKept
  <2>1. latency[i].seq \in 0 .. seq
    BY MeasuredWasSent
  <2>2. /\ \A j \in 1 .. latency[i].seq : latency[i].ns >= sentBy[j] - Target(latency[i].seq)
        /\ latency[i].seq < seq => latency[i].ns >= sendLag[latency[i].seq + 1]
        /\ latency[i].seq = seq => latency[i].ns >= lag
    BY DEF Invariant, LatenciesKept
  <2>3. \A j \in 1 .. latency[i].seq : j \in 1 .. seq
    BY <2>1
  <2>4. latency[i].seq < seq => latency[i].seq + 1 \in 1 .. seq
    BY <2>1
  <2>5. \A j \in 1 .. latency[i].seq :
           latency[i].ns >= sentBy'[j] - Target(latency[i].seq)
    BY <1>3, <2>2, <2>3
  <2>6. latency[i].seq < seq + 1 => latency[i].ns >= sendLag'[latency[i].seq + 1]
    <3>1. CASE latency[i].seq < seq
      BY <1>3, <2>2, <2>4, <3>1
    <3>2. CASE latency[i].seq = seq
      BY <1>3, <2>2, <3>2
    <3> QED BY <2>1, <3>1, <3>2
  <2> QED BY <2>1, <2>5, <2>6
<1> QED BY <1>4, <1>5, <1>6, <1>7 DEF Invariant

\* An echo is recorded: whatever was sent before now is in its latency.
LEMMA KeptByRecvMsg ==
  ASSUME TypeOK, TypeOK', Invariant, RecvMsg PROVE Invariant'
<1>0. /\ now \in Nat /\ seq \in Nat /\ lag \in Nat
      /\ \A j \in 1 .. seq : sentBy[j] \in Nat /\ sendLag[j] \in Nat
  BY Facts
<1>t. /\ \A k \in Nat : Target(k) \in Int
      /\ Total \in Nat
  BY TargetTypes, ScheduleTypes
<1> USE <1>0, <1>t
<1> DEFINE n == Head(arrived)
           new == [seq |-> n, ns |-> LatencyOf(n, now)]
<1>1. /\ arrived # <<>> /\ arrived' = Tail(arrived)
      /\ latency' \in {latency, Append(latency, new)}
      /\ UNCHANGED <<now, spc, seq, lag, sendLag, sentBy, flight, result>>
  BY DEF RecvMsg, sending
<1>2. arrived \in Seq(0 .. Total - 1) /\ latency \in Seq([seq : 0 .. Total - 1, ns : Nat])
  BY DEF TypeOK, TransportTypes, ReceiverTypes
<1>3. n = arrived[1] /\ 1 \in DOMAIN arrived /\ n \in Nat
  <2>1. Len(arrived) \in Nat /\ Len(arrived) # 0 /\ DOMAIN arrived = 1 .. Len(arrived)
    BY <1>1, <1>2, LenProperties, EmptySeq
  <2>2. 1 \in DOMAIN arrived /\ Head(arrived) = arrived[1]
    BY <1>2, <2>1
  <2> QED BY <2>2, MessageFacts
<1>4. Out(n)
  BY <1>3 DEF Invariant, Causal
<1>5. SendsKept' /\ LagsKept'
  BY <1>1 DEF Invariant, SendsKept, LagsKept
<1>6. \A i \in DOMAIN latency' : (i \in DOMAIN latency /\ latency'[i] = latency[i])
                                  \/ latency'[i] = new
  <2>1. CASE latency' = latency
    BY <2>1
  <2>2. CASE latency' = Append(latency, new)
    <3> DEFINE Entries == [seq : 0 .. Total - 1, ns : Nat]
    <3>0. latency' \in Seq(Entries) /\ latency \in Seq(Entries)
      BY DEF TypeOK, ReceiverTypes
    <3> HIDE DEF Entries, new
    <3>1. /\ DOMAIN latency' = 1 .. Len(latency') /\ DOMAIN latency = 1 .. Len(latency)
          /\ Len(latency) \in Nat
      BY <3>0, LenProperties
    <3>2. /\ Len(latency') = Len(latency) + 1
          /\ \A i \in 1 .. Len(latency) : latency'[i] = latency[i]
          /\ latency'[Len(latency) + 1] = new
      <4>1. new \in Entries
        <5>1. LatencyOf(n, now) \in Nat
          BY <1>3, LagTypes
        <5>2. n \in 0 .. Total - 1
          BY <1>1, <1>2, HeadTailProperties
        <5> QED BY <5>1, <5>2 DEF Entries, new
      <4> QED BY <2>2, <3>0, <4>1, AppendProperties
    <3>3. \A i \in 1 .. Len(latency) + 1 : i \in 1 .. Len(latency) \/ i = Len(latency) + 1
      BY <3>1, LastIndex
    <3> QED BY <3>1, <3>2, <3>3
  <2> QED BY <1>1, <2>1, <2>2
<1>7. new.seq = n /\ new.ns = LatencyOf(n, now)
  OBVIOUS
<1>8. Causal'
  <2>1. \A i \in DOMAIN arrived' : i + 1 \in DOMAIN arrived /\ arrived'[i] = arrived[i + 1]
    <3>1. /\ Tail(arrived) \in Seq(0 .. Total - 1) /\ Len(Tail(arrived)) = Len(arrived) - 1
          /\ \A i \in 1 .. Len(Tail(arrived)) : Tail(arrived)[i] = arrived[i + 1]
      BY <1>1, <1>2, HeadTailProperties
    <3>2. DOMAIN Tail(arrived) = 1 .. Len(Tail(arrived)) /\ DOMAIN arrived = 1 .. Len(arrived)
      BY <1>2, <3>1, LenProperties
    <3>3. Len(arrived) \in Nat
      BY <1>2, LenProperties
    <3>4. \A i \in 1 .. Len(Tail(arrived)) : i + 1 \in 1 .. Len(arrived)
      <4> SUFFICES ASSUME NEW k \in Nat, k = Len(arrived), Len(Tail(arrived)) = k - 1
                   PROVE  \A i \in 1 .. k - 1 : i + 1 \in 1 .. k
        BY <3>1, <3>3
      <4> QED OBVIOUS
    <3> QED BY <1>1, <3>1, <3>2, <3>4
  <2>3. \A i \in DOMAIN arrived' : Out(arrived'[i])
    BY <2>1 DEF Invariant, Causal
  <2>4. \A i \in DOMAIN latency' : Out(latency'[i].seq)
    BY <1>4, <1>6, <1>7 DEF Invariant, Causal
  <2>5. \A m \in flight' : Out(m.seq)
    BY <1>1 DEF Invariant, Causal
  <2> QED BY <1>1, <2>3, <2>4, <2>5 DEF Causal, Out
<1>9. LatenciesKept'
  <2>1. LatencyOf(n, now) = MaxOf(now - Target(n), 1) /\ Target(n) \in Int
    BY <1>3 DEF LatencyOf
  <2>2. LatencyOf(n, now) >= now - Target(n) /\ LatencyOf(n, now) \in Int
    BY <2>1, MaxOfBounds
  <2>3. \A j \in 1 .. n : LatencyOf(n, now) >= sentBy[j] - Target(n)
    <3>1. \A j \in 1 .. n : j \in 1 .. seq
      BY <1>3, <1>4 DEF Out
    <3>2. \A j \in 1 .. n : sentBy[j] <= now /\ sentBy[j] \in Nat
      BY <3>1 DEF Invariant, SendsKept
    <3> QED BY <2>1, <2>2, <3>2
  <2>4. n < seq => LatencyOf(n, now) >= sendLag[n + 1]
    <3>1. n < seq => n + 1 \in 1 .. seq /\ (n + 1) - 1 = n
      BY <1>3
    <3>2. n < seq => sendLag[n + 1] <= MaxOf(now - Target((n + 1) - 1), 1)
      BY <3>1 DEF Invariant, LagsKept
    <3>3. n < seq => sendLag[n + 1] \in Nat
      BY <3>1 DEF Invariant, SendsKept
    <3> QED BY <2>1, <2>2, <3>1, <3>2, <3>3
  <2>5. n = seq => LatencyOf(n, now) >= lag
    <3>1. n = seq => lag <= MaxOf(now - Target(n), 1)
      BY <1>3, <1>4 DEF Out, Invariant, LagsKept
    <3> QED BY <2>1, <2>2, <3>1
  <2> QED BY <1>1, <1>6, <1>7, <2>3, <2>4, <2>5 DEF Invariant, LatenciesKept
<1> QED BY <1>5, <1>8, <1>9 DEF Invariant

LEMMA InvariantStep ==
  TypeOK /\ InBounds /\ Invariant /\ [Next]_vars => Invariant'
<1> SUFFICES ASSUME TypeOK, InBounds, Invariant, [Next]_vars PROVE Invariant'
  OBVIOUS
<1>0. /\ now \in Nat /\ seq \in Nat /\ lag \in Nat
      /\ \A j \in 1 .. seq : sentBy[j] \in Nat /\ sendLag[j] \in Nat
  BY Facts
<1>t. /\ \A k \in Nat : Target(k) \in Int
      /\ Total \in Nat
  BY TargetTypes, ScheduleTypes
<1> USE <1>0, <1>t
<1>1. CASE result = "none" /\ StartSend
  BY <1>1, KeptByStartSend
<1>2. CASE result = "none" /\ SendReturns
  BY <1>2, KeptBySendReturns
<1>3. CASE RecvMsg
  BY <1>3, KeptByRecvMsg, TypeStep
<1>4. CASE result = "none" /\ Inject
  <2>1. /\ spc = "send" /\ spc' = "sent"
        /\ flight' \in {flight, flight \cup {[seq |-> seq, by |-> now + MaxDelay]}}
        /\ UNCHANGED <<now, seq, lag, sendLag, sentBy, arrived, latency, result>>
    BY <1>4 DEF Inject, receiving
  <2>2. SendsKept' /\ LagsKept' /\ LatenciesKept'
    BY <2>1 DEF Invariant, SendsKept, LagsKept, LatenciesKept
  <2>3. \A k : Out(k) \/ k = seq => Out(k)'
    BY <2>1 DEF Out
  <2>4. \A m \in flight' : m \in flight \/ m.seq = seq
    BY <2>1
  <2>5. Causal'
    BY <2>1, <2>3, <2>4 DEF Invariant, Causal
  <2> QED BY <2>2, <2>5 DEF Invariant
<1>5. CASE result = "none" /\ (SendFails \/ FinishSending \/ Join)
  <2>1. /\ spc # "sent"
        /\ spc' \in {"join", "returned"} /\ (result' = "ok" \/ spc' = "join" => seq = Total)
        /\ (spc' = "returned" \/ result' = "none")
        /\ UNCHANGED <<now, seq, lag, sendLag, sentBy, flight, arrived, latency>>
    BY <1>5 DEF SendFails, FinishSending, Join, transport, receiving, Invariant, SendsKept
  <2>2. SendsKept' /\ LagsKept' /\ LatenciesKept'
    BY <2>1 DEF Invariant, SendsKept, LagsKept, LatenciesKept
  <2>3. Causal'
    BY <2>1 DEF Invariant, Causal, Out
  <2> QED BY <2>2, <2>3 DEF Invariant
<1>6. ASSUME NEW m \in flight, Arrive(m) \/ ArriveTwice(m) \/ Lose(m)
      PROVE  Invariant'
  <2>1. UNCHANGED <<now, spc, seq, lag, sendLag, sentBy, latency, result>>
    BY <1>6 DEF Arrive, ArriveTwice, Lose, sending, receiving
  <2>2. SendsKept' /\ LagsKept' /\ LatenciesKept'
    BY <2>1 DEF Invariant, SendsKept, LagsKept, LatenciesKept
  <2>3. arrived \in Seq(0 .. Total - 1) /\ m.seq \in 0 .. Total - 1
    BY DEF TypeOK, TransportTypes
  <2>4. \A i \in DOMAIN arrived' :
           (i \in DOMAIN arrived /\ arrived'[i] = arrived[i]) \/ arrived'[i] = m.seq
    <3>1. arrived' \in {arrived, Append(arrived, m.seq), arrived \o <<m.seq, m.seq>>}
      BY <1>6 DEF Arrive, ArriveTwice, Lose
    <3>2. CASE arrived' = arrived
      BY <3>2
    <3>3. CASE arrived' = Append(arrived, m.seq)
      <4>1. /\ DOMAIN arrived' = 1 .. Len(arrived) + 1 /\ DOMAIN arrived = 1 .. Len(arrived)
            /\ Len(arrived) \in Nat
        BY <2>3, <3>3, AppendProperties, LenProperties
      <4>2. /\ \A i \in 1 .. Len(arrived) : arrived'[i] = arrived[i]
            /\ arrived'[Len(arrived) + 1] = m.seq
        BY <2>3, <3>3, AppendProperties
      <4>3. \A i \in 1 .. Len(arrived) + 1 : i \in 1 .. Len(arrived) \/ i = Len(arrived) + 1
        BY <4>1, LastIndex
      <4> QED BY <4>1, <4>2, <4>3
    <3>4. CASE arrived' = arrived \o <<m.seq, m.seq>>
      <4> DEFINE more == arrived \o <<m.seq, m.seq>>
      <4>1. \A i \in DOMAIN more :
               (i \in DOMAIN arrived /\ more[i] = arrived[i]) \/ more[i] = m.seq
        BY <2>3, TwiceAppendedTo
      <4>2. arrived' = more
        BY <3>4
      <4> HIDE DEF more
      <4> QED BY <4>1, <4>2
    <3> QED BY <3>1, <3>2, <3>3, <3>4
  <2>5. flight' \subseteq flight
    BY <1>6 DEF Arrive, ArriveTwice, Lose
  <2>6. \A k : Out(k)' <=> Out(k)
    BY <2>1 DEF Out
  <2>7. Causal'
    BY <2>1, <2>4, <2>5, <2>6 DEF Invariant, Causal
  <2> QED BY <2>2, <2>7 DEF Invariant
<1>7. CASE \/ PeerGoes \/ RecvLoop \/ RecvTimedOut \/ DrainDecision \/ RecvClosed \/ RecvFails
           \/ UNCHANGED vars
  <2>1. /\ flight' \subseteq flight
        /\ UNCHANGED <<now, spc, seq, lag, sendLag, sentBy, arrived, latency, result>>
    BY <1>7 DEF PeerGoes, RecvLoop, RecvTimedOut, DrainDecision, RecvClosed, RecvFails,
                sending, transport, receiving, vars
  <2>2. SendsKept' /\ LagsKept' /\ LatenciesKept'
    BY <2>1 DEF Invariant, SendsKept, LagsKept, LatenciesKept
  <2>3. Causal'
    BY <2>1 DEF Invariant, Causal, Out
  <2> QED BY <2>2, <2>3 DEF Invariant
<1>8. CASE Tick
  <2>1. /\ now' = now + 1
        /\ UNCHANGED <<spc, seq, lag, sendLag, sentBy, flight, arrived, latency, result>>
    BY <1>8 DEF Tick, sending, transport, receiving
  <2>2. Len(sentBy) = seq /\ Len(sendLag) = seq
    BY DEF Invariant, SendsKept
  <2>3. SendsKept'
    <3>1. \A j \in 1 .. seq : Target(j - 1) <= sentBy[j] /\ sentBy[j] <= now + 1
      BY DEF Invariant, SendsKept
    <3>2. now <= now + 1
      OBVIOUS
    <3>3. spc \in {"send", "sent"} => Target(seq) <= now + 1
      BY DEF Invariant, SendsKept
    <3> QED BY <2>1, <3>1, <3>3 DEF Invariant, SendsKept
  <2>4. \A k \in Nat : MaxOf(now - Target(k), 1) <= MaxOf(now' - Target(k), 1)
    BY <2>1, LagGrows
  <2>5. \A k \in Nat : MaxOf(now - Target(k), 1) \in Int /\ MaxOf(now' - Target(k), 1) \in Int
    BY <2>1, MaxOfBounds
  <2>6. LagsKept'
    <3>1. \A k \in 1 .. seq : sendLag[k] <= MaxOf(now' - Target(k - 1), 1)
      <4>1. \A k \in 1 .. seq : k - 1 \in Nat /\ sendLag[k] \in Nat
        BY <2>2
      <4>2. \A k \in 1 .. seq : sendLag[k] <= MaxOf(now - Target(k - 1), 1)
        BY DEF Invariant, LagsKept
      <4> QED BY <2>4, <2>5, <4>1, <4>2
    <3>2. spc \in {"send", "sent"} => lag <= MaxOf(now' - Target(seq), 1)
      BY <2>4, <2>5 DEF Invariant, LagsKept
    <3> QED BY <2>1, <3>1, <3>2 DEF Invariant, LagsKept
  <2>7. Causal' /\ LatenciesKept'
    BY <2>1 DEF Invariant, Causal, Out, LatenciesKept
  <2> QED BY <2>3, <2>6, <2>7 DEF Invariant
<1> QED
  BY <1>1, <1>2, <1>3, <1>4, <1>5, <1>6, <1>7, <1>8
     DEF Next, Sender, Transport, Receiver, Returned

LEMMA InvariantInit == Init => Invariant
  BY ScheduleTypes DEF Init, Invariant, SendsKept, LagsKept, Causal, LatenciesKept

\* The invariant says of the histograms what the property does.
LEMMA InvariantMeansNoOmission == TypeOK /\ Invariant => NoCoordinatedOmission
<1> SUFFICES ASSUME TypeOK, Invariant PROVE NoCoordinatedOmission
  OBVIOUS
<1>0. /\ now \in Nat /\ seq \in Nat /\ lag \in Nat
      /\ \A j \in 1 .. seq : sentBy[j] \in Nat /\ sendLag[j] \in Nat
  BY Facts
<1>t. /\ \A k \in Nat : Target(k) \in Int
      /\ Total \in Nat
  BY TargetTypes, ScheduleTypes
<1> USE <1>0, <1>t
<1>1. Len(sentBy) = seq /\ Len(sendLag) = seq /\ DOMAIN sendLag = 1 .. seq
  BY DEF Invariant, SendsKept
<1>2. \A k \in 2 .. Len(sendLag) : sendLag[k] >= sentBy[k - 1] - Target(k - 1)
  BY <1>1 DEF Invariant, LagsKept
<1>3. ASSUME NEW i \in DOMAIN latency
      PROVE  /\ \A j \in 1 .. latency[i].seq :
                  latency[i].ns >= sentBy[j] - Target(latency[i].seq)
             /\ latency[i].seq + 1 \in DOMAIN sendLag =>
                  latency[i].ns >= sendLag[latency[i].seq + 1]
  <2>1. latency[i].seq + 1 \in 1 .. seq => latency[i].seq < seq
    BY MeasuredWasSent
  <2> QED BY <1>1, <2>1 DEF Invariant, LatenciesKept
<1> QED BY <1>2, <1>3 DEF NoCoordinatedOmission

\* No coordinated omission, for every rate, delay, stall and loss: a send that
\* was held up for any reason is in the latency and in the send lag of every
\* message behind it (scenario.rs:101-107 and 130).
THEOREM StallsAreNeverHidden == Spec => []NoCoordinatedOmission
<1>1. TypeOK /\ InBounds /\ Invariant /\ [Next]_vars => (TypeOK /\ InBounds /\ Invariant)'
  BY TypeStep, InvariantStep
<1>2. Init => TypeOK /\ InBounds /\ Invariant
  BY TypeInit, InvariantInit
<1>3. TypeOK /\ InBounds /\ Invariant => NoCoordinatedOmission
  BY InvariantMeansNoOmission
<1> QED BY <1>1, <1>2, <1>3, PTL DEF Spec

-----------------------------------------------------------------------------
(* The elapsed time                                                        *)

\* a intervals take at least a times the schedule's own, less than a ticks less.
LEMMA Stretch ==
  ASSUME NEW a \in Nat, a > 0, NEW r \in Nat, NEW s \in Nat, NEW i \in Nat, NEW t \in Nat,
         s < r * i + r, a * i <= t
  PROVE  a * (s - r) < r * t
<1>1. a * (s - r) < a * (r * i)
  BY SMTT(30)
<1>2. a * (r * i) = r * (a * i)
  BY SMTT(30)
<1>3. r * (a * i) <= r * t
  BY SMTT(30)
<1>4. a * (s - r) \in Int /\ a * (r * i) \in Int /\ r * (a * i) \in Int /\ r * t \in Int
  BY SMTT(30)
<1> QED BY <1>1, <1>2, <1>3, <1>4

LEMMA ElapsedCovers ==
  ASSUME TypeOK, Invariant, result = "ok" PROVE ElapsedCoversSchedule
<1> SUFFICES ASSUME Total > 1
             PROVE  (Total - 1) * (Second - Rate)
                      < Rate * (now + MaxOf(Spawn - Lead, 0))
  BY DEF ElapsedCoversSchedule, Record
<1>0. /\ now \in Nat /\ seq \in Nat /\ Interval \in Nat /\ Total \in Nat
      /\ \A j \in 1 .. seq : sentBy[j] \in Nat
  BY Facts, ScheduleTypes
<1> USE <1>0, ConstantTypes
<1> DEFINE span == now + MaxOf(Spawn - Lead, 0)
<1>1. Total \in 1 .. seq /\ Len(sentBy) = Total
  BY DEF Invariant, SendsKept
<1>2. Target(Total - 1) <= sentBy[Total] /\ sentBy[Total] <= now /\ sentBy[Total] \in Nat
  BY <1>1 DEF Invariant, SendsKept
<1>3. Target(Total - 1) = Lead - Spawn + (Total - 1) * Interval /\ (Total - 1) * Interval \in Nat
  BY SMTT(30) DEF Target
<1>4. MaxOf(Spawn - Lead, 0) \in Int /\ MaxOf(Spawn - Lead, 0) >= Spawn - Lead /\ MaxOf(Spawn - Lead, 0) >= 0
  BY DEF MaxOf
<1>5. span \in Nat /\ (Total - 1) * Interval <= span
  BY <1>2, <1>3, <1>4
<1>6. Total - 1 \in Nat /\ Total - 1 > 0
  OBVIOUS
<1> HIDE DEF span
<1>7. (Total - 1) * (Second - Rate) < Rate * span
  BY <1>5, <1>6, IntervalTruncates, Stretch
<1> QED BY <1>7 DEF span

\* The elapsed time of a run that returned covers the schedule, whatever the
\* rate: the achieved rate cannot come out above the asked one by more than the
\* truncated interval explains (scenario.rs:77, report.rs:91-126).
THEOREM ElapsedIsTheSchedule == Spec => [](result = "ok" => ElapsedCoversSchedule)
<1>1. TypeOK /\ InBounds /\ Invariant /\ [Next]_vars => (TypeOK /\ InBounds /\ Invariant)'
  BY TypeStep, InvariantStep
<1>2. Init => TypeOK /\ InBounds /\ Invariant
  BY TypeInit, InvariantInit
<1>3. TypeOK /\ InBounds /\ Invariant => (result = "ok" => ElapsedCoversSchedule)
  BY ElapsedCovers
<1> QED BY <1>1, <1>2, <1>3, PTL DEF Spec

-----------------------------------------------------------------------------
(* What is counted, and what is measured                                   *)

\* x is an element of the sequence s.
Holds(s, x) == \E i \in DOMAIN s : s[i] = x

\* An echo is counted for each delivery and for nothing else: what was read and
\* what waits to be read are the messages delivered, once each, and the second
\* copies.  A message that is still in flight has not been delivered.
Counted ==
    /\ received + Len(arrived) = Cardinality(delivered) + dups
    /\ \A n \in delivered : Out(n)
    /\ \A m, n \in flight : m.seq = n.seq => m = n
    /\ \A m \in flight : m.seq \notin delivered

\* A delivered message that is to be measured is in the histogram or waits to be
\* read, and nothing is measured that was not received.
Measured ==
    /\ Len(latency) <= received
    /\ \A n \in delivered : \/ n < Warmup
                            \/ Holds(arrived, n)
                            \/ \E i \in DOMAIN latency : latency[i].seq = n

LEMMA HoldsAppended ==
  ASSUME NEW S, NEW s \in Seq(S), NEW e \in S
  PROVE  /\ Holds(Append(s, e), e)
         /\ \A x : Holds(s, x) => Holds(Append(s, e), x)
<1>1. /\ Len(Append(s, e)) = Len(s) + 1 /\ Append(s, e) \in Seq(S)
      /\ \A i \in 1 .. Len(s) : Append(s, e)[i] = s[i]
      /\ Append(s, e)[Len(s) + 1] = e
  BY AppendProperties
<1>2. /\ DOMAIN Append(s, e) = 1 .. Len(s) + 1 /\ DOMAIN s = 1 .. Len(s)
      /\ Len(s) \in Nat
  BY <1>1, LenProperties
<1>3. Len(s) + 1 \in 1 .. Len(s) + 1 /\ \A i \in 1 .. Len(s) : i \in 1 .. Len(s) + 1
  BY <1>2
<1> QED BY <1>1, <1>2, <1>3 DEF Holds

LEMMA HoldsTwiceAppended ==
  ASSUME NEW S, NEW s \in Seq(S), NEW e \in S
  PROVE  /\ Len(s \o <<e, e>>) = Len(s) + 2
         /\ Holds(s \o <<e, e>>, e)
         /\ \A x : Holds(s, x) => Holds(s \o <<e, e>>, x)
<1> DEFINE two == <<e, e>>
<1>1. two \in Seq(S) /\ Len(two) = 2 /\ two[1] = e
  OBVIOUS
<1> HIDE DEF two
<1>2. /\ s \o two \in Seq(S) /\ Len(s \o two) = Len(s) + Len(two)
      /\ \A i \in 1 .. Len(s) + Len(two) :
            (s \o two)[i] = IF i <= Len(s) THEN s[i] ELSE two[i - Len(s)]
  BY <1>1, ConcatProperties
<1>3. /\ DOMAIN (s \o two) = 1 .. Len(s) + 2 /\ DOMAIN s = 1 .. Len(s)
      /\ Len(s) \in Nat
  BY <1>1, <1>2, LenProperties
<1>4. /\ Len(s) + 1 \in 1 .. Len(s) + 2 /\ ~(Len(s) + 1 <= Len(s)) /\ (Len(s) + 1) - Len(s) = 1
      /\ \A i \in 1 .. Len(s) : i \in 1 .. Len(s) + 2 /\ i <= Len(s)
  BY <1>3
<1>5. (s \o two)[Len(s) + 1] = e /\ \A i \in 1 .. Len(s) : (s \o two)[i] = s[i]
  BY <1>1, <1>2, <1>4
<1>6. /\ Len(s \o two) = Len(s) + 2
      /\ Holds(s \o two, e)
      /\ \A x : Holds(s, x) => Holds(s \o two, x)
  BY <1>1, <1>2, <1>3, <1>4, <1>5 DEF Holds
<1> QED BY <1>6 DEF two

LEMMA HoldsHeadOrTail ==
  ASSUME NEW S, NEW s \in Seq(S), s # <<>>
  PROVE  /\ Len(Tail(s)) = Len(s) - 1
         /\ Head(s) \in S
         /\ \A x : Holds(s, x) => x = Head(s) \/ Holds(Tail(s), x)
<1>1. /\ Head(s) \in S /\ Head(s) = s[1] /\ Tail(s) \in Seq(S)
      /\ Len(Tail(s)) = Len(s) - 1
      /\ \A i \in 1 .. Len(Tail(s)) : Tail(s)[i] = s[i + 1]
  BY HeadTailProperties
<1>2. /\ DOMAIN s = 1 .. Len(s) /\ DOMAIN Tail(s) = 1 .. Len(Tail(s)) /\ Len(s) \in Nat
  BY <1>1, LenProperties
<1>3. ASSUME NEW x, NEW i \in DOMAIN s, s[i] = x PROVE x = Head(s) \/ Holds(Tail(s), x)
  <2>1. CASE i = 1
    BY <1>1, <1>3, <2>1
  <2>2. CASE i # 1
    <3>1. i - 1 \in 1 .. Len(Tail(s)) /\ (i - 1) + 1 = i
      BY <1>1, <1>2, <2>2
    <3>2. i - 1 \in DOMAIN Tail(s) /\ Tail(s)[i - 1] = x
      BY <1>1, <1>2, <1>3, <3>1
    <3> QED BY <3>2 DEF Holds
  <2> QED BY <2>1, <2>2
<1> QED BY <1>1, <1>3 DEF Holds

\* What has been sent stays sent.
LEMMA OutKept ==
  ASSUME TypeOK, [Next]_vars PROVE \A n \in Nat : Out(n) => Out(n)'
<1>1. seq \in Nat
  BY ScheduleTypes DEF TypeOK, SenderTypes
<1>2. CASE Sender
  BY <1>1, <1>2 DEF Sender, StartSend, Inject, SendReturns, SendFails, FinishSending, Join, Out
<1>3. CASE Transport
  BY <1>3 DEF Transport, Arrive, ArriveTwice, Lose, PeerGoes, sending, Out
<1>4. CASE Receiver
  BY <1>4 DEF Receiver, RecvLoop, RecvMsg, RecvTimedOut, DrainDecision, RecvClosed, RecvFails,
              sending, Out
<1>5. CASE Tick \/ UNCHANGED vars
  BY <1>5 DEF Tick, vars, sending, Out
<1> QED BY <1>2, <1>3, <1>4, <1>5 DEF Next, Returned

LEMMA CountTypes ==
  ASSUME TypeOK
  PROVE  /\ received \in Nat /\ dups \in Nat /\ seq \in Nat
         /\ arrived \in Seq(0 .. Total - 1) /\ Len(arrived) \in Nat
         /\ latency \in Seq([seq : 0 .. Total - 1, ns : Nat]) /\ Len(latency) \in Nat
         /\ delivered \subseteq 0 .. Total - 1 /\ delivered \subseteq Nat
         /\ IsFiniteSet(delivered) /\ Cardinality(delivered) \in Nat
         /\ \A m \in flight : m.seq \in 0 .. Total - 1
<1>1. /\ received \in Nat /\ dups \in Nat /\ seq \in Nat
      /\ delivered \subseteq 0 .. Total - 1 /\ delivered \subseteq Nat
      /\ \A m \in flight : m.seq \in 0 .. Total - 1
  BY ScheduleTypes, ConstantTypes DEF TypeOK, SenderTypes, ReceiverTypes, TransportTypes
<1>2. /\ arrived \in Seq(0 .. Total - 1)
      /\ latency \in Seq([seq : 0 .. Total - 1, ns : Nat])
  BY DEF TypeOK, ReceiverTypes, TransportTypes
<1>3. Len(arrived) \in Nat /\ Len(latency) \in Nat
  BY <1>2, LenProperties
<1>4. IsFiniteSet(0 .. Total - 1)
  BY ScheduleTypes, FS_Interval
<1>5. IsFiniteSet(delivered)
  BY <1>1, <1>4, FS_Subset
<1>6. Cardinality(delivered) \in Nat
  BY <1>5, FS_CardinalityType
<1> QED BY <1>1, <1>2, <1>3, <1>5, <1>6

LEMMA CountStep ==
  ASSUME TypeOK, Invariant, Counted, [Next]_vars PROVE Counted'
<1> USE CountTypes
<1>o. \A n \in delivered : Out(n) => Out(n)'
  BY OutKept
<1>1. CASE Inject
  <2>1. /\ spc = "send" /\ flight' \subseteq flight \cup {[seq |-> seq, by |-> now + MaxDelay]}
        /\ UNCHANGED <<received, arrived, delivered, dups>>
    BY <1>1 DEF Inject, receiving
  <2>2. \A m \in flight : m.seq # seq
    BY <2>1 DEF Invariant, Causal, Out
  <2>3. seq \notin delivered
    BY <2>1 DEF Counted, Out
  <2>4. \A m \in flight' : m \in flight \/ (m = [seq |-> seq, by |-> now + MaxDelay] /\ m.seq = seq)
    BY <2>1
  <2>5. \A m, n \in flight' : m.seq = n.seq => m = n
    BY <2>2, <2>4 DEF Counted
  <2>6. \A m \in flight' : m.seq \notin delivered
    BY <2>3, <2>4 DEF Counted
  <2> QED BY <2>1, <2>5, <2>6, <1>o DEF Counted
<1>2. ASSUME NEW m \in flight, Arrive(m) \/ ArriveTwice(m) PROVE Counted'
  <2>1. /\ flight' = flight \ {m} /\ delivered' = delivered \cup {m.seq} /\ received' = received
    BY <1>2 DEF Arrive, ArriveTwice, receiving
  <2>2. m.seq \notin delivered /\ m.seq \in 0 .. Total - 1
    BY DEF Counted
  <2>3. Cardinality(delivered') = Cardinality(delivered) + 1
    BY <2>1, <2>2, FS_AddElement
  <2>4. received' + Len(arrived') = Cardinality(delivered') + dups'
    <3>1. received + Len(arrived) = Cardinality(delivered) + dups
      BY DEF Counted
    <3>2. \/ Len(arrived') = Len(arrived) + 1 /\ dups' = dups
          \/ Len(arrived') = Len(arrived) + 2 /\ dups' = dups + 1
      <4>1. CASE Arrive(m)
        BY <2>2, <4>1, AppendProperties DEF Arrive
      <4>2. CASE ArriveTwice(m)
        BY <2>2, <4>2, HoldsTwiceAppended DEF ArriveTwice
      <4> QED BY <1>2, <4>1, <4>2
    <3>3. received \in Nat /\ Len(arrived) \in Nat /\ Cardinality(delivered) \in Nat /\ dups \in Nat
      OBVIOUS
    <3> QED BY ONLY <2>1, <2>3, <3>1, <3>2, <3>3
  <2>5. Out(m.seq)'
    <3>1. Out(m.seq)
      BY DEF Invariant, Causal
    <3> QED BY <2>2, <3>1, OutKept, ScheduleTypes
  <2>6. \A n \in delivered' : Out(n)'
    BY <1>o, <2>1, <2>5 DEF Counted
  <2>7. \A k, n \in flight' : k.seq = n.seq => k = n
    BY <2>1 DEF Counted
  <2>8. \A n \in flight' : n.seq \notin delivered'
    BY <2>1 DEF Counted
  <2> QED BY <2>1, <2>4, <2>6, <2>7, <2>8 DEF Counted
<1>3. CASE RecvMsg
  <2>1. /\ arrived # <<>> /\ arrived' = Tail(arrived) /\ received' = received + 1
        /\ UNCHANGED <<flight, delivered, dups>>
    BY <1>3 DEF RecvMsg
  <2>2. Len(arrived') = Len(arrived) - 1
    BY <2>1, HoldsHeadOrTail
  <2> QED BY <1>o, <2>1, <2>2 DEF Counted
<1>4. CASE \/ StartSend \/ SendReturns \/ SendFails \/ FinishSending \/ Join
           \/ (\E m \in flight : Lose(m)) \/ PeerGoes
           \/ RecvLoop \/ RecvTimedOut \/ DrainDecision \/ RecvClosed \/ RecvFails
           \/ Tick \/ UNCHANGED vars
  <2>1. flight' \subseteq flight /\ UNCHANGED <<received, arrived, delivered, dups>>
    BY <1>4 DEF StartSend, SendReturns, SendFails, FinishSending, Join, Lose, PeerGoes, RecvLoop,
                RecvTimedOut, DrainDecision, RecvClosed, RecvFails, Tick, vars, transport, receiving
  <2> QED BY <1>o, <2>1 DEF Counted
<1> QED BY <1>1, <1>2, <1>3, <1>4 DEF Next, Sender, Transport, Receiver, Returned

LEMMA MeasuredStep ==
  ASSUME TypeOK, TypeOK', Measured, [Next]_vars PROVE Measured'
<1> USE CountTypes
<1>1. ASSUME NEW m \in flight, Arrive(m) \/ ArriveTwice(m) PROVE Measured'
  <2>1. /\ delivered' = delivered \cup {m.seq}
        /\ UNCHANGED <<received, latency>>
    BY <1>1 DEF Arrive, ArriveTwice, receiving
  <2>2. Holds(arrived', m.seq) /\ \A n : Holds(arrived, n) => Holds(arrived', n)
    <3>1. m.seq \in 0 .. Total - 1
      OBVIOUS
    <3>2. CASE Arrive(m)
      BY <3>1, <3>2, HoldsAppended DEF Arrive
    <3>3. CASE ArriveTwice(m)
      BY <3>1, <3>3, HoldsTwiceAppended DEF ArriveTwice
    <3> QED BY <1>1, <3>2, <3>3
  <2> QED BY <2>1, <2>2 DEF Measured
<1>2. CASE RecvMsg
  <2> DEFINE n == Head(arrived)
             new == [seq |-> n, ns |-> LatencyOf(n, now)]
  <2>1. /\ arrived # <<>> /\ arrived' = Tail(arrived) /\ received' = received + 1
        /\ latency' = IF n >= Warmup THEN Append(latency, new) ELSE latency
        /\ UNCHANGED delivered
    BY <1>2 DEF RecvMsg
  <2>2. /\ n \in 0 .. Total - 1
        /\ \A x : Holds(arrived, x) => x = n \/ Holds(arrived', x)
    BY <2>1, HoldsHeadOrTail
  <2>3. /\ Len(latency') <= received'
        /\ \A i \in DOMAIN latency : i \in DOMAIN latency' /\ latency'[i] = latency[i]
        /\ n < Warmup \/ \E i \in DOMAIN latency' : latency'[i].seq = n
    <3>1. CASE n >= Warmup
      <4> DEFINE Entries == [seq : 0 .. Total - 1, ns : Nat]
      <4>1. new \in Entries /\ new.seq = n
        <5>1. now \in Nat /\ n \in Nat
          BY <2>2, ScheduleTypes DEF TypeOK
        <5>2. LatencyOf(n, now) \in Nat
          BY <5>1, LagTypes
        <5> QED BY <2>2, <5>2
      <4>2. latency \in Seq(Entries) /\ latency' = Append(latency, new)
        BY <2>1, <3>1
      <4> HIDE DEF Entries, new
      <4>3. /\ Len(latency') = Len(latency) + 1 /\ latency' \in Seq(Entries)
            /\ \A i \in 1 .. Len(latency) : latency'[i] = latency[i]
            /\ latency'[Len(latency) + 1] = new
        BY <4>1, <4>2, AppendProperties
      <4>4. DOMAIN latency' = 1 .. Len(latency) + 1 /\ DOMAIN latency = 1 .. Len(latency)
        BY <4>2, <4>3, LenProperties
      <4>5. Len(latency) + 1 \in DOMAIN latency' /\ \A i \in DOMAIN latency : i \in DOMAIN latency'
        BY <4>4
      <4>6. Len(latency') <= received'
        BY <2>1, <4>3 DEF Measured
      <4> QED BY <4>1, <4>3, <4>4, <4>5, <4>6
    <3>2. CASE ~(n >= Warmup)
      <4>1. latency' = latency /\ n < Warmup
        BY <2>1, <2>2, <3>2, ScheduleTypes
      <4> QED BY <2>1, <4>1 DEF Measured
    <3> QED BY <3>1, <3>2
  <2> QED BY <2>1, <2>2, <2>3 DEF Measured
<1>3. CASE \/ Sender \/ (\E m \in flight : Lose(m)) \/ PeerGoes
           \/ RecvLoop \/ RecvTimedOut \/ DrainDecision \/ RecvClosed \/ RecvFails
           \/ Tick \/ UNCHANGED vars
  <2>1. UNCHANGED <<received, arrived, delivered, latency>>
    BY <1>3 DEF Sender, StartSend, Inject, SendReturns, SendFails, FinishSending, Join, Lose,
                PeerGoes, RecvLoop, RecvTimedOut, DrainDecision, RecvClosed, RecvFails, Tick,
                vars, transport, receiving
  <2> QED BY <2>1 DEF Measured
<1> QED BY <1>1, <1>2, <1>3 DEF Next, Transport, Receiver, Returned

LEMMA CountInit == Init => Counted /\ Measured
  BY FS_EmptySet, ScheduleTypes DEF Init, Counted, Measured

\* What a sequence holds is no more than its length.
LEMMA HeldAreFew ==
  ASSUME NEW S, NEW s \in Seq(S), NEW T, \A x \in T : Holds(s, x)
  PROVE  IsFiniteSet(T) /\ Cardinality(T) <= Len(s)
<1> DEFINE R == {s[i] : i \in 1 .. Len(s)}
           f == [i \in 1 .. Len(s) |-> s[i]]
<1>1. DOMAIN s = 1 .. Len(s) /\ Len(s) \in Nat
  BY LenProperties
<1>2. f \in Surjection(1 .. Len(s), R)
  BY DEF Surjection
<1>3. IsFiniteSet(1 .. Len(s)) /\ Cardinality(1 .. Len(s)) = Len(s)
  BY <1>1, FS_Interval
<1> HIDE DEF R, f
<1>4. IsFiniteSet(R) /\ Cardinality(R) <= Len(s)
  BY <1>2, <1>3, FS_Surjection
<1>5. T \in SUBSET R
  BY <1>1 DEF Holds, R
<1>6. /\ IsFiniteSet(T) /\ Cardinality(T) <= Cardinality(R)
      /\ Cardinality(T) \in Nat /\ Cardinality(R) \in Nat
  BY <1>4, <1>5, FS_Subset, FS_CardinalityType
<1> QED BY <1>1, <1>4, <1>6

\* Every echo that is to be measured is: what was received and is not in the
\* histogram is a message of the warmup or a second copy.
LEMMA AllAreMeasured ==
  ASSUME TypeOK, Counted, Measured PROVE EchoesAreMeasured
<1> USE CountTypes
<1> DEFINE Early == {n \in delivered : n < Warmup}
           Late  == {n \in delivered : n >= Warmup}
           Read  == {n \in Late : \E i \in DOMAIN latency : latency[i].seq = n}
           Wait  == {n \in Late : Holds(arrived, n)}
           seqs  == [i \in 1 .. Len(latency) |-> latency[i].seq]
<1>1. /\ IsFiniteSet(Early) /\ Cardinality(Early) \in Nat /\ Cardinality(Early) <= Warmup
  <2>1. Early \in SUBSET (0 .. Warmup - 1)
    BY ScheduleTypes
  <2>2. IsFiniteSet(0 .. Warmup - 1) /\ Cardinality(0 .. Warmup - 1) = Warmup
    <3>1. 0 \in Int /\ Warmup - 1 \in Int /\ Warmup \in Nat
      BY ScheduleTypes
    <3>2. /\ IsFiniteSet(0 .. Warmup - 1)
          /\ Cardinality(0 .. Warmup - 1) = IF 0 > Warmup - 1 THEN 0 ELSE (Warmup - 1) - 0 + 1
      BY <3>1, FS_Interval
    <3> QED BY ONLY <3>1, <3>2
  <2> HIDE DEF Early
  <2>3. IsFiniteSet(Early) /\ Cardinality(Early) <= Cardinality(0 .. Warmup - 1)
    BY <2>1, <2>2, FS_Subset
  <2> QED BY <2>2, <2>3, FS_CardinalityType
<1>2. IsFiniteSet(Wait) /\ Cardinality(Wait) <= Len(arrived) /\ Cardinality(Wait) \in Nat
  <2>1. \A n \in Wait : Holds(arrived, n)
    OBVIOUS
  <2> HIDE DEF Wait
  <2> QED BY <2>1, HeldAreFew, FS_CardinalityType
<1>3. IsFiniteSet(Read) /\ Cardinality(Read) <= Len(latency) /\ Cardinality(Read) \in Nat
  <2>1. DOMAIN latency = 1 .. Len(latency) /\ \A i \in DOMAIN latency : latency[i].seq \in Nat
    BY MessageFacts
  <2>2. seqs \in Seq(Nat) /\ Len(seqs) = Len(latency) /\ DOMAIN seqs = 1 .. Len(latency)
    <3>1. seqs \in [1 .. Len(latency) -> Nat] /\ Len(latency) \in Nat
      BY <2>1
    <3> HIDE DEF seqs
    <3>2. seqs \in Seq(Nat)
      BY ONLY <3>1, SeqDef
    <3> QED BY <3>1, <3>2, LenProperties
  <2>3. \A n \in Read : Holds(seqs, n)
    BY <2>1 DEF Holds
  <2> HIDE DEF Read, seqs
  <2> QED BY <2>2, <2>3, HeldAreFew, FS_CardinalityType
<1>4. delivered = Early \cup Late /\ Early \cap Late = {} /\ Late = Read \cup Wait
  <2>1. \A n \in delivered : n \in Nat /\ (n < Warmup <=> ~(n >= Warmup))
    BY ScheduleTypes
  <2>2. \A n \in Late : n \in Read \/ n \in Wait
    BY <2>1 DEF Measured
  <2>3. \A n \in delivered : (n \in Early <=> n \notin Late)
    BY <2>1
  <2>4. Early \subseteq delivered /\ Late \subseteq delivered /\ Read \subseteq Late /\ Wait \subseteq Late
    OBVIOUS
  <2> HIDE DEF Early, Late, Read, Wait
  <2> QED BY ONLY <2>2, <2>3, <2>4
<1> HIDE DEF Early, Late, Read, Wait, seqs
<1>5. IsFiniteSet(Late) /\ Cardinality(Late) <= Len(latency) + Len(arrived) /\ Cardinality(Late) \in Nat
  <2>1. /\ IsFiniteSet(Late)
        /\ Cardinality(Late) = Cardinality(Read) + Cardinality(Wait) - Cardinality(Read \cap Wait)
    BY <1>2, <1>3, <1>4, FS_Union
  <2>2. IsFiniteSet(Read \cap Wait) /\ Cardinality(Read \cap Wait) \in Nat
    BY <1>2, <1>3, FS_Intersection, FS_CardinalityType
  <2>3. Cardinality(Late) \in Nat
    BY <2>1, FS_CardinalityType
  <2> QED BY <1>2, <1>3, <2>1, <2>2, <2>3
<1>6. Cardinality(delivered) = Cardinality(Early) + Cardinality(Late)
  <2>1. Cardinality(Early \cup Late)
           = Cardinality(Early) + Cardinality(Late) - Cardinality(Early \cap Late)
    BY <1>1, <1>5, FS_Union
  <2>2. Cardinality(Early \cap Late) = 0
    BY <1>4, FS_EmptySet
  <2> QED BY ONLY <1>1, <1>4, <1>5, <2>1, <2>2
<1>7. received + Len(arrived) = Cardinality(delivered) + dups /\ Len(latency) <= received
  BY DEF Counted, Measured
<1>8. /\ received \in Nat /\ dups \in Nat /\ Len(arrived) \in Nat /\ Len(latency) \in Nat
      /\ Warmup \in Nat
  BY ScheduleTypes
<1>9. received - Warmup - dups <= Len(latency)
  BY ONLY <1>1, <1>5, <1>6, <1>7, <1>8
<1>10. Len(latency) \in received - Warmup - dups .. received
  BY ONLY <1>7, <1>8, <1>9
<1> QED BY <1>10 DEF EchoesAreMeasured, Record

LEMMA LostTypes ==
  ASSUME TypeOK
  PROVE  /\ IsFiniteSet(Lost) /\ Cardinality(Lost) \in Nat
         /\ Cardinality(Lost) + Cardinality(delivered) <= Total
<1> USE CountTypes
<1> DEFINE All == 0 .. Total - 1
           Rest == All \ delivered
<1>1. IsFiniteSet(All) /\ Cardinality(All) = Total
  <2>1. 0 \in Int /\ Total - 1 \in Int /\ Total \in Nat
    BY ScheduleTypes
  <2>2. IsFiniteSet(All) /\ Cardinality(All) = IF 0 > Total - 1 THEN 0 ELSE (Total - 1) - 0 + 1
    BY <2>1, FS_Interval
  <2> QED BY ONLY <2>1, <2>2
<1>2. delivered \in SUBSET All /\ delivered = All \cap delivered
  OBVIOUS
<1>3. Lost \in SUBSET Rest
  BY ScheduleTypes DEF Lost, TypeOK, SenderTypes
<1> HIDE DEF All
<1>4. IsFiniteSet(Rest) /\ Cardinality(Rest) = Total - Cardinality(delivered)
  <2>1. IsFiniteSet(Rest) /\ Cardinality(Rest) = Cardinality(All) - Cardinality(All \cap delivered)
    BY <1>1, FS_Difference
  <2> QED BY <1>1, <1>2, <2>1
<1> HIDE DEF Rest
<1>5. IsFiniteSet(Lost) /\ Cardinality(Lost) <= Cardinality(Rest)
  BY <1>3, <1>4, FS_Subset
<1>6. Cardinality(Lost) \in Nat
  BY <1>5, FS_CardinalityType
<1>7. Cardinality(delivered) \in Nat /\ Total \in Nat
  BY ScheduleTypes
<1> QED BY ONLY <1>4, <1>5, <1>6, <1>7

\* Whatever has been lost is missing from what was received.
LEMMA LossesShow ==
  ASSUME TypeOK, Counted
  PROVE  Record.dropped >= MaxOf(Cardinality(Lost) - dups, 0)
<1> USE CountTypes
<1>1. received + Len(arrived) = Cardinality(delivered) + dups
  BY DEF Counted
<1>2. /\ Cardinality(Lost) \in Nat /\ Cardinality(Lost) + Cardinality(delivered) <= Total
  BY LostTypes
<1>3. /\ received \in Nat /\ dups \in Nat /\ Len(arrived) \in Nat
      /\ Cardinality(delivered) \in Nat /\ Total \in Nat /\ received <= Total
  BY ScheduleTypes DEF TypeOK, ReceiverTypes
<1>4. Total - received >= MaxOf(Cardinality(Lost) - dups, 0)
  BY ONLY <1>1, <1>2, <1>3 DEF MaxOf
<1> QED BY <1>4 DEF Record

\* No loss is ever hidden, on any transport and whatever the timing: at least as
\* many messages are reported dropped as were lost, less those that came twice.
THEOREM NoLossIsHidden ==
  Spec => [](Record.dropped >= MaxOf(Cardinality(Lost) - dups, 0) /\ EchoesAreMeasured)
<1> DEFINE Inv == TypeOK /\ InBounds /\ Invariant /\ Counted /\ Measured
<1>1. Inv /\ [Next]_vars => Inv'
  BY TypeStep, InvariantStep, CountStep, MeasuredStep
<1>2. Init => Inv
  BY TypeInit, InvariantInit, CountInit
<1>3. Inv => Record.dropped >= MaxOf(Cardinality(Lost) - dups, 0) /\ EchoesAreMeasured
  BY AllAreMeasured, LossesShow
<1> QED BY <1>1, <1>2, <1>3, PTL DEF Spec

-----------------------------------------------------------------------------
(* How long the receive thread can have to wait                            *)

\* From one return of tx.send() to the next the schedule's interval passes, or
\* less, and the sender is held up at most twice; and so for the first.
LongestWait == Interval + 2 * MaxStall
FirstWait   == MaxOf(0, Target(0)) + 2 * MaxStall
Waits(k)    == k * LongestWait

LEMMA WaitTypes ==
  LongestWait \in Nat /\ FirstWait \in Nat /\ FirstWait = MaxOf(0, Target(0)) + 2 * MaxStall
<1>1. Target(0) \in Int
  BY TargetTypes
<1>2. MaxOf(0, Target(0)) \in Nat
  BY <1>1 DEF MaxOf
<1> QED BY <1>2, ScheduleTypes, ConstantTypes DEF LongestWait, FirstWait

LEMMA WaitsAdd ==
  /\ Waits(0) = 0
  /\ \A k \in Nat : Waits(k) \in Nat /\ Waits(k + 1) = Waits(k) + LongestWait
  /\ \A j, k \in Nat : j <= k => Waits(j) <= Waits(k)
<1>1. ASSUME NEW w \in Nat
      PROVE  /\ 0 * w = 0
             /\ \A k \in Nat : k * w \in Nat /\ (k + 1) * w = k * w + w
             /\ \A j, k \in Nat : j <= k => j * w <= k * w
  BY SMTT(30)
<1> QED BY <1>1, WaitTypes DEF Waits

\* When the send that is next, or under way, has returned at the latest.
ReturnBound == IF seq = 0 THEN FirstWait ELSE sentBy[seq] + LongestWait

\* The sender keeps to its schedule, but for its stalls.
Paced ==
    /\ \A i, j \in 1 .. seq : i <= j => sentBy[j] <= sentBy[i] + Waits(j - i)
    /\ \A j \in 1 .. seq : sentBy[j] <= FirstWait + Waits(j - 1)
    /\ spc = "wait" => now <= sby /\ sby + MaxStall <= ReturnBound
    /\ spc \in {"send", "sent"} => now <= sby /\ sby <= ReturnBound /\ sby <= now + MaxStall
    /\ result = "none" => spc # "returned"

\* The transport delivers or loses a message within MaxDelay of its send.
Prompt ==
    /\ peer # "up" => flight = {}
    /\ \A m \in flight :
          /\ now <= m.by /\ m.by <= now + MaxDelay
          /\ m.seq < seq => m.by <= sentBy[m.seq + 1] + MaxDelay

LEMMA PaceTypes ==
  ASSUME TypeOK, Invariant
  PROVE  /\ now \in Nat /\ seq \in Nat /\ sby \in Nat /\ Total \in Nat
         /\ MaxStall \in Nat /\ MaxDelay \in Nat /\ Interval \in Nat
         /\ LongestWait \in Nat /\ FirstWait \in Nat
         /\ \A j \in 1 .. seq : sentBy[j] \in Nat
         /\ ReturnBound \in Nat
         /\ \A m \in flight : m.by \in Nat /\ m.seq \in 0 .. seq
<1>1. /\ now \in Nat /\ seq \in Nat /\ sby \in Nat /\ Total \in Nat
      /\ MaxStall \in Nat /\ MaxDelay \in Nat /\ Interval \in Nat
      /\ LongestWait \in Nat /\ FirstWait \in Nat
  BY ConstantTypes, ScheduleTypes, WaitTypes DEF TypeOK, SenderTypes
<1>2. \A j \in 1 .. seq : sentBy[j] \in Nat
  BY Facts
<1>3. ReturnBound \in Nat
  <2>1. seq # 0 => seq \in 1 .. seq
    BY <1>1
  <2> QED BY <1>1, <1>2, <2>1 DEF ReturnBound
<1>4. \A m \in flight : m.by \in Nat /\ m.seq \in Nat
  BY ScheduleTypes DEF TypeOK, TransportTypes
<1>5. \A m \in flight : m.seq \in 0 .. seq
  BY <1>1, <1>4 DEF Invariant, Causal, Out
<1> QED BY <1>1, <1>2, <1>3, <1>4, <1>5

\* A send that returns does so within the longest wait of the one before.
LEMMA PacedBySendReturns ==
  ASSUME TypeOK, InBounds, Invariant, Paced, SendReturns
  PROVE  Paced' /\ sentBy'[seq + 1] = now /\ \A j \in 1 .. seq : sentBy'[j] = sentBy[j]
<1> USE PaceTypes
<1>1. /\ spc = "sent" /\ spc' = "wait" /\ seq' = seq + 1 /\ now' = now
      /\ sentBy' = Append(sentBy, now) /\ result' = result
      /\ sby' = MaxOf(now, Target(seq + 1)) + MaxStall
  BY DEF SendReturns
<1>2. /\ sentBy'[seq + 1] = now
      /\ \A j \in 1 .. seq : sentBy'[j] = sentBy[j]
  <2>1. sentBy \in Seq(Nat) /\ Len(sentBy) = seq /\ now \in Nat /\ seq \in Nat
    BY DEF TypeOK, SenderTypes, Invariant, SendsKept
  <2> QED BY <1>1, <2>1, AppendedTo
<1>3. now <= sby /\ sby <= ReturnBound /\ now <= ReturnBound
  BY <1>1 DEF Paced
<1>4. \A j \in 1 .. seq + 1 : j \in 1 .. seq \/ j = seq + 1
  OBVIOUS
<1>5. ASSUME NEW i \in 1 .. seq + 1, NEW j \in 1 .. seq + 1, i <= j
      PROVE  sentBy'[j] <= sentBy'[i] + Waits(j - i)
  <2>1. CASE j \in 1 .. seq
    <3>1. i \in 1 .. seq
      BY <1>5, <2>1
    <3> QED BY <1>2, <1>5, <2>1, <3>1 DEF Paced
  <2>2. CASE j = seq + 1 /\ i \in 1 .. seq
    <3>1. now <= sentBy[seq] + LongestWait /\ seq \in 1 .. seq /\ i <= seq
      BY <1>3, <2>2 DEF ReturnBound
    <3>2. sentBy[seq] <= sentBy[i] + Waits(seq - i)
      BY <2>2, <3>1 DEF Paced
    <3>3. seq - i \in Nat /\ j - i = (seq - i) + 1
      BY <2>2, <3>1
    <3>4. Waits(seq - i) \in Nat /\ Waits(j - i) = Waits(seq - i) + LongestWait
      BY <3>3, WaitsAdd
    <3>5. sentBy'[j] = now /\ sentBy'[i] = sentBy[i]
      BY <1>2, <2>2
    <3>6. sentBy[seq] \in Nat /\ sentBy[i] \in Nat
      BY <2>2, <3>1
    <3> QED BY <3>1, <3>2, <3>4, <3>5, <3>6
  <2>3. CASE j = seq + 1 /\ i = seq + 1
    <3>1. j - i = 0 /\ sentBy'[j] = now /\ sentBy'[i] = now
      BY <1>2, <2>3
    <3> QED BY <3>1, WaitsAdd
  <2> QED BY <1>4, <2>1, <2>2, <2>3
<1>6. ASSUME NEW j \in 1 .. seq + 1 PROVE sentBy'[j] <= FirstWait + Waits(j - 1)
  <2>1. CASE j \in 1 .. seq
    BY <1>2, <2>1 DEF Paced
  <2>2. CASE j = seq + 1 /\ seq = 0
    <3>1. now <= FirstWait /\ j - 1 = 0 /\ sentBy'[j] = now
      BY <1>2, <1>3, <2>2 DEF ReturnBound
    <3> QED BY <3>1, WaitsAdd
  <2>3. CASE j = seq + 1 /\ seq # 0
    <3>1. now <= sentBy[seq] + LongestWait /\ seq \in 1 .. seq /\ sentBy'[j] = now
      BY <1>2, <1>3, <2>3 DEF ReturnBound
    <3>2. sentBy[seq] <= FirstWait + Waits(seq - 1)
      BY <3>1 DEF Paced
    <3>3. seq - 1 \in Nat /\ j - 1 = (seq - 1) + 1
      BY <2>3, <3>1
    <3>4. Waits(seq - 1) \in Nat /\ Waits(j - 1) = Waits(seq - 1) + LongestWait
      BY <3>3, WaitsAdd
    <3>5. sentBy[seq] \in Nat
      BY <3>1
    <3> QED BY <3>1, <3>2, <3>4, <3>5
  <2> QED BY <1>4, <2>1, <2>2, <2>3
<1>7. now <= sby' /\ sby' + MaxStall <= ReturnBound'
  <2>1. Target(seq + 1) = Target(seq) + Interval
    <3>1. (seq + 1) * Interval = seq * Interval + Interval /\ seq * Interval \in Int
      BY SMTT(30)
    <3> QED BY <3>1, ConstantTypes DEF Target
  <2>2. Target(seq) <= now /\ Target(seq) \in Int
    BY <1>1, TargetTypes DEF Invariant, SendsKept
  <2>3. MaxOf(now, Target(seq + 1)) <= now + Interval /\ MaxOf(now, Target(seq + 1)) \in Int
        /\ now <= MaxOf(now, Target(seq + 1))
    BY <2>1, <2>2 DEF MaxOf
  <2>4. ReturnBound' = now + LongestWait
    <3>1. seq' # 0 /\ seq' = seq + 1
      BY <1>1
    <3>2. LongestWait' = LongestWait
      BY DEF LongestWait, Interval
    <3> QED BY <1>2, <3>1, <3>2 DEF ReturnBound
  <2>5. /\ now \in Nat /\ Interval \in Nat /\ MaxStall \in Nat
        /\ LongestWait = Interval + 2 * MaxStall
        /\ sby' = MaxOf(now, Target(seq + 1)) + MaxStall /\ now' = now
    BY <1>1 DEF LongestWait
  <2> QED BY ONLY <2>3, <2>4, <2>5
<1>8. Paced'
  <2>1. \A i, j \in 1 .. seq' : i <= j => sentBy'[j] <= sentBy'[i] + Waits(j - i)
    BY <1>1, <1>5
  <2>2. \A j \in 1 .. seq' : sentBy'[j] <= FirstWait + Waits(j - 1)
    BY <1>1, <1>6
  <2> QED BY <1>1, <1>7, <2>1, <2>2 DEF Paced
<1> QED BY <1>2, <1>8

LEMMA PaceStep ==
  ASSUME TypeOK, InBounds, Invariant, Paced, [Next]_vars PROVE Paced'
<1> USE PaceTypes
<1>1. CASE StartSend
  <2>1. /\ spc = "wait" /\ spc' = "send" /\ sby' = now + MaxStall
        /\ UNCHANGED <<now, seq, sentBy, result>>
    BY <1>1 DEF StartSend
  <2>2. ReturnBound' = ReturnBound
    BY <2>1 DEF ReturnBound
  <2>3. now <= sby' /\ sby' <= ReturnBound /\ sby' <= now + MaxStall
    <3>1. now <= sby /\ sby + MaxStall <= ReturnBound
      BY <2>1 DEF Paced
    <3> QED BY <2>1, <3>1
  <2> QED BY <2>1, <2>2, <2>3 DEF Paced
<1>2. CASE SendReturns
  BY <1>2, PacedBySendReturns
<1>3. CASE Inject
  <2>1. /\ spc = "send" /\ spc' = "sent"
        /\ UNCHANGED <<now, seq, sby, sentBy, result>>
    BY <1>3 DEF Inject
  <2> QED BY <2>1 DEF Paced, ReturnBound
<1>4. CASE SendFails \/ FinishSending \/ Join
  <2>1. /\ spc' \in {"join", "returned"} /\ (spc' = "returned" => result' # "none")
        /\ UNCHANGED <<now, seq, sby, sentBy>>
    BY <1>4 DEF SendFails, FinishSending, Join
  <2> QED BY <2>1 DEF Paced, ReturnBound
<1>5. CASE Transport \/ Receiver \/ UNCHANGED vars
  <2>1. UNCHANGED <<now, spc, seq, sby, sentBy, result>>
    BY <1>5 DEF Transport, Arrive, ArriveTwice, Lose, PeerGoes, Receiver, RecvLoop, RecvMsg,
                RecvTimedOut, DrainDecision, RecvClosed, RecvFails, vars, sending
  <2> QED BY <2>1 DEF Paced, ReturnBound
<1>6. CASE Tick
  <2>1. /\ now' = now + 1 /\ UNCHANGED <<spc, seq, sby, sentBy, result>>
        /\ spc \in {"wait", "send", "sent"} => now < sby
    BY <1>6 DEF Tick, sending, SenderIsLate
  <2>2. ReturnBound' = ReturnBound
    BY <2>1 DEF ReturnBound
  <2>3. spc \in {"wait", "send", "sent"} => now' <= sby
    BY <2>1
  <2>4. spc \in {"send", "sent"} => sby <= now' + MaxStall
    BY <2>1 DEF Paced
  <2> QED BY <2>1, <2>2, <2>3, <2>4 DEF Paced
<1> QED BY <1>1, <1>2, <1>3, <1>4, <1>5, <1>6 DEF Next, Sender, Returned

LEMMA PromptStep ==
  ASSUME TypeOK, InBounds, Invariant, Paced, Prompt, [Next]_vars PROVE Prompt'
<1> USE PaceTypes
<1>1. CASE SendReturns
  <2>1. /\ seq' = seq + 1 /\ UNCHANGED <<now, flight, peer>>
    BY <1>1 DEF SendReturns, transport
  <2>2. sentBy'[seq + 1] = now /\ \A j \in 1 .. seq : sentBy'[j] = sentBy[j]
    BY <1>1, PacedBySendReturns
  <2>3. ASSUME NEW m \in flight PROVE m.by <= sentBy'[m.seq + 1] + MaxDelay
    <3>1. CASE m.seq < seq
      <4>1. m.seq + 1 \in 1 .. seq
        BY <2>3, <3>1
      <4> QED BY <2>2, <2>3, <3>1, <4>1 DEF Prompt
    <3>2. CASE m.seq = seq
      BY <2>2, <2>3, <3>2 DEF Prompt
    <3> QED BY <2>3, <3>1, <3>2
  <2> QED BY <2>1, <2>3 DEF Prompt
<1>2. CASE Inject
  <2> DEFINE new == [seq |-> seq, by |-> now + MaxDelay]
  <2>1. /\ flight' = IF peer # "up" THEN flight ELSE flight \cup {new}
        /\ UNCHANGED <<now, seq, sentBy, peer>>
    BY <1>2 DEF Inject
  <2>2. new.seq = seq /\ new.by = now + MaxDelay
    OBVIOUS
  <2> HIDE DEF new
  <2>3. now <= new.by /\ new.by <= now + MaxDelay /\ ~(new.seq < seq)
    BY <2>2
  <2> QED BY <2>1, <2>3 DEF Prompt
<1>3. CASE Tick
  <2>1. /\ now' = now + 1 /\ UNCHANGED <<seq, sentBy, flight, peer>>
        /\ \A m \in flight : ~(now >= m.by)
    BY <1>3 DEF Tick, sending, transport, MessageIsDue
  <2>2. \A m \in flight : now' <= m.by /\ m.by <= now' + MaxDelay
    BY <2>1 DEF Prompt
  <2> QED BY <2>1, <2>2 DEF Prompt
<1>4. CASE Transport
  <2>1. flight' \subseteq flight /\ UNCHANGED <<now, seq, sentBy>>
    BY <1>4 DEF Transport, Arrive, ArriveTwice, Lose, PeerGoes, sending
  <2>2. peer' # "up" => flight' = {}
    BY <1>4 DEF Transport, Arrive, ArriveTwice, Lose, PeerGoes, Prompt
  <2> QED BY <2>1, <2>2 DEF Prompt
<1>5. CASE \/ StartSend \/ SendFails \/ FinishSending \/ Join \/ Receiver \/ UNCHANGED vars
  <2>1. UNCHANGED <<now, seq, sentBy, flight, peer>>
    BY <1>5 DEF StartSend, SendFails, FinishSending, Join, Receiver, RecvLoop, RecvMsg,
                RecvTimedOut, DrainDecision, RecvClosed, RecvFails, vars, sending, transport
  <2> QED BY <2>1 DEF Prompt
<1> QED BY <1>1, <1>2, <1>3, <1>4, <1>5 DEF Next, Sender, Returned

LEMMA PaceInit == Init => Paced /\ Prompt
<1> SUFFICES ASSUME Init PROVE Paced /\ Prompt
  OBVIOUS
<1>1. now = 0 /\ spc = "wait" /\ seq = 0 /\ flight = {} /\ result = "none"
  BY DEF Init
<1>2. sby = MaxOf(0, Target(0)) + MaxStall
  BY DEF Init
<1>3. MaxOf(0, Target(0)) \in Nat
  BY TargetTypes DEF MaxOf
<1>4. 0 <= sby /\ sby + MaxStall <= FirstWait
  BY <1>2, <1>3, ConstantTypes DEF FirstWait
<1>5. ReturnBound = FirstWait
  BY <1>1 DEF ReturnBound
<1> QED BY <1>1, <1>4, <1>5 DEF Paced, Prompt

-----------------------------------------------------------------------------
(* The receive thread does not give up early                               *)

\* The read timeout is longer than the longest silence a run can have before the
\* last message is out: all the messages the transport may lose, one after the
\* other, and the arrival of the one behind them.
TimeoutOutlastsSilence ==
    MaxDelay + MaxStall + MaxOf(FirstWait, LongestWait) + Waits(MaxLost) < Timeout

\* What has been sent and neither arrived nor is on its way.
Missing == {n \in 0 .. Total - 1 : Out(n)} \ (delivered \cup {m.seq : m \in flight})

\* Until the peer goes, nothing is missing that the transport did not lose.
LossesCounted == peer = "up" => Cardinality(Missing) <= losses

\* A read that has nothing to return since it began: what was delivered was sent
\* before it, but for the one send that was then under way.
Silent ==
    rpc = "recv" =>
        /\ Timeout <= deadline
        /\ arrived = <<>> => \A k \in delivered :
              /\ k < seq => sentBy[k + 1] + Timeout <= deadline + MaxStall
              /\ k = seq => sby + Timeout <= deadline + MaxStall

\* A timeout is reported, and the run is over, only when nothing can come any more.
Quiet ==
    /\ rpc = "timedout" \/ (rpc = "done" /\ received # Total) =>
          flight = {} /\ arrived = <<>> /\ (peer # "up" \/ seq = Total)
    /\ result = "ok" => rpc = "done"

\* Every set of numbers that is not empty has a least element.
LEMMA LeastOf ==
  ASSUME NEW T, T \subseteq Nat, T # {}
  PROVE  \E n \in T : \A m \in T : n <= m
<1> DEFINE R == StrictSubsetOrdering(Nat)
           S == FiniteSubsetsOf(Nat)
           U == {1 .. n : n \in T}
<1>1. IsWellFoundedOn(R, S)
  BY FS_StrictSubsetOrderingWellFounded
<1>2. U \subseteq S
  <2> SUFFICES ASSUME NEW n \in T PROVE 1 .. n \in S
    OBVIOUS
  <2>1. IsFiniteSet(1 .. n)
    BY FS_Interval
  <2>2. 1 .. n \subseteq Nat
    OBVIOUS
  <2> QED BY <2>1, <2>2 DEF FiniteSubsetsOf
<1>3. U # {}
  OBVIOUS
<1> HIDE DEF R, S, U
<1>4. \E x \in U : \A y \in U : ~ (<<y, x>> \in R)
  BY <1>1, <1>2, <1>3, WFMin
<1> USE DEF U
<1>5. PICK n \in T : \A m \in T : ~ (<<1 .. m, 1 .. n>> \in R)
  BY <1>4
<1>6. ASSUME NEW m \in T, m < n PROVE FALSE
  <2>1. 1 .. m \subseteq 1 .. n /\ 1 .. m # 1 .. n
    <3>1. m \in Nat /\ n \in Nat
      BY <1>5
    <3>2. n \in 1 .. n /\ n \notin 1 .. m
      BY <1>6, <3>1
    <3>3. 1 .. m \subseteq 1 .. n
      BY <1>6, <3>1
    <3> QED BY <3>2, <3>3
  <2>2. 1 .. m \in SUBSET Nat /\ 1 .. n \in SUBSET Nat
    OBVIOUS
  <2>3. <<1 .. m, 1 .. n>> \in R
    BY <2>1, <2>2 DEF R, StrictSubsetOrdering
  <2> QED BY <1>5, <2>3
<1>7. \A m \in T : n <= m
  BY <1>5, <1>6
<1> QED BY <1>5, <1>7

LEMMA MissingTypes ==
  ASSUME TypeOK
  PROVE  /\ Missing \subseteq 0 .. Total - 1 /\ IsFiniteSet(Missing)
         /\ Cardinality(Missing) \in Nat
         /\ losses \in Nat /\ losses <= MaxLost
<1>1. Missing \in SUBSET (0 .. Total - 1)
  BY DEF Missing
<1>2. IsFiniteSet(0 .. Total - 1)
  BY ScheduleTypes, FS_Interval
<1>3. losses \in Nat /\ losses <= MaxLost
  BY ConstantTypes DEF TypeOK, TransportTypes
<1>4. IsFiniteSet(Missing)
  BY <1>1, <1>2, FS_Subset
<1>5. Cardinality(Missing) \in Nat
  BY <1>4, FS_CardinalityType
<1> QED BY <1>1, <1>3, <1>4, <1>5

LEMMA LossesStep ==
  ASSUME TypeOK, TypeOK', InBounds, LossesCounted, [Next]_vars PROVE LossesCounted'
<1> USE MissingTypes
<1> DEFINE Coming == delivered \cup {m.seq : m \in flight}
<1>s. seq \in Nat
  BY ScheduleTypes DEF TypeOK, SenderTypes
<1>1. ASSUME peer' = "up" => peer = "up" /\ Missing' \subseteq Missing, losses' = losses
      PROVE  LossesCounted'
  <2>1. SUFFICES ASSUME peer' = "up" PROVE Cardinality(Missing') <= losses'
    BY DEF LossesCounted
  <2>2. Missing' \in SUBSET Missing /\ Cardinality(Missing) <= losses
    BY <1>1, <2>1 DEF LossesCounted
  <2>3. Cardinality(Missing') <= Cardinality(Missing)
    BY <2>2, FS_Subset
  <2>4. Cardinality(Missing') \in Nat
    BY <2>2, FS_Subset, FS_CardinalityType
  <2> QED BY <1>1, <2>2, <2>3, <2>4
<1>2. CASE Inject
  <2>1. /\ spc = "send" /\ spc' = "sent" /\ seq' = seq /\ peer' = peer /\ losses' = losses
        /\ delivered' = delivered
        /\ flight' = IF peer # "up" THEN flight
                     ELSE flight \cup {[seq |-> seq, by |-> now + MaxDelay]}
    BY <1>2 DEF Inject
  <2>2. peer = "up" => seq \in {m.seq : m \in flight'} /\ flight \subseteq flight'
    <3>1. [seq |-> seq, by |-> now + MaxDelay].seq = seq
      OBVIOUS
    <3> QED BY <2>1, <3>1
  <2>3. peer = "up" => Missing' \subseteq Missing
    BY <1>s, <2>1, <2>2 DEF Missing, Out
  <2> QED BY <1>1, <2>1, <2>3
<1>3. ASSUME NEW m \in flight, Lose(m) PROVE LossesCounted'
  <2>1. /\ flight' = flight \ {m} /\ losses' = losses + 1
        /\ UNCHANGED <<delivered, peer, spc, seq>>
    BY <1>3 DEF Lose, sending
  <2>2. Missing' \subseteq Missing \cup {m.seq}
    BY <2>1 DEF Missing, Out
  <2>3. /\ IsFiniteSet(Missing \cup {m.seq})
        /\ Cardinality(Missing \cup {m.seq}) \in Nat
        /\ Cardinality(Missing \cup {m.seq}) <= Cardinality(Missing) + 1
    <3>1. IsFiniteSet(Missing) /\ Cardinality(Missing) \in Nat
      OBVIOUS
    <3>2. /\ IsFiniteSet(Missing \cup {m.seq})
          /\ Cardinality(Missing \cup {m.seq})
                = IF m.seq \in Missing THEN Cardinality(Missing) ELSE Cardinality(Missing) + 1
      BY <3>1, FS_AddElement
    <3> QED BY ONLY <3>1, <3>2
  <2>4. Cardinality(Missing') <= Cardinality(Missing \cup {m.seq}) /\ Cardinality(Missing') \in Nat
    <3>1. Missing' \in SUBSET (Missing \cup {m.seq})
      BY <2>2
    <3> QED BY <2>3, <3>1, FS_Subset, FS_CardinalityType
  <2>5. peer' = "up" => Cardinality(Missing) <= losses
    BY <2>1 DEF LossesCounted
  <2>6. losses \in Nat /\ Cardinality(Missing) \in Nat
    OBVIOUS
  <2>7. peer' = "up" => Cardinality(Missing') <= losses'
    BY ONLY <2>1, <2>3, <2>4, <2>5, <2>6
  <2> QED BY <2>7 DEF LossesCounted
<1>4. ASSUME NEW m \in flight, Arrive(m) \/ ArriveTwice(m) PROVE LossesCounted'
  <2>1. /\ flight' = flight \ {m} /\ delivered' = delivered \cup {m.seq}
        /\ UNCHANGED <<losses, peer, spc, seq>>
    BY <1>4 DEF Arrive, ArriveTwice, sending
  <2>2. Missing' \subseteq Missing
    BY <2>1 DEF Missing, Out
  <2> QED BY <1>1, <2>1, <2>2
<1>5. CASE PeerGoes
  <2>1. peer' # "up" /\ losses' = losses
    BY <1>5 DEF PeerGoes
  <2> QED BY <1>1, <2>1
<1>6. CASE StartSend \/ SendReturns \/ SendFails \/ FinishSending \/ Join
  <2>1. /\ UNCHANGED <<delivered, flight, peer, losses>>
        /\ \A n \in Nat : Out(n)' => Out(n)
    <3>1. UNCHANGED <<delivered, flight, peer, losses>>
      BY <1>6 DEF StartSend, SendReturns, SendFails, FinishSending, Join, transport
    <3>2. \A n \in Nat : Out(n)' => Out(n)
      BY <1>6, <1>s DEF StartSend, SendReturns, SendFails, FinishSending, Join, Out
    <3> QED BY <3>1, <3>2
  <2>2. Missing' \subseteq Missing
    BY <2>1, ScheduleTypes DEF Missing
  <2> QED BY <1>1, <2>1, <2>2
<1>7. CASE Receiver \/ Tick \/ UNCHANGED vars
  <2>1. UNCHANGED <<delivered, flight, peer, losses, spc, seq>>
    BY <1>7 DEF Receiver, RecvLoop, RecvMsg, RecvTimedOut, DrainDecision, RecvClosed, RecvFails,
                Tick, vars, sending, transport
  <2>2. Missing' \subseteq Missing
    BY <2>1 DEF Missing, Out
  <2> QED BY <1>1, <2>1, <2>2
<1> QED BY <1>2, <1>3, <1>4, <1>5, <1>6, <1>7 DEF Next, Sender, Transport, Returned

LEMMA SilentStep ==
  ASSUME TypeOK, InBounds, Invariant, Counted, Paced, Silent, [Next]_vars PROVE Silent'
<1> USE PaceTypes
<1>t. Timeout \in Nat /\ deadline \in Nat /\ \A k \in delivered : k \in 0 .. seq
  <2>1. Timeout \in Nat /\ deadline \in Nat
    BY ConstantTypes DEF TypeOK, ReceiverTypes
  <2>2. \A k \in delivered : k \in Nat /\ Out(k)
    BY CountTypes DEF Counted
  <2> QED BY <2>1, <2>2 DEF Out
<1>1. CASE RecvLoop
  <2>1. /\ deadline' = now + Timeout
        /\ UNCHANGED <<now, seq, sby, sentBy, delivered>>
    BY <1>1 DEF RecvLoop, sending, transport
  <2>2. ASSUME NEW k \in delivered
        PROVE  /\ k < seq => sentBy[k + 1] + Timeout <= deadline' + MaxStall
               /\ k = seq => sby + Timeout <= deadline' + MaxStall
    <3>1. CASE k < seq
      <4>1. k + 1 \in 1 .. seq
        BY <1>t, <2>2, <3>1
      <4>2. sentBy[k + 1] <= now /\ sentBy[k + 1] \in Nat
        BY <4>1 DEF Invariant, SendsKept
      <4> QED BY <1>t, <2>1, <3>1, <4>2
    <3>2. CASE k = seq
      <4>1. spc = "sent"
        BY <2>2, <3>2 DEF Counted, Out
      <4>2. sby <= now + MaxStall
        BY <4>1 DEF Paced
      <4> QED BY <1>t, <2>1, <3>2, <4>2
    <3> QED BY <1>t, <3>1, <3>2
  <2>3. Timeout <= deadline'
    BY <1>t, <2>1
  <2> QED BY <2>1, <2>2, <2>3 DEF Silent
<1>2. CASE SendReturns
  <2>1. /\ spc = "sent" /\ seq' = seq + 1
        /\ UNCHANGED <<now, rpc, deadline, arrived, delivered>>
    BY <1>2 DEF SendReturns, transport, receiving
  <2>2. sentBy'[seq + 1] = now /\ \A j \in 1 .. seq : sentBy'[j] = sentBy[j]
    BY <1>2, PacedBySendReturns
  <2>3. now <= sby
    BY <2>1 DEF Paced
  <2>4. ASSUME rpc = "recv", arrived = <<>>, NEW k \in delivered
        PROVE  sentBy'[k + 1] + Timeout <= deadline + MaxStall /\ k # seq + 1
    <3>1. CASE k < seq
      <4>1. k + 1 \in 1 .. seq
        BY <1>t, <2>4, <3>1
      <4> QED BY <1>t, <2>2, <2>4, <3>1, <4>1, SMTT(30) DEF Silent
    <3>2. CASE k = seq
      <4>1. sby + Timeout <= deadline + MaxStall
        BY <2>4, <3>2 DEF Silent
      <4> QED BY <1>t, <2>2, <2>3, <3>2, <4>1
    <3> QED BY <1>t, <2>4, <3>1, <3>2
  <2> QED BY <2>1, <2>4 DEF Silent
<1>3. CASE StartSend
  <2>1. /\ spc = "wait"
        /\ UNCHANGED <<seq, sentBy, rpc, deadline, arrived, delivered>>
    BY <1>3 DEF StartSend, transport, receiving
  <2>2. \A k \in delivered : k # seq
    BY <1>t, <2>1 DEF Counted, Out
  <2> QED BY <2>1, <2>2 DEF Silent
<1>4. ASSUME NEW m \in flight, Arrive(m) \/ ArriveTwice(m) PROVE Silent'
  <2>1. UNCHANGED <<rpc, deadline>>
    BY <1>4 DEF Arrive, ArriveTwice, receiving
  <2>2. arrived' # <<>>
    <3>1. Len(arrived') > 0
      <4>1. m.seq \in 0 .. Total - 1 /\ arrived \in Seq(0 .. Total - 1) /\ Len(arrived) \in Nat
        BY CountTypes
      <4>2. CASE Arrive(m)
        <5>1. Len(Append(arrived, m.seq)) = Len(arrived) + 1
          BY <4>1, AppendProperties
        <5> QED BY <4>1, <4>2, <5>1 DEF Arrive
      <4>3. CASE ArriveTwice(m)
        <5>1. Len(arrived \o <<m.seq, m.seq>>) = Len(arrived) + 2
          BY <4>1, HoldsTwiceAppended
        <5> QED BY <4>1, <4>3, <5>1 DEF ArriveTwice
      <4> QED BY <1>4, <4>2, <4>3
    <3> QED BY <3>1, EmptySeq
  <2> QED BY <2>1, <2>2 DEF Silent
<1>5. CASE RecvMsg \/ RecvTimedOut \/ DrainDecision \/ RecvClosed \/ RecvFails
  <2>1. rpc' # "recv"
    BY <1>5 DEF RecvMsg, RecvTimedOut, DrainDecision, RecvClosed, RecvFails
  <2> QED BY <2>1 DEF Silent
<1>6. CASE \/ Inject \/ SendFails \/ FinishSending \/ Join
           \/ (\E m \in flight : Lose(m)) \/ PeerGoes \/ Tick \/ UNCHANGED vars
  <2>1. UNCHANGED <<seq, sby, sentBy, rpc, deadline, arrived, delivered>>
    BY <1>6 DEF Inject, SendFails, FinishSending, Join, Lose, PeerGoes, Tick, vars,
                sending, transport, receiving
  <2> QED BY <2>1 DEF Silent
<1> QED BY <1>1, <1>2, <1>3, <1>4, <1>5, <1>6
           DEF Next, Sender, Transport, Receiver, Returned

\* A read can time out only when the peer has gone or everything has been sent
\* and has arrived or been lost.  Otherwise take the first message b that is not
\* overdue.  It cannot be long after the run, or the read, began; the MaxLost + 1
\* messages before it are overdue, were all sent during the read, and are missing.
LEMMA NothingIsComing ==
  ASSUME TimeoutOutlastsSilence, TypeOK, Invariant, Paced, Prompt, LossesCounted,
         Silent, result = "none", rpc = "recv", arrived = <<>>, deadline <= now
  PROVE  flight = {} /\ (peer # "up" \/ seq = Total)
<1> SUFFICES ASSUME peer = "up", flight # {} \/ seq # Total PROVE FALSE
  BY DEF Prompt
<1> DEFINE Soon == {k \in 0 .. seq : k < seq => now <= sentBy[k + 1] + MaxDelay}
<1>t. /\ now \in Nat /\ seq \in Nat /\ Total \in Nat /\ seq <= Total
      /\ MaxStall \in Nat /\ MaxDelay \in Nat /\ MaxLost \in Nat /\ Timeout \in Nat
      /\ LongestWait \in Nat /\ FirstWait \in Nat /\ deadline \in Nat
      /\ \A j \in 1 .. seq : sentBy[j] \in Nat
  BY PaceTypes, ConstantTypes DEF TypeOK, SenderTypes, ReceiverTypes
<1>w. /\ Waits(MaxLost) \in Nat
      /\ MaxDelay + MaxStall + FirstWait + Waits(MaxLost) < Timeout
      /\ MaxDelay + MaxStall + LongestWait + Waits(MaxLost) < Timeout
  <2>1. Waits(MaxLost) \in Nat
    BY <1>t, WaitsAdd
  <2>2. /\ MaxOf(FirstWait, LongestWait) \in Nat
        /\ MaxOf(FirstWait, LongestWait) >= FirstWait
        /\ MaxOf(FirstWait, LongestWait) >= LongestWait
    BY <1>t DEF MaxOf
  <2>3. MaxDelay + MaxStall + MaxOf(FirstWait, LongestWait) + Waits(MaxLost) < Timeout
    BY DEF TimeoutOutlastsSilence
  <2> QED BY ONLY <1>t, <2>1, <2>2, <2>3
<1>1. \E b \in Soon : \A k \in Soon : b <= k
  <2>1. seq \in Soon /\ Soon \subseteq Nat
    BY <1>t
  <2> HIDE DEF Soon
  <2> QED BY <2>1, LeastOf
<1>2. PICK b \in Soon : \A k \in Soon : b <= k
  BY <1>1
<1>3. /\ b \in 0 .. seq
      /\ b < seq => now <= sentBy[b + 1] + MaxDelay
      /\ \A k \in 0 .. seq : k < b => k < seq /\ sentBy[k + 1] + MaxDelay < now
  <2>1. b \in 0 .. seq /\ (b < seq => now <= sentBy[b + 1] + MaxDelay)
    BY <1>2
  <2>2. ASSUME NEW k \in 0 .. seq, k < b PROVE k < seq /\ sentBy[k + 1] + MaxDelay < now
    <3>1. k \notin Soon
      <4>1. b \in Nat /\ k \in Nat /\ ~(b <= k)
        BY <1>t, <2>1, <2>2
      <4> QED BY <1>2, <4>1
    <3>2. k < seq /\ ~(now <= sentBy[k + 1] + MaxDelay)
      BY <2>2, <3>1
    <3>3. sentBy[k + 1] \in Nat
      <4>1. k + 1 \in 1 .. seq
        BY <1>t, <2>2, <3>2
      <4> QED BY <1>t, <4>1
    <3> QED BY <1>t, <3>2, <3>3
  <2> QED BY <2>1, <2>2
<1> HIDE DEF Soon
<1>4. now <= MaxDelay + (IF b = 0 THEN FirstWait ELSE sentBy[b] + LongestWait)
  <2>1. CASE b < seq
    <3>1. b + 1 \in 1 .. seq /\ now <= sentBy[b + 1] + MaxDelay /\ sentBy[b + 1] \in Nat
      BY <1>t, <1>3, <2>1
    <3>2. CASE b = 0
      <4>1. sentBy[b + 1] <= FirstWait + Waits((b + 1) - 1) /\ (b + 1) - 1 = 0
        BY <3>1, <3>2 DEF Paced
      <4>2. sentBy[b + 1] <= FirstWait
        <5>1. Waits((b + 1) - 1) = 0
          BY <4>1, WaitsAdd
        <5> QED BY <1>t, <3>1, <4>1, <5>1
      <4> QED BY <1>t, <3>1, <3>2, <4>2
    <3>3. CASE b # 0
      <4>1. b \in 1 .. seq /\ b <= b + 1 /\ (b + 1) - b = 0 + 1
        BY <1>t, <1>3, <3>3
      <4>2. sentBy[b + 1] <= sentBy[b] + Waits((b + 1) - b)
        BY <3>1, <4>1 DEF Paced
      <4>3. Waits((b + 1) - b) = LongestWait
        BY <1>t, <4>1, WaitsAdd
      <4>4. sentBy[b] \in Nat
        BY <1>t, <4>1
      <4> QED BY ONLY <1>t, <3>1, <3>3, <4>2, <4>3, <4>4
    <3> QED BY <3>2, <3>3
  <2>2. CASE b = seq /\ seq < Total
    <3>1. spc \in {"wait", "send", "sent"}
      <4>1. spc \in {"wait", "send", "sent", "join", "returned"}
        BY DEF TypeOK, SenderTypes
      <4>2. spc # "returned"
        BY DEF Paced
      <4>3. spc # "join"
        BY <1>t, <2>2 DEF Invariant, SendsKept
      <4> QED BY <4>1, <4>2, <4>3
    <3>2. now <= ReturnBound
      <4>1. now <= sby /\ sby <= ReturnBound
        <5>1. sby \in Nat /\ ReturnBound \in Nat
          BY PaceTypes
        <5> QED BY <1>t, <3>1, <5>1 DEF Paced
      <4> QED BY <1>t, <4>1, PaceTypes
    <3>3. ReturnBound = IF b = 0 THEN FirstWait ELSE sentBy[b] + LongestWait
      BY <2>2 DEF ReturnBound
    <3>4. ReturnBound \in Nat
      BY PaceTypes
    <3> QED BY ONLY <1>t, <3>2, <3>3, <3>4
  <2>3. CASE b = seq /\ seq = Total
    <3>1. PICK m \in flight : TRUE
      BY <2>3
    <3>2. m.seq \in 0 .. Total - 1 /\ m.by \in Nat
      BY <3>1 DEF TypeOK, TransportTypes
    <3>3. m.seq < b /\ m.seq \in 0 .. seq /\ m.seq + 1 \in 1 .. seq
      BY <1>t, <2>3, <3>2
    <3>4. now <= m.by /\ m.by <= sentBy[m.seq + 1] + MaxDelay
      BY <2>3, <3>1, <3>3 DEF Prompt
    <3>5. sentBy[m.seq + 1] + MaxDelay < now
      BY <1>3, <3>3
    <3> QED BY <1>t, <3>2, <3>3, <3>4, <3>5
  <2> QED BY <1>t, <1>3, <2>1, <2>2, <2>3
<1>5. Timeout <= deadline
  BY DEF Silent
<1>6. CASE b = 0
  <2>1. now <= MaxDelay + FirstWait
    BY <1>4, <1>6
  <2> QED BY ONLY <1>t, <1>w, <1>5, <2>1, deadline <= now
<1>7. CASE b # 0 /\ b <= MaxLost
  <2>1. b \in 1 .. seq /\ now <= MaxDelay + (sentBy[b] + LongestWait)
    BY <1>t, <1>3, <1>4, <1>7
  <2>2. sentBy[b] <= FirstWait + Waits(b - 1) /\ sentBy[b] \in Nat
    BY <1>t, <2>1 DEF Paced
  <2>3. b - 1 \in Nat /\ (b - 1) + 1 = b /\ b \in Nat
    BY <2>1
  <2>4. Waits(b - 1) \in Nat /\ Waits(b) = Waits(b - 1) + LongestWait
    BY <2>3, WaitsAdd
  <2>5. Waits(b) <= Waits(MaxLost)
    BY <1>t, <1>7, <2>3, WaitsAdd
  <2> QED BY ONLY <1>t, <1>w, <1>5, <2>1, <2>2, <2>4, <2>5, deadline <= now
<1>8. CASE b > MaxLost
  <2> DEFINE Window == b - 1 - MaxLost .. b - 1
  <2>1. /\ b \in 1 .. seq /\ now <= MaxDelay + (sentBy[b] + LongestWait) /\ sentBy[b] \in Nat
    <3>1. b \in 1 .. seq /\ b # 0
      BY <1>t, <1>3, <1>8
    <3> QED BY <1>t, <1>4, <3>1
  <2>2. ASSUME NEW k \in Window PROVE k \in Missing
    <3>1. k \in 0 .. seq /\ k < b /\ k < seq /\ k + 1 \in 1 .. seq /\ k + 1 <= b
          /\ b - (k + 1) \in Nat /\ b - (k + 1) <= MaxLost /\ k \in 0 .. Total - 1
      BY <1>t, <1>8, <2>1, <2>2
    <3>2. sentBy[k + 1] + MaxDelay < now /\ sentBy[k + 1] \in Nat
      BY <1>t, <1>3, <3>1
    <3>3. sentBy[b] <= sentBy[k + 1] + Waits(b - (k + 1))
      BY <2>1, <3>1 DEF Paced
    <3>4. Waits(b - (k + 1)) <= Waits(MaxLost) /\ Waits(b - (k + 1)) \in Nat
      BY <1>t, <3>1, WaitsAdd
    <3>5. k \notin delivered
      <4> SUFFICES ASSUME k \in delivered PROVE FALSE
        OBVIOUS
      <4>1. sentBy[k + 1] + Timeout <= deadline + MaxStall
        BY <3>1 DEF Silent
      <4> QED BY ONLY <1>t, <1>w, <2>1, <3>2, <3>3, <3>4, <4>1, deadline <= now
    <3>6. k \notin {m.seq : m \in flight}
      <4> SUFFICES ASSUME NEW m \in flight, m.seq = k PROVE FALSE
        OBVIOUS
      <4>1. m.by \in Nat /\ now <= m.by /\ m.by <= sentBy[k + 1] + MaxDelay
        BY <3>1, PaceTypes DEF Prompt
      <4> QED BY <1>t, <3>2, <4>1
    <3>7. Out(k)
      BY <3>1 DEF Out
    <3> QED BY <3>1, <3>5, <3>6, <3>7 DEF Missing
  <2>3. IsFiniteSet(Window) /\ Cardinality(Window) = MaxLost + 1
    <3>1. b - 1 - MaxLost \in Int /\ b - 1 \in Int
      BY <1>t, <2>1
    <3>2. /\ IsFiniteSet(Window)
          /\ Cardinality(Window) = IF b - 1 - MaxLost > b - 1 THEN 0
                                   ELSE (b - 1) - (b - 1 - MaxLost) + 1
      BY <3>1, FS_Interval
    <3> HIDE DEF Window
    <3> QED BY <1>t, <2>1, <3>2
  <2> HIDE DEF Window
  <2>4. Window \in SUBSET Missing
    BY <2>2
  <2>5. Cardinality(Window) <= Cardinality(Missing)
    BY <2>4, MissingTypes, FS_Subset
  <2>6. /\ Cardinality(Missing) \in Nat /\ losses \in Nat /\ losses <= MaxLost
        /\ Cardinality(Missing) <= losses
    BY MissingTypes DEF LossesCounted
  <2> QED BY ONLY <1>t, <2>3, <2>5, <2>6
<1> QED BY <1>t, <1>3, <1>6, <1>7, <1>8

LEMMA QuietStep ==
  ASSUME TimeoutOutlastsSilence, TypeOK, InBounds, Invariant, Paced, Prompt, LossesCounted,
         Silent, Quiet, [Next]_vars
  PROVE  Quiet'
<1>t. seq \in Nat /\ Total \in Nat /\ received \in Nat /\ received <= Total
  BY ScheduleTypes DEF TypeOK, SenderTypes, ReceiverTypes
<1> DEFINE Over == flight = {} /\ arrived = <<>> /\ (peer # "up" \/ seq = Total)
<1>1. CASE Tick \/ UNCHANGED vars
  BY <1>1 DEF Tick, vars, sending, transport, receiving, Quiet
<1>2. CASE result = "none" /\ Sender
  <2>1. ASSUME Over PROVE Over'
    <3>1. CASE Inject
      BY <1>t, <2>1, <3>1 DEF Inject, InBounds
    <3>2. CASE SendReturns
      <4>1. seq # Total
        BY <1>t, <3>2 DEF SendReturns, InBounds
      <4> QED BY <2>1, <3>2, <4>1 DEF SendReturns, transport
    <3>3. CASE StartSend \/ SendFails \/ FinishSending \/ Join
      BY <2>1, <3>3 DEF StartSend, SendFails, FinishSending, Join, transport
    <3> QED BY <1>2, <3>1, <3>2, <3>3 DEF Sender
  <2>2. UNCHANGED receiving /\ (result' = "ok" => rpc = "done")
    BY <1>2 DEF Sender, StartSend, Inject, SendReturns, SendFails, FinishSending, Join
  <2> QED BY <2>1, <2>2 DEF Quiet, receiving
<1>3. CASE result = "none" /\ Transport
  <2>1. ASSUME Over PROVE Over'
    BY <1>3, <2>1 DEF Transport, Arrive, ArriveTwice, Lose, PeerGoes, sending
  <2>2. UNCHANGED <<receiving, result>>
    BY <1>3 DEF Transport, Arrive, ArriveTwice, Lose, PeerGoes
  <2> QED BY <2>1, <2>2 DEF Quiet, receiving
<1>4. CASE result = "none" /\ Receiver
  <2>1. result' = "none"
    BY <1>4 DEF Receiver, RecvLoop, RecvMsg, RecvTimedOut, DrainDecision, RecvClosed, RecvFails
  <2>2. CASE RecvLoop
    BY <1>t, <2>1, <2>2 DEF RecvLoop, Quiet
  <2>3. CASE RecvMsg \/ RecvFails
    BY <2>1, <2>3 DEF RecvMsg, RecvFails, Quiet
  <2>4. CASE RecvTimedOut
    <3>1. /\ rpc = "recv" /\ arrived = <<>> /\ now >= deadline
          /\ UNCHANGED <<flight, arrived, peer, seq>>
      BY <2>4 DEF RecvTimedOut, sending, transport
    <3>2. deadline <= now
      BY <3>1 DEF TypeOK, ReceiverTypes
    <3>3. Over
      BY <1>4, <3>1, <3>2, NothingIsComing
    <3> QED BY <2>1, <3>1, <3>3 DEF Quiet
  <2>5. CASE DrainDecision
    BY <2>1, <2>5 DEF DrainDecision, Quiet, sending, transport
  <2>6. CASE RecvClosed
    <3>1. Over
      BY <2>6 DEF RecvClosed, Prompt
    <3> QED BY <2>1, <2>6, <3>1 DEF RecvClosed, Quiet, sending, transport
  <2> QED BY <1>4, <2>2, <2>3, <2>4, <2>5, <2>6 DEF Receiver
<1> QED BY <1>1, <1>2, <1>3, <1>4 DEF Next, Returned

LEMMA LossesInit == Init => LossesCounted /\ Silent /\ Quiet
<1> SUFFICES ASSUME Init PROVE LossesCounted /\ Silent /\ Quiet
  OBVIOUS
<1>1. Missing = {}
  BY ScheduleTypes DEF Init, Missing, Out
<1>2. LossesCounted
  BY <1>1, FS_EmptySet DEF Init, LossesCounted
<1> QED BY <1>2 DEF Init, Silent, Quiet

\* Where the receive thread stopped with nothing to come, what it did not count
\* was lost; where it stopped because it had counted them all, no more were lost
\* than came twice.
LEMMA DropsAreExact ==
  ASSUME TypeOK, Invariant, Counted, Quiet, result = "ok" PROVE DropsAreLosses
<1>1. /\ received + Len(arrived) = Cardinality(delivered) + dups
      /\ Cardinality(Lost) \in Nat /\ Cardinality(Lost) + Cardinality(delivered) <= Total
      /\ received \in Nat /\ dups \in Nat /\ Len(arrived) \in Nat
      /\ Cardinality(delivered) \in Nat /\ Total \in Nat /\ received <= Total
  BY CountTypes, LostTypes, ScheduleTypes DEF Counted, TypeOK, ReceiverTypes
<1>2. CASE received = Total
  <2>1. Total - received = MaxOf(Cardinality(Lost) - dups, 0)
    BY ONLY <1>1, <1>2 DEF MaxOf
  <2> QED BY <2>1 DEF DropsAreLosses, Record
<1>3. CASE received # Total
  <2>1. flight = {} /\ arrived = <<>> /\ seq = Total
    BY <1>3 DEF Quiet, Invariant, SendsKept
  <2>2. Lost = (0 .. Total - 1) \ delivered
    BY <2>1 DEF Lost
  <2>3. Cardinality(Lost) = Total - Cardinality(delivered)
    <3> DEFINE All == 0 .. Total - 1
    <3>1. IsFiniteSet(All) /\ Cardinality(All) = Total
      <4>1. 0 \in Int /\ Total - 1 \in Int /\ Total \in Nat
        BY <1>1
      <4>2. IsFiniteSet(All) /\ Cardinality(All) = IF 0 > Total - 1 THEN 0 ELSE (Total - 1) - 0 + 1
        BY <4>1, FS_Interval
      <4> QED BY ONLY <4>1, <4>2
    <3>2. All \cap delivered = delivered
      BY CountTypes
    <3> HIDE DEF All
    <3>3. Cardinality(All \ delivered) = Cardinality(All) - Cardinality(All \cap delivered)
      BY <3>1, FS_Difference
    <3> QED BY <2>2, <3>1, <3>2, <3>3 DEF All
  <2>4. Len(arrived) = 0
    BY <2>1, EmptySeq
  <2>5. Total - received = MaxOf(Cardinality(Lost) - dups, 0)
    BY ONLY <1>1, <2>3, <2>4 DEF MaxOf
  <2> QED BY <2>5 DEF DropsAreLosses, Record
<1> QED BY <1>2, <1>3

\* The record of a run that returned is true to the message, wherever the read
\* timeout is longer than the longest silence the schedule, the sender's stalls
\* and the transport's losses can make: the dropped count is exactly what was
\* lost less what came twice, every echo after the warmup is measured, and the
\* elapsed time is the schedule's (scenario.rs:77-149).  That is not so where
\* the schedule is as slow as the timeout.
THEOREM RecordIsCorrect == TimeoutOutlastsSilence => (Spec => []RecordIsTrue)
<1> SUFFICES ASSUME TimeoutOutlastsSilence PROVE Spec => []RecordIsTrue
  OBVIOUS
<1> DEFINE Base  == TypeOK /\ InBounds /\ Invariant /\ Counted /\ Measured
           Times == Paced /\ Prompt /\ LossesCounted /\ Silent /\ Quiet
<1>1. Base /\ [Next]_vars => Base'
  BY TypeStep, InvariantStep, CountStep, MeasuredStep
<1>2. Base /\ Times /\ [Next]_vars => Times'
  BY <1>1, PaceStep, PromptStep, LossesStep, SilentStep, QuietStep
<1>3. Init => Base /\ Times
  BY TypeInit, InvariantInit, CountInit, PaceInit, LossesInit
<1>4. Base /\ Times => RecordIsTrue
  BY AllAreMeasured, DropsAreExact, ElapsedCovers DEF RecordIsTrue
<1> QED BY <1>1, <1>2, <1>3, <1>4, PTL DEF Spec

-----------------------------------------------------------------------------
(***************************************************************************)
(* Proofs about RunLifecycle for every set of backends.  The argument: a   *)
(* process exists only together with the object whose drop stops it, an    *)
(* EchoChild of a brokered run only together with a Broker, and once the   *)
(* runner unwinds nothing new is started, so each drop in turn leaves its  *)
(* part of the world clean for good, or the name of what it failed at.     *)
(***************************************************************************)

(* Files                                                                   *)

\* What a child creates is among what its runner removes: dispatch's
\* cleanup_paths names everything an echo side leaves, an iceoryx2 node aside.
LEMMA CleanupIsComplete ==
  \A b \in AllBackends : ToSet(Creates(b)) \subseteq CleanupPaths(b) \cup Unremoved
  BY DEF AllBackends, Brokered, Creates, CleanupPaths, ToSet, Unremoved

\* The next file is one of the backend's own.
LEMMA NextIsOwn == NextFile \subseteq ToSet(Creates(backend))
  BY DEF NextFile, ToSet

-----------------------------------------------------------------------------
(* The inductive invariant                                                 *)

InvariantParts == Owned /\ Orphaned /\ StartedInOrder /\ Unwinds /\ Stops /\ Recorded

LEMMA LifecycleTypeStep == LifecycleTypeOK /\ [LifecycleNext]_lifecycleVars => LifecycleTypeOK'
<1> SUFFICES ASSUME LifecycleTypeOK, [LifecycleNext]_lifecycleVars PROVE LifecycleTypeOK'
  OBVIOUS
<1> USE DEF LifecycleTypeOK, States, Preparing, Recording, Dropping, StopChild, StopBroker
<1> USE DEF options, runner, brokers, children, record, rest, Fail, GoTo
<1>1. CASE CheckArguments \/ MakeWorkDir \/ FindBinary \/ SpawnBroker
  BY <1>1 DEF CheckArguments, MakeWorkDir, FindBinary, SpawnBroker, Prepare
<1>2. CASE WriteProperties \/ RandomUuid \/ FormatStorage \/ OpenLog
  BY <1>2 DEF WriteProperties, RandomUuid, FormatStorage, OpenLog, Prepare
<1>3. CASE Probe \/ KnockAnswered \/ KnockAgain \/ KnockTimedOut
  BY <1>3 DEF Probe, KnockAnswered, KnockAgain, KnockTimedOut
<1>4. CASE SpawnChild \/ ReadReady \/ ReadEof \/ ReadError
  BY <1>4 DEF SpawnChild, ReadReady, ReadEof, ReadError
<1>5. CASE Connect \/ RunScenario
  BY <1>5 DEF Connect, RunScenario
<1>6. CASE KillChild \/ WaitChild \/ WaitChildFails
  BY <1>6 DEF KillChild, WaitChild, WaitChildFails, Killed, Reaped, Running, Try
<1>7. CASE RemoveFiles \/ RemoveDir
  BY <1>7 DEF RemoveFiles, AfterFiles, RemoveDir, Try
<1>8. CASE KillBroker \/ WaitBroker \/ WaitBrokerFails
  BY <1>8 DEF KillBroker, WaitBroker, WaitBrokerFails, Killed, Reaped, Running, Try
<1>9. CASE PrintRecord \/ OpenOut \/ AppendText
  BY <1>9 DEF PrintRecord, OpenOut, AppendText
<1>10. CASE AppendEnd \/ Return
  BY <1>10 DEF AppendEnd, Return
<1>11. CASE BrokerUp \/ BrokerDies \/ ChildAnnounces \/ ChildDies
  BY <1>11 DEF BrokerUp, BrokerDies, ChildAnnounces, ChildDies
<1>12. CASE ChildCreates
  BY <1>12, NextIsOwn DEF ChildCreates
<1>13. CASE UNCHANGED lifecycleVars
  BY <1>13 DEF lifecycleVars
<1> QED
  BY <1>1, <1>2, <1>3, <1>4, <1>5, <1>6, <1>7, <1>8, <1>9, <1>10, <1>11, <1>12, <1>13
     DEF LifecycleNext, RunnerStep, WaitStep, ChildStep, Exited

LEMMA LifecycleStep == LifecycleTypeOK /\ InvariantParts /\ [LifecycleNext]_lifecycleVars => InvariantParts'
<1> SUFFICES ASSUME LifecycleTypeOK, InvariantParts, [LifecycleNext]_lifecycleVars PROVE InvariantParts'
  OBVIOUS
<1> USE DEF InvariantParts, Owned, Orphaned, StartedInOrder, Unwinds, Stops, Recorded,
            NeedsBroker, TornDown, BrokerGone, DirGone, ChildGone, FilesGone, Gone,
            Running, Preparing, Recording, Dropping, StopChild, StopBroker
<1> USE DEF options, runner, brokers, children, record, rest, Fail, GoTo
<1>1. CASE CheckArguments
  BY <1>1 DEF CheckArguments
<1>2. CASE MakeWorkDir
  BY <1>2 DEF MakeWorkDir
<1>3. CASE FindBinary
  BY <1>3 DEF FindBinary, Prepare
<1>4. CASE WriteProperties \/ RandomUuid \/ FormatStorage
  BY <1>4 DEF WriteProperties, RandomUuid, FormatStorage, Prepare
<1>5. CASE OpenLog
  BY <1>5 DEF OpenLog, Prepare
<1>6. CASE SpawnBroker
  <2>1. CASE Fail /\ UNCHANGED <<broker, brokerObj>>
    BY <1>6, <2>1 DEF SpawnBroker
  <2>2. CASE GoTo("probe") /\ broker' = "starting" /\ brokerObj' = TRUE
    <3>1. UNCHANGED <<options, child, childObj, files, announced, printed, line, workDir,
                      failed, unwinding, rest, garbled>>
      BY <1>6, <2>2 DEF SpawnBroker
    <3>2. NeedsBroker /\ ~peerGiven /\ pc' = "probe" /\ ~unwinding /\ child = "none"
      BY <1>6, <2>2 DEF SpawnBroker, LifecycleTypeOK
    <3>3. Owned' /\ StartedInOrder'
      BY <2>2, <3>1, <3>2
    <3>4. Orphaned' /\ Unwinds' /\ Stops'
      BY <1>6, <2>2, <3>1, <3>2 DEF SpawnBroker
    <3>5. Recorded'
      BY <1>6, <2>2, <3>1, <3>2 DEF SpawnBroker
    <3> QED BY <3>3, <3>4, <3>5
  <2> QED BY <1>6, <2>1, <2>2 DEF SpawnBroker
<1>7. CASE Probe
  <2>1. CASE broker = "dead" /\ Fail /\ broker' = "reaped"
    BY <1>7, <2>1 DEF Probe
  <2>2. CASE broker # "dead" /\ GoTo("knock") /\ UNCHANGED broker
    BY <1>7, <2>2 DEF Probe
  <2>3. CASE Fail /\ UNCHANGED broker
    BY <1>7, <2>3 DEF Probe
  <2> QED BY <1>7, <2>1, <2>2, <2>3 DEF Probe
<1>8. CASE KnockAnswered
  BY <1>8 DEF KnockAnswered, SomebodyListens
<1>9. CASE KnockAgain \/ KnockTimedOut
  BY <1>9 DEF KnockAgain, KnockTimedOut
<1>10. CASE SpawnChild
  <2>1. CASE Fail /\ UNCHANGED child
    BY <1>10, <2>1 DEF SpawnChild
  <2>2. CASE GoTo("read_line") /\ child' = "starting"
    <3>1. ~unwinding /\ ~failed /\ ~printed /\ line = "none"
      BY <1>10 DEF SpawnChild
    <3>2. Owned' /\ StartedInOrder'
      BY <1>10, <2>2, <3>1 DEF SpawnChild
    <3>3. Orphaned' /\ Unwinds' /\ Stops' /\ Recorded'
      BY <1>10, <2>2, <3>1 DEF SpawnChild
    <3> QED BY <3>2, <3>3
  <2> QED BY <1>10, <2>1, <2>2 DEF SpawnChild
<1>11. CASE ReadReady
  BY <1>11 DEF ReadReady
<1>12. CASE ReadEof
  BY <1>12 DEF ReadEof
<1>13. CASE ReadError
  BY <1>13 DEF ReadError
<1>14. CASE Connect \/ RunScenario
  BY <1>14 DEF Connect, RunScenario
<1>15. CASE KillChild
  BY <1>15 DEF KillChild, Killed
<1>16. CASE WaitChild
  BY <1>16 DEF WaitChild, Reaped, Try, LifecycleTypeOK, States
<1>17. CASE WaitChildFails
  BY <1>17 DEF WaitChildFails, Try
<1>18. CASE RemoveFiles
  <2>1. files \subseteq CleanupPaths(backend) \cup Unremoved
    BY CleanupIsComplete, LifecycleAssumption DEF LifecycleTypeOK
  <2> QED BY <1>18, <2>1 DEF RemoveFiles, AfterFiles, Try
<1>19. CASE KillBroker
  BY <1>19 DEF KillBroker, Killed
<1>20. CASE WaitBroker
  BY <1>20 DEF WaitBroker, Reaped, Try, LifecycleTypeOK, States
<1>21. CASE WaitBrokerFails
  BY <1>21 DEF WaitBrokerFails, Try
<1>22. CASE RemoveDir
  BY <1>22 DEF RemoveDir, Try
<1>23. CASE PrintRecord
  BY <1>23 DEF PrintRecord
<1>24. CASE OpenOut
  BY <1>24 DEF OpenOut
<1>25. CASE AppendText
  BY <1>25 DEF AppendText
<1>26. CASE AppendEnd
  BY <1>26 DEF AppendEnd
<1>27. CASE Return
  BY <1>27 DEF Return
<1>28. CASE BrokerUp \/ BrokerDies
  BY <1>28 DEF BrokerUp, BrokerDies
<1>29. CASE ChildCreates
  BY <1>29 DEF ChildCreates
<1>30. CASE ChildAnnounces \/ ChildDies
  BY <1>30 DEF ChildAnnounces, ChildDies
<1>31. CASE UNCHANGED lifecycleVars
  BY <1>31 DEF lifecycleVars
<1> QED
  BY <1>1, <1>2, <1>3, <1>4, <1>5, <1>6, <1>7, <1>8, <1>9, <1>10, <1>11, <1>12,
     <1>13, <1>14, <1>15, <1>16, <1>17, <1>18, <1>19, <1>20, <1>21, <1>22, <1>23,
     <1>24, <1>25, <1>26, <1>27, <1>28, <1>29, <1>30, <1>31
     DEF LifecycleNext, RunnerStep, WaitStep, ChildStep, Exited
-----------------------------------------------------------------------------
(* What it implies                                                         *)

\* The inductive invariant holds: owners account for all that was started, and
\* the steps on the way out for the rest.
THEOREM LifecycleInvariantHolds == LifecycleSpec => []LifecycleInvariant
<1>1. LifecycleInit => LifecycleInvariant
  <2> SUFFICES ASSUME LifecycleInit PROVE LifecycleInvariant
    OBVIOUS
  <2>1. LifecycleTypeOK
    BY DEF LifecycleInit, LifecycleTypeOK, States
  <2>2. InvariantParts
    BY DEF LifecycleInit, InvariantParts, Owned, Orphaned, StartedInOrder, Unwinds, Stops,
           Recorded, NeedsBroker, TornDown, BrokerGone, DirGone, ChildGone, FilesGone, Gone,
           Running, Preparing, Recording, Dropping, StopChild, StopBroker
  <2> QED BY <2>1, <2>2 DEF LifecycleInvariant, InvariantParts
<1>2. LifecycleInvariant /\ [LifecycleNext]_lifecycleVars => LifecycleInvariant'
  BY LifecycleTypeStep, LifecycleStep DEF LifecycleInvariant, InvariantParts
<1> QED BY <1>1, <1>2, PTL DEF LifecycleSpec

\* What a run leaves behind tells how far it got, or which clean-up call failed.
THEOREM LeftoversTellWhy == LifecycleSpec => []LeftoversExplained
<1>1. LifecycleInvariant => LeftoversExplained
  BY DEF LifecycleInvariant, LifecycleTypeOK, States, Owned, Orphaned, Unwinds, Stops,
         LeftoversExplained, TornDown, BrokerGone, DirGone, ChildGone, FilesGone, Gone,
         Running, Preparing, Recording
<1> QED BY <1>1, LifecycleInvariantHolds, PTL

\* A record is made when all has been stopped and removed or tried in vain, and
\* success means that it is whole.
THEOREM RecordsTellTruth == LifecycleSpec => []RecordTellsTruth
<1>1. LifecycleInvariant => RecordTellsTruth
  BY DEF LifecycleInvariant, Unwinds, Recorded, RecordTellsTruth
<1> QED BY <1>1, LifecycleInvariantHolds, PTL

\* A run that succeeds kills its broker after it has stopped its child.
THEOREM BrokersOutliveChildren == LifecycleSpec => BrokerOutlivesChild
<1> DEFINE ChildFirst == ~unwinding /\ pc = "kill_broker" /\ broker \in Running
                           /\ broker' = "dead" /\ pc' # pc
                           => child = "reaped" \/ "child" \in undone
<1>1. LifecycleInvariant /\ [LifecycleNext]_lifecycleVars => [ChildFirst]_lifecycleVars
  <2> SUFFICES ASSUME LifecycleInvariant, ~unwinding, pc = "kill_broker", broker \in Running
               PROVE  child = "reaped" \/ "child" \in undone
    OBVIOUS
  <2>1. ChildGone /\ (peerGiven \/ childObj)
    BY DEF LifecycleInvariant, StartedInOrder, Stops, StopBroker, Dropping
  <2> QED
    BY <2>1 DEF LifecycleInvariant, Owned, ChildGone, Gone, Running
<1> QED BY <1>1, LifecycleInvariantHolds, PTL DEF LifecycleSpec, BrokerOutlivesChild
=============================================================================
