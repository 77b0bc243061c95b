------------------------ MODULE ShmRoundTrip_proofs ------------------------
(***************************************************************************)
(* Proofs about ShmRoundTrip for every length of run, every capacity, every *)
(* timeout and every pattern of stalls.  The argument: the echo loop has    *)
(* at most one message in hand, the one after the last it wrote back, so    *)
(* what it wrote back is what it took, and the two rings with the hand      *)
(* between them are one FIFO; no step of time, no timeout and no death      *)
(* touches a ring.  And a deadline passes only for somebody's absence: each  *)
(* tick a party waits is paid for by a stall or by the schedule.             *)
(***************************************************************************)
EXTENDS ShmRoundTrip, TLAPS

-----------------------------------------------------------------------------
(* Steps that leave the rings alone                                         *)

\* All that is said of the rings and the echo loop.
Rings == <<ringC2s, ringS2c, epc>>

\* Time, stalls, timeouts, deaths and the bookkeeping of the two threads of
\* run_rtt change neither a ring nor what the echo process has in hand.
Aside == \/ FindFull \/ SendTimesOut \/ FinishSending \/ Join \/ Exit
         \/ RecvLoop \/ RecvMiss \/ RecvTimesOut \/ DrainDecision
         \/ (\E p \in Parties : Stall(p)) \/ Tick

LEMMA AsideKeepsRings ==
  ASSUME Aside PROVE UNCHANGED Rings /\ (spc' \in {"send", "full"} => spc \in {"send", "full"})
<1> USE DEF Rings, ringC2s, ringS2c, sender, Arm
<1>1. CASE FindFull \/ SendTimesOut \/ FinishSending \/ Join \/ Exit
  BY <1>1 DEF FindFull, SendTimesOut, FinishSending, Join, Exit
<1>2. CASE RecvLoop \/ RecvMiss \/ RecvTimesOut \/ DrainDecision
  BY <1>2 DEF RecvLoop, RecvMiss, RecvTimesOut, DrainDecision
<1>3. CASE (\E p \in Parties : Stall(p)) \/ Tick
  BY <1>3 DEF Stall, Tick
<1> QED BY <1>1, <1>2, <1>3 DEF Aside

-----------------------------------------------------------------------------
(* Type correctness and the inductive invariant                             *)

\* Time only ever takes away from a deadline.
LEMMA ElapseInNat == \A t \in Nat : Elapse(t) \in Nat
  BY DEF Elapse

\* So do the sums of stalls, which are lengths of time.
LEMMA Addition == \A d \in Stalls : \A t \in Nat : d \in Nat /\ t + d \in Nat
  BY RoundTripAssumption

LEMMA TypeStep ==
  ASSUME RoundTripInvariant, [Next]_vars PROVE TypeOK'
<1> USE RoundTripAssumption
<1> USE DEF TypeOK, RoundTripInvariant, EchoVerbatim, EndsInOrder, ringC2s, ringS2c,
            sender, faults, Word, Arm
<1>1. CASE StartSend \/ FindFull \/ SendTimesOut \/ FinishSending
  BY <1>1, ZenonT(30) DEF StartSend, FindFull, SendTimesOut, FinishSending, Parties
<1>2. CASE Send
  BY <1>2, SMTT(30) DEF Send, C2S!Send
<1>3. CASE Join \/ StopEcho \/ Exit
  BY <1>3 DEF Join, StopEcho, Exit
<1>4. CASE EchoRecv
  BY <1>4 DEF EchoRecv, C2S!Receive
<1>5. CASE EchoFindsFull \/ EchoTimesOut \/ EchoDies
  <2>1. CASE EchoFindsFull
    BY <2>1 DEF EchoFindsFull, Parties
  <2>2. CASE EchoTimesOut \/ EchoDies
    <3>1. CASE EchoTimesOut
      BY <3>1 DEF EchoTimesOut
    <3>2. CASE EchoDies
      <4>1. died' \in BOOLEAN /\ stalls' \in Nat /\ stalled' \in Nat
        BY <3>2 DEF EchoDies
      <4> QED BY <3>2, <4>1 DEF EchoDies
    <3> QED BY <2>2, <3>1, <3>2
  <2> QED BY <1>5, <2>1, <2>2
<1>6. CASE EchoSend
  BY <1>6 DEF EchoSend, S2C!Send
<1>7. CASE RecvLoop \/ RecvMiss \/ RecvTimesOut \/ DrainDecision
  <2>1. CASE RecvMiss
    <3>1. left' \in [Parties -> Nat]
      BY <2>1 DEF RecvMiss, Parties
    <3> QED BY <2>1, <3>1 DEF RecvMiss
  <2>2. CASE RecvLoop \/ RecvTimesOut \/ DrainDecision
    BY <2>2, ZenonT(30) DEF RecvLoop, RecvTimesOut, DrainDecision
  <2> QED BY <1>7, <2>1, <2>2
<1>8. CASE RecvMsg
  BY <1>8 DEF RecvMsg, S2C!Receive
<1>9. CASE \E p \in Parties : Stall(p)
  <2>1. PICK p \in Parties : Stall(p)
    BY <1>9
  <2>2. PICK d \in Stalls : /\ away' = [away EXCEPT ![p] = d]
                           /\ stalled' = stalled + d
    BY <2>1 DEF Stall
  <2>3. away' \in [Parties -> Nat]
    BY <2>2, Addition
  <2>4. stalled' \in Nat /\ stalls' \in Nat
    BY <2>1, <2>2, Addition DEF Stall
  <2> QED BY <2>1, <2>3, <2>4 DEF Stall
<1>10. CASE Tick
  <2>1. left' \in [Parties -> Nat] /\ away' \in [Parties -> Nat]
    BY <1>10, ElapseInNat DEF Tick
  <2>2. due' \in Int
    BY <1>10 DEF Tick
  <2> QED BY <1>10, <2>1, <2>2 DEF Tick
<1>11. CASE UNCHANGED vars
  BY <1>11 DEF vars
<1> QED
  BY <1>1, <1>2, <1>3, <1>4, <1>5, <1>6, <1>7, <1>8, <1>9, <1>10, <1>11
     DEF Next, Sender, Echo, Receiver, Exited

LEMMA RingsStep ==
  ASSUME RoundTripInvariant, [Next]_vars
  PROVE  RingsBounded' /\ EchoVerbatim' /\ EndsInOrder'
<1> USE RoundTripAssumption
<1> USE DEF RoundTripInvariant, TypeOK, RingsBounded, EchoVerbatim, EndsInOrder,
            ringC2s, ringS2c, sender, Word
<1>1. CASE Aside
  BY <1>1, AsideKeepsRings DEF Rings
<1>2. CASE StartSend \/ StopEcho \/ EchoFindsFull \/ EchoTimesOut \/ EchoDies
  BY <1>2 DEF StartSend, StopEcho, EchoFindsFull, EchoTimesOut, EchoDies
<1>3. CASE Send
  BY <1>3 DEF Send, C2S!Send
<1>4. CASE EchoRecv
  BY <1>4 DEF EchoRecv, C2S!Receive
<1>5. CASE EchoSend
  BY <1>5 DEF EchoSend, S2C!Send
<1>6. CASE RecvMsg
  BY <1>6 DEF RecvMsg, S2C!Receive
<1>7. CASE UNCHANGED vars
  BY <1>7 DEF vars
<1> QED
  BY <1>1, <1>2, <1>3, <1>4, <1>5, <1>6, <1>7
     DEF Aside, Next, Sender, Echo, Receiver, Exited

\* In every run, whatever stalls or dies, both rings stay within their bounds
\* and what the echo process writes back is what it took, in order.
THEOREM RoundTripInvariantHolds == Spec => []RoundTripInvariant
<1>1. Init => RoundTripInvariant
  <2> SUFFICES ASSUME Init PROVE RoundTripInvariant
    OBVIOUS
  <2> USE RoundTripAssumption DEF Init, C2S!Init, S2C!Init
  <2>1. TypeOK
    <3>1. /\ c2sSent \in 0 .. Total /\ c2sTaken \in 0 .. c2sSent
          /\ s2cSent \in 0 .. Total /\ s2cTaken \in 0 .. s2cSent
      OBVIOUS
    <3>2. ebuf \in [Word -> -1 .. Total - 1] /\ slot \in [Word -> -1 .. Total - 1]
      OBVIOUS
    <3>3. echoed \in [0 .. Total - 1 -> -1 .. Total - 1]
      OBVIOUS
    <3>4. left \in [Parties -> Nat] /\ away \in [Parties -> Nat]
      OBVIOUS
    <3>5. due \in Int /\ stalls \in Nat /\ stalled \in Nat
      OBVIOUS
    <3>6. /\ spc = "wait" /\ epc = "recv" /\ rpc = "loop" /\ result = "none"
          /\ txDone \in BOOLEAN /\ died \in BOOLEAN
      OBVIOUS
    <3> QED BY <3>1, <3>2, <3>3, <3>4, <3>5, <3>6, Zenon DEF TypeOK
  <2>2. RingsBounded
    BY DEF RingsBounded
  <2>3. EchoVerbatim /\ EndsInOrder
    BY DEF EchoVerbatim, EndsInOrder
  <2> QED BY <2>1, <2>2, <2>3 DEF RoundTripInvariant
<1>2. RoundTripInvariant /\ [Next]_vars => RoundTripInvariant'
  BY TypeStep, RingsStep DEF RoundTripInvariant
<1> QED BY <1>1, <1>2, PTL DEF Spec

-----------------------------------------------------------------------------
(* Refinement                                                               *)

\* What run_rtt's receive thread holds: nothing, or what the slot it took last
\* was filled with.
Held == [w \in Word |-> IF s2cTaken = 0 THEN -1 ELSE echoed[slot[w]]]

\* By the invariant that is the message before the one it waits for.
LEMMA HeldIsLast ==
  RoundTripInvariant => Held = [w \in Word |-> s2cTaken - 1]
<1> SUFFICES ASSUME RoundTripInvariant, NEW w \in Word
             PROVE  (IF s2cTaken = 0 THEN -1 ELSE echoed[slot[w]]) = s2cTaken - 1
  BY DEF Held
<1>1. slot[w] = s2cTaken - 1
  BY DEF RoundTripInvariant, EndsInOrder
<1>2. CASE s2cTaken = 0
  BY <1>2
<1>3. CASE s2cTaken # 0
  BY <1>1, <1>3, RoundTripAssumption DEF RoundTripInvariant, TypeOK, EchoVerbatim
<1> QED BY <1>2, <1>3

\* The whole loop implements one FIFO of twice the capacity and one, so a dead
\* or slow echo process makes it neither lose, repeat nor reorder what it
\* delivers.
THEOREM RoundTripImplementsFifo == Spec => ImplementsFifo
<1> USE DEF Held
<1>1. Init => Loop!Init
  BY DEF Init, C2S!Init, S2C!Init, Loop!Init
<1>0. (RoundTripInvariant => Held = [w \in Word |-> s2cTaken - 1])'
  BY HeldIsLast, PTL
<1>2. RoundTripInvariant /\ RoundTripInvariant' /\ [Next]_vars
        => [Loop!Next]_(Loop!fifoVars)
  <2> SUFFICES ASSUME RoundTripInvariant, RoundTripInvariant', [Next]_vars
               PROVE  Loop!Next \/ UNCHANGED <<c2sSent, s2cTaken, Held>>
    BY DEF Loop!fifoVars
  <2>1. Held = [w \in Word |-> s2cTaken - 1] /\ Held' = [w \in Word |-> s2cTaken' - 1]
    BY HeldIsLast, <1>0
  <2>2. CASE Send
    <3>1. c2sSent - s2cTaken < 2 * Capacity + 1
      <4>1. c2sSent - c2sTaken < Capacity
        BY <2>2 DEF Send, C2S!Send
      <4>2. s2cSent - s2cTaken <= Capacity /\ s2cSent >= c2sTaken - 1
        BY RoundTripAssumption DEF RoundTripInvariant, TypeOK, RingsBounded, EchoVerbatim
      <4>3. {c2sSent, c2sTaken, s2cSent, s2cTaken, Capacity} \subseteq Int
        BY RoundTripAssumption DEF RoundTripInvariant, TypeOK
      <4> HIDE DEF Held
      <4> QED BY <4>1, <4>2, <4>3
    <3>2. c2sSent' = c2sSent + 1 /\ s2cTaken' = s2cTaken
      BY <2>2 DEF Send, C2S!Send, ringS2c
    <3> HIDE DEF Held
    <3> QED BY <2>1, <3>1, <3>2 DEF Loop!Next, Loop!Send, Held
  <2>3. CASE RecvMsg
    <3>1. s2cTaken < c2sSent
      BY <2>3, RoundTripAssumption
         DEF RecvMsg, S2C!Receive, RoundTripInvariant, TypeOK, EchoVerbatim
    <3>2. s2cTaken' = s2cTaken + 1 /\ c2sSent' = c2sSent
      BY <2>3 DEF RecvMsg, S2C!Receive, ringC2s
    <3>3. Held' = [w \in Word |-> s2cTaken]
      BY <2>1, <3>2, RoundTripAssumption DEF RoundTripInvariant, TypeOK
    <3> QED BY <3>1, <3>2, <3>3 DEF Loop!Next, Loop!Receive
  <2>4. CASE UNCHANGED <<c2sSent, s2cTaken>>
    BY <2>1, <2>4
  <2>5. Send \/ RecvMsg \/ UNCHANGED <<c2sSent, s2cTaken>>
    <3> USE DEF ringC2s, ringS2c
    <3>1. CASE Aside
      BY <3>1, AsideKeepsRings DEF Rings
    <3>2. CASE StartSend \/ StopEcho \/ EchoFindsFull \/ EchoTimesOut \/ EchoDies
      BY <3>2 DEF StartSend, StopEcho, EchoFindsFull, EchoTimesOut, EchoDies
    <3>3. CASE EchoRecv \/ EchoSend
      BY <3>3 DEF EchoRecv, EchoSend, C2S!Receive, S2C!Send
    <3>4. CASE UNCHANGED vars
      BY <3>4 DEF vars
    <3> QED BY <3>1, <3>2, <3>3, <3>4 DEF Aside, Next, Sender, Echo, Receiver, Exited
  <2> QED BY <2>2, <2>3, <2>4, <2>5
<1> QED BY <1>1, <1>2, RoundTripInvariantHolds, PTL DEF Spec, ImplementsFifo, Loop!Spec

-----------------------------------------------------------------------------
(* A stall shows as lag                                                     *)

\* How long the parties together are still away, and how long it is until the
\* next message is sent where none is on its way.
AwayTime == away["sender"] + away["echo"] + away["receiver"]
ToCome   == IF c2sSent = s2cTaken /\ due > 0 THEN due ELSE 0

\* The schedule is never further ahead than one gap, nobody is away for longer
\* than the stalls so far, and the threads' states go with their progress.
Orderly ==
    /\ due <= Gap /\ (spc \in {"send", "full"} => due <= 0)
    /\ AwayTime <= stalled
    /\ rpc \in {"recv", "missed", "timedout"} => s2cTaken < Total
    /\ spc = "join" => c2sSent = Total
    /\ result = "none" <=> spc \in {"wait", "send", "full", "join"}

\* Stalls as long as the property allows.
ShortStalls == ~died /\ Gap + stalled < RecvTimeout

\* The time a party has been waiting, and what it can still have to wait, is
\* accounted for by the stalls and, for the receive thread, one gap of the
\* schedule; so no deadline passes.
Punctual == ShortStalls =>
    /\ epc = "dead" => spc \in {"stopped", "exited"}
    /\ result # "err"
    /\ result = "ok" => rpc = "done"
    /\ rpc = "done" => s2cTaken = Total
    /\ rpc # "timedout"
    /\ rpc = "missed" => RecvTimeout + ToCome + AwayTime <= left["receiver"] + Gap + stalled
    /\ epc = "full" => FullTimeout + AwayTime <= left["echo"] + stalled
    /\ spc = "full" => FullTimeout + AwayTime <= left["sender"] + stalled

LEMMA TimeTypes ==
  ASSUME RoundTripInvariant
  PROVE  /\ \A p \in Parties : away[p] \in Nat /\ left[p] \in Nat
         /\ away["sender"] \in Nat /\ away["echo"] \in Nat /\ away["receiver"] \in Nat
         /\ left["sender"] \in Nat /\ left["echo"] \in Nat /\ left["receiver"] \in Nat
         /\ AwayTime \in Nat /\ stalled \in Nat /\ due \in Int /\ ToCome \in Nat
         /\ Gap \in Nat /\ RecvTimeout \in Nat /\ FullTimeout \in Nat
         /\ Total \in Nat /\ Total # 0 /\ Capacity \in Nat /\ Capacity # 0
         /\ c2sSent \in 0 .. Total /\ c2sTaken \in 0 .. c2sSent
         /\ s2cSent \in 0 .. Total /\ s2cTaken \in 0 .. s2cSent
<1>1. \A p \in Parties : away[p] \in Nat /\ left[p] \in Nat
  BY DEF RoundTripInvariant, TypeOK
<1>2. /\ away["sender"] \in Nat /\ away["echo"] \in Nat /\ away["receiver"] \in Nat
      /\ left["sender"] \in Nat /\ left["echo"] \in Nat /\ left["receiver"] \in Nat
  BY <1>1 DEF Parties
<1>3. /\ stalled \in Nat /\ due \in Int
      /\ c2sSent \in 0 .. Total /\ c2sTaken \in 0 .. c2sSent
      /\ s2cSent \in 0 .. Total /\ s2cTaken \in 0 .. s2cSent
  BY DEF RoundTripInvariant, TypeOK
<1>4. /\ Gap \in Nat /\ RecvTimeout \in Nat /\ FullTimeout \in Nat
      /\ Total \in Nat /\ Total # 0 /\ Capacity \in Nat /\ Capacity # 0
  BY RoundTripAssumption
<1>5. ToCome \in Nat
  BY <1>3 DEF ToCome
<1> QED BY <1>1, <1>2, <1>3, <1>4, <1>5 DEF AwayTime

\* A deadline that is set is the party's own.
LEMMA ArmSets ==
  ASSUME RoundTripInvariant, NEW p \in Parties, NEW t \in Nat, Arm(p, t)
  PROVE  left'[p] = t /\ \A q \in Parties : q # p => left'[q] = left[q]
  BY DEF Arm, RoundTripInvariant, TypeOK

\* A stall is accounted for.
LEMMA StallCounts ==
  ASSUME RoundTripInvariant, NEW p \in Parties, Stall(p)
  PROVE  \E d \in Nat : AwayTime' = AwayTime + d /\ stalled' = stalled + d
<1>1. PICK d \in Stalls : away' = [away EXCEPT ![p] = d] /\ stalled' = stalled + d
  BY DEF Stall
<1>2. d \in Nat /\ away[p] = 0
  BY <1>1, RoundTripAssumption DEF Stall, Awake
<1>3. /\ away'[p] = d /\ \A q \in Parties : q # p => away'[q] = away[q]
  BY <1>1 DEF RoundTripInvariant, TypeOK
<1>4. AwayTime' = AwayTime + d
  BY <1>2, <1>3, TimeTypes DEF AwayTime, Parties
<1> QED BY <1>1, <1>2, <1>4

\* A tick of the clock: every deadline comes nearer by at most one, and those
\* who are away come back by one.
LEMMA TickCounts ==
  ASSUME RoundTripInvariant, Tick
  PROVE  /\ \A p \in Parties : left'[p] \in Nat /\ left[p] <= left'[p] + 1
         /\ AwayTime' \in Nat /\ AwayTime' <= AwayTime
         /\ \A p \in Parties : ~Awake(p) => AwayTime' + 1 <= AwayTime
<1> USE TimeTypes
<1>1. \A t \in Nat : /\ Elapse(t) \in Nat /\ t <= Elapse(t) + 1 /\ Elapse(t) <= t
                     /\ t # 0 => Elapse(t) + 1 = t
  BY DEF Elapse
<1>2. \A p \in Parties : left'[p] = Elapse(left[p]) /\ away'[p] = Elapse(away[p])
  BY DEF Tick
<1>3. /\ away'["sender"] = Elapse(away["sender"]) /\ away'["echo"] = Elapse(away["echo"])
      /\ away'["receiver"] = Elapse(away["receiver"])
  BY <1>2 DEF Parties
<1> DEFINE s == away["sender"]  e == away["echo"]  r == away["receiver"]
           s2 == away'["sender"]  e2 == away'["echo"]  r2 == away'["receiver"]
<1>4. /\ s \in Nat /\ e \in Nat /\ r \in Nat /\ s2 \in Nat /\ e2 \in Nat /\ r2 \in Nat
      /\ s2 <= s /\ e2 <= e /\ r2 <= r
      /\ (s # 0 => s2 + 1 = s) /\ (e # 0 => e2 + 1 = e) /\ (r # 0 => r2 + 1 = r)
      /\ AwayTime = s + e + r /\ AwayTime' = s2 + e2 + r2
  BY <1>1, <1>3 DEF AwayTime
<1>5. \A p \in Parties : ~Awake(p) => s # 0 \/ e # 0 \/ r # 0
  BY DEF Parties, Awake
<1> HIDE DEF s, e, r, s2, e2, r2
<1>6. AwayTime' \in Nat /\ AwayTime' <= AwayTime /\ (s # 0 \/ e # 0 \/ r # 0 => AwayTime' + 1 <= AwayTime)
  BY ONLY <1>4
<1> QED BY <1>1, <1>2, <1>5, <1>6

\* Whatever is neither a stall nor the clock leaves the time accounts alone.
LEMMA AccountsStand ==
  ASSUME [Next]_vars, ~Tick, \A p \in Parties : ~Stall(p)
  PROVE  UNCHANGED <<away, stalled, AwayTime>>
<1>1. UNCHANGED <<away, stalled>>
  <2>1. CASE Sender
    BY <2>1 DEF Sender, StartSend, FindFull, Send, SendTimesOut, FinishSending, Join, StopEcho,
                Exit, faults
  <2>2. CASE Echo
    BY <2>2 DEF Echo, EchoRecv, EchoFindsFull, EchoSend, EchoTimesOut, faults
  <2>3. CASE Receiver
    BY <2>3 DEF Receiver, RecvLoop, RecvMiss, RecvMsg, RecvTimesOut, DrainDecision, faults
  <2>4. CASE EchoDies \/ UNCHANGED vars
    BY <2>4 DEF EchoDies, vars, faults
  <2> QED BY <2>1, <2>2, <2>3, <2>4 DEF Next, Exited
<1> QED BY <1>1 DEF AwayTime

LEMMA OrderlyStep ==
  ASSUME RoundTripInvariant, Orderly, [Next]_vars PROVE Orderly'
<1> USE TimeTypes DEF Orderly
<1>1. AwayTime' <= stalled'
  <2>1. CASE Tick
    BY <2>1, TickCounts DEF Tick
  <2>2. ASSUME NEW p \in Parties, Stall(p) PROVE AwayTime' <= stalled'
    BY <2>2, StallCounts
  <2> QED BY <2>1, <2>2, AccountsStand
<1> DEFINE Rest == /\ due <= Gap /\ (spc \in {"send", "full"} => due <= 0)
                   /\ rpc \in {"recv", "missed", "timedout"} => s2cTaken < Total
                   /\ spc = "join" => c2sSent = Total
                   /\ result = "none" <=> spc \in {"wait", "send", "full", "join"}
<1>2. CASE Sender
  <2>1. CASE StartSend \/ FindFull \/ SendTimesOut
    BY <2>1, <1>1 DEF StartSend, FindFull, SendTimesOut, ringC2s, ringS2c
  <2>2. CASE Send
    <3>1. /\ spc \in {"send", "full"} /\ spc' = "wait" /\ due' = due + Gap
          /\ UNCHANGED <<rpc, s2cTaken, result>>
      BY <2>2 DEF Send, ringS2c
    <3>2. due' <= Gap
      BY <3>1
    <3> QED BY <1>1, <3>1, <3>2
  <2>3. CASE FinishSending \/ Join
    BY <2>3, <1>1 DEF FinishSending, Join, ringC2s, ringS2c
  <2>4. CASE StopEcho \/ Exit
    BY <2>4, <1>1 DEF StopEcho, Exit, ringC2s, ringS2c
  <2> QED BY <1>2, <2>1, <2>2, <2>3, <2>4 DEF Sender
<1>3. CASE Echo
  <2>1. UNCHANGED <<due, spc, rpc, s2cTaken, c2sSent, result>>
    BY <1>3 DEF Echo, EchoRecv, EchoFindsFull, EchoSend, EchoTimesOut, ringC2s, ringS2c, sender,
                C2S!Receive, S2C!Send
  <2> QED BY <1>1, <2>1
<1>4. CASE Receiver
  <2>1. UNCHANGED <<due, spc, c2sSent, result>>
    BY <1>4 DEF Receiver, RecvLoop, RecvMiss, RecvMsg, RecvTimesOut, DrainDecision, ringC2s, sender
  <2>2. rpc' \in {"recv", "missed", "timedout"} => s2cTaken' < Total
    BY <1>4 DEF Receiver, RecvLoop, RecvMiss, RecvMsg, RecvTimesOut, DrainDecision, ringS2c
  <2> QED BY <1>1, <2>1, <2>2
<1>5. CASE Tick
  <2>1. /\ due' = IF spc \in {"wait", "send", "full"} THEN due - 1 ELSE due
        /\ UNCHANGED <<spc, rpc, s2cTaken, c2sSent, result>>
    BY <1>5 DEF Tick, ringC2s, ringS2c
  <2> QED BY <1>1, <2>1
<1>6. CASE EchoDies \/ (\E p \in Parties : Stall(p)) \/ UNCHANGED vars
  <2>1. UNCHANGED <<due, spc, rpc, s2cTaken, c2sSent, result>>
    BY <1>6 DEF EchoDies, Stall, vars, ringC2s, ringS2c, sender
  <2> QED BY <1>1, <2>1
<1> QED BY <1>2, <1>3, <1>4, <1>5, <1>6 DEF Next, Exited

\* A tick lets the receive thread wait one longer only if somebody is away, or
\* if nothing is on its way and the schedule is what everybody waits for.
LEMMA TickIsPaidFor ==
  ASSUME RoundTripInvariant, Orderly, Tick,
         epc = "dead" => spc \in {"stopped", "exited"},
         rpc = "done" => s2cTaken = Total,
         result = "ok" => rpc = "done", result # "err", rpc # "timedout"
  PROVE  /\ \/ AwayTime' + 1 <= AwayTime
            \/ c2sSent = s2cTaken /\ spc = "wait" /\ due > 0
            \/ s2cTaken = Total
         /\ epc = "full" => AwayTime' + 1 <= AwayTime
         /\ spc = "full" => AwayTime' + 1 <= AwayTime
<1> USE TimeTypes
<1>0. \A p \in Parties : ~Awake(p) => AwayTime' + 1 <= AwayTime
  BY TickCounts
<1>1. SUFFICES ASSUME \A p \in Parties : Awake(p)
               PROVE  /\ \/ c2sSent = s2cTaken /\ spc = "wait" /\ due > 0
                         \/ s2cTaken = Total
                      /\ epc # "full" /\ spc # "full"
  BY <1>0
<1>2. ~SenderIsBusy /\ ~EchoIsBusy /\ ~ReceiverIsBusy
  BY <1>1 DEF Tick, Parties
<1>3. /\ spc \in {"wait", "send", "full", "join", "returned", "stopped", "exited"}
      /\ epc \in {"recv", "send", "full", "dead"}
      /\ rpc \in {"loop", "recv", "missed", "timedout", "done"}
      /\ result \in {"none", "ok", "err"}
  BY DEF RoundTripInvariant, TypeOK
<1>4. rpc = "done" \/ (rpc = "missed" /\ s2cTaken = s2cSent)
  BY <1>2, <1>3 DEF ReceiverIsBusy
<1>5. CASE rpc = "done"
  <2>1. s2cTaken = Total /\ s2cSent = Total
    BY <1>5
  <2>2. s2cSent <= c2sTaken /\ c2sTaken = Total /\ c2sSent = Total
    BY <2>1 DEF RoundTripInvariant, EchoVerbatim
  <2>3. ~C2sFull /\ ~S2cFull
    BY <2>1, <2>2 DEF C2sFull, S2cFull, Full
  <2> QED BY <1>2, <2>1, <2>3 DEF SenderIsBusy, EchoIsBusy
<1>6. CASE rpc = "missed" /\ s2cTaken = s2cSent
  <2>1. ~S2cFull
    BY <1>6 DEF S2cFull, Full
  <2>2. result = "none" /\ spc \in {"wait", "send", "full", "join"} /\ epc # "dead"
    BY <1>3, <1>6 DEF Orderly
  <2>3. epc = "recv" /\ c2sTaken = c2sSent
    BY <1>2, <1>3, <2>1, <2>2 DEF EchoIsBusy
  <2>4. c2sTaken = s2cTaken /\ c2sSent = s2cTaken
    BY <1>6, <2>3 DEF RoundTripInvariant, EchoVerbatim
  <2>5. ~C2sFull
    BY <2>3 DEF C2sFull, Full
  <2>6. spc \in {"wait", "join"} /\ (spc = "wait" => due > 0)
    BY <1>2, <2>2, <2>5 DEF SenderIsBusy
  <2>7. spc = "join" => s2cTaken = Total
    BY <2>4 DEF Orderly
  <2> QED BY <2>3, <2>4, <2>6, <2>7
<1> QED BY <1>4, <1>5, <1>6

\* No deadline passes while the stalls are short.
LEMMA PunctualStep ==
  ASSUME RecvTimeout <= FullTimeout, RoundTripInvariant, RoundTripInvariant', Orderly, Orderly',
         Punctual, [Next]_vars
  PROVE  Punctual'
<1> USE TimeTypes
<1>1. SUFFICES ASSUME ShortStalls'
               PROVE  /\ epc' = "dead" => spc' \in {"stopped", "exited"}
                      /\ result' # "err"
                      /\ result' = "ok" => rpc' = "done"
                      /\ rpc' = "done" => s2cTaken' = Total
                      /\ rpc' # "timedout"
                      /\ rpc' = "missed" =>
                            RecvTimeout + ToCome' + AwayTime' <= left'["receiver"] + Gap + stalled'
                      /\ epc' = "full" => FullTimeout + AwayTime' <= left'["echo"] + stalled'
                      /\ spc' = "full" => FullTimeout + AwayTime' <= left'["sender"] + stalled'
  BY DEF Punctual
<1>2. stalled <= stalled' /\ (died => died')
  <2>1. ASSUME NEW p \in Parties, Stall(p) PROVE stalled <= stalled'
    <3>1. \E d \in Nat : stalled' = stalled + d
      BY <2>1, StallCounts
    <3> QED BY <3>1
  <2>2. CASE Tick
    BY <2>2 DEF Tick
  <2>3. died => died'
    BY DEF Next, Sender, StartSend, FindFull, Send, SendTimesOut, FinishSending, Join, StopEcho,
           Exit, Echo, EchoRecv, EchoFindsFull, EchoSend, EchoTimesOut, Receiver, RecvLoop, RecvMiss,
           RecvMsg, RecvTimesOut, DrainDecision, EchoDies, Stall, Tick, Exited, vars, faults
  <2> QED BY <2>1, <2>2, <2>3, AccountsStand
<1>3. /\ ~died /\ ~died' /\ Gap + stalled < RecvTimeout /\ stalled' \in Nat
      /\ epc = "dead" => spc \in {"stopped", "exited"}
      /\ result # "err"
      /\ result = "ok" => rpc = "done"
      /\ rpc = "done" => s2cTaken = Total
      /\ rpc # "timedout"
      /\ rpc = "missed" => RecvTimeout + ToCome + AwayTime <= left["receiver"] + Gap + stalled
      /\ epc = "full" => FullTimeout + AwayTime <= left["echo"] + stalled
      /\ spc = "full" => FullTimeout + AwayTime <= left["sender"] + stalled
  <2>1. stalled' \in Nat
    BY DEF RoundTripInvariant, TypeOK
  <2>2. ShortStalls
    BY <1>1, <1>2, <2>1 DEF ShortStalls
  <2> QED BY <1>1, <2>1, <2>2 DEF Punctual, ShortStalls
<1>4. /\ "sender" \in Parties /\ "echo" \in Parties /\ "receiver" \in Parties
  BY DEF Parties
<1>5. AwayTime <= stalled
  BY DEF Orderly
<1>6. CASE StartSend
  <2>1. /\ spc' = "send" /\ UNCHANGED <<epc, rpc, result, s2cTaken, c2sSent, due, left>>
    BY <1>6 DEF StartSend, ringC2s, ringS2c
  <2>2. UNCHANGED <<AwayTime, stalled, ToCome>>
    BY <1>6, <2>1 DEF StartSend, faults, AwayTime, ToCome
  <2>3. spc = "wait"
    BY <1>6 DEF StartSend
  <2> QED BY <1>3, <2>1, <2>2, <2>3
<1>7. CASE FindFull
  <2>1. /\ spc = "send" /\ spc' = "full" /\ Arm("sender", FullTimeout)
        /\ UNCHANGED <<epc, rpc, result, s2cTaken, c2sSent, due>>
    BY <1>7 DEF FindFull, ringC2s, ringS2c
  <2>2. UNCHANGED <<AwayTime, stalled, ToCome>>
    BY <1>7, <2>1 DEF FindFull, faults, AwayTime, ToCome
  <2>3. left'["sender"] = FullTimeout /\ left'["echo"] = left["echo"]
        /\ left'["receiver"] = left["receiver"]
    BY <1>4, <2>1, ArmSets
  <2> QED BY <1>3, <1>5, <2>1, <2>2, <2>3
<1>8. CASE Send
  <2>1. /\ spc \in {"send", "full"} /\ spc' = "wait" /\ c2sSent' = c2sSent + 1
        /\ UNCHANGED <<epc, rpc, result, s2cTaken, left>>
    BY <1>8 DEF Send, C2S!Send, ringS2c
  <2>2. UNCHANGED <<AwayTime, stalled>>
    BY <1>8 DEF Send, faults, AwayTime
  <2>3. c2sSent' # s2cTaken /\ ToCome' = 0
    <3>1. s2cTaken <= c2sSent
      BY DEF RoundTripInvariant, EchoVerbatim
    <3> QED BY <2>1, <3>1 DEF ToCome
  <2> QED BY <1>3, <2>1, <2>2, <2>3
<1>9. CASE SendTimesOut
  <2>1. spc = "full" /\ left["sender"] = 0
    BY <1>9 DEF SendTimesOut, Expired
  <2> QED BY <1>3, <2>1
<1>10. CASE FinishSending \/ Join
  <2>1. /\ spc \in {"wait", "join"} /\ spc' \in {"join", "returned"}
        /\ result' = result \/ (result' = "ok" /\ rpc = "done")
        /\ UNCHANGED <<epc, rpc, s2cTaken, c2sSent, due, left>>
    BY <1>10 DEF FinishSending, Join, ringC2s, ringS2c
  <2>2. UNCHANGED <<AwayTime, stalled, ToCome>>
    BY <1>10, <2>1 DEF FinishSending, Join, faults, AwayTime, ToCome
  <2> QED BY <1>3, <2>1, <2>2
<1>11. CASE StopEcho \/ Exit
  <2>1. /\ spc \in {"returned", "stopped"} /\ spc' \in {"stopped", "exited"}
        /\ epc' \in {epc, "dead"} /\ rpc' \in {rpc, "done"}
        /\ UNCHANGED <<result, s2cTaken, c2sSent, due, left>>
    BY <1>11 DEF StopEcho, Exit, ringC2s, ringS2c
  <2>2. UNCHANGED <<AwayTime, stalled, ToCome>>
    BY <1>11, <2>1 DEF StopEcho, Exit, faults, AwayTime, ToCome
  <2>3. result = "ok"
    <3>1. result \in {"none", "ok", "err"}
      BY DEF RoundTripInvariant, TypeOK
    <3>2. result # "none"
      BY <2>1 DEF Orderly
    <3> QED BY <1>3, <3>1, <3>2
  <2>4. rpc = "done" /\ s2cTaken = Total
    BY <1>3, <2>3
  <2> QED BY <1>3, <2>1, <2>2, <2>3, <2>4
<1>12. CASE EchoRecv \/ EchoSend
  <2>1. /\ epc' \in {"send", "recv"}
        /\ UNCHANGED <<spc, rpc, result, s2cTaken, c2sSent, due, left>>
    BY <1>12 DEF EchoRecv, EchoSend, C2S!Receive, S2C!Send, ringC2s, ringS2c, sender
  <2>2. UNCHANGED <<AwayTime, stalled, ToCome>>
    BY <1>12, <2>1 DEF EchoRecv, EchoSend, faults, AwayTime, ToCome
  <2> QED BY <1>3, <2>1, <2>2
<1>13. CASE EchoFindsFull
  <2>1. /\ epc' = "full" /\ Arm("echo", FullTimeout)
        /\ UNCHANGED <<spc, rpc, result, s2cTaken, c2sSent, due>>
    BY <1>13 DEF EchoFindsFull, ringC2s, ringS2c, sender
  <2>2. UNCHANGED <<AwayTime, stalled, ToCome>>
    BY <1>13, <2>1 DEF EchoFindsFull, faults, AwayTime, ToCome
  <2>3. left'["echo"] = FullTimeout /\ left'["sender"] = left["sender"]
        /\ left'["receiver"] = left["receiver"]
    BY <1>4, <2>1, ArmSets
  <2> QED BY <1>3, <1>5, <2>1, <2>2, <2>3
<1>14. CASE EchoTimesOut
  <2>1. epc = "full" /\ left["echo"] = 0
    BY <1>14 DEF EchoTimesOut, Expired
  <2> QED BY <1>3, <2>1
<1>15. CASE RecvLoop
  <2>1. /\ rpc' = IF s2cTaken < Total THEN "recv" ELSE "done"
        /\ UNCHANGED <<spc, epc, result, s2cTaken, c2sSent, due, left>>
        /\ rpc = "loop"
    BY <1>15 DEF RecvLoop, ringC2s, ringS2c, sender
  <2>2. UNCHANGED <<AwayTime, stalled, ToCome>>
    BY <1>15, <2>1 DEF RecvLoop, faults, AwayTime, ToCome
  <2> QED BY <1>3, <2>1, <2>2
<1>16. CASE RecvMiss
  <2>1. /\ rpc = "recv" /\ rpc' = "missed" /\ Arm("receiver", RecvTimeout)
        /\ UNCHANGED <<spc, epc, result, s2cTaken, c2sSent, due>>
    BY <1>16 DEF RecvMiss, ringC2s, ringS2c, sender
  <2>2. UNCHANGED <<AwayTime, stalled, ToCome>>
    BY <1>16, <2>1 DEF RecvMiss, faults, AwayTime, ToCome
  <2>3. left'["receiver"] = RecvTimeout /\ left'["sender"] = left["sender"]
        /\ left'["echo"] = left["echo"]
    BY <1>4, <2>1, ArmSets
  <2>4. ToCome <= Gap
    BY DEF ToCome, Orderly
  <2> QED BY <1>3, <1>5, <2>1, <2>2, <2>3, <2>4
<1>17. CASE RecvMsg
  <2>1. /\ rpc \in {"recv", "missed"} /\ rpc' = "loop"
        /\ UNCHANGED <<spc, epc, result, left>>
    BY <1>17 DEF RecvMsg, sender
  <2>2. UNCHANGED <<AwayTime, stalled>>
    BY <1>17 DEF RecvMsg, faults, AwayTime
  <2> QED BY <1>3, <2>1, <2>2
<1>18. CASE RecvTimesOut
  <2>1. rpc = "missed" /\ left["receiver"] = 0
    BY <1>18 DEF RecvTimesOut, Expired
  <2> QED BY <1>3, <2>1
<1>19. CASE DrainDecision
  BY <1>3, <1>19 DEF DrainDecision
<1>20. CASE EchoDies
  BY <1>3, <1>20 DEF EchoDies
<1>21. ASSUME NEW p \in Parties, Stall(p)
       PROVE  /\ UNCHANGED <<spc, epc, rpc, result, s2cTaken, c2sSent, due, left>>
              /\ \E d \in Nat : AwayTime' = AwayTime + d /\ stalled' = stalled + d
  BY <1>21, StallCounts DEF Stall, ringC2s, ringS2c, sender
<1>22. CASE \E p \in Parties : Stall(p)
  <2>1. /\ UNCHANGED <<spc, epc, rpc, result, s2cTaken, c2sSent, due, left>>
        /\ \E d \in Nat : AwayTime' = AwayTime + d /\ stalled' = stalled + d
    BY <1>21, <1>22
  <2>2. ToCome' = ToCome
    BY <2>1 DEF ToCome
  <2> QED BY <1>3, <2>1, <2>2
<1>23. CASE Tick
  <2>1. /\ due' = IF spc \in {"wait", "send", "full"} THEN due - 1 ELSE due
        /\ UNCHANGED <<spc, epc, rpc, result, s2cTaken, c2sSent, stalled>>
    BY <1>23 DEF Tick, ringC2s, ringS2c
  <2>2. /\ left'["sender"] \in Nat /\ left["sender"] <= left'["sender"] + 1
        /\ left'["echo"] \in Nat /\ left["echo"] <= left'["echo"] + 1
        /\ left'["receiver"] \in Nat /\ left["receiver"] <= left'["receiver"] + 1
        /\ AwayTime' \in Nat /\ AwayTime' <= AwayTime
    BY <1>4, <1>23, TickCounts
  <2>3. /\ \/ AwayTime' + 1 <= AwayTime
           \/ c2sSent = s2cTaken /\ spc = "wait" /\ due > 0
           \/ s2cTaken = Total
        /\ epc = "full" => AwayTime' + 1 <= AwayTime
        /\ spc = "full" => AwayTime' + 1 <= AwayTime
    BY <1>3, <1>23, TickIsPaidFor
  <2>4. rpc = "missed" => s2cTaken # Total
    BY DEF Orderly
  <2>5. /\ ToCome' \in Nat /\ ToCome' <= ToCome
        /\ c2sSent = s2cTaken /\ spc = "wait" /\ due > 0 => ToCome' + 1 <= ToCome
    BY <2>1 DEF ToCome
  <2> QED BY <1>3, <2>1, <2>2, <2>3, <2>4, <2>5
<1>24. CASE UNCHANGED vars
  <2>1. /\ UNCHANGED <<spc, epc, rpc, result, s2cTaken, c2sSent, due, left, stalled, away>>
    BY <1>24 DEF vars, ringC2s, ringS2c, sender, faults
  <2>2. UNCHANGED <<AwayTime, ToCome>>
    BY <2>1 DEF AwayTime, ToCome
  <2> QED BY <1>3, <2>1, <2>2
<1> QED
  BY <1>6, <1>7, <1>8, <1>9, <1>10, <1>11, <1>12, <1>13, <1>14, <1>15, <1>16, <1>17, <1>18, <1>19,
     <1>20, <1>22, <1>23, <1>24
     DEF Next, Sender, Echo, Receiver, Exited

LEMMA PunctualInit == Init => Orderly /\ Punctual
<1> SUFFICES ASSUME Init PROVE Orderly /\ Punctual
  OBVIOUS
<1>1. /\ c2sSent = 0 /\ s2cTaken = 0 /\ spc = "wait" /\ due = 0 /\ result = "none"
      /\ epc = "recv" /\ rpc = "loop" /\ stalled = 0
  BY DEF Init, C2S!Init, S2C!Init
<1>2. AwayTime = 0
  BY DEF Init, AwayTime, Parties
<1> QED BY <1>1, <1>2, RoundTripAssumption DEF Orderly, Punctual

\* lib.rs:16-18, for every capacity, schedule and pattern of stalls: while all
\* stalls together are shorter than the read timeout and the echo process lives,
\* a slow party is lag and nothing else: the run neither fails nor drops a
\* message.  The code has FULL_TIMEOUT longer than RECV_TIMEOUT (lib.rs:45-47).
THEOREM StallsAreOnlyLag == RecvTimeout <= FullTimeout => (Spec => []StallShowsAsLag)
<1> SUFFICES ASSUME RecvTimeout <= FullTimeout PROVE Spec => []StallShowsAsLag
  OBVIOUS
<1>1. Orderly /\ Punctual /\ RoundTripInvariant /\ RoundTripInvariant' /\ [Next]_vars
        => (Orderly /\ Punctual)'
  BY OrderlyStep, PunctualStep
<1>2. Punctual => StallShowsAsLag
  BY DEF Punctual, ShortStalls, StallShowsAsLag
<1> QED BY <1>1, <1>2, PunctualInit, RoundTripInvariantHolds, PTL DEF Spec
=============================================================================
