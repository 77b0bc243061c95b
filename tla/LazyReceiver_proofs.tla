------------------------- MODULE LazyReceiver_proofs -------------------------
(***************************************************************************)
(* Why nothing vanishes between the publications and subscriptions of      *)
(* iceoryx2 and Aeron, and why only the first echoes can be too early for  *)
(* the measuring side's receiver: for all three backends, every number of  *)
(* messages and every buffer.  While both processes live, the messages     *)
(* received, on their way back, in the echo's hand and on their way out    *)
(* are in this order, and each step moves one across a border between two  *)
(* of them; what READY announces, and what the receive thread has built,   *)
(* decide who hears it.                                                    *)
(***************************************************************************)
EXTENDS LazyReceiver, SequenceTheorems, TLAPS

LEMMA LazyConstants == /\ Backends \subseteq AllBackends /\ Msgs \in Nat /\ Msgs > 0
                       /\ Buffer \in Nat /\ Buffer > 0
  BY LazyAssumption DEF LazyAssumption

LEMMA WaysAre == "c2s" \in Ways /\ "s2c" \in Ways /\ \A w \in Ways : w = "c2s" \/ w = "s2c"
  BY DEF Ways

-----------------------------------------------------------------------------
(* The inductive invariant                                                 *)

Live == epc # "dead" /\ rpc # "failed"

TypedControl ==
    /\ backend \in Backends
    /\ driver \in [Sides -> {"none", "starting", "up"}]
    /\ pub \in [Ways -> BOOLEAN] /\ sub \in [Ways -> BOOLEAN] /\ link \in [Ways -> BOOLEAN]
    /\ epc \in Ports \cup {"driver", "poll", "send", "dead"} /\ announced \in BOOLEAN
    /\ cpc \in Ports \cup {"ready", "driver", "connecting", "send", "done", "returned", "failed"}
    /\ rpc \in {"unstarted", "attach", "subscription", "poll", "done", "failed"}

TypedData ==
    /\ unread \in [Ways -> Seq(Numbers)] /\ \A w \in Ways : Len(unread[w]) <= Buffer
    /\ unheard \in [Ways -> SUBSET Numbers] /\ overrun \in [Ways -> SUBSET Numbers]
    /\ hand \in Numbers \cup {-1}
    /\ next \in 0 .. Msgs
    /\ received \in Seq(Numbers)

\* What READY, the ports and the threads' places say of each other.
Stages ==
    /\ epc = "send" => hand # -1
    /\ epc \notin {"send", "dead"} => hand = -1
    /\ announced => epc \in {"poll", "send", "dead"}
    /\ epc \in {"publication", "poll", "send"} => sub["c2s"]
    /\ ~Remote /\ cpc \notin {"ready", "failed"} => announced
    /\ cpc \in {"ready", "driver", "attach", "publication", "connecting"} =>
         rpc = "unstarted" /\ next = 0
    /\ cpc = "send" => next < Msgs
    /\ rpc \in {"unstarted", "attach", "subscription"} =>
         ~link["s2c"] /\ ~sub["s2c"] /\ unread["s2c"] = <<>> /\ received = <<>>
    /\ rpc = "poll" => sub["s2c"]

\* The receive thread leaves an empty line behind.
Finished ==
    Live /\ rpc = "done" =>
        /\ unread["s2c"] = <<>> /\ hand = -1 /\ unread["c2s"] = <<>>
        /\ cpc # "send"

\* Messages that were received, are on their way back, in the echo's hand and on
\* their way out; and those that were lost, of each way.
Got    == ToSet(received)
Back   == ToSet(unread["s2c"])
InHand == {hand} \ {-1}
Out    == ToSet(unread["c2s"])
Line   == Got \cup Back \cup InHand \cup Out

LostOf(w) == unheard[w] \cup overrun[w]
Lost      == LostOf("c2s") \cup LostOf("s2c")

Below(A, B) == \A a \in A, b \in B : a < b
Increasing(s) == \A i, j \in DOMAIN s : i < j => s[i] < s[j]

Ordered ==
    /\ Increasing(received) /\ Increasing(unread["s2c"]) /\ Increasing(unread["c2s"])
    /\ Below(Got, Back) /\ Below(Got, InHand) /\ Below(Got, Out)
    /\ Below(Back, InHand) /\ Below(Back, Out) /\ Below(InHand, Out)
    /\ \A i \in DOMAIN received : received[i] >= i - 1

Accounted ==
    /\ Line \cup Lost = 0 .. next - 1
    /\ Line \cap Lost = {}
    /\ Aeron => Lost = {}
    /\ unheard["c2s"] = {}
    /\ Below(unheard["s2c"], Line)

Invariant == /\ TypedControl /\ TypedData /\ Stages /\ Finished
             /\ Live => Ordered /\ Accounted

LEMMA InvariantInit == Init => Invariant
<1> SUFFICES ASSUME Init PROVE Invariant
  OBVIOUS
<1>1. <<>> \in Seq(Numbers) /\ Len(<<>>) = 0 /\ ToSet(<<>>) = {} /\ DOMAIN <<>> = {}
  BY DEF ToSet
<1>2. TypedControl
  BY DEF Init, TypedControl, Ports
<1>3. TypedData
  BY <1>1, LazyConstants DEF Init, TypedData
<1>4. Stages
  BY WaysAre, LazyConstants DEF Init, Stages
<1>5. Finished
  BY DEF Init, Finished
<1>6. Line = {} /\ Lost = {}
  <2>1. Got = {} /\ Back = {} /\ InHand = {} /\ Out = {}
    BY <1>1, WaysAre DEF Init, Got, Back, InHand, Out
  <2>2. Lost = {}
    BY WaysAre DEF Init, Lost, LostOf
  <2> QED BY <2>1, <2>2 DEF Line
<1>7. Ordered
  BY <1>1, <1>6, WaysAre DEF Init, Ordered, Increasing, Below, Line
<1>8. Accounted
  BY <1>6, WaysAre DEF Init, Accounted, Below
<1> QED BY <1>2, <1>3, <1>4, <1>5, <1>7, <1>8 DEF Invariant

-----------------------------------------------------------------------------
(* Steps that move no message                                              *)

\* Such a step keeps the order and the account of the messages.
LEMMA AccountKept ==
  ASSUME Invariant, TypedControl', Stages', Finished', Live' => Live,
         UNCHANGED <<backend, medium, hand, next, received>>
  PROVE  Invariant'
<1>1. TypedData'
  BY DEF Invariant, TypedData, medium
<1>2. Live' => Ordered' /\ Accounted'
  <2>1. /\ Got' = Got /\ Back' = Back /\ InHand' = InHand /\ Out' = Out
        /\ LostOf("c2s")' = LostOf("c2s") /\ LostOf("s2c")' = LostOf("s2c")
        /\ Aeron' <=> Aeron
    BY DEF Got, Back, InHand, Out, LostOf, medium, Aeron, Remote
  <2>2. Line' = Line /\ Lost' = Lost
    BY <2>1 DEF Line, Lost
  <2>3. Ordered => Ordered'
    BY <2>1 DEF Ordered, Increasing, Below, medium
  <2>4. Accounted => Accounted'
    BY <2>1, <2>2 DEF Accounted, Below, medium
  <2> QED BY <2>3, <2>4 DEF Invariant
<1> QED BY <1>1, <1>2 DEF Invariant

LEMMA MessagesKept ==
  ASSUME Invariant, TypedControl', Stages', UNCHANGED <<backend, medium, hand, next, received>>,
         epc' # "dead" => epc # "dead", rpc' # "failed" => rpc # "failed",
         rpc' = "done" => rpc = "done" /\ (cpc' = "send" => cpc = "send")
  PROVE  Invariant'
<1>1. Live' => Live
  BY DEF Live
<1>2. Finished'
  BY DEF Invariant, Finished, Live, medium
<1> QED BY <1>1, <1>2, AccountKept

LEMMA EchoDies ==
  ASSUME Invariant, EchoEnds,
         UNCHANGED <<backend, link, medium, hand, announced, client, receiver>>
  PROVE  Invariant'
<1>1. TypedControl'
  BY WaysAre DEF Invariant, TypedControl, EchoEnds, client, receiver, Sides
<1>2. Stages'
  BY WaysAre DEF Invariant, TypedControl, Stages, EchoEnds, client, receiver, Remote, medium
<1> QED BY <1>1, <1>2, MessagesKept DEF EchoEnds, client, receiver

LEMMA EchoStartSteps ==
  ASSUME Invariant, EchoLaunchDriver \/ EchoAttach \/ EchoSubscribes \/ EchoPublishes
  PROVE  Invariant'
<1> USE DEF EchoGoesTo
<1>1. CASE EchoLaunchDriver /\ ~EchoEnds
  <2>1. TypedControl' /\ Stages'
    BY <1>1, WaysAre DEF Invariant, TypedControl, Stages, EchoLaunchDriver, client, receiver,
                         Sides, Ports, Remote, medium
  <2> QED BY <1>1, <2>1, MessagesKept DEF EchoLaunchDriver, client, receiver
<1>2. CASE EchoAttach /\ ~EchoEnds
  <2>1. TypedControl' /\ Stages'
    BY <1>2, WaysAre DEF Invariant, TypedControl, Stages, EchoAttach, client, receiver,
                         Ports, Remote, medium
  <2> QED BY <1>2, <2>1, MessagesKept DEF EchoAttach, client, receiver
<1>3. CASE EchoSubscribes /\ ~EchoEnds
  <2>1. TypedControl' /\ Stages'
    BY <1>3, WaysAre DEF Invariant, TypedControl, Stages, EchoSubscribes, client, receiver,
                         Ports, Remote, medium
  <2> QED BY <1>3, <2>1, MessagesKept DEF EchoSubscribes, client, receiver
<1>4. CASE EchoPublishes /\ ~EchoEnds
  <2>1. TypedControl' /\ Stages'
    BY <1>4, WaysAre DEF Invariant, TypedControl, Stages, EchoPublishes, client, receiver,
                         Ports, Remote, medium
  <2> QED BY <1>4, <2>1, MessagesKept DEF EchoPublishes, client, receiver
<1>5. CASE EchoEnds /\ UNCHANGED <<backend, link, medium, hand, announced, client, receiver>>
  BY <1>5, EchoDies
<1>6. EchoLaunchDriver =>
         \/ EchoLaunchDriver /\ ~EchoEnds
         \/ EchoEnds /\ UNCHANGED <<backend, link, medium, hand, announced, client, receiver>>
  BY DEF EchoLaunchDriver
<1>7. EchoAttach =>
         \/ EchoAttach /\ ~EchoEnds
         \/ EchoEnds /\ UNCHANGED <<backend, link, medium, hand, announced, client, receiver>>
  BY DEF EchoAttach
<1>8. EchoSubscribes =>
         \/ EchoSubscribes /\ ~EchoEnds
         \/ EchoEnds /\ UNCHANGED <<backend, link, medium, hand, announced, client, receiver>>
  BY DEF EchoSubscribes
<1>9. EchoPublishes =>
         \/ EchoPublishes /\ ~EchoEnds
         \/ EchoEnds /\ UNCHANGED <<backend, link, medium, hand, announced, client, receiver>>
  <2>1. epc' = "poll" => ~EchoEnds
    BY DEF EchoEnds
  <2>2. ASSUME EchoPublishes, EchoEnds
        PROVE  UNCHANGED <<backend, link, medium, hand, announced, client, receiver>>
    <3>1. /\ UNCHANGED announced /\ UNCHANGED backend /\ UNCHANGED link /\ UNCHANGED medium
          /\ UNCHANGED hand /\ UNCHANGED client /\ UNCHANGED receiver
      BY <2>1, <2>2 DEF EchoPublishes
    <3> QED BY <3>1
  <2> QED BY <2>2
<1> QED BY <1>1, <1>2, <1>3, <1>4, <1>5, <1>6, <1>7, <1>8, <1>9

LEMMA ClientQuietSteps ==
  ASSUME Invariant,
         \/ ClientStart \/ ClientLaunchDriver \/ ClientAttach \/ ClientPublishes
         \/ ClientConnected \/ ClientGivesUp \/ ClientSendFails \/ ClientReturns
  PROVE  Invariant'
<1> USE DEF FirstPort, StartRun, Leave
<1>1. CASE ClientStart
  <2>1. TypedControl' /\ Stages'
    BY <1>1, WaysAre DEF Invariant, TypedControl, Stages, ClientStart, echo, ports, receiver,
                         Ports, Remote, Aeron, medium
  <2> QED BY <1>1, <2>1, MessagesKept DEF ClientStart, echo, receiver
<1>2. CASE ClientLaunchDriver
  <2>1. TypedControl' /\ Stages'
    BY <1>2, WaysAre DEF Invariant, TypedControl, Stages, ClientLaunchDriver, echo, receiver,
                         Sides, Ports, Remote, medium
  <2> QED BY <1>2, <2>1, MessagesKept DEF ClientLaunchDriver, echo, receiver
<1>3. CASE ClientAttach
  <2>1. TypedControl' /\ Stages'
    BY <1>3, WaysAre DEF Invariant, TypedControl, Stages, ClientAttach, echo, receiver,
                         Sides, Ports, Remote, medium
  <2> QED BY <1>3, <2>1, MessagesKept DEF ClientAttach, echo, receiver
<1>4. CASE ClientPublishes
  <2>1. TypedControl' /\ Stages'
    BY <1>4, WaysAre, LazyConstants
       DEF Invariant, TypedControl, Stages, ClientPublishes, echo, Sides, Ports, Remote, medium
  <2> QED BY <1>4, <2>1, MessagesKept DEF ClientPublishes, echo, Invariant, Stages
<1>5. CASE ClientConnected
  <2>1. TypedControl' /\ Stages'
    BY <1>5, WaysAre, LazyConstants
       DEF Invariant, TypedControl, Stages, ClientConnected, echo, Sides, Ports, Remote, medium
  <2> QED BY <1>5, <2>1, MessagesKept DEF ClientConnected, echo, Invariant, Stages
<1>6. CASE ClientGivesUp \/ ClientSendFails
  <2>1. /\ cpc = "send" /\ cpc' = "failed"
        /\ pub' = [pub EXCEPT !["c2s"] = FALSE]
        /\ driver' = [driver EXCEPT !["here"] = "none"]
        /\ UNCHANGED <<backend, sub, link, medium, echo, next, receiver>>
    BY <1>6 DEF ClientGivesUp, ClientSendFails
  <2>2. TypedControl' /\ Stages'
    BY <2>1, WaysAre DEF Invariant, TypedControl, Stages, echo, receiver, Sides, Ports,
                         Remote, medium
  <2> QED BY <2>2, <1>6, <2>1, MessagesKept DEF ClientGivesUp, ClientSendFails, echo, receiver
<1>7. CASE ClientReturns
  <2>1. TypedControl' /\ Stages'
    BY <1>7, WaysAre DEF Invariant, TypedControl, Stages, ClientReturns, echo, receiver,
                         Sides, Ports, Remote, medium
  <2> QED BY <1>7, <2>1, MessagesKept DEF ClientReturns, echo, receiver
<1> QED BY <1>1, <1>2, <1>3, <1>4, <1>5, <1>6, <1>7

LEMMA ReceiverQuietSteps ==
  ASSUME Invariant, RecvAttach \/ RecvSubscribes \/ RecvFails
  PROVE  Invariant'
<1>1. CASE RecvAttach
  <2>1. TypedControl' /\ Stages'
    BY <1>1, WaysAre DEF Invariant, TypedControl, Stages, RecvAttach, echo, client, ports,
                         Ports, Remote, medium
  <2> QED BY <1>1, <2>1, MessagesKept DEF RecvAttach, echo, client
<1>2. CASE RecvSubscribes
  <2>1. TypedControl' /\ Stages'
    BY <1>2, WaysAre DEF Invariant, TypedControl, Stages, RecvSubscribes, echo, client,
                         Ports, Remote, medium
  <2> QED BY <1>2, <2>1, MessagesKept DEF RecvSubscribes, echo, client
<1>3. CASE RecvFails
  <2>1. TypedControl' /\ Stages'
    BY <1>3, WaysAre DEF Invariant, TypedControl, Stages, RecvFails, echo, client,
                         Ports, Remote, medium
  <2> QED BY <1>3, <2>1, MessagesKept DEF RecvFails, echo, client
<1> QED BY <1>1, <1>2, <1>3

LEMMA DriverSteps ==
  ASSUME Invariant, Driver
  PROVE  Invariant'
<1>1. CASE \E side \in Sides : DriverStarts(side)
  <2>1. TypedControl' /\ Stages'
    BY <1>1 DEF Invariant, TypedControl, Stages, DriverStarts, echo, client, receiver,
                Sides, Remote, medium
  <2> QED BY <1>1, <2>1, MessagesKept DEF DriverStarts, echo, client, receiver
<1>2. ASSUME NEW w \in Ways, Link(w) PROVE Invariant'
  <2>1. TypedControl'
    <3>1. CanLink(w) \in BOOLEAN
      BY DEF CanLink
    <3> QED BY <1>2, <3>1 DEF Invariant, TypedControl, Link, echo, client, receiver
  <2>2. Stages'
    <3>1. ~sub["s2c"] /\ ~link["s2c"] => ~link'["s2c"]
      BY <1>2, WaysAre DEF Link, CanLink, Invariant, TypedControl
    <3> QED BY <1>2, <3>1 DEF Invariant, Stages, Link, echo, client, receiver, Remote, medium
  <2> QED BY <1>2, <2>1, <2>2, MessagesKept DEF Link, echo, client, receiver
<1> QED BY <1>1, <1>2 DEF Driver

LEMMA EchoStops ==
  ASSUME Invariant, EchoGivesUp \/ EchoFails
  PROVE  Invariant'
  BY EchoDies DEF EchoGivesUp, EchoFails

-----------------------------------------------------------------------------
(* Sequences of numbers                                                    *)

LEMMA Popped ==
  ASSUME NEW s \in Seq(Numbers), s # <<>>
  PROVE  /\ Tail(s) \in Seq(Numbers) /\ Head(s) \in Numbers /\ Len(Tail(s)) = Len(s) - 1
         /\ ToSet(s) = ToSet(Tail(s)) \cup {Head(s)}
         /\ Increasing(s) => Increasing(Tail(s)) /\ Below({Head(s)}, ToSet(Tail(s)))
<1>1. /\ Len(s) \in Nat /\ Len(s) > 0 /\ DOMAIN s = 1 .. Len(s) /\ Head(s) = s[1] /\ 1 \in 1 .. Len(s)
      /\ \A i \in 1 .. Len(s) : s[i] \in Numbers
  OBVIOUS
<1>2. PICK t : t = Tail(s)
  OBVIOUS
<1>3. /\ t \in Seq(Numbers) /\ Len(t) = Len(s) - 1 /\ DOMAIN t = 1 .. Len(s) - 1
      /\ \A i \in 1 .. Len(s) - 1 : t[i] = s[i + 1]
  BY <1>1, <1>2
<1>4. /\ \A i \in 1 .. Len(s) - 1 : i + 1 \in 1 .. Len(s) /\ 1 < i + 1
      /\ \A i \in 1 .. Len(s) : i = 1 \/ (i - 1 \in 1 .. Len(s) - 1 /\ (i - 1) + 1 = i)
  <2>1. \A n \in Nat : /\ \A i \in 1 .. n - 1 : i + 1 \in 1 .. n /\ 1 < i + 1
                       /\ \A i \in 1 .. n : i = 1 \/ (i - 1 \in 1 .. n - 1 /\ (i - 1) + 1 = i)
    OBVIOUS
  <2> QED BY <1>1, <2>1
<1>5. ToSet(s) = ToSet(t) \cup {Head(s)}
  <2>1. \A i \in 1 .. Len(s) : s[i] \in ToSet(t) \cup {Head(s)}
    <3>1. \A i \in 1 .. Len(s) - 1 : t[i] \in ToSet(t)
      BY <1>3 DEF ToSet
    <3>2. ASSUME NEW i \in 1 .. Len(s), i # 1 PROVE s[i] = t[i - 1] /\ i - 1 \in 1 .. Len(s) - 1
      BY <1>3, <1>4, <3>2
    <3> QED BY <1>1, <3>1, <3>2
  <2>2. \A i \in 1 .. Len(s) - 1 : t[i] \in ToSet(s)
    BY <1>1, <1>3, <1>4 DEF ToSet
  <2>3. Head(s) \in ToSet(s)
    BY <1>1 DEF ToSet
  <2> QED BY <1>1, <1>3, <2>1, <2>2, <2>3 DEF ToSet
<1>6. ASSUME Increasing(s) PROVE Increasing(t) /\ Below({Head(s)}, ToSet(t))
  <2>1. \A i \in 1 .. Len(s) - 1 : s[1] < t[i]
    BY <1>1, <1>3, <1>4, <1>6 DEF Increasing
  <2>2. ASSUME NEW i \in 1 .. Len(s) - 1, NEW j \in 1 .. Len(s) - 1, i < j PROVE t[i] < t[j]
    <3>1. i + 1 < j + 1
      BY <2>2
    <3> QED BY <1>1, <1>3, <1>4, <1>6, <2>2, <3>1 DEF Increasing
  <2> QED BY <1>1, <1>3, <2>1, <2>2 DEF Increasing, Below, ToSet
<1> QED BY <1>1, <1>2, <1>3, <1>5, <1>6

LEMMA Pushed ==
  ASSUME NEW s \in Seq(Numbers), NEW m \in Numbers
  PROVE  /\ Append(s, m) \in Seq(Numbers) /\ Len(Append(s, m)) = Len(s) + 1
         /\ ToSet(Append(s, m)) = ToSet(s) \cup {m}
         /\ Increasing(s) /\ Below(ToSet(s), {m}) => Increasing(Append(s, m))
<1>1. PICK t : t = Append(s, m)
  OBVIOUS
<1>2. /\ Len(s) \in Nat /\ DOMAIN s = 1 .. Len(s)
      /\ t \in Seq(Numbers) /\ Len(t) = Len(s) + 1 /\ DOMAIN t = 1 .. Len(s) + 1
      /\ t[Len(s) + 1] = m /\ \A i \in 1 .. Len(s) : t[i] = s[i]
  BY <1>1
<1>3. /\ Len(s) + 1 \in 1 .. Len(s) + 1
      /\ \A i \in 1 .. Len(s) : i \in 1 .. Len(s) + 1
      /\ \A i \in 1 .. Len(s) + 1 : i = Len(s) + 1 \/ i \in 1 .. Len(s)
  BY <1>2
<1>4. ToSet(t) = ToSet(s) \cup {m}
  BY <1>2, <1>3 DEF ToSet
<1>5. ASSUME Increasing(s), Below(ToSet(s), {m}) PROVE Increasing(t)
  <2>1. \A i \in 1 .. Len(s) : s[i] < m
    BY <1>2, <1>5 DEF Below, ToSet
  <2>2. ASSUME NEW i \in 1 .. Len(s) + 1, NEW j \in 1 .. Len(s) + 1, i < j PROVE t[i] < t[j]
    <3>1. i \in 1 .. Len(s)
      BY <1>2, <2>2
    <3> QED BY <1>2, <1>3, <1>5, <2>1, <2>2, <3>1 DEF Increasing
  <2> QED BY <1>2, <2>2 DEF Increasing
<1> QED BY <1>1, <1>2, <1>4, <1>5

\* The numbers of an increasing sequence are at least their places.
LEMMA PlacesKept ==
  ASSUME NEW s \in Seq(Numbers), NEW m \in Numbers, \A i \in DOMAIN s : s[i] >= i - 1,
         Below(ToSet(s), {m})
  PROVE  m >= Len(s) /\ \A i \in DOMAIN Append(s, m) : Append(s, m)[i] >= i - 1
<1>1. PICK t : t = Append(s, m)
  OBVIOUS
<1>2. /\ Len(s) \in Nat /\ DOMAIN s = 1 .. Len(s) /\ DOMAIN t = 1 .. Len(s) + 1
      /\ t[Len(s) + 1] = m /\ \A i \in 1 .. Len(s) : t[i] = s[i] /\ s[i] \in Int
      /\ m \in Nat
  <2>1. m \in Nat /\ \A x \in Numbers : x \in Int
    BY DEF Numbers
  <2>2. \A i \in 1 .. Len(s) : s[i] \in Numbers
    OBVIOUS
  <2>3. /\ Len(s) \in Nat /\ DOMAIN s = 1 .. Len(s) /\ DOMAIN t = 1 .. Len(s) + 1
        /\ t[Len(s) + 1] = m /\ \A i \in 1 .. Len(s) : t[i] = s[i]
    BY <1>1
  <2> QED BY <2>1, <2>2, <2>3
<1>3. m >= Len(s)
  <2>1. CASE Len(s) = 0
    BY <1>2, <2>1
  <2>2. CASE Len(s) # 0
    <3>1. Len(s) \in 1 .. Len(s)
      BY <1>2, <2>2
    <3>2. s[Len(s)] < m /\ s[Len(s)] >= Len(s) - 1 /\ s[Len(s)] \in Int
      BY <1>2, <3>1 DEF Below, ToSet
    <3> QED BY <1>2, <3>2
  <2> QED BY <2>1, <2>2
<1>4. ASSUME NEW i \in 1 .. Len(s) + 1 PROVE t[i] >= i - 1
  <2>1. i = Len(s) + 1 \/ i \in 1 .. Len(s)
    BY <1>2, <1>4
  <2> QED BY <1>2, <1>3, <2>1
<1> QED BY <1>1, <1>2, <1>3, <1>4

-----------------------------------------------------------------------------
(* Publishing                                                              *)

LEMMA PublishTyped ==
  ASSUME TypedData, NEW w \in Ways, NEW m \in Numbers, Publish(w, m)
  PROVE  /\ unread' \in [Ways -> Seq(Numbers)] /\ \A v \in Ways : Len(unread'[v]) <= Buffer
         /\ unheard' \in [Ways -> SUBSET Numbers] /\ overrun' \in [Ways -> SUBSET Numbers]
         /\ \A v \in Ways \ {w} : /\ unread'[v] = unread[v] /\ unheard'[v] = unheard[v]
                                  /\ overrun'[v] = overrun[v]
<1>1. /\ unread \in [Ways -> Seq(Numbers)] /\ (\A v \in Ways : Len(unread[v]) <= Buffer)
      /\ unheard \in [Ways -> SUBSET Numbers] /\ overrun \in [Ways -> SUBSET Numbers]
      /\ Buffer \in Nat /\ Buffer > 0
  BY LazyConstants DEF TypedData
<1>2. unread[w] \in Seq(Numbers) /\ Len(unread[w]) \in Nat
  BY <1>1
<1>3. CASE ~Heard(w)
  BY <1>1, <1>3 DEF Publish
<1>4. CASE Heard(w) /\ Len(unread[w]) < Buffer
  <2>1. /\ unread' = [unread EXCEPT ![w] = Append(@, m)] /\ UNCHANGED <<unheard, overrun>>
    BY <1>4 DEF Publish
  <2>2. Append(unread[w], m) \in Seq(Numbers) /\ Len(Append(unread[w], m)) <= Buffer
    BY <1>1, <1>2, <1>4, Pushed
  <2> QED BY <1>1, <2>1, <2>2
<1>5. CASE Heard(w) /\ ~(Len(unread[w]) < Buffer)
  <2>1. /\ unread' = [unread EXCEPT ![w] = Append(Tail(@), m)]
        /\ overrun' = [overrun EXCEPT ![w] = @ \cup {Head(unread[w])}]
        /\ UNCHANGED unheard
    BY <1>5 DEF Publish
  <2>2. unread[w] # <<>>
    BY <1>1, <1>2, <1>5
  <2>3. Tail(unread[w]) \in Seq(Numbers) /\ Head(unread[w]) \in Numbers
          /\ Len(Tail(unread[w])) = Len(unread[w]) - 1
    BY <1>2, <2>2, Popped
  <2>4. PICK t \in Seq(Numbers) : t = Append(Tail(unread[w]), m) /\ Len(t) <= Buffer
    <3>1. Append(Tail(unread[w]), m) \in Seq(Numbers)
            /\ Len(Append(Tail(unread[w]), m)) = Len(Tail(unread[w])) + 1
      BY <2>3, Pushed
    <3>2. (Len(unread[w]) - 1) + 1 <= Buffer
      BY <1>1, <1>2
    <3> QED BY <2>3, <3>1, <3>2
  <2>5. unread' = [unread EXCEPT ![w] = t]
    BY <2>1, <2>4
  <2> QED BY <1>1, <2>1, <2>3, <2>4, <2>5
<1> QED BY <1>3, <1>4, <1>5

\* A message that is published joins the line, or is lost; or it pushes another out.
LEMMA PublishMoves ==
  ASSUME TypedData, NEW w \in Ways, NEW m \in Numbers, Publish(w, m), CanPublish(w),
         Increasing(unread[w]), Below(ToSet(unread[w]), {m})
  PROVE  /\ Increasing(unread'[w])
         /\ ToSet(unread'[w]) \subseteq ToSet(unread[w]) \cup {m}
         /\ \E L \in SUBSET Numbers :
               /\ ToSet(unread'[w]) \cup L = ToSet(unread[w]) \cup {m}
               /\ ToSet(unread'[w]) \cap L = {}
               /\ LostOf(w)' = LostOf(w) \cup L
               /\ Aeron => L = {}
         /\ Heard(w) => unheard' = unheard
         /\ ~Heard(w) => /\ ~Aeron /\ unread' = unread
                         /\ unheard'[w] = unheard[w] \cup {m}
<1>1. /\ unread \in [Ways -> Seq(Numbers)] /\ unheard \in [Ways -> SUBSET Numbers]
      /\ overrun \in [Ways -> SUBSET Numbers] /\ Buffer \in Nat /\ Buffer > 0
  BY LazyConstants DEF TypedData
<1>2. unread[w] \in Seq(Numbers) /\ Len(unread[w]) \in Nat
  BY <1>1
<1>3. ASSUME NEW x \in ToSet(unread[w]) PROVE x # m
  <2>1. x < m
    BY <1>3 DEF Below
  <2>2. \A n \in Numbers : ~(n < n)
    BY DEF Numbers
  <2> QED BY <2>1, <2>2
<1>4. CASE ~Heard(w)
  <2>1. /\ unheard' = [unheard EXCEPT ![w] = @ \cup {m}] /\ UNCHANGED <<unread, overrun>>
    BY <1>4 DEF Publish
  <2>2. ~Aeron
    BY <1>4 DEF Heard, CanPublish
  <2>3. /\ {m} \in SUBSET Numbers
        /\ ToSet(unread'[w]) \cup {m} = ToSet(unread[w]) \cup {m}
        /\ ToSet(unread'[w]) \cap {m} = {}
    BY <1>3, <2>1
  <2>4. LostOf(w)' = LostOf(w) \cup {m} /\ unheard'[w] = unheard[w] \cup {m}
    BY <1>1, <2>1 DEF LostOf
  <2> QED BY <1>4, <2>1, <2>2, <2>3, <2>4
<1>5. CASE Heard(w) /\ Len(unread[w]) < Buffer
  <2>1. /\ unread' = [unread EXCEPT ![w] = Append(@, m)] /\ UNCHANGED <<unheard, overrun>>
    BY <1>5 DEF Publish
  <2>2. unread'[w] = Append(unread[w], m)
    BY <1>1, <2>1
  <2>3. Increasing(unread'[w]) /\ ToSet(unread'[w]) = ToSet(unread[w]) \cup {m}
    BY <1>2, <2>2, Pushed
  <2>4. LostOf(w)' = LostOf(w) \cup {} /\ {} \in SUBSET Numbers
    BY <2>1 DEF LostOf
  <2> QED BY <1>5, <2>1, <2>3, <2>4
<1>6. CASE Heard(w) /\ ~(Len(unread[w]) < Buffer)
  <2>1. /\ unread' = [unread EXCEPT ![w] = Append(Tail(@), m)]
        /\ overrun' = [overrun EXCEPT ![w] = @ \cup {Head(unread[w])}]
        /\ UNCHANGED unheard
    BY <1>6 DEF Publish
  <2>2. unread[w] # <<>>
    BY <1>1, <1>2, <1>6
  <2>3. PICK t, h : t = Tail(unread[w]) /\ h = Head(unread[w])
    OBVIOUS
  <2>4. /\ t \in Seq(Numbers) /\ h \in Numbers /\ ToSet(unread[w]) = ToSet(t) \cup {h}
        /\ Increasing(t) /\ Below({h}, ToSet(t))
    BY <1>2, <2>2, <2>3, Popped
  <2>5. unread'[w] = Append(t, m) /\ LostOf(w)' = LostOf(w) \cup {h}
    BY <1>1, <2>1, <2>3 DEF LostOf
  <2>6. Below(ToSet(t), {m})
    BY <2>4 DEF Below
  <2>7. ToSet(unread'[w]) = ToSet(t) \cup {m} /\ Increasing(unread'[w])
    BY <2>4, <2>5, <2>6, Pushed
  <2>8. ~(h \in ToSet(t)) /\ h # m
    <3>1. \A x \in Numbers : ~(x < x)
      BY DEF Numbers
    <3>2. h < m
      BY <2>4 DEF Below
    <3> QED BY <2>4, <3>1, <3>2 DEF Below
  <2>9. ~Aeron
    BY <1>6 DEF CanPublish
  <2>10. /\ {h} \in SUBSET Numbers
         /\ ToSet(unread'[w]) \cup {h} = ToSet(unread[w]) \cup {m}
         /\ ToSet(unread'[w]) \cap {h} = {}
    BY <2>4, <2>7, <2>8
  <2> QED BY <1>6, <2>1, <2>4, <2>5, <2>7, <2>9, <2>10
<1> QED BY <1>4, <1>5, <1>6

-----------------------------------------------------------------------------
(* Steps that move a message                                               *)

LEMMA EmptyIs ==
  ASSUME NEW s \in Seq(Numbers), ToSet(s) = {}
  PROVE  s = <<>>
<1> SUFFICES ASSUME s # <<>> PROVE FALSE
  OBVIOUS
<1>1. 1 \in DOMAIN s
  OBVIOUS
<1> QED BY <1>1 DEF ToSet

LEMMA RegionsAre ==
  ASSUME TypedData, Accounted
  PROVE  /\ Got \subseteq 0 .. next - 1 /\ Back \subseteq 0 .. next - 1
         /\ InHand \subseteq 0 .. next - 1 /\ Out \subseteq 0 .. next - 1
         /\ LostOf("c2s") \subseteq 0 .. next - 1 /\ LostOf("s2c") \subseteq 0 .. next - 1
         /\ next \in Nat /\ next <= Msgs /\ 0 .. next - 1 \subseteq Numbers
<1>1. next \in Nat /\ next <= Msgs /\ Msgs \in Nat
  BY LazyConstants DEF TypedData
<1>2. 0 .. next - 1 \subseteq Numbers
  BY <1>1 DEF Numbers
<1> QED BY <1>1, <1>2 DEF Accounted, Line, Lost

LEMMA EchoPollStep ==
  ASSUME Invariant, EchoPoll
  PROVE  Invariant'
<1>1. /\ TypedControl /\ TypedData /\ Stages /\ Finished /\ (Live => Ordered /\ Accounted)
      /\ epc = "poll" /\ unread["c2s"] # <<>>
      /\ hand' = Head(unread["c2s"]) /\ unread' = [unread EXCEPT !["c2s"] = Tail(@)]
      /\ epc' = "send"
      /\ UNCHANGED <<backend, ports, unheard, overrun, announced, client, receiver>>
  BY DEF Invariant, EchoPoll, EchoGoesTo
<1>2. /\ unread["c2s"] \in Seq(Numbers) /\ unread["s2c"] \in Seq(Numbers)
      /\ Len(unread["c2s"]) <= Buffer /\ Len(unread["c2s"]) \in Nat /\ Buffer \in Nat
  BY <1>1, WaysAre, LazyConstants DEF TypedData
<1>3. PICK t, h : t = Tail(unread["c2s"]) /\ h = Head(unread["c2s"])
  OBVIOUS
<1>4. /\ t \in Seq(Numbers) /\ h \in Numbers /\ Len(t) = Len(unread["c2s"]) - 1
      /\ Out = ToSet(t) \cup {h}
      /\ Increasing(unread["c2s"]) => Increasing(t) /\ Below({h}, ToSet(t))
  BY <1>1, <1>2, <1>3, Popped DEF Out
<1>5. /\ unread'["c2s"] = t /\ unread'["s2c"] = unread["s2c"] /\ hand' = h
      /\ unread' \in [Ways -> Seq(Numbers)]
      /\ \A w \in Ways : Len(unread'[w]) <= Buffer
  <2>1. unread' = [unread EXCEPT !["c2s"] = t] /\ hand' = h
    BY <1>1, <1>3
  <2>2. Len(t) <= Buffer
    BY <1>2, <1>4
  <2> QED BY <1>1, <1>4, <2>1, <2>2, WaysAre DEF TypedData
<1>6. h # -1 /\ h \in Nat
  BY <1>4, LazyConstants DEF Numbers
<1>7. TypedControl'
  BY <1>1 DEF TypedControl, ports, client, receiver
<1>8. TypedData'
  BY <1>1, <1>4, <1>5 DEF TypedData, client, receiver
<1>9. Stages'
  BY <1>1, <1>5, <1>6 DEF Stages, ports, client, receiver, Remote
<1>10. Finished'
  BY <1>1 DEF Finished, Live, receiver
<1>11. ASSUME Live' PROVE Ordered' /\ Accounted'
  <2>1. Ordered /\ Accounted
    BY <1>1, <1>11 DEF Live, receiver
  <2>2. /\ Got' = Got /\ Back' = Back /\ InHand = {} /\ InHand' = {h} /\ Out' = ToSet(t)
        /\ LostOf("c2s")' = LostOf("c2s") /\ LostOf("s2c")' = LostOf("s2c")
        /\ (Aeron' <=> Aeron) /\ next' = next /\ received' = received /\ unheard' = unheard
    BY <1>1, <1>5, <1>6
       DEF Got, Back, InHand, Out, LostOf, Aeron, Remote, Stages, client, receiver
  <2>3. Line' = Line /\ Lost' = Lost
    BY <1>4, <2>2 DEF Line, Lost
  <2>4. Accounted'
    BY <2>1, <2>2, <2>3 DEF Accounted, Below
  <2>5. Increasing(t) /\ Below({h}, ToSet(t))
    BY <1>4, <2>1 DEF Ordered
  <2>6. Increasing(received)' /\ Increasing(unread["s2c"])' /\ Increasing(unread["c2s"])'
           /\ \A i \in DOMAIN received' : received'[i] >= i - 1
    BY <1>5, <2>1, <2>2, <2>5 DEF Ordered, Increasing
  <2>7. /\ Below(Got, Back)' /\ Below(Got, InHand)' /\ Below(Got, Out)'
        /\ Below(Back, InHand)' /\ Below(Back, Out)' /\ Below(InHand, Out)'
    BY <1>4, <2>1, <2>2, <2>5 DEF Ordered, Below
  <2> QED BY <2>4, <2>6, <2>7 DEF Ordered
<1> QED BY <1>7, <1>8, <1>9, <1>10, <1>11 DEF Invariant

LEMMA EchoSendStep ==
  ASSUME Invariant, EchoSend
  PROVE  Invariant'
<1>1. /\ TypedControl /\ TypedData /\ Stages /\ Finished /\ (Live => Ordered /\ Accounted)
      /\ epc = "send" /\ CanPublish("s2c") /\ Publish("s2c", hand)
      /\ hand' = -1 /\ epc' = "poll"
      /\ UNCHANGED <<backend, ports, announced, client, receiver>>
  BY DEF Invariant, EchoSend, EchoGoesTo
<1>2. hand \in Numbers /\ InHand = {hand}
  BY <1>1 DEF TypedData, Stages, InHand
<1>3. /\ unread' \in [Ways -> Seq(Numbers)] /\ (\A v \in Ways : Len(unread'[v]) <= Buffer)
      /\ unheard' \in [Ways -> SUBSET Numbers] /\ overrun' \in [Ways -> SUBSET Numbers]
      /\ \A v \in Ways \ {"s2c"} : /\ unread'[v] = unread[v] /\ unheard'[v] = unheard[v]
                                   /\ overrun'[v] = overrun[v]
  BY <1>1, <1>2, WaysAre, PublishTyped
<1>4. /\ unread'["c2s"] = unread["c2s"] /\ unheard'["c2s"] = unheard["c2s"]
      /\ overrun'["c2s"] = overrun["c2s"]
  BY <1>3, WaysAre
<1>5. TypedControl'
  BY <1>1 DEF TypedControl, ports, client, receiver
<1>6. TypedData'
  BY <1>1, <1>3 DEF TypedData, client, receiver
<1>7. rpc \in {"unstarted", "attach", "subscription"} => ~Heard("s2c")
  BY <1>1 DEF Heard, Stages
<1>8. Stages'
  <2>1. rpc \in {"unstarted", "attach", "subscription"} => unread' = unread
    BY <1>1, <1>7 DEF Publish
  <2> QED BY <1>1, <2>1 DEF Stages, ports, client, receiver, Remote
<1>9. Live => rpc # "done"
  BY <1>1 DEF Finished, Stages
<1>10. Finished'
  BY <1>1, <1>9 DEF Finished, Live, receiver
<1>11. ASSUME Live' PROVE Ordered' /\ Accounted'
  <2>1. Ordered /\ Accounted /\ Live
    BY <1>1, <1>11 DEF Live, receiver
  <2>2. Increasing(unread["s2c"]) /\ Below(ToSet(unread["s2c"]), {hand})
    BY <1>2, <2>1 DEF Ordered, Back
  <2>3. /\ Increasing(unread'["s2c"])
        /\ ToSet(unread'["s2c"]) \subseteq ToSet(unread["s2c"]) \cup {hand}
        /\ \E L \in SUBSET Numbers :
              /\ ToSet(unread'["s2c"]) \cup L = ToSet(unread["s2c"]) \cup {hand}
              /\ ToSet(unread'["s2c"]) \cap L = {}
              /\ LostOf("s2c")' = LostOf("s2c") \cup L
              /\ Aeron => L = {}
        /\ Heard("s2c") => unheard' = unheard
        /\ ~Heard("s2c") => /\ ~Aeron /\ unread' = unread
                            /\ unheard'["s2c"] = unheard["s2c"] \cup {hand}
    BY <1>1, <1>2, <2>2, WaysAre, PublishMoves
  <2>4. PICK L \in SUBSET Numbers :
              /\ ToSet(unread'["s2c"]) \cup L = ToSet(unread["s2c"]) \cup {hand}
              /\ ToSet(unread'["s2c"]) \cap L = {}
              /\ LostOf("s2c")' = LostOf("s2c") \cup L
              /\ Aeron => L = {}
    BY <2>3
  <2>5. /\ Got' = Got /\ InHand' = {} /\ Out' = Out /\ Back' \subseteq Back \cup {hand}
        /\ Back' \cup L = Back \cup {hand} /\ Back' \cap L = {}
        /\ LostOf("c2s")' = LostOf("c2s") /\ LostOf("s2c")' = LostOf("s2c") \cup L
        /\ (Aeron' <=> Aeron) /\ next' = next /\ received' = received
        /\ unheard'["c2s"] = unheard["c2s"] /\ unread'["c2s"] = unread["c2s"]
    BY <1>1, <1>4, <2>3, <2>4
       DEF Got, Back, InHand, Out, LostOf, Aeron, Remote, client, receiver
  <2>6. Ordered'
    <3>1. /\ Increasing(received)' /\ Increasing(unread["s2c"])' /\ Increasing(unread["c2s"])'
          /\ \A i \in DOMAIN received' : received'[i] >= i - 1
      BY <2>1, <2>3, <2>5 DEF Ordered, Increasing
    <3>2. /\ Below(Got, Back)' /\ Below(Got, InHand)' /\ Below(Got, Out)'
          /\ Below(Back, InHand)' /\ Below(Back, Out)' /\ Below(InHand, Out)'
      BY <1>2, <2>1, <2>5 DEF Ordered, Below
    <3> QED BY <3>1, <3>2 DEF Ordered
  <2>7. Line' \cup L = Line /\ Line' \cap L = {} /\ Lost' = Lost \cup L
    <3>1. \A x \in Got : \A y \in Back \cup {hand} : x < y /\ x \in Int /\ y \in Int
      BY <1>1, <1>2, <2>1, RegionsAre DEF Ordered, Below
    <3>2. \A x \in Back \cup {hand} : \A y \in Out : x < y /\ x \in Int /\ y \in Int
      BY <1>1, <1>2, <2>1, RegionsAre DEF Ordered, Below
    <3>3. \A x \in Int : ~(x < x)
      OBVIOUS
    <3>4. (Got \cup Out) \cap (Back \cup {hand}) = {}
      BY <3>1, <3>2, <3>3
    <3>5. Line' = Got \cup Out \cup Back' /\ Line = Got \cup Out \cup (Back \cup {hand})
      BY <1>2, <2>5 DEF Line
    <3>6. Lost' = Lost \cup L
      BY <2>5 DEF Lost
    <3> QED BY <2>5, <3>4, <3>5, <3>6
  <2>8. Below(unheard["s2c"], Line)'
    <3>1. CASE Heard("s2c")
      BY <2>1, <2>3, <2>7, <3>1 DEF Accounted, Below
    <3>2. CASE ~Heard("s2c")
      <4>1. ~Aeron /\ unread' = unread /\ unheard'["s2c"] = unheard["s2c"] \cup {hand}
        BY <2>3, <3>2
      <4>2. ~sub["s2c"]
        BY <3>2, <4>1 DEF Heard
      <4>3. rpc \in {"unstarted", "attach", "subscription"}
        BY <1>1, <1>9, <2>1, <4>2 DEF TypedControl, Stages, Live
      <4>4. Got = {} /\ Back = {}
        <5>1. received = <<>> /\ unread["s2c"] = <<>> /\ ToSet(<<>>) = {}
          BY <1>1, <4>3 DEF Stages, ToSet
        <5> QED BY <5>1 DEF Got, Back
      <4>5. Line' = Out
        BY <2>5, <4>1, <4>4 DEF Line, Back
      <4>6. Below({hand}, Out) /\ Below(unheard["s2c"], Out)
        BY <1>2, <2>1 DEF Ordered, Accounted, Below, Line
      <4> QED BY <4>1, <4>5, <4>6 DEF Below
    <3> QED BY <3>1, <3>2
  <2>9. Accounted'
    BY <2>1, <2>4, <2>5, <2>7, <2>8 DEF Accounted
  <2> QED BY <2>6, <2>9
<1> QED BY <1>5, <1>6, <1>8, <1>10, <1>11 DEF Invariant

LEMMA ClientSendStep ==
  ASSUME Invariant, ClientSend
  PROVE  Invariant'
<1>1. /\ TypedControl /\ TypedData /\ Stages /\ Finished /\ (Live => Ordered /\ Accounted)
      /\ cpc = "send" /\ CanPublish("c2s") /\ Publish("c2s", next)
      /\ next' = next + 1 /\ cpc' = IF next' = Msgs THEN "done" ELSE "send"
      /\ UNCHANGED <<backend, ports, echo, receiver>>
  BY DEF Invariant, ClientSend
<1>2. next \in Numbers /\ next < Msgs /\ next \in Nat /\ Msgs \in Nat
  BY <1>1, LazyConstants DEF TypedData, Stages, Numbers
<1>3. /\ unread' \in [Ways -> Seq(Numbers)] /\ (\A v \in Ways : Len(unread'[v]) <= Buffer)
      /\ unheard' \in [Ways -> SUBSET Numbers] /\ overrun' \in [Ways -> SUBSET Numbers]
      /\ \A v \in Ways \ {"c2s"} : /\ unread'[v] = unread[v] /\ unheard'[v] = unheard[v]
                                   /\ overrun'[v] = overrun[v]
  BY <1>1, <1>2, WaysAre, PublishTyped
<1>4. /\ unread'["s2c"] = unread["s2c"] /\ unheard'["s2c"] = unheard["s2c"]
      /\ overrun'["s2c"] = overrun["s2c"]
  BY <1>3, WaysAre
<1>5. TypedControl'
  BY <1>1 DEF TypedControl, ports, echo, receiver
<1>6. TypedData'
  <2>1. next' \in 0 .. Msgs
    BY <1>1, <1>2
  <2> QED BY <1>1, <1>3, <2>1 DEF TypedData, echo, receiver
<1>7. Stages'
  <2>1. next' \in Nat /\ next' <= Msgs /\ (next' # Msgs => next' < Msgs)
    BY <1>1, <1>2
  <2>2. cpc' \in {"send", "done"} /\ (cpc' = "send" => next' < Msgs)
    BY <1>1, <2>1
  <2> QED BY <1>1, <1>4, <2>2 DEF Stages, ports, echo, receiver, Remote
<1>8. Finished'
  BY <1>1 DEF Finished, Live, echo, receiver
<1>9. ASSUME Live' PROVE Ordered' /\ Accounted'
  <2>1. Ordered /\ Accounted /\ Live
    BY <1>1, <1>9 DEF Live, echo, receiver
  <2>2. /\ Got \subseteq 0 .. next - 1 /\ Back \subseteq 0 .. next - 1
        /\ InHand \subseteq 0 .. next - 1 /\ Out \subseteq 0 .. next - 1
        /\ LostOf("c2s") \subseteq 0 .. next - 1 /\ LostOf("s2c") \subseteq 0 .. next - 1
    BY <1>1, <2>1, RegionsAre
  <2>3. \A x \in Got \cup Back \cup InHand \cup Out \cup LostOf("c2s") \cup LostOf("s2c") : x < next
    BY <1>2, <2>2
  <2>4. Increasing(unread["c2s"]) /\ Below(ToSet(unread["c2s"]), {next})
    BY <2>1, <2>3 DEF Ordered, Out, Below
  <2>5. /\ Increasing(unread'["c2s"])
        /\ ToSet(unread'["c2s"]) \subseteq ToSet(unread["c2s"]) \cup {next}
        /\ \E L \in SUBSET Numbers :
              /\ ToSet(unread'["c2s"]) \cup L = ToSet(unread["c2s"]) \cup {next}
              /\ ToSet(unread'["c2s"]) \cap L = {}
              /\ LostOf("c2s")' = LostOf("c2s") \cup L
              /\ Aeron => L = {}
        /\ Heard("c2s") => unheard' = unheard
    BY <1>1, <1>2, <2>4, WaysAre, PublishMoves
  <2>6. PICK L \in SUBSET Numbers :
              /\ ToSet(unread'["c2s"]) \cup L = ToSet(unread["c2s"]) \cup {next}
              /\ ToSet(unread'["c2s"]) \cap L = {}
              /\ LostOf("c2s")' = LostOf("c2s") \cup L
              /\ Aeron => L = {}
    BY <2>5
  <2>7. Heard("c2s")
    <3>1. CASE Aeron
      BY <1>1, <3>1 DEF Heard, CanPublish
    <3>2. CASE ~Aeron
      BY <1>1, <2>1, <3>2 DEF Heard, Aeron, Stages, Live
    <3> QED BY <3>1, <3>2
  <2>8. /\ Got' = Got /\ InHand' = InHand /\ Back' = Back /\ Out' \subseteq Out \cup {next}
        /\ Out' \cup L = Out \cup {next} /\ Out' \cap L = {}
        /\ LostOf("s2c")' = LostOf("s2c") /\ LostOf("c2s")' = LostOf("c2s") \cup L
        /\ (Aeron' <=> Aeron) /\ received' = received /\ unheard' = unheard
        /\ unread'["s2c"] = unread["s2c"]
    BY <1>1, <1>4, <2>5, <2>6, <2>7
       DEF Got, Back, InHand, Out, LostOf, Aeron, Remote, echo, receiver
  <2>9. Ordered'
    <3>1. /\ Increasing(received)' /\ Increasing(unread["s2c"])' /\ Increasing(unread["c2s"])'
          /\ \A i \in DOMAIN received' : received'[i] >= i - 1
      BY <2>1, <2>5, <2>8 DEF Ordered, Increasing
    <3>2. /\ Below(Got, Back)' /\ Below(Got, InHand)' /\ Below(Got, Out)'
          /\ Below(Back, InHand)' /\ Below(Back, Out)' /\ Below(InHand, Out)'
      BY <2>1, <2>3, <2>8 DEF Ordered, Below
    <3> QED BY <3>1, <3>2 DEF Ordered
  <2>10. Line' \cup L = Line \cup {next} /\ Line' \cap L = {} /\ Lost' = Lost \cup L
    <3>1. \A x \in Got \cup Back \cup InHand : \A y \in Out \cup {next} :
             x < y /\ x \in Int /\ y \in Int
      BY <1>2, <2>1, <2>2, <2>3 DEF Ordered, Below
    <3>2. \A x \in Int : ~(x < x)
      OBVIOUS
    <3>3. (Got \cup Back \cup InHand) \cap (Out \cup {next}) = {}
      BY <3>1, <3>2
    <3>4. Line' = (Got \cup Back \cup InHand) \cup Out' /\ Line = (Got \cup Back \cup InHand) \cup Out
      BY <2>8 DEF Line
    <3>5. Lost' = Lost \cup L
      BY <2>8 DEF Lost
    <3> QED BY <2>8, <3>3, <3>4, <3>5
  <2>11. Below(unheard["s2c"], Line)'
    <3>1. Line' \subseteq Line \cup {next}
      BY <2>10
    <3>2. \A x \in unheard["s2c"] : x < next
      BY <2>3 DEF LostOf
    <3> QED BY <2>1, <2>8, <3>1, <3>2 DEF Accounted, Below
  <2>12. Accounted'
    <3>1. 0 .. next' - 1 = (0 .. next - 1) \cup {next}
      BY <1>1, <1>2
    <3>2. ~(next \in Lost)
      <4>1. ~(next < next)
        BY <1>2
      <4> QED BY <2>3, <4>1 DEF Lost
    <3>3. Line \cup Lost = 0 .. next - 1 /\ Line \cap Lost = {} /\ (Aeron => Lost = {})
            /\ unheard["c2s"] = {}
      BY <2>1 DEF Accounted
    <3>4. Line' \cup Lost' = 0 .. next' - 1 /\ Line' \cap Lost' = {}
      BY <2>10, <3>1, <3>2, <3>3
    <3> QED BY <2>6, <2>8, <2>10, <2>11, <3>3, <3>4 DEF Accounted
  <2> QED BY <2>9, <2>12
<1> QED BY <1>5, <1>6, <1>7, <1>8, <1>9 DEF Invariant

LEMMA RecvMsgStep ==
  ASSUME Invariant, RecvMsg
  PROVE  Invariant'
<1>1. /\ TypedControl /\ TypedData /\ Stages /\ Finished /\ (Live => Ordered /\ Accounted)
      /\ rpc = "poll" /\ unread["s2c"] # <<>>
      /\ received' = Append(received, Head(unread["s2c"]))
      /\ unread' = [unread EXCEPT !["s2c"] = Tail(@)]
      /\ rpc' = (IF Len(received) + 1 = Msgs THEN "done" ELSE "poll")
      /\ sub' = [sub EXCEPT !["s2c"] = rpc' = "poll"]
      /\ UNCHANGED <<backend, driver, pub, link, unheard, overrun, echo, client>>
  BY DEF Invariant, RecvMsg, AfterMsg
<1>2. /\ unread["c2s"] \in Seq(Numbers) /\ unread["s2c"] \in Seq(Numbers)
      /\ Len(unread["s2c"]) <= Buffer /\ Len(unread["s2c"]) \in Nat /\ Buffer \in Nat
      /\ received \in Seq(Numbers)
  BY <1>1, WaysAre, LazyConstants DEF TypedData
<1>3. PICK t, h : t = Tail(unread["s2c"]) /\ h = Head(unread["s2c"])
  OBVIOUS
<1>4. /\ t \in Seq(Numbers) /\ h \in Numbers /\ Len(t) = Len(unread["s2c"]) - 1
      /\ Back = ToSet(t) \cup {h}
      /\ Increasing(unread["s2c"]) => Increasing(t) /\ Below({h}, ToSet(t))
  BY <1>1, <1>2, <1>3, Popped DEF Back
<1>5. /\ unread'["s2c"] = t /\ unread'["c2s"] = unread["c2s"]
      /\ unread' \in [Ways -> Seq(Numbers)]
      /\ \A w \in Ways : Len(unread'[w]) <= Buffer
  <2>1. unread' = [unread EXCEPT !["s2c"] = t]
    BY <1>1, <1>3
  <2>2. Len(t) <= Buffer
    BY <1>2, <1>4
  <2> QED BY <1>1, <1>4, <2>1, <2>2, WaysAre DEF TypedData
<1>6. /\ received' = Append(received, h) /\ received' \in Seq(Numbers)
      /\ Got' = Got \cup {h}
      /\ Increasing(received) /\ Below(Got, {h}) => Increasing(received')
  <2>1. received' = Append(received, h)
    BY <1>1, <1>3
  <2> QED BY <1>2, <1>4, <2>1, Pushed DEF Got
<1>7. TypedControl'
  <2>1. (rpc' = "poll") \in BOOLEAN
    OBVIOUS
  <2>2. sub' \in [Ways -> BOOLEAN]
    BY <1>1, <2>1 DEF TypedControl
  <2>3. rpc' \in {"poll", "done"}
    BY <1>1
  <2> QED BY <1>1, <2>2, <2>3 DEF TypedControl, echo, client
<1>8. TypedData'
  BY <1>1, <1>5, <1>6 DEF TypedData, echo, client
<1>9. Stages'
  <2>1. sub'["c2s"] = sub["c2s"] /\ (rpc' = "poll" => sub'["s2c"]) /\ rpc' \in {"poll", "done"}
    BY <1>1, WaysAre DEF TypedControl
  <2> QED BY <1>1, <2>1 DEF Stages, echo, client, Remote
<1>10. ASSUME Live' PROVE Ordered' /\ Accounted' /\ (rpc' = "done" => Finished')
  <2>1. Ordered /\ Accounted
    BY <1>1, <1>10 DEF Live, echo
  <2>2. /\ Back' = ToSet(t) /\ InHand' = InHand /\ Out' = Out
        /\ LostOf("c2s")' = LostOf("c2s") /\ LostOf("s2c")' = LostOf("s2c")
        /\ (Aeron' <=> Aeron) /\ next' = next /\ unheard' = unheard /\ hand' = hand
        /\ cpc' = cpc
    BY <1>1, <1>5 DEF Back, InHand, Out, LostOf, Aeron, Remote, echo, client
  <2>3. Line' = Line /\ Lost' = Lost
    BY <1>4, <1>6, <2>2 DEF Line, Lost
  <2>4. Accounted'
    BY <2>1, <2>2, <2>3 DEF Accounted, Below
  <2>5. /\ Increasing(t) /\ Below({h}, ToSet(t)) /\ Below(Got, {h})
        /\ Below({h}, InHand) /\ Below({h}, Out)
    BY <1>4, <2>1 DEF Ordered, Below
  <2>6. h >= Len(received) /\ \A i \in DOMAIN received' : received'[i] >= i - 1
    BY <1>2, <1>4, <1>6, <2>1, <2>5, PlacesKept DEF Ordered, Got
  <2>7. Increasing(received)' /\ Increasing(unread["s2c"])' /\ Increasing(unread["c2s"])'
    BY <1>5, <1>6, <2>1, <2>5 DEF Ordered, Increasing
  <2>8. /\ Below(Got, Back)' /\ Below(Got, InHand)' /\ Below(Got, Out)'
        /\ Below(Back, InHand)' /\ Below(Back, Out)' /\ Below(InHand, Out)'
    BY <1>4, <1>6, <2>1, <2>2, <2>5 DEF Ordered, Below
  <2>9. ASSUME rpc' = "done" PROVE Finished'
    <3>1. h \in Int /\ h >= Msgs - 1 /\ Len(received) + 1 = Msgs
      BY <1>1, <1>2, <1>4, <2>6, <2>9, LazyConstants DEF Numbers
    <3>2. \A x \in Numbers : ~(h < x)
      BY <3>1, LazyConstants DEF Numbers
    <3>3. ToSet(t) = {} /\ InHand = {} /\ Out = {}
      <4>1. ToSet(t) \subseteq Numbers /\ InHand \subseteq Numbers /\ Out \subseteq Numbers
        BY <1>1, <1>4, <2>1, RegionsAre
      <4> QED BY <2>5, <3>2, <4>1 DEF Below
    <3>4. t = <<>> /\ unread["c2s"] = <<>> /\ hand = -1
      BY <1>2, <1>4, <3>3, EmptyIs DEF InHand, Out
    <3>5. cpc # "send"
      <4>1. h \in 0 .. next - 1 /\ next \in Nat
        BY <1>1, <1>4, <2>1, RegionsAre
      <4>2. ~(next < Msgs)
        BY <3>1, <4>1, LazyConstants
      <4> QED BY <1>1, <4>2 DEF Stages
    <3> QED BY <1>5, <2>2, <3>4, <3>5 DEF Finished
  <2> QED BY <2>4, <2>6, <2>7, <2>8, <2>9 DEF Ordered
<1>11. Finished'
  <2>1. ~Live' \/ rpc' # "done" => Finished'
    BY DEF Finished
  <2> QED BY <1>10, <2>1
<1> QED BY <1>7, <1>8, <1>9, <1>10, <1>11 DEF Invariant

LEMMA RecvDrainedStep ==
  ASSUME Invariant, RecvDrained
  PROVE  Invariant'
<1>1. TypedControl' /\ Stages'
  BY WaysAre DEF Invariant, TypedControl, Stages, RecvDrained, echo, client, Remote, medium
<1>2. Finished'
  BY DEF RecvDrained, Quiet, Finished, Live, echo, client, medium
<1>3. Live' => Live
  BY DEF RecvDrained, Live, echo
<1> QED BY <1>1, <1>2, <1>3, AccountKept DEF RecvDrained, echo, client

LEMMA InvariantStep == Invariant /\ [Next]_vars => Invariant'
<1> SUFFICES ASSUME Invariant, [Next]_vars PROVE Invariant'
  OBVIOUS
<1>1. CASE EchoLaunchDriver \/ EchoAttach \/ EchoSubscribes \/ EchoPublishes
  BY <1>1, EchoStartSteps
<1>2. CASE EchoPoll
  BY <1>2, EchoPollStep
<1>3. CASE EchoSend
  BY <1>3, EchoSendStep
<1>4. CASE EchoGivesUp \/ EchoFails
  BY <1>4, EchoStops
<1>5. CASE \/ ClientStart \/ ClientLaunchDriver \/ ClientAttach \/ ClientPublishes
           \/ ClientConnected \/ ClientGivesUp \/ ClientSendFails \/ ClientReturns
  BY <1>5, ClientQuietSteps
<1>6. CASE ClientSend
  BY <1>6, ClientSendStep
<1>7. CASE RecvAttach \/ RecvSubscribes \/ RecvFails
  BY <1>7, ReceiverQuietSteps
<1>8. CASE RecvMsg
  BY <1>8, RecvMsgStep
<1>9. CASE RecvDrained
  BY <1>9, RecvDrainedStep
<1>10. CASE Driver
  BY <1>10, DriverSteps
<1>11. CASE UNCHANGED vars
  <2>1. UNCHANGED <<backend, ports, medium, echo, client, receiver>>
    BY <1>11 DEF vars
  <2>2. TypedControl' /\ Stages'
    BY <2>1 DEF Invariant, TypedControl, Stages, ports, medium, echo, client, receiver, Remote
  <2> QED BY <2>1, <2>2, MessagesKept DEF echo, client, receiver
<1> QED BY <1>1, <1>2, <1>3, <1>4, <1>5, <1>6, <1>7, <1>8, <1>9, <1>10, <1>11
        DEF Next, Echo, Client, Receiver, Failure, Over

LEMMA InvariantHolds == Spec => []Invariant
<1>1. Init => Invariant
  BY InvariantInit
<1>2. Invariant /\ [Next]_vars => Invariant'
  BY InvariantStep
<1> QED BY <1>1, <1>2, PTL DEF Spec

-----------------------------------------------------------------------------
(* What the invariant says of the sequence on the way                      *)

LEMMA ConcatShape ==
  ASSUME NEW S, NEW s \in Seq(S), NEW t \in Seq(S)
  PROVE  /\ s \o t \in Seq(S) /\ Len(s \o t) = Len(s) + Len(t)
         /\ ToSet(s \o t) = ToSet(s) \cup ToSet(t)
         /\ \A i \in 1 .. Len(s \o t) :
               \/ i \in 1 .. Len(s) /\ (s \o t)[i] = s[i]
               \/ i - Len(s) \in 1 .. Len(t) /\ (s \o t)[i] = t[i - Len(s)]
<1> DEFINE x == s \o t
<1>1. /\ x \in Seq(S) /\ Len(x) = Len(s) + Len(t) /\ Len(s) \in Nat /\ Len(t) \in Nat
      /\ DOMAIN s = 1 .. Len(s) /\ DOMAIN t = 1 .. Len(t) /\ DOMAIN x = 1 .. Len(x)
      /\ \A i \in 1 .. Len(x) : x[i] = IF i <= Len(s) THEN s[i] ELSE t[i - Len(s)]
  OBVIOUS
<1> HIDE DEF x
<1>2. ASSUME NEW i \in 1 .. Len(x)
      PROVE  \/ i \in 1 .. Len(s) /\ x[i] = s[i]
             \/ i - Len(s) \in 1 .. Len(t) /\ x[i] = t[i - Len(s)]
  <2>1. i \in 1 .. Len(s) \/ (i - Len(s) \in 1 .. Len(t) /\ ~(i <= Len(s)))
    BY ONLY <1>1, <1>2
  <2>2. i \in 1 .. Len(s) => i <= Len(s)
    BY <1>1
  <2> QED BY <1>1, <1>2, <2>1, <2>2
<1>3. \A i \in 1 .. Len(s) : i \in 1 .. Len(x) /\ x[i] = s[i]
  BY <1>1
<1>4. \A i \in 1 .. Len(t) : Len(s) + i \in 1 .. Len(x) /\ x[Len(s) + i] = t[i]
  <2>1. ASSUME NEW i \in 1 .. Len(t)
        PROVE  Len(s) + i \in 1 .. Len(x) /\ ~(Len(s) + i <= Len(s)) /\ (Len(s) + i) - Len(s) = i
    BY ONLY <1>1, <2>1
  <2> QED BY <1>1, <2>1
<1>5. ToSet(x) = ToSet(s) \cup ToSet(t)
  <2>1. \A i \in 1 .. Len(x) : x[i] \in ToSet(s) \cup ToSet(t)
    BY <1>1, <1>2 DEF ToSet
  <2>2. /\ \A i \in 1 .. Len(s) : s[i] \in ToSet(x)
        /\ \A i \in 1 .. Len(t) : t[i] \in ToSet(x)
    BY <1>1, <1>3, <1>4 DEF ToSet
  <2> QED BY <1>1, <2>1, <2>2 DEF ToSet
<1> QED BY <1>1, <1>2, <1>5 DEF x

LEMMA IncreasingConcat ==
  ASSUME NEW s \in Seq(Numbers), NEW t \in Seq(Numbers), Increasing(s), Increasing(t),
         Below(ToSet(s), ToSet(t))
  PROVE  Increasing(s \o t)
<1> DEFINE x == s \o t
<1>1. /\ x \in Seq(Numbers) /\ Len(x) = Len(s) + Len(t)
      /\ \A i \in 1 .. Len(x) :
             \/ i \in 1 .. Len(s) /\ x[i] = s[i]
             \/ i - Len(s) \in 1 .. Len(t) /\ x[i] = t[i - Len(s)]
  BY ConcatShape
<1> HIDE DEF x
<1>2. /\ Len(s) \in Nat /\ Len(t) \in Nat /\ DOMAIN s = 1 .. Len(s) /\ DOMAIN t = 1 .. Len(t)
      /\ DOMAIN x = 1 .. Len(x)
  BY <1>1
<1>3. \A i \in 1 .. Len(s), j \in 1 .. Len(t) : s[i] < t[j]
  BY <1>2 DEF Below, ToSet
<1>4. ASSUME NEW i \in 1 .. Len(x), NEW j \in 1 .. Len(x), i < j PROVE x[i] < x[j]
  <2>1. CASE i \in 1 .. Len(s) /\ j \in 1 .. Len(s) /\ x[i] = s[i] /\ x[j] = s[j]
    BY <1>2, <1>4, <2>1 DEF Increasing
  <2>2. CASE i \in 1 .. Len(s) /\ j - Len(s) \in 1 .. Len(t) /\ x[i] = s[i] /\ x[j] = t[j - Len(s)]
    BY <1>3, <2>2
  <2>3. CASE /\ i - Len(s) \in 1 .. Len(t) /\ j - Len(s) \in 1 .. Len(t)
             /\ x[i] = t[i - Len(s)] /\ x[j] = t[j - Len(s)]
    <3>1. i - Len(s) < j - Len(s)
      BY ONLY <1>1, <1>2, <1>4
    <3> QED BY <1>2, <2>3, <3>1 DEF Increasing
  <2>4. CASE i - Len(s) \in 1 .. Len(t) /\ j \in 1 .. Len(s)
    <3>1. FALSE
      BY ONLY <1>1, <1>2, <1>4, <2>4
    <3> QED BY <3>1
  <2> QED BY <1>1, <1>4, <2>1, <2>2, <2>3, <2>4
<1> QED BY <1>2, <1>4 DEF Increasing, x

LEMMA OnTheWayShape ==
  ASSUME TypedData, Ordered
  PROVE  Increasing(OnTheWay) /\ ToSet(OnTheWay) = Line
<1> DEFINE h == IF hand = -1 THEN <<>> ELSE <<hand>>
           b == unread["s2c"]  o == unread["c2s"]
<1>1. received \in Seq(Numbers) /\ hand \in Numbers \cup {-1}
  BY DEF TypedData
<1>2. /\ b \in Seq(Numbers) /\ Increasing(b) /\ ToSet(b) = Back
      /\ o \in Seq(Numbers) /\ Increasing(o) /\ ToSet(o) = Out
  BY WaysAre DEF TypedData, Ordered, Back, Out
<1>3. h \in Seq(Numbers) /\ Increasing(h) /\ ToSet(h) = InHand
  <2>1. CASE hand = -1
    <3>1. h = <<>> /\ DOMAIN <<>> = {} /\ InHand = {}
      BY <2>1 DEF InHand
    <3> HIDE DEF h
    <3> QED BY <3>1 DEF Increasing, ToSet
  <2>2. CASE hand # -1
    <3>1. h = <<hand>> /\ DOMAIN <<hand>> = {1} /\ <<hand>>[1] = hand /\ InHand = {hand}
      BY <2>2 DEF InHand
    <3>2. hand \in Numbers
      BY <1>1, <2>2
    <3> HIDE DEF h
    <3>3. h \in Seq(Numbers) /\ DOMAIN h = {1} /\ h[1] = hand
      BY <3>1, <3>2
    <3> QED BY <3>1, <3>3 DEF Increasing, ToSet
  <2> QED BY <2>1, <2>2
<1>4. OnTheWay = ((received \o b) \o h) \o o
  BY DEF OnTheWay
<1> HIDE DEF h, b, o
<1> DEFINE x == received \o b  y == x \o h  z == y \o o
<1>5. x \in Seq(Numbers) /\ Increasing(x) /\ ToSet(x) = Got \cup Back
  <2>1. x \in Seq(Numbers) /\ ToSet(x) = ToSet(received) \cup ToSet(b)
    BY ONLY <1>1, <1>2, ConcatShape
  <2>2. Increasing(received) /\ Below(ToSet(received), ToSet(b))
    BY <1>2 DEF Ordered, Got
  <2>3. Increasing(x)
    BY ONLY <1>1, <1>2, <2>2, IncreasingConcat
  <2> QED BY <1>2, <2>1, <2>3 DEF Got
<1> HIDE DEF x
<1>6. Below(ToSet(x), ToSet(h)) /\ Below(Got \cup Back \cup InHand, ToSet(o))
  BY <1>2, <1>3, <1>5 DEF Ordered, Below
<1>7. y \in Seq(Numbers) /\ Increasing(y) /\ ToSet(y) = Got \cup Back \cup InHand
  <2>1. y \in Seq(Numbers) /\ ToSet(y) = ToSet(x) \cup ToSet(h)
    BY ONLY <1>3, <1>5, ConcatShape
  <2>2. Increasing(y)
    BY ONLY <1>3, <1>5, <1>6, IncreasingConcat
  <2> QED BY <1>3, <1>5, <2>1, <2>2
<1> HIDE DEF y
<1>8. Increasing(z) /\ ToSet(z) = Line
  <2>1. ToSet(z) = ToSet(y) \cup ToSet(o)
    BY ONLY <1>2, <1>7, ConcatShape
  <2>2. Increasing(z)
    <3>1. Below(ToSet(y), ToSet(o))
      BY <1>6, <1>7
    <3> QED BY ONLY <1>2, <1>7, <3>1, IncreasingConcat
  <2> QED BY <1>2, <1>7, <2>1, <2>2 DEF Line
<1> QED BY <1>4, <1>8 DEF x, y

LEMMA TypeCorrect == TypedControl /\ TypedData => TypeOK
<1> SUFFICES ASSUME TypedControl, TypedData PROVE TypeOK
  OBVIOUS
<1>1. \A s \in Seq(Numbers) : ToSet(s) \subseteq Numbers
  BY DEF ToSet
<1>2. \A w \in Ways : /\ Len(unread[w]) <= Buffer
                      /\ ToSet(unread[w]) \cup unheard[w] \cup overrun[w] \subseteq Numbers
  BY <1>1 DEF TypedData
<1>3. {pub, sub, link} \subseteq [Ways -> BOOLEAN]
  BY DEF TypedControl
<1>4. ToSet(received) \subseteq Numbers
  BY <1>1 DEF TypedData
<1>5. rpc \in Ports \cup {"unstarted", "poll", "done", "failed"}
  BY DEF TypedControl, Ports
<1> QED BY <1>2, <1>3, <1>4, <1>5 DEF TypeOK, TypedControl, TypedData

LEMMA LostIs == UNION {unheard[w] \cup overrun[w] : w \in Ways} = Lost
  BY DEF Ways, Lost, LostOf

(***************************************************************************)
(* While both processes live, every message sent is received, on its way   *)
(* in order and once, or dropped to nobody or overwritten by iceoryx2;     *)
(* Aeron loses nothing it has accepted: for every number of messages and   *)
(* every buffer.                                                           *)
(***************************************************************************)
THEOREM NothingVanishesHolds == Spec => []NothingVanishes
<1>1. Invariant => NothingVanishes
  <2> SUFFICES ASSUME Invariant PROVE NothingVanishes
    OBVIOUS
  <2>1. TypeOK
    BY TypeCorrect DEF Invariant
  <2>2. ASSUME Live
        PROVE  /\ \A i, j \in DOMAIN OnTheWay : i < j => OnTheWay[i] < OnTheWay[j]
               /\ ToSet(OnTheWay) \cup Lost = 0 .. next - 1
               /\ ToSet(OnTheWay) \cap Lost = {}
               /\ Aeron => Lost = {}
    <3>1. TypedData /\ Ordered /\ Accounted
      BY <2>2 DEF Invariant
    <3>2. Increasing(OnTheWay) /\ ToSet(OnTheWay) = Line
      BY <3>1, OnTheWayShape
    <3> QED BY <3>1, <3>2 DEF Increasing, Accounted
  <2> QED BY <2>1, <2>2, LostIs DEF NothingVanishes, Live
<1> QED BY <1>1, InvariantHolds, PTL

(***************************************************************************)
(* The receiver is built once: the echoes it was too late for are the      *)
(* first of the run, and the echo's subscription is never too late.        *)
(***************************************************************************)
THEOREM OnlyEarlyEchoesUnheardHolds == Spec => []OnlyEarlyEchoesUnheard
<1>1. Invariant => OnlyEarlyEchoesUnheard
  BY DEF Invariant, Live, Accounted, OnlyEarlyEchoesUnheard, Below, Line, Got
<1> QED BY <1>1, InvariantHolds, PTL
=============================================================================
