---------------------------- MODULE Campaign_proofs ----------------------------
(***************************************************************************)
(* What the sweeps of the campaign script achieve, for every number of     *)
(* cells, every split into topologies, any set of brokered cells and any   *)
(* number of lost sessions.                                                *)
(*                                                                         *)
(* The properties are about a moment, the end of a sweep or a measurement; *)
(* the invariant follows a host from one sweep to the next.  Cells the     *)
(* script has not come to have left no trace (InOrder); a host stays       *)
(* without a live echo from a sweep, or from its first cell on, to the     *)
(* start of the next echo, and behind one lost sweep thanks to the one     *)
(* before (EchoesGone); a broker that escaped is known to have             *)
(* (BrokersGone).  So only the cell's own echo is there to answer.         *)
(***************************************************************************)
EXTENDS Campaign, TLAPS

USE CampaignAssumption

-----------------------------------------------------------------------------
(* The invariant                                                           *)

Types ==
    /\ TypeOK
    /\ missed <= lost
    /\ \A r \in records : /\ r.cell \in 1 .. Cells /\ r.broker \in 0 .. Cells
                          /\ r.missed \in Nat
    /\ \A c \in 1 .. Cells : via[c] \in SameHost(c) \cup {0}

\* The script has not started the echo of cell d.
Fresh(d) == \/ d > cell
            \/ d = cell /\ (pc \in {"ping", "start"} \/ (pc = "sweep" /\ after = "start"))

\* Nobody has used a broker of cell d.
NotYetUsed(d) == /\ \A c \in 1 .. Cells : via[c] # d
                 /\ \A r \in records : r.broker # d

Measured == {"ready", "measure", "measuring"}

InOrder ==
    /\ \A d \in 1 .. Cells : Fresh(d) => echo[d] = "none" /\ broker[d] = "none" /\ NotYetUsed(d)
    /\ \A d \in 1 .. Cells : echo[d] = "starting" => broker[d] = "none" /\ NotYetUsed(d)
    /\ \A r \in records : ~Fresh(r.cell) /\ (pc \in Measured => r.cell # cell)

EchoGone(c)   == echo[c] \in {"none", "dead"}
BrokerGone(c) == broker[c] \in {"launching", "booting", "up"} => c \in escaped

Others == SameHost(cell) \ {cell}

\* No echo is left of earlier cells, and none of this one has been started.
HostIsQuiet == \/ pc = "ping"
               \/ pc = "sweep" /\ (swept = "half" \/ (after = "start" /\ missed = 0))
               \/ pc = "start" /\ missed < 2
               \/ pc = "next" /\ missed = 0

EchoesGone ==
    /\ HostIsQuiet => \A c \in SameHost(cell) : EchoGone(c)
    /\ pc \in Measured /\ missed < 2 => \A c \in Others : EchoGone(c)

BrokersGone ==
    /\ pc \in {"start", "next"} /\ missed = 0 => \A c \in SameHost(cell) : BrokerGone(c)
    /\ pc \in Measured /\ missed = 0 => \A c \in Others : BrokerGone(c)

\* The running measurement is answered by its own cell, and the only rtt there
\* is is its own, as long as no session of one was lost.
OwnMeasurement ==
    /\ pc = "measuring" /\ missed < 2 => answered \subseteq {cell}
    /\ ~strayRtt => clients \subseteq IF pc = "measuring" THEN {cell} ELSE {}
    /\ pc = "measuring" /\ ~strayRtt => crossed \subseteq {cell}

Invariant == Types /\ InOrder /\ EchoesGone /\ BrokersGone /\ OwnMeasurement /\ RecordsAreOwn

-----------------------------------------------------------------------------
(* Hosts                                                                   *)

LEMMA HostOrder ==
  \A a, b \in 1 .. Cells : /\ Host(a) \in Int
                           /\ a <= b => Host(a) <= Host(b)
<1> SUFFICES ASSUME NEW a \in 1 .. Cells, NEW b \in 1 .. Cells
             PROVE  Host(a) \in Int /\ (a <= b => Host(a) <= Host(b))
  OBVIOUS
<1> DEFINE n == PerTopology
           p == Host(a)
           q == Host(b)
<1>1. n \in Nat /\ n > 0 /\ a - 1 \in Nat /\ b - 1 \in Nat
  OBVIOUS
<1>2. /\ p \in Int /\ q \in Int
      /\ n * p <= a - 1 /\ a - 1 < n * (p + 1)
      /\ n * q <= b - 1 /\ b - 1 < n * (q + 1)
  BY <1>1, Z3 DEF Host
<1>3. ASSUME a <= b PROVE p <= q
  <2> HIDE DEF n, p, q
  <2>1. n * p < n * (q + 1)
    BY <1>1, <1>2, <1>3
  <2>2. SUFFICES ASSUME q + 1 <= p PROVE FALSE
    BY <1>2
  <2>3. n * (q + 1) <= n * p
    BY <1>1, <1>2, <2>2
  <2> QED BY <1>1, <1>2, <2>1, <2>3
<1> QED BY <1>2, <1>3

LEMMA HostFacts ==
  /\ \A c \in 1 .. Cells : c \in SameHost(c) /\ SameHost(c) \subseteq 1 .. Cells
  /\ \A c, d \in 1 .. Cells : Host(c) = Host(d) => SameHost(c) = SameHost(d)
  BY DEF SameHost

\* On the far host of a new topology there is no earlier cell.
LEMMA NewHost ==
  ASSUME NEW c \in 1 .. Cells, c + 1 \in 1 .. Cells, Host(c + 1) # Host(c),
         NEW d \in SameHost(c + 1)
  PROVE  d \in 1 .. Cells /\ d > c
<1>1. d \in 1 .. Cells /\ Host(d) = Host(c + 1)
  BY DEF SameHost
<1>2. ASSUME d <= c PROVE FALSE
  BY <1>1, <1>2, HostOrder
<1> QED BY <1>1, <1>2

LEMMA ListeningFacts ==
  ASSUME NEW c \in 1 .. Cells
  PROVE  /\ Listening(c) \subseteq SameHost(c)
         /\ c \in Brokered => \A b \in Listening(c) : broker[b] \in {"up", "stopping"}
  BY DEF Listening

-----------------------------------------------------------------------------
(* The invariant is kept                                                   *)

LEMMA InvariantInit == Init => Invariant
<1> SUFFICES ASSUME Init PROVE Invariant
  OBVIOUS
<1> USE DEF Init
<1>1. Types
  <2>1. /\ echo \in [1 .. Cells -> {"none", "starting", "waiting", "opening", "serving", "dead"}]
        /\ broker \in [1 .. Cells -> {"none", "launching", "booting", "up", "stopping", "gone"}]
        /\ via \in [1 .. Cells -> 0 .. Cells]
    OBVIOUS
  <2>2. cell \in 1 .. Cells /\ lost \in 0 .. MaxLost /\ missed \in 0 .. MaxLost
    OBVIOUS
  <2>3. clients \cup answered \cup crossed \cup escaped \subseteq 1 .. Cells
    OBVIOUS
  <2>4. TypeOK
    BY <2>1, <2>2, <2>3 DEF TypeOK
  <2> QED BY <2>4 DEF Types
<1>2. InOrder
  BY DEF InOrder, Fresh, NotYetUsed
<1>3. EchoesGone
  BY HostFacts DEF EchoesGone, HostIsQuiet, EchoGone, Measured
<1>4. BrokersGone /\ OwnMeasurement
  BY DEF BrokersGone, OwnMeasurement, Measured
<1>5. RecordsAreOwn
  BY <1>1 DEF RecordsAreOwn, Types
<1> QED BY <1>1, <1>2, <1>3, <1>4, <1>5 DEF Invariant

LEMMA TypesStep == Types /\ [Next]_vars => Types'
<1> SUFFICES ASSUME Types, [Next]_vars PROVE Types'
  OBVIOUS
<1> USE DEF Types, TypeOK, AtEnd
<1>1. CASE Ping
  BY <1>1 DEF Ping, remote, measure
<1>2. CASE SweepBegins(SignalEchoes)
  BY <1>2 DEF SweepBegins, SignalEchoes, measure
<1>3. CASE SweepEnds(SignalBrokers)
  <2>1. broker' \in [1 .. Cells -> {"none", "launching", "booting", "up", "stopping", "gone"}]
    BY <1>3 DEF SweepEnds, SignalBrokers
  <2>2. missed' = 0 /\ lost' = lost /\ records' = records /\ via' = via
    BY <1>3 DEF SweepEnds
  <2>3. pc' = after /\ escaped' \subseteq 1 .. Cells
    BY <1>3, HostFacts DEF SweepEnds, SignalBrokers
  <2>4. TypeOK'
    BY <1>3, <2>1, <2>2, <2>3 DEF SweepEnds, SignalBrokers, measure
  <2> QED BY <2>2, <2>4
<1>4. CASE SweepLost
  BY <1>4 DEF SweepLost, remote, measure
<1>5. CASE StartEcho
  <2>1. /\ pc' = "ready" /\ ready' = FALSE
        /\ ssh' \in {"up", "ended"}
        /\ echo' = [echo EXCEPT ![cell] = "starting"] \/ echo' = echo
        /\ lost' = lost \/ (lost < MaxLost /\ lost' = lost + 1)
        /\ UNCHANGED <<cell, swept, after, records, rig, broker, via, clients, answered, crossed,
                       missed, strayRtt, escaped>>
    BY <1>5 DEF StartEcho, measure
  <2>2. lost' \in 0 .. MaxLost /\ missed' <= lost'
    BY <2>1
  <2> QED BY <2>1, <2>2
<1>6. CASE SeeReady \/ GiveUp \/ KillSsh
  BY <1>6 DEF SeeReady, GiveUp, KillSsh, remote, measure, history
<1>7. CASE NextCell
  BY <1>7 DEF NextCell, remote, measure, history
<1>8. CASE TearDown
  BY <1>8 DEF TearDown, TerminateHosts, remote, history
<1>9. CASE StartRtt
  BY <1>9 DEF StartRtt, remote, history
<1>10. CASE RttReturns
  <2>1. /\ Line.cell = cell /\ Line.missed = missed
        /\ Line.broker \in 0 .. Cells
    BY DEF Line
  <2> HIDE DEF Types, TypeOK
  <2>2. Line.cell \in 1 .. Cells /\ Line.missed \in Nat
    BY <2>1 DEF Types, TypeOK
  <2>3. \A r \in records' : /\ r.cell \in 1 .. Cells /\ r.broker \in 0 .. Cells
                            /\ r.missed \in Nat
    BY <1>10, <2>1, <2>2 DEF RttReturns, MeasurementEnds, Types
  <2>4. /\ \A c \in 1 .. Cells : via'[c] \in SameHost(c) \cup {0}
        /\ missed' <= lost'
    BY <1>10 DEF RttReturns, MeasurementEnds, remote, history, Types
  <2>5. TypeOK'
    BY <1>10 DEF RttReturns, MeasurementEnds, remote, history, Types, TypeOK
  <2> QED BY <2>3, <2>4, <2>5 DEF Types
<1>11. CASE RttFails
  BY <1>11 DEF RttFails, MeasurementEnds, remote, history
<1>17. CASE RttLost
  <2>1. lost' \in 0 .. MaxLost /\ missed' <= lost'
    BY <1>17 DEF RttLost, MeasurementEnds
  <2> QED BY <1>17, <2>1 DEF RttLost, MeasurementEnds, remote, measure
<1>12. CASE SshEnds
  BY <1>12 DEF SshEnds, remote, measure
<1>13. ASSUME NEW c \in 1 .. Cells, SpawnBroker(c) \/ Knock(c) \/ EchoFails(c) \/ BrokerSteps(c)
       PROVE  Types'
  <2>1. /\ echo' \in [1 .. Cells -> {"none", "starting", "waiting", "opening", "serving", "dead"}]
        /\ UNCHANGED <<via, ready, script, measure, history>>
    BY <1>13 DEF SpawnBroker, Knock, EchoFails, BrokerSteps
  <2>2. broker' \in [1 .. Cells -> {"none", "launching", "booting", "up", "stopping", "gone"}]
    BY <1>13 DEF SpawnBroker, Knock, EchoFails, BrokerSteps
  <2> QED BY <2>1, <2>2 DEF script, measure, history
<1>14. ASSUME NEW c \in 1 .. Cells, OpenEcho(c) \/ Reattach(c) PROVE Types'
  <2>1. Listening(c) \subseteq SameHost(c) /\ SameHost(c) \subseteq 1 .. Cells
    BY ListeningFacts, HostFacts
  <2>2. /\ via' \in [1 .. Cells -> 0 .. Cells]
        /\ \A d \in 1 .. Cells : via'[d] \in SameHost(d) \cup {0}
    BY <1>14, <2>1, SMTT(30) DEF OpenEcho, Reattach
  <2>3. echo' \in [1 .. Cells -> {"none", "starting", "waiting", "opening", "serving", "dead"}]
    BY <1>14 DEF OpenEcho, Reattach
  <2>4. ready' \in BOOLEAN /\ UNCHANGED <<broker, script, measure, history>>
    BY <1>14 DEF OpenEcho, Reattach, script
  <2> QED BY <2>2, <2>3, <2>4 DEF script, measure, history
<1>15. ASSUME NEW c \in 1 .. Cells, Answer(c) \/ StrayRttEnds(c) PROVE Types'
  BY <1>15, SMTT(30) DEF Answer, StrayRttEnds, script, remote, history
<1>16. CASE Ended \/ UNCHANGED vars
  BY <1>16, SMTT(30) DEF Ended, vars, script, remote, measure, history
<1> QED BY <1>1, <1>2, <1>3, <1>4, <1>5, <1>6, <1>7, <1>8, <1>9, <1>10, <1>11, <1>12,
           <1>13, <1>14, <1>15, <1>16, <1>17
        DEF Next, Script, Sweep, Rtt, Remote

LEMMA OrderStep == Invariant /\ [Next]_vars => InOrder'
<1> SUFFICES ASSUME Invariant, [Next]_vars PROVE InOrder'
  OBVIOUS
<1> USE DEF InOrder, Measured
<1>0. /\ Types /\ InOrder /\ TypeOK /\ cell \in 1 .. Cells
      /\ \A r \in records : r.cell \in 1 .. Cells
      /\ Types' /\ TypeOK' /\ cell' \in 1 .. Cells
  BY TypesStep DEF Invariant, Types, TypeOK
<1> HIDE CampaignAssumption
<1>1. CASE Ping \/ SeeReady \/ GiveUp \/ KillSsh \/ StartRtt \/ RttFails \/ RttLost
  BY <1>0, <1>1 DEF Ping, SeeReady, GiveUp, KillSsh, StartRtt, RttFails, RttLost, MeasurementEnds,
                    Fresh, NotYetUsed, remote, measure, history
<1>2. CASE SweepBegins(SignalEchoes)
  BY <1>0, <1>2 DEF SweepBegins, SignalEchoes, Fresh, NotYetUsed, TypeOK
<1>3. CASE SweepEnds(SignalBrokers)
  BY <1>0, <1>3 DEF SweepEnds, SignalBrokers, Fresh, NotYetUsed, TypeOK
<1>4. CASE SweepLost
  BY <1>0, <1>4 DEF SweepLost, Fresh, NotYetUsed, remote, TypeOK
<1>5. CASE StartEcho
  BY <1>0, <1>5 DEF StartEcho, Fresh, NotYetUsed, TypeOK
<1>6. CASE NextCell
  <2>1. /\ Cells \in Nat /\ pc = "next"
        /\ cell < Cells => cell' = cell + 1
        /\ cell = Cells => cell' = cell /\ pc' = "teardown"
        /\ pc' \notin Measured
        /\ UNCHANGED <<records, echo, broker, via>>
    BY <1>0, <1>6, CampaignAssumption DEF NextCell, remote
  <2>2. \A d \in 1 .. Cells : Fresh(d)' => Fresh(d)
    BY <1>0, <2>1 DEF Fresh
  <2> QED BY <1>0, <2>1, <2>2 DEF NotYetUsed
<1>7. CASE TearDown
  BY <1>0, <1>7 DEF TearDown, TerminateHosts, Fresh, NotYetUsed, remote, TypeOK
<1>8. CASE RttReturns
  BY <1>0, <1>8 DEF RttReturns, MeasurementEnds, Fresh, NotYetUsed, remote, Line, TypeOK
<1>9. CASE SshEnds
  BY <1>0, <1>9 DEF SshEnds, Fresh, NotYetUsed, remote
<1>10. ASSUME NEW c \in 1 .. Cells, SpawnBroker(c) \/ Knock(c) \/ EchoFails(c) \/ BrokerSteps(c)
       PROVE  InOrder'
  BY <1>0, <1>10 DEF SpawnBroker, Knock, EchoFails, BrokerSteps, Fresh, NotYetUsed, script, TypeOK
<1>11. ASSUME NEW c \in 1 .. Cells, OpenEcho(c) \/ Reattach(c) PROVE InOrder'
  <2>1. \A b \in 1 .. Cells : broker[b] \in {"up", "stopping"}
           => ~Fresh(b) /\ echo[b] # "starting"
    BY <1>0
  <2>2. \E b \in (Listening(c) \cup {via[c]}) :
           /\ via' = [via EXCEPT ![c] = b]
           /\ b # via[c] => c \in Brokered
    BY <1>0, <1>11 DEF OpenEcho, Reattach, TypeOK
  <2>3. \A b \in Listening(c) : b \in 1 .. Cells /\ (c \in Brokered => ~Fresh(b) /\ echo[b] # "starting")
    BY <2>1, ListeningFacts, HostFacts
  <2>4. /\ UNCHANGED <<broker, cell, pc, after, records>>
        /\ echo' = [echo EXCEPT ![c] = "serving"] \/ echo' = echo
    BY <1>11 DEF OpenEcho, Reattach, script
  <2>5. \A d \in 1 .. Cells : /\ Fresh(d)' => Fresh(d)
                              /\ echo'[d] = "starting" => echo[d] = "starting"
    BY <1>0, <2>4 DEF Fresh, TypeOK
  <2>6. ASSUME NEW d \in 1 .. Cells, Fresh(d) \/ echo[d] = "starting", NotYetUsed(d)
        PROVE  NotYetUsed(d)'
    BY <1>0, <2>2, <2>3, <2>4, <2>6 DEF NotYetUsed, TypeOK
  <2>7. ASSUME NEW d \in 1 .. Cells, Fresh(d)'
        PROVE  echo'[d] = "none" /\ broker'[d] = "none" /\ NotYetUsed(d)'
    <3>1. echo[d] = "none" /\ broker[d] = "none" /\ NotYetUsed(d) /\ Fresh(d)
      BY <1>0, <2>5, <2>7
    <3>2. d # c
      BY <1>11, <3>1 DEF OpenEcho, Reattach
    <3> QED BY <1>0, <2>4, <2>6, <3>1, <3>2 DEF TypeOK
  <2>8. ASSUME NEW d \in 1 .. Cells, echo'[d] = "starting"
        PROVE  broker'[d] = "none" /\ NotYetUsed(d)'
    BY <1>0, <2>4, <2>5, <2>6, <2>8
  <2>9. \A q \in records' : ~Fresh(q.cell)' /\ (pc' \in Measured => q.cell # cell')
    BY <1>0, <2>4 DEF Fresh
  <2> QED BY <2>7, <2>8, <2>9
<1>12. ASSUME NEW c \in 1 .. Cells, Answer(c) \/ StrayRttEnds(c) PROVE InOrder'
  BY <1>0, <1>12 DEF Answer, StrayRttEnds, Fresh, NotYetUsed, script, remote
<1>13. CASE Ended \/ UNCHANGED vars
  BY <1>0, <1>13 DEF Ended, vars, script, remote, Fresh, NotYetUsed
<1> QED BY <1>1, <1>2, <1>3, <1>4, <1>5, <1>6, <1>7, <1>8, <1>9, <1>10, <1>11, <1>12, <1>13
        DEF Next, Script, Sweep, Rtt, Remote

\* What happens on the far hosts leaves the script where it is and brings no
\* echo to life.
LEMMA RemoteFacts ==
  ASSUME Types, NEW c \in 1 .. Cells, Remote(c)
  PROVE  /\ UNCHANGED <<script, history>>
         /\ \A d \in 1 .. Cells :
              EchoGone(d) => /\ EchoGone(d)'
                             /\ broker'[d] = broker[d] \/ (d = c /\ BrokerSteps(c))
<1> USE DEF Types, TypeOK, EchoGone
<1>1. CASE SpawnBroker(c) \/ Knock(c) \/ EchoFails(c)
  <2>1. UNCHANGED <<script, history>> /\ ~EchoGone(c)
    BY <1>1 DEF SpawnBroker, Knock, EchoFails
  <2>2. \A d \in 1 .. Cells : d # c => echo'[d] = echo[d] /\ broker'[d] = broker[d]
    BY <1>1 DEF SpawnBroker, Knock, EchoFails
  <2> QED BY <2>1, <2>2
<1>2. CASE OpenEcho(c) \/ Reattach(c)
  <2>1. UNCHANGED <<script, history, broker>> /\ ~EchoGone(c)
    BY <1>2 DEF OpenEcho, Reattach
  <2>2. \A d \in 1 .. Cells : d # c => echo'[d] = echo[d]
    BY <1>2 DEF OpenEcho, Reattach
  <2> QED BY <2>1, <2>2
<1>3. CASE BrokerSteps(c)
  <2>1. UNCHANGED <<script, history, echo>>
    BY <1>3 DEF BrokerSteps
  <2>2. \A d \in 1 .. Cells : d # c => broker'[d] = broker[d]
    BY <1>3 DEF BrokerSteps
  <2> QED BY <1>3, <2>1, <2>2
<1>4. CASE Answer(c) \/ StrayRttEnds(c)
  BY <1>4 DEF Answer, StrayRttEnds, remote
<1> QED BY <1>1, <1>2, <1>3, <1>4 DEF Remote

LEMMA EchoesStep == Invariant /\ [Next]_vars => EchoesGone'
<1> SUFFICES ASSUME Invariant, [Next]_vars PROVE EchoesGone'
  OBVIOUS
<1> USE DEF EchoesGone, HostIsQuiet, Measured, Others
<1>0. /\ Types /\ EchoesGone /\ TypeOK /\ cell \in 1 .. Cells /\ missed \in Nat
      /\ SameHost(cell) \subseteq 1 .. Cells
  BY HostFacts DEF Invariant, Types, TypeOK
<1> HIDE CampaignAssumption
<1>1. CASE Ping \/ SeeReady \/ GiveUp \/ KillSsh
  BY <1>0, <1>1 DEF Ping, SeeReady, GiveUp, KillSsh, EchoGone, remote, history
<1>2. CASE SweepBegins(SignalEchoes)
  BY <1>0, <1>2 DEF SweepBegins, SignalEchoes, EchoGone
<1>3. CASE SweepEnds(SignalBrokers)
  BY <1>0, <1>3 DEF SweepEnds, SignalBrokers, EchoGone
<1>4. CASE SweepLost
  <2>1. /\ pc = "sweep" /\ pc' = after /\ after \in {"start", "next"}
        /\ missed' = missed + 1 /\ UNCHANGED <<cell, echo, after>>
    BY <1>0, <1>4 DEF SweepLost, remote, TypeOK
  <2>2. HostIsQuiet' => pc' = "start" /\ missed' < 2
    BY <1>0, <2>1
  <2>3. HostIsQuiet' => HostIsQuiet
    BY <1>0, <2>1, <2>2
  <2> QED BY <1>0, <2>1, <2>3 DEF EchoGone
<1>5. CASE StartEcho
  BY <1>0, <1>5 DEF StartEcho, EchoGone, TypeOK
<1>6. CASE NextCell
  <2>1. /\ pc = "next" /\ after' = "start" /\ swept' = "none"
        /\ UNCHANGED <<echo, missed>>
    BY <1>6 DEF NextCell, remote, history
  <2>2. CASE cell = Cells
    <3>1. ~(cell < Cells) /\ ~(cell # Cells)
      BY <1>0, <2>2, CampaignAssumption
    <3>2. pc' = "teardown"
      BY <1>6, <3>1, Zenon DEF NextCell
    <3> QED BY <3>2
  <2>3. CASE cell # Cells /\ Host(cell + 1) # Host(cell)
    <3>1. cell' = cell + 1 /\ cell + 1 \in 1 .. Cells /\ pc' = "ping"
      BY <1>0, <1>6, <2>3, CampaignAssumption DEF NextCell
    <3>2. \A d \in SameHost(cell') : d \in 1 .. Cells /\ d > cell
      BY <1>0, <2>3, <3>1, NewHost
    <3>3. \A d \in SameHost(cell') : EchoGone(d)'
      BY <2>1, <3>2 DEF Invariant, InOrder, Fresh, EchoGone
    <3> QED BY <3>1, <3>3
  <2>4. CASE cell # Cells /\ Host(cell + 1) = Host(cell)
    <3>1. cell' = cell + 1 /\ cell + 1 \in 1 .. Cells /\ pc' = "sweep"
      BY <1>0, <1>6, <2>4, CampaignAssumption DEF NextCell
    <3>2. SameHost(cell') = SameHost(cell)
      BY <1>0, <2>4, <3>1, HostFacts
    <3> QED BY <1>0, <2>1, <3>1, <3>2 DEF EchoGone
  <2> QED BY <2>2, <2>3, <2>4
<1>7. CASE TearDown \/ StartRtt \/ RttReturns \/ RttFails \/ RttLost
  BY <1>0, <1>7 DEF TearDown, TerminateHosts, StartRtt, RttReturns, RttFails, RttLost, MeasurementEnds, remote, history, EchoGone
<1>8. CASE SshEnds
  BY <1>0, <1>8 DEF SshEnds, remote, EchoGone
<1>9. ASSUME NEW c \in 1 .. Cells, Remote(c) PROVE EchoesGone'
  BY <1>0, <1>9, RemoteFacts DEF script, history
<1>10. CASE Ended \/ UNCHANGED vars
  BY <1>0, <1>10 DEF Ended, vars, script, remote, history, EchoGone
<1> QED BY <1>1, <1>2, <1>3, <1>4, <1>5, <1>6, <1>7, <1>8, <1>9, <1>10
        DEF Next, Script, Sweep, Rtt

LEMMA BrokersStep == Invariant /\ [Next]_vars => BrokersGone'
<1> SUFFICES ASSUME Invariant, [Next]_vars PROVE BrokersGone'
  OBVIOUS
<1> USE DEF BrokersGone, BrokerGone, Measured, Others
<1>0. /\ Types /\ EchoesGone /\ BrokersGone /\ TypeOK /\ cell \in 1 .. Cells /\ missed \in Nat
      /\ SameHost(cell) \subseteq 1 .. Cells
  BY HostFacts DEF Invariant, Types, TypeOK
<1> HIDE CampaignAssumption
<1>1. CASE Ping \/ SeeReady \/ GiveUp \/ KillSsh
  BY <1>0, <1>1 DEF Ping, SeeReady, GiveUp, KillSsh, remote, history
<1>2. CASE SweepBegins(SignalEchoes)
  BY <1>0, <1>2 DEF SweepBegins, SignalEchoes
<1>3. CASE SweepEnds(SignalBrokers)
  <2>1. /\ pc' \in {"start", "next"} /\ cell' = cell
        /\ escaped' = escaped \cup {c \in SameHost(cell) : broker[c] = "launching"}
    BY <1>0, <1>3 DEF SweepEnds, SignalBrokers, TypeOK
  <2>2. \A c \in SameHost(cell) :
          broker'[c] \in {"launching", "booting", "up"} => broker[c] = "launching"
    BY <1>0, <1>3 DEF SweepEnds, SignalBrokers, TypeOK
  <2> QED BY <2>1, <2>2
<1>4. CASE SweepLost
  BY <1>0, <1>4 DEF SweepLost
<1>5. CASE StartEcho
  BY <1>0, <1>5 DEF StartEcho
<1>6. CASE NextCell
  <2>1. pc' \in {"teardown", "ping", "sweep"}
    BY <1>6, Zenon DEF NextCell
  <2> QED BY <2>1
<1>7. CASE TearDown \/ StartRtt \/ RttReturns \/ RttFails \/ RttLost
  BY <1>0, <1>7 DEF TearDown, TerminateHosts, StartRtt, RttReturns, RttFails, RttLost, MeasurementEnds, remote, history
<1>8. CASE SshEnds
  BY <1>0, <1>8 DEF SshEnds, remote
<1>9. ASSUME NEW c \in 1 .. Cells, Remote(c) PROVE BrokersGone'
  <2>1. UNCHANGED <<pc, cell, missed, escaped>>
    BY <1>0, <1>9, RemoteFacts DEF script, history
  <2>2. ASSUME NEW d \in 1 .. Cells, EchoGone(d), BrokerGone(d) PROVE BrokerGone(d)'
    <3>1. broker'[d] = broker[d] \/ (d = c /\ BrokerSteps(c))
      BY <1>0, <1>9, <2>2, RemoteFacts
    <3>2. CASE d = c /\ BrokerSteps(c)
      BY <1>0, <2>1, <2>2, <3>2 DEF BrokerSteps, TypeOK
    <3> QED BY <2>1, <2>2, <3>1, <3>2
  <2>3. \A d \in SameHost(cell) :
          pc \in {"start", "next"} /\ missed = 0 => EchoGone(d)
    BY <1>0 DEF EchoesGone, HostIsQuiet
  <2>4. \A d \in Others : pc \in Measured /\ missed = 0 => EchoGone(d)
    BY <1>0 DEF EchoesGone
  <2> HIDE DEF BrokerGone
  <2> QED BY <1>0, <2>1, <2>2, <2>3, <2>4
<1>10. CASE Ended \/ UNCHANGED vars
  BY <1>0, <1>10 DEF Ended, vars, script, remote, history
<1> QED BY <1>1, <1>2, <1>3, <1>4, <1>5, <1>6, <1>7, <1>8, <1>9, <1>10
        DEF Next, Script, Sweep, Rtt

LEMMA MeasurementStep == Invariant /\ [Next]_vars => OwnMeasurement'
<1> SUFFICES ASSUME Invariant, [Next]_vars PROVE OwnMeasurement'
  OBVIOUS
<1> USE DEF OwnMeasurement
<1>0. /\ EchoesGone /\ OwnMeasurement /\ TypeOK
  BY DEF Invariant, Types
<1> HIDE CampaignAssumption
<1>1. CASE Ping \/ SeeReady \/ GiveUp \/ KillSsh
  BY <1>0, <1>1 DEF Ping, SeeReady, GiveUp, KillSsh, measure, history
<1>2. CASE SweepBegins(SignalEchoes) \/ SweepEnds(SignalBrokers) \/ SweepLost
  BY <1>0, <1>2 DEF SweepBegins, SweepEnds, SweepLost, measure, TypeOK
<1>3. CASE StartEcho
  BY <1>0, <1>3 DEF StartEcho, measure
<1>4. CASE NextCell
  <2>1. pc = "next" /\ pc' \in {"teardown", "ping", "sweep"} /\ UNCHANGED <<measure, history>>
    BY <1>4, Zenon DEF NextCell
  <2> QED BY <1>0, <2>1 DEF measure, history
<1>5. CASE TearDown
  BY <1>0, <1>5 DEF TearDown, TerminateHosts, history
<1>6. CASE StartRtt
  BY <1>0, <1>6 DEF StartRtt, history
<1>7. CASE RttReturns \/ RttFails \/ RttLost
  BY <1>0, <1>7 DEF RttReturns, RttFails, RttLost, MeasurementEnds, history
<1>8. CASE SshEnds
  BY <1>0, <1>8 DEF SshEnds, measure
<1>9. ASSUME NEW c \in 1 .. Cells, Answer(c) PROVE OwnMeasurement'
  <2>1. /\ pc = "measuring" /\ c \in SameHost(cell) /\ echo[c] = "serving"
        /\ answered' = answered \cup {c}
        /\ crossed' \subseteq crossed \cup clients
        /\ UNCHANGED <<pc, cell, clients, missed, strayRtt>>
    BY <1>9 DEF Answer, script, history
  <2>2. missed < 2 => c = cell
    BY <1>0, <2>1 DEF EchoesGone, Measured, Others, EchoGone
  <2> QED BY <1>0, <2>1, <2>2
<1>10. ASSUME NEW c \in 1 .. Cells, StrayRttEnds(c) PROVE OwnMeasurement'
  BY <1>0, <1>10 DEF StrayRttEnds, script, history
<1>11. ASSUME NEW c \in 1 .. Cells,
              SpawnBroker(c) \/ Knock(c) \/ EchoFails(c) \/ OpenEcho(c) \/ Reattach(c) \/ BrokerSteps(c)
       PROVE  OwnMeasurement'
  BY <1>0, <1>11 DEF SpawnBroker, Knock, EchoFails, OpenEcho, Reattach, BrokerSteps,
                     script, measure, history
<1>12. CASE Ended \/ UNCHANGED vars
  BY <1>0, <1>12 DEF Ended, vars, script, measure, history
<1> QED BY <1>1, <1>2, <1>3, <1>4, <1>5, <1>6, <1>7, <1>8, <1>9, <1>10, <1>11, <1>12
        DEF Next, Script, Sweep, Rtt, Remote

\* The broker of a record never becomes the server again: brokers are started
\* by echoes that are starting, and theirs has not been used.
LEMMA BrokersEnd ==
  ASSUME Invariant, [Next]_vars,
         NEW b \in 1 .. Cells, ~NotYetUsed(b), broker[b] \in {"stopping", "gone", "none"}
  PROVE  broker'[b] \in {"stopping", "gone", "none"}
<1>0. TypeOK /\ echo[b] # "starting" /\ SameHost(cell) \subseteq 1 .. Cells /\ cell \in 1 .. Cells
  BY HostFacts DEF Invariant, Types, InOrder, TypeOK
<1> HIDE CampaignAssumption
<1>1. CASE Ping \/ SeeReady \/ GiveUp \/ KillSsh \/ NextCell \/ SweepLost
  <2>1. broker' = broker
    BY <1>1 DEF Ping, SeeReady, GiveUp, KillSsh, NextCell, SweepLost, remote
  <2> QED BY <2>1
<1>2. CASE SweepBegins(SignalEchoes)
  BY <1>2 DEF SweepBegins, SignalEchoes
<1>3. CASE SweepEnds(SignalBrokers)
  BY <1>0, <1>3 DEF SweepEnds, SignalBrokers, TypeOK
<1>4. CASE StartEcho \/ SshEnds \/ StartRtt \/ Rtt
  BY <1>4 DEF StartEcho, SshEnds, Rtt, StartRtt, RttReturns, RttFails, RttLost, MeasurementEnds, remote
<1>5. CASE TearDown
  BY <1>5 DEF TearDown, TerminateHosts, remote
<1>6. ASSUME NEW c \in 1 .. Cells, Remote(c)
      PROVE  broker'[b] \in {"stopping", "gone", "none"}
  <2>1. CASE SpawnBroker(c) \/ EchoFails(c) \/ BrokerSteps(c)
    BY <1>0, <2>1 DEF SpawnBroker, EchoFails, BrokerSteps, TypeOK
  <2>2. CASE Knock(c) \/ OpenEcho(c) \/ Reattach(c) \/ Answer(c) \/ StrayRttEnds(c)
    BY <2>2 DEF Knock, OpenEcho, Reattach, Answer, StrayRttEnds, remote
  <2> QED BY <1>6, <2>1, <2>2 DEF Remote
<1>7. CASE Ended \/ UNCHANGED vars
  BY <1>7 DEF Ended, vars, remote
<1> QED BY <1>1, <1>2, <1>3, <1>4, <1>5, <1>6, <1>7 DEF Next, Script, Sweep

\* What was swept away or noted as escaped does not change: history grows.
LEMMA HistoryGrows ==
  ASSUME [Next]_vars
  PROVE  /\ escaped \subseteq escaped'
         /\ records' = records \/ RttReturns
<1>1. CASE Script
  BY <1>1, Zenon DEF Script, Ping, Sweep, SweepBegins, SweepEnds, SweepLost, SignalEchoes, SignalBrokers,
                  StartEcho, SeeReady, GiveUp, KillSsh, NextCell, StartRtt, TearDown, TerminateHosts, history
<1>2. CASE Rtt \/ SshEnds
  BY <1>2 DEF Rtt, StartRtt, RttReturns, RttFails, RttLost, MeasurementEnds, SshEnds, history
<1>3. ASSUME NEW c \in 1 .. Cells, Remote(c) PROVE UNCHANGED <<script, history>>
  BY <1>3 DEF Remote, SpawnBroker, Knock, EchoFails, OpenEcho, Reattach, BrokerSteps, Answer, StrayRttEnds
<1>4. CASE Ended \/ UNCHANGED vars
  BY <1>4 DEF Ended, vars, script, history
<1> QED BY <1>1, <1>2, <1>3, <1>4 DEF Next, script, history

\* The record a measurement returns is of its own cell.
LEMMA NewRecord ==
  ASSUME Invariant, RttReturns
  PROVE  /\ Line.answered \subseteq {Line.cell} \/ Line.missed >= 2
         /\ Line.crossed \subseteq {Line.cell} \/ Line.strayRtt
         /\ \A s \in records : s.cell # Line.cell
         /\ \/ Line.broker \in {0, Line.cell}
            \/ broker[Line.broker] \in {"stopping", "gone", "none"}
            \/ Line.missed > 0 \/ Line.broker \in escaped
<1>0. /\ TypeOK /\ cell \in 1 .. Cells /\ missed \in Nat /\ pc = "measuring"
      /\ via[cell] \in SameHost(cell) \cup {0} /\ SameHost(cell) \subseteq 1 .. Cells
  BY HostFacts DEF Invariant, Types, TypeOK, RttReturns
<1> HIDE CampaignAssumption
<1>1. /\ Line.cell = cell /\ Line.answered = answered /\ Line.crossed = crossed
      /\ Line.missed = missed /\ Line.strayRtt = strayRtt
      /\ Line.broker = IF cell \in Brokered THEN via[cell] ELSE 0
  BY DEF Line
<1>2. answered \subseteq {cell} \/ missed >= 2
  BY <1>0 DEF Invariant, OwnMeasurement
<1>3. crossed \subseteq {cell} \/ strayRtt
  BY <1>0 DEF Invariant, OwnMeasurement
<1>4. \A s \in records : s.cell # cell
  BY <1>0 DEF Invariant, InOrder, Measured
<1>5. ASSUME missed = 0, NEW b \in Others
      PROVE  broker[b] \in {"stopping", "gone", "none"} \/ b \in escaped
  BY <1>0, <1>5 DEF Invariant, BrokersGone, BrokerGone, Measured, Others, TypeOK
<1>6. via[cell] \in {0, cell} \/ via[cell] \in Others
  BY <1>0 DEF Others
<1> QED BY <1>0, <1>1, <1>2, <1>3, <1>4, <1>5, <1>6

LEMMA RecordsStep == Invariant /\ [Next]_vars => RecordsAreOwn'
<1> SUFFICES ASSUME Invariant, [Next]_vars PROVE RecordsAreOwn'
  OBVIOUS
<1>0. Types /\ RecordsAreOwn /\ TypeOK' /\ Types'
  BY TypesStep DEF Invariant, Types
<1>1. escaped \subseteq escaped' /\ (records' = records \/ RttReturns)
  BY HistoryGrows
<1>2. \A b \in 1 .. Cells : ~NotYetUsed(b) /\ broker[b] \in {"stopping", "gone", "none"}
                             => broker'[b] \in {"stopping", "gone", "none"}
  BY BrokersEnd
<1>3. ASSUME NEW r \in records
      PROVE  \/ r.broker \in {0, r.cell}
             \/ broker'[r.broker] \in {"stopping", "gone", "none"}
             \/ r.missed > 0 \/ r.broker \in escaped'
  <2>1. r.broker \in 0 .. Cells
    BY <1>0 DEF Types
  <2>2. r.broker # 0 => r.broker \in 1 .. Cells /\ ~NotYetUsed(r.broker)
    BY <2>1 DEF NotYetUsed
  <2> QED BY <1>0, <1>1, <1>2, <2>2 DEF RecordsAreOwn
<1>4. CASE records' = records
  BY <1>0, <1>3, <1>4 DEF RecordsAreOwn
<1>5. CASE RttReturns
  <2>1. records' = records \cup {Line} /\ broker' = broker /\ escaped' = escaped
    BY <1>5 DEF RttReturns, MeasurementEnds, remote, history
  <2> QED BY <1>0, <1>3, <1>5, <2>1, NewRecord DEF RecordsAreOwn
<1> QED BY <1>1, <1>4, <1>5

LEMMA InvariantStep == Invariant /\ [Next]_vars => Invariant'
  BY TypesStep, OrderStep, EchoesStep, BrokersStep, MeasurementStep, RecordsStep DEF Invariant

LEMMA InvariantHolds == Spec => []Invariant
  BY InvariantInit, InvariantStep, PTL DEF Spec

-----------------------------------------------------------------------------
(* The theorems                                                            *)

\* However many cells there are and whichever sessions are lost, a record is of
\* its own cell: answered by that cell's echo or by nobody, unless two sweeps in a row
\* failed, not mixed with another rtt's messages unless a measuring session was
\* lost, and through the cell's own broker unless that was one on its way out, a
\* sweep had failed or a broker was not yet the server when it was swept.
THEOREM RecordsAreTheirCells == Spec => []RecordsAreOwn
<1>1. Invariant => RecordsAreOwn
  BY DEF Invariant
<1> QED BY InvariantHolds, <1>1, PTL

\* A sweep that got through leaves no echo on the far host, and no broker but
\* such as are stopping or were not yet the server.
THEOREM SweepsLeaveNothing == Spec => []SweptIsClean
<1>1. Invariant => SweptIsClean
  BY DEF Invariant, EchoesGone, HostIsQuiet, BrokersGone, EchoGone, BrokerGone, SweptIsClean
<1> QED BY InvariantHolds, <1>1, PTL
=============================================================================
