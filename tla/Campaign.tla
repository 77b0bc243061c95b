------------------------------ MODULE Campaign ------------------------------
(***************************************************************************)
(* The cross-host campaign (src/infra/aws/campaign.sh) and the process it  *)
(* starts on the far host (the echo subcommand with --broker,              *)
(* src/crates/runner/src/main.rs).  The script goes from cell to cell over *)
(* ssh: sweep the far host, start an echo there, wait for its READY line,  *)
(* measure from host a, keep the line, kill its own ssh, sweep again.  The *)
(* remote processes do not end with the ssh session that started them:     *)
(* only the sweep ends them, a broker takes its time about it, host a is   *)
(* not swept at all, and each ssh session may be lost.  The last command   *)
(* of the sweep, the removal of the brokers' directories, is left out: it  *)
(* can only make a broker exit, and a broker may do that at any time.      *)
(*                                                                         *)
(* The cells of one topology have one far host; on a host the brokered     *)
(* cells are those of one backend, and so are the others: each kind has    *)
(* one port.                                                               *)
(***************************************************************************)
EXTENDS Integers, FiniteSets

CONSTANTS
    Cells,       \* number of cells (topology, backend, rate), in their order
    PerTopology, \* cells of one topology
    Brokered,    \* cells whose backend needs a broker
    Scripted,    \* is the broker started through a shell script (kafka)?
    MaxLost      \* bound: ssh sessions lost

ASSUME CampaignAssumption ==
    /\ Cells \in Nat \ {0} /\ PerTopology \in 1 .. Cells
    /\ Brokered \subseteq 1 .. Cells
    /\ Scripted \in BOOLEAN
    /\ MaxLost \in Nat

VARIABLES
    pc,          \* the script: "ping", "sweep", "start", "ready", "measure", "measuring",
                 \*             "kill", "next", "teardown", and at its end "done", "kept",
                 \*             "held", "failed" or "aborted"
    cell,        \* the script: the cell it is at
    swept,       \* the sweep: what it has signalled, "none" or "half"
    after,       \* the sweep: what follows it, "start" or "next"
    ssh,         \* the session that started the echo: "none", "up" or "ended"
    records,     \* the lines in the results file
    echo,        \* far hosts: the echo process of each cell
    broker,      \* far hosts: the broker process of each cell
    via,         \* far hosts: the broker an echo is connected to, or 0
    ready,       \* the output file of the echo: is a READY line in it?
    clients,     \* host a: rtt processes, by cell
    answered,    \* the running measurement: cells whose echo answered it
    crossed,     \* the running measurement: cells whose rtt it heard echoes of
    rig,         \* the hosts: "up" or "down"
    lost,        \* ssh sessions lost (budget)
    missed,      \* history: sweeps in a row that did not get through
    strayRtt,    \* history: a measuring session was lost, its rtt left running
    escaped      \* history: brokers still in their script when last swept

script  == <<pc, cell, swept, after, ssh, records, rig>>
remote  == <<echo, broker, via, ready>>
measure == <<clients, answered, crossed>>
history == <<lost, missed, strayRtt, escaped>>
vars    == <<script, remote, measure, history>>

Host(c)     == (c - 1) \div PerTopology
SameHost(c) == {d \in 1 .. Cells : Host(d) = Host(c)}

\* Who holds the port of c's kind on c's host.
Listening(c) == IF c \in Brokered
                  THEN {d \in SameHost(c) : broker[d] \in {"up", "stopping"}}
                  ELSE {d \in SameHost(c) \ Brokered : echo[d] = "serving"}

Init ==
    /\ pc = "ping" /\ cell = 1 /\ swept = "none" /\ after = "start" /\ ssh = "none"
    /\ records = {} /\ rig = "up"
    /\ echo = [c \in 1 .. Cells |-> "none"]
    /\ broker = [c \in 1 .. Cells |-> "none"]
    /\ via = [c \in 1 .. Cells |-> 0]
    /\ ready = FALSE /\ clients = {} /\ answered = {} /\ crossed = {}
    /\ lost = 0 /\ missed = 0 /\ strayRtt = FALSE /\ escaped = {}

-----------------------------------------------------------------------------
(* The script                                                              *)

\* The ICMP floor of a topology is the one remote command whose failure ends
\* the script: set -e, and nothing tears the rig down.
Ping ==
    /\ pc = "ping"
    /\ \/ pc' = "sweep" /\ lost' = lost
       \/ pc' = "aborted" /\ lost < MaxLost /\ lost' = lost + 1
    /\ swept' = "none" /\ after' = "start"
    /\ UNCHANGED <<cell, ssh, records, rig, remote, measure, missed, strayRtt, escaped>>

\* pkill -f "wire-gauge-bin ech[o]": an echo dies where it stands, and its
\* Broker value with it, undropped.
SignalEchoes ==
    /\ echo' = [c \in 1 .. Cells |-> IF c \in SameHost(cell) /\ echo[c] # "none"
                                      THEN "dead" ELSE echo[c]]
    /\ UNCHANGED <<broker, escaped>>

\* pkill of the brokers by the name of the server: they begin to stop.  One that
\* is still a start script has another name.
SignalBrokers ==
    /\ broker' = [c \in 1 .. Cells |-> CASE c \notin SameHost(cell) -> broker[c]
                                         [] broker[c] = "up" -> "stopping"
                                         [] broker[c] = "booting" -> "gone"
                                         [] OTHER -> broker[c]]
    /\ escaped' = escaped \cup {c \in SameHost(cell) : broker[c] = "launching"}
    /\ UNCHANGED echo

SweepBegins(Signal) ==
    /\ pc = "sweep" /\ swept = "none"
    /\ Signal
    /\ swept' = "half"
    /\ UNCHANGED <<pc, cell, after, ssh, records, rig, via, ready, measure,
                   lost, missed, strayRtt>>

SweepEnds(Signal) ==
    /\ pc = "sweep" /\ swept = "half"
    /\ Signal
    /\ swept' = "none" /\ missed' = 0
    /\ pc' = after
    /\ UNCHANGED <<cell, after, ssh, records, rig, via, ready, measure, lost, strayRtt>>

\* Mutant of SweepLost: a sweep that fails ends the script.
SweepLostAborts ==
    /\ pc = "sweep" /\ lost < MaxLost
    /\ lost' = lost + 1 /\ missed' = missed + 1
    /\ swept' = "none" /\ pc' = "aborted"
    /\ UNCHANGED <<cell, after, ssh, records, rig, remote, measure, strayRtt, escaped>>

\* The session fails, before or between the signals: `|| true`.
SweepLost ==
    /\ pc = "sweep" /\ lost < MaxLost
    /\ lost' = lost + 1 /\ missed' = missed + 1
    /\ swept' = "none" /\ pc' = after
    /\ UNCHANGED <<cell, after, ssh, records, rig, remote, measure, strayRtt, escaped>>

\* Mutant of Sweep: brokers first.
SweepReversed == SweepBegins(SignalBrokers) \/ SweepEnds(SignalEchoes) \/ SweepLost

Sweep == SweepBegins(SignalEchoes) \/ SweepEnds(SignalBrokers) \/ SweepLost

\* The echo is started over a session of its own, in the background.
StartEcho ==
    /\ pc = "start"
    /\ pc' = "ready"
    /\ \/ ssh' = "up" /\ echo' = [echo EXCEPT ![cell] = "starting"] /\ lost' = lost
       \/ ssh' = "ended" /\ echo' = echo /\ lost < MaxLost /\ lost' = lost + 1
    /\ ready' = FALSE
    /\ UNCHANGED <<cell, swept, after, records, rig, broker, via, measure,
                   missed, strayRtt, escaped>>

SeeReady ==
    /\ pc = "ready" /\ ready
    /\ pc' = "measure"
    /\ UNCHANGED <<cell, swept, after, ssh, records, rig, remote, measure, history>>

\* Two minutes without a READY line, or the session is over: kill the session,
\* sweep, go on with the next cell.
GiveUp ==
    /\ pc = "ready" /\ ~ready
    /\ ssh' = "none"
    /\ pc' = "sweep" /\ swept' = "none" /\ after' = "next"
    /\ UNCHANGED <<cell, records, rig, remote, measure, history>>

\* kill and wait for the ssh session; the remote process is not signalled.
KillSsh ==
    /\ pc = "kill"
    /\ ssh' = "none"
    /\ pc' = "sweep" /\ swept' = "none" /\ after' = "next"
    /\ UNCHANGED <<cell, records, rig, remote, measure, history>>

\* Mutant of NextCell: the sweep after a cell is taken to be enough.
NextCellUnswept ==
    /\ pc = "next"
    /\ cell' = IF cell < Cells THEN cell + 1 ELSE cell
    /\ pc' = CASE cell = Cells -> "teardown"
               [] cell < Cells /\ Host(cell + 1) # Host(cell) -> "ping"
               [] OTHER -> "start"
    /\ swept' = "none" /\ after' = "start"
    /\ UNCHANGED <<ssh, records, rig, remote, measure, history>>

NextCell ==
    /\ pc = "next"
    /\ cell' = IF cell < Cells THEN cell + 1 ELSE cell
    /\ pc' = CASE cell = Cells -> "teardown"
               [] cell < Cells /\ Host(cell + 1) # Host(cell) -> "ping"
               [] OTHER -> "sweep"
    /\ swept' = "none" /\ after' = "start"
    /\ UNCHANGED <<ssh, records, rig, remote, measure, history>>

\* The instances are terminated, and what runs on them goes with them.
TerminateHosts ==
    /\ rig' = "down"
    /\ echo' = [c \in 1 .. Cells |-> "none"]
    /\ broker' = [c \in 1 .. Cells |-> "none"]
    /\ clients' = {}
    /\ UNCHANGED <<via, ready>>

\* down.sh, unless the campaign was given --keep.  It does nothing where there is
\* a hold file, and an aws call that fails ends it, before the hosts are gone or
\* after (set -e).
TearDown ==
    /\ pc = "teardown"
    /\ \/ pc' \in {"kept", "held", "failed"} /\ UNCHANGED <<rig, remote, clients>>
       \/ pc' \in {"done", "failed"} /\ TerminateHosts
    /\ UNCHANGED <<cell, swept, after, ssh, records, answered, crossed, history>>

-----------------------------------------------------------------------------
(* The measurement on host a                                               *)

\* rtt --peer: without anybody on the peer's port it fails at once, but for a
\* transport that connects to nobody (udp).
StartRtt ==
    /\ pc = "measure"
    /\ \/ /\ Listening(cell) # {} \/ cell \notin Brokered
          /\ pc' = "measuring" /\ clients' = clients \cup {cell}
       \/ /\ Listening(cell) = {}
          /\ pc' = "kill" /\ clients' = clients
    /\ answered' = {} /\ crossed' = {}
    /\ UNCHANGED <<cell, swept, after, ssh, records, rig, remote, history>>

\* The echo of cell c answers the running measurement: it holds the port itself
\* or is connected to the broker that does.
Answer(c) ==
    /\ pc = "measuring" /\ cell \in clients
    /\ c \in SameHost(cell) /\ echo[c] = "serving"
    /\ c \in Brokered <=> cell \in Brokered
    /\ c \in Brokered => via[c] \in Listening(cell)
    /\ answered' = answered \cup {c}
    \* Through a broker the echoes of every other rtt on it are heard as well.
    /\ crossed' = IF cell \in Brokered
                    THEN crossed \cup (clients \cap Brokered \cap SameHost(cell))
                    ELSE crossed
    /\ UNCHANGED <<clients, script, remote, history>>

Line == [cell |-> cell, answered |-> answered, crossed |-> crossed,
         broker |-> IF cell \in Brokered THEN via[cell] ELSE 0,
         missed |-> missed, strayRtt |-> strayRtt]

MeasurementEnds == pc' = "kill" /\ answered' = {} /\ crossed' = {}

\* rtt prints its record and exits; the line is JSON and is kept, also where
\* nothing was received.
RttReturns ==
    /\ pc = "measuring"
    /\ records' = records \cup {Line}
    /\ clients' = clients \ {cell}
    /\ MeasurementEnds
    /\ UNCHANGED <<cell, swept, after, ssh, rig, remote, history>>

\* rtt fails: nothing, or nothing that is JSON, comes back.
RttFails ==
    /\ pc = "measuring"
    /\ clients' = clients \ {cell}
    /\ MeasurementEnds
    /\ UNCHANGED <<cell, swept, after, ssh, records, rig, remote, history>>

\* The measuring session is lost: no record, and rtt runs on.
RttLost ==
    /\ pc = "measuring" /\ lost < MaxLost
    /\ lost' = lost + 1 /\ strayRtt' = TRUE
    /\ MeasurementEnds
    /\ UNCHANGED <<cell, swept, after, ssh, records, rig, clients, remote, missed, escaped>>

StrayRttEnds(c) ==
    /\ c \in clients /\ ~(c = cell /\ pc = "measuring")
    /\ clients' = clients \ {c}
    /\ UNCHANGED <<answered, crossed, script, remote, history>>

-----------------------------------------------------------------------------
(* The far host: echo processes and brokers                                *)

\* The session is over with the echo, or is lost and leaves the echo running.
SshEnds ==
    /\ ssh = "up"
    /\ \/ echo[cell] = "dead" /\ lost' = lost
       \/ lost < MaxLost /\ lost' = lost + 1
    /\ ssh' = "ended"
    /\ UNCHANGED <<pc, cell, swept, after, records, rig, remote, measure,
                   missed, strayRtt, escaped>>

\* main(), Cli::Echo: a broker first, where one is asked for.
SpawnBroker(c) ==
    /\ echo[c] = "starting" /\ c \in Brokered
    /\ echo' = [echo EXCEPT ![c] = "waiting"]
    /\ broker' = [broker EXCEPT ![c] = IF Scripted THEN "launching" ELSE "booting"]
    /\ UNCHANGED <<via, ready, script, measure, history>>

\* wait_ready: the broker's exit is looked for first, then whoever holds the
\* port will do.
Knock(c) ==
    /\ echo[c] = "waiting"
    /\ broker[c] # "gone" /\ Listening(c) # {}
    /\ echo' = [echo EXCEPT ![c] = "opening"]
    /\ UNCHANGED <<broker, via, ready, script, measure, history>>

\* The broker exited, or its time is up: an error out of start_for or out of
\* echo() drops the broker, which kills it.  An echo that a signal ends (out of
\* memory, say) drops nothing.
EchoFails(c) ==
    /\ \/ echo[c] = "waiting" /\ (broker[c] = "gone" \/ Listening(c) = {})
       \/ echo[c] \in {"starting", "opening", "serving"}
    /\ echo' = [echo EXCEPT ![c] = "dead"]
    /\ \/ broker' = [broker EXCEPT ![c] = IF @ = "none" THEN @ ELSE "gone"]
       \/ broker' = broker
    /\ UNCHANGED <<via, ready, script, measure, history>>

\* dispatch::echo: bind the port, or connect to the broker that holds it, and
\* print READY.
OpenEcho(c) ==
    /\ echo[c] = IF c \in Brokered THEN "opening" ELSE "starting"
    /\ \/ c \in Brokered /\ \E b \in Listening(c) : via' = [via EXCEPT ![c] = b]
       \/ c \notin Brokered /\ Listening(c) = {} /\ via' = via
    /\ echo' = [echo EXCEPT ![c] = "serving"]
    /\ ready' = (ready \/ (ssh = "up" /\ c = cell))
    /\ UNCHANGED <<broker, script, measure, history>>

\* A client whose broker went away finds the next one on the same port.
Reattach(c) ==
    /\ echo[c] = "serving" /\ c \in Brokered /\ via[c] \notin Listening(c)
    /\ \E b \in Listening(c) : via' = [via EXCEPT ![c] = b]
    /\ UNCHANGED <<echo, broker, ready, script, measure, history>>

\* The script becomes the server; the server binds the port or exits; a server
\* that was signalled is gone in the end, and any may exit before.
BrokerSteps(c) ==
    /\ \/ broker[c] = "launching" /\ broker' = [broker EXCEPT ![c] = "booting"]
       \/ /\ broker[c] = "booting"
          /\ broker' = [broker EXCEPT ![c] = IF Listening(c) = {} THEN "up" ELSE "gone"]
       \/ broker[c] \notin {"none", "gone"} /\ broker' = [broker EXCEPT ![c] = "gone"]
    /\ UNCHANGED <<echo, via, ready, script, measure, history>>

-----------------------------------------------------------------------------
Script == \/ Ping \/ Sweep \/ StartEcho \/ SeeReady \/ GiveUp \/ StartRtt
          \/ KillSsh \/ NextCell \/ TearDown
Rtt    == RttReturns \/ RttFails \/ RttLost
Remote(c) == \/ SpawnBroker(c) \/ Knock(c) \/ EchoFails(c) \/ OpenEcho(c)
             \/ Reattach(c) \/ BrokerSteps(c) \/ Answer(c) \/ StrayRttEnds(c)

AtEnd == {"done", "kept", "held", "failed", "aborted"}

Ended == pc \in AtEnd /\ UNCHANGED vars

Next == Script \/ Rtt \/ SshEnds \/ (\E c \in 1 .. Cells : Remote(c)) \/ Ended

Spec == Init /\ [][Next]_vars

\* The script goes on; of rtt nothing is assumed, nor of its session.
FairSpec == Spec /\ WF_vars(Script)

-----------------------------------------------------------------------------
(* Properties                                                              *)

TypeOK ==
    /\ pc \in {"ping", "sweep", "start", "ready", "measure", "measuring", "kill", "next",
               "teardown"} \cup AtEnd
    /\ cell \in 1 .. Cells /\ swept \in {"none", "half"} /\ after \in {"start", "next"}
    /\ ssh \in {"none", "up", "ended"} /\ rig \in {"up", "down"}
    /\ echo \in [1 .. Cells -> {"none", "starting", "waiting", "opening", "serving", "dead"}]
    /\ broker \in [1 .. Cells -> {"none", "launching", "booting", "up", "stopping", "gone"}]
    /\ via \in [1 .. Cells -> 0 .. Cells]
    /\ clients \cup answered \cup crossed \cup escaped \subseteq 1 .. Cells
    /\ lost \in 0 .. MaxLost /\ missed \in 0 .. MaxLost /\ ready \in BOOLEAN /\ strayRtt \in BOOLEAN

\* A record is of its own cell.  It was answered by that cell's echo or nobody,
\* unless two sweeps in a row failed; it counts no other rtt's messages,
\* unless a measuring session was lost before; and the broker it went through
\* was the cell's own, unless that was one still stopping, a sweep had failed,
\* or a broker had not yet been the server when it was swept.
RecordsAreOwn ==
    /\ TypeOK
    /\ \A r \in records :
         /\ r.answered \subseteq {r.cell} \/ r.missed >= 2
         /\ r.crossed \subseteq {r.cell} \/ r.strayRtt
         /\ \A s \in records : s.cell = r.cell => s = r
         /\ \/ r.broker \in {0, r.cell}
            \/ broker[r.broker] \in {"stopping", "gone", "none"}
            \/ r.missed > 0 \/ r.broker \in escaped

\* A sweep that got through leaves no echo, and no broker but such as are
\* stopping or were not yet the server: echoes are signalled before brokers, so
\* that no echo starts a broker behind the sweep's back.
SweptIsClean ==
    pc \in {"start", "next"} /\ missed = 0 =>
        \A c \in SameHost(cell) :
            /\ echo[c] \in {"none", "dead"}
            /\ broker[c] \in {"launching", "booting", "up"} => c \in escaped

\* Whatever sweep, start or measurement fails, the campaign goes through its
\* cells to the tear-down: the rig is left up only with --keep or a hold file,
\* by an aws call that fails, after a ping that failed at the head of a
\* topology, or where a measurement never comes back: nothing bounds that.
RigGoesDown ==
    \/ <>\/ rig = "down" \/ pc \in {"kept", "held", "failed"}
         \/ pc = "aborted" /\ (cell = 1 \/ Host(cell) # Host(cell - 1))
    \/ <>[](pc = "measuring")
=============================================================================
