---------------------------- MODULE RunLifecycle ----------------------------
(***************************************************************************)
(* One `wire-gauge rtt` run as the runner process orchestrates it          *)
(* (src/crates/runner/src/main.rs, broker.rs): start the backend's broker  *)
(* if it has one, spawn the echo child and wait for its READY line,        *)
(* connect, run the scenario, stop the child, stop the broker, write the   *)
(* record (src/crates/harness/src/report.rs).  Every step can fail, by an  *)
(* error or a panic; from there the function returns early and what it     *)
(* owns is dropped, newest first, each drop being a stop.                  *)
(*                                                                         *)
(* The broker, the child and the file system are separate actors: either   *)
(* process may exit at any time, and the child creates its files one by    *)
(* one before it announces itself.                                         *)
(***************************************************************************)
EXTENDS Integers, Sequences, SequencesExt

CONSTANTS
    Backends        \* the backends to run, a subset of AllBackends

Brokered == {"nats", "jetstream", "redis", "kafka"}

AllBackends == {"shm", "iceoryx2", "aeron-ipc", "aeron-udp", "uds", "tcp", "udp"}
                 \cup Brokered

ASSUME LifecycleAssumption == Backends \subseteq AllBackends

VARIABLES
    backend,     \* --backend
    foreign,     \* another process already listens on the broker's port
    peerGiven,   \* --peer was given: neither broker nor child is ours
    outGiven,    \* --out was given: the record is appended to a file
    pc,          \* where the runner is
    unwinding,   \* the runner is dropping its locals on the way out
    failed,      \* the runner's exit status is an error
    broker,      \* our broker process
    brokerObj,   \* the runner holds a Broker
    workDir,     \* the broker's work directory exists
    child,       \* the echo child process
    childObj,    \* the runner holds an EchoChild
    announced,   \* READY is in the child's stdout pipe
    files,       \* what the child has created on disk and in shared memory
    clientDir,   \* the directory of the driver that connect started exists
    garbled,     \* history: reading the child's output failed
    undone,      \* clean-up calls whose error was discarded, to be tried again
    printed,     \* the record is on standard output
    line         \* what the run has added to --out

runner   == <<pc, unwinding, failed>>
brokers  == <<broker, brokerObj, workDir>>
children == <<child, childObj, announced, files, garbled>>
rest     == <<clientDir, undone>>
record   == <<printed, line>>
options  == <<backend, peerGiven, outGiven, foreign>>
lifecycleVars == <<options, runner, brokers, children, record, rest>>

\* dispatch::cleanup_paths: what the orchestrator removes after the child.
CleanupPaths(b) ==
    CASE b = "shm"                       -> {"c2s", "s2c"}
      [] b \in {"aeron-ipc", "aeron-udp"} -> {"driver_dir"}
      [] b = "uds"                       -> {"socket"}
      [] OTHER                           -> {}

\* What the child of each backend creates before it announces itself.  No run
\* removes the node of an iceoryx2 child that was killed; a later one reaps it.
Creates(b) ==
    CASE b = "shm"                       -> <<"c2s", "s2c">>
      [] b \in {"aeron-ipc", "aeron-udp"} -> <<"driver_dir">>
      [] b = "uds"                       -> <<"socket">>
      [] b = "iceoryx2"                  -> <<"node">>
      [] OTHER                           -> <<>>

\* What no run removes after its own child.
Unremoved == {"node"}

NeedsBroker == backend \in Brokered

Running == {"starting", "up"}

LifecycleInit ==
    /\ backend \in Backends /\ peerGiven \in BOOLEAN /\ outGiven \in BOOLEAN
    /\ foreign \in BOOLEAN
    /\ pc = "arguments" /\ unwinding = FALSE /\ failed = FALSE
    /\ broker = "none" /\ brokerObj = FALSE /\ workDir = FALSE
    /\ child = "none" /\ childObj = FALSE /\ announced = FALSE
    /\ files = {} /\ clientDir = FALSE /\ garbled = FALSE /\ undone = {}
    /\ printed = FALSE /\ line = "none"

\* `?` on an error: drop what is owned so far, broker first.
Fail == /\ failed' = TRUE
        /\ unwinding' = TRUE
        /\ pc' = "kill_broker"

GoTo(p) == pc' = p /\ UNCHANGED <<unwinding, failed>>

-----------------------------------------------------------------------------
(* rtt(): arguments, Broker::start_for                                     *)

CheckArguments ==
    /\ pc = "arguments"
    /\ \/ Fail
       \/ GoTo(IF peerGiven THEN "connect"
               ELSE IF NeedsBroker THEN "make_dir" ELSE "spawn_child")
    /\ UNCHANGED <<options, brokers, children, record, rest>>

MakeWorkDir ==
    /\ pc = "make_dir"
    /\ \/ Fail /\ UNCHANGED workDir
       \/ GoTo("find") /\ workDir' = TRUE
    /\ UNCHANGED <<options, broker, brokerObj, children, record, rest>>

\* What comes before the spawn may fail: the work directory exists, a Broker to
\* remove it does not yet.
Prepare(this, next) ==
    /\ pc = this
    /\ Fail \/ GoTo(next)
    /\ UNCHANGED <<options, brokers, children, record, rest>>

\* The override, the PATH and the user's own directories may all lack it.
FindBinary == Prepare("find", IF backend = "kafka" THEN "properties" ELSE "open_log")

\* kafka_command: both runs of kafka-storage have ended before it returns.
WriteProperties == Prepare("properties", "random_uuid")
RandomUuid      == Prepare("random_uuid", "format")
FormatStorage   == Prepare("format", "open_log")

OpenLog == Prepare("open_log", "spawn_broker")

\* From here on a Broker owns process and directory.
SpawnBroker ==
    /\ pc = "spawn_broker"
    /\ \/ Fail /\ UNCHANGED <<broker, brokerObj>>
       \/ GoTo("probe") /\ broker' = "starting" /\ brokerObj' = TRUE
    /\ UNCHANGED <<options, workDir, children, record, rest>>

\* wait_ready, first half of a turn: has the broker exited?  Asking may fail.
Probe ==
    /\ pc = "probe"
    /\ \/ broker = "dead" /\ Fail /\ broker' = "reaped"
       \/ broker # "dead" /\ GoTo("knock") /\ UNCHANGED broker
       \/ Fail /\ UNCHANGED broker
    /\ UNCHANGED <<options, brokerObj, workDir, children, record, rest>>

\* Second half: does anything accept on the port?
SomebodyListens == broker = "up" \/ foreign

KnockAnswered ==
    /\ pc = "knock"
    /\ SomebodyListens
    /\ GoTo("spawn_child")
    /\ UNCHANGED <<options, brokers, children, record, rest>>

KnockAgain ==
    /\ pc = "knock" /\ ~SomebodyListens
    /\ GoTo("probe")
    /\ UNCHANGED <<options, brokers, children, record, rest>>

\* Mutant of KnockTimedOut: the wait has no deadline.
KnockForever ==
    /\ pc = "knock" /\ ~SomebodyListens
    /\ GoTo("probe")
    /\ UNCHANGED <<options, brokers, children, record, rest>>

\* The deadline of wait_ready has passed.
KnockTimedOut ==
    /\ pc = "knock" /\ ~SomebodyListens
    /\ Fail
    /\ UNCHANGED <<options, brokers, children, record, rest>>

-----------------------------------------------------------------------------
(* EchoChild::spawn, connect, run_rtt                                      *)

SpawnChild ==
    /\ pc = "spawn_child"
    /\ \/ Fail /\ UNCHANGED child
       \/ GoTo("read_line") /\ child' = "starting"
    /\ UNCHANGED <<options, brokers, childObj, announced, files, garbled, record, rest>>

\* The READY line: from here on an EchoChild owns process and files.
ReadReady ==
    /\ pc = "read_line"
    /\ announced
    /\ childObj' = TRUE
    /\ GoTo("connect")
    /\ UNCHANGED <<options, brokers, child, announced, files, garbled, record, rest>>

\* End of file: the child exited before it announced itself.
ReadEof ==
    /\ pc = "read_line"
    /\ ~announced /\ child = "dead"
    /\ Fail
    /\ UNCHANGED <<options, brokers, children, record, rest>>

\* The pipe cannot be read as lines of text: the child is left as it is.
ReadError ==
    /\ pc = "read_line"
    /\ ~announced
    /\ garbled' = TRUE
    /\ Fail
    /\ UNCHANGED <<options, brokers, child, childObj, announced, files, record, rest>>

\* dispatch::connect.  To an Aeron echo on another host it starts a driver here,
\* in a directory that nobody removes.
Connect ==
    /\ pc = "connect"
    /\ Fail \/ GoTo("run")
    /\ \/ UNCHANGED clientDir
       \/ peerGiven /\ backend \in {"aeron-ipc", "aeron-udp"} /\ clientDir' = TRUE
    /\ UNCHANGED <<options, brokers, children, record, undone>>

\* Mutant of RunScenario: the broker is stopped before the child.
RunScenarioStopsBroker ==
    /\ pc = "run"
    /\ Fail \/ GoTo("kill_broker")
    /\ UNCHANGED <<options, brokers, children, record, rest>>

RunScenario ==
    /\ pc = "run"
    /\ Fail \/ GoTo("kill_child")
    /\ UNCHANGED <<options, brokers, children, record, rest>>

-----------------------------------------------------------------------------
(* EchoChild::stop and Broker::stop, called by rtt() and again by the drops: *)
(* kill, wait, remove.  The error of each is discarded.                    *)

\* kill: a process that has exited, or cannot be killed, stays what it is.
Killed(p) == IF p \in Running THEN {p, "dead"} ELSE {p}

\* wait reaps a process that has exited; one already reaped is a no-op.
Reaped(p) == IF p = "dead" THEN "reaped" ELSE p

\* The outcome of a clean-up call, none of which anybody looks at.
Try(what, done) == undone' = IF done THEN undone \ {what} ELSE undone \cup {what}

KillChild ==
    /\ pc = "kill_child"
    /\ IF childObj THEN child' \in Killed(child) ELSE UNCHANGED child
    /\ GoTo("wait_child")
    /\ UNCHANGED <<options, brokers, childObj, announced, files, garbled, record, rest>>

\* Blocks as long as the child runs.
WaitChild ==
    /\ pc = "wait_child"
    /\ childObj => child \notin Running
    /\ child' = IF childObj THEN Reaped(child) ELSE child
    /\ IF childObj THEN Try("child", TRUE) ELSE UNCHANGED undone
    /\ GoTo("remove_files")
    /\ UNCHANGED <<options, brokers, childObj, announced, files, garbled, record, clientDir>>

WaitChildFails ==
    /\ pc = "wait_child"
    /\ childObj /\ child # "reaped"
    /\ Try("child", FALSE)
    /\ GoTo("remove_files")
    /\ UNCHANGED <<options, brokers, children, record, clientDir>>

AfterFiles == GoTo(IF unwinding THEN "exit" ELSE "kill_broker")

\* Mutant of RemoveFiles: only the explicit stop cleans up, a drop does not.
RemoveFilesOnStop ==
    /\ pc = "remove_files"
    /\ files' = IF childObj /\ ~unwinding THEN files \ CleanupPaths(backend) ELSE files
    /\ AfterFiles
    /\ UNCHANGED <<options, brokers, child, childObj, announced, garbled, record, rest>>

RemoveFiles ==
    /\ pc = "remove_files"
    /\ IF childObj
         THEN \E kept \in SUBSET (files \cap CleanupPaths(backend)) :
                 /\ files' = (files \ CleanupPaths(backend)) \cup kept
                 /\ Try("files", kept = {})
         ELSE UNCHANGED <<files, undone>>
    /\ AfterFiles
    /\ UNCHANGED <<options, brokers, child, childObj, announced, garbled, record, clientDir>>

KillBroker ==
    /\ pc = "kill_broker"
    /\ IF brokerObj THEN broker' \in Killed(broker) ELSE UNCHANGED broker
    /\ GoTo("wait_broker")
    /\ UNCHANGED <<options, brokerObj, workDir, children, record, rest>>

WaitBroker ==
    /\ pc = "wait_broker"
    /\ broker \notin Running
    /\ broker' = Reaped(broker)
    /\ IF brokerObj THEN Try("broker", TRUE) ELSE UNCHANGED undone
    /\ GoTo("remove_dir")
    /\ UNCHANGED <<options, brokerObj, workDir, children, record, clientDir>>

WaitBrokerFails ==
    /\ pc = "wait_broker"
    /\ brokerObj /\ broker # "reaped"
    /\ Try("broker", FALSE)
    /\ GoTo("remove_dir")
    /\ UNCHANGED <<options, brokers, children, record, clientDir>>

RemoveDir ==
    /\ pc = "remove_dir"
    /\ IF brokerObj
         THEN \E kept \in {FALSE, workDir} : workDir' = kept /\ Try("dir", ~kept)
         ELSE UNCHANGED <<workDir, undone>>
    /\ GoTo(IF unwinding THEN "kill_child" ELSE "record")
    /\ UNCHANGED <<options, broker, brokerObj, children, record, clientDir>>

-----------------------------------------------------------------------------
(* The record                                                              *)

\* Printing panics when nobody reads any more.
PrintRecord ==
    /\ pc = "record"
    /\ \/ Fail /\ UNCHANGED printed
       \/ GoTo(IF outGiven THEN "open_out" ELSE "note") /\ printed' = TRUE
    /\ UNCHANGED <<options, brokers, children, line, rest>>

\* append_to: the parent directory and the file.
OpenOut ==
    /\ pc = "open_out"
    /\ Fail \/ GoTo("append")
    /\ UNCHANGED <<options, brokers, children, record, rest>>

\* writeln! on a file that is not buffered writes the text and then the end of
\* the line; the text may stop anywhere.
AppendText ==
    /\ pc = "append"
    /\ \/ Fail /\ line' \in {"none", "torn"}
       \/ GoTo("append_end") /\ line' = "torn"
    /\ UNCHANGED <<options, brokers, children, printed, rest>>

\* Mutant of AppendEnd: an error of append_to is ignored like one of eprintln.
AppendEndIgnored ==
    /\ pc = "append_end"
    /\ GoTo("note") /\ line' \in {"torn", "whole"}
    /\ UNCHANGED <<options, brokers, children, printed, rest>>

AppendEnd ==
    /\ pc = "append_end"
    /\ \/ Fail /\ UNCHANGED line
       \/ GoTo("note") /\ line' = "whole"
    /\ UNCHANGED <<options, brokers, children, printed, rest>>

\* The notes on standard error, which may panic as well; then rtt() returns
\* and its locals are dropped.
Return ==
    /\ pc = "note"
    /\ failed' \in BOOLEAN
    /\ unwinding' = TRUE
    /\ pc' = "kill_broker"
    /\ UNCHANGED <<options, brokers, children, record, rest>>

-----------------------------------------------------------------------------
(* The processes                                                           *)

BrokerUp ==
    /\ broker = "starting" /\ ~foreign
    /\ broker' = "up"
    /\ UNCHANGED <<options, runner, brokerObj, workDir, children, record, rest>>

BrokerDies ==
    /\ broker \in Running
    /\ broker' = "dead"
    /\ UNCHANGED <<options, runner, brokerObj, workDir, children, record, rest>>

\* Mutant of NextFile: one file too many.
StrayFile == IF files = ToSet(Creates(backend)) THEN {"stray"} ELSE {}

\* What the child creates next, if anything is left: at most one file.
NextFile ==
    LET made(i) == {Creates(backend)[j] : j \in 1 .. i}
    IN  {Creates(backend)[i] : i \in {k \in DOMAIN Creates(backend) : files = made(k - 1)}}

ChildCreates ==
    /\ child = "starting"
    /\ \E f \in NextFile : files' = files \cup {f}
    /\ UNCHANGED <<options, runner, brokers, child, childObj, announced, garbled, record, rest>>

ChildAnnounces ==
    /\ child = "starting"
    /\ files = ToSet(Creates(backend))
    /\ NeedsBroker => SomebodyListens
    /\ child' = "up"
    /\ announced' = TRUE
    /\ UNCHANGED <<options, runner, brokers, childObj, files, garbled, record, rest>>

\* One that returns an error takes its node with it, one that is killed does not.
ChildDies ==
    /\ child \in Running
    /\ child' = "dead"
    /\ files' \in {files, files \ Unremoved}
    /\ UNCHANGED <<options, runner, brokers, childObj, announced, garbled, record, rest>>

-----------------------------------------------------------------------------
\* What takes only the runner's own time: local calls, and waits with a deadline.
RunnerStep ==
    \/ CheckArguments \/ MakeWorkDir \/ FindBinary \/ WriteProperties \/ OpenLog
    \/ SpawnBroker \/ Probe \/ KnockAnswered \/ KnockAgain \/ KnockTimedOut
    \/ SpawnChild \/ ReadReady \/ ReadEof
    \/ KillChild \/ WaitChild \/ RemoveFiles \/ KillBroker \/ WaitBroker \/ RemoveDir
    \/ PrintRecord \/ OpenOut \/ AppendText \/ AppendEnd \/ Return

\* What is up to others: commands, backends, errors of the operating system.
WaitStep ==
    \/ RandomUuid \/ FormatStorage \/ ReadError \/ Connect \/ RunScenario
    \/ WaitChildFails \/ WaitBrokerFails

ChildStep == ChildCreates \/ ChildAnnounces \/ ChildDies

Exited == pc = "exit" /\ UNCHANGED lifecycleVars

LifecycleNext == RunnerStep \/ WaitStep \/ BrokerUp \/ BrokerDies \/ ChildStep \/ Exited

LifecycleSpec == LifecycleInit /\ [][LifecycleNext]_lifecycleVars

\* The runner runs; the startup wait reaches its deadline if it goes on.  Nothing
\* is assumed of broker, child, backend or external command: any may hang.
LifecycleFairSpec ==
    /\ LifecycleSpec
    /\ WF_lifecycleVars(RunnerStep)
    /\ SF_lifecycleVars(KnockTimedOut)

-----------------------------------------------------------------------------
(* Properties                                                              *)

States == {"none", "starting", "up", "dead", "reaped"}
Gone   == {"none", "reaped"}

Preparing == {"make_dir", "find", "properties", "random_uuid", "format", "open_log",
              "spawn_broker"}
Recording == {"record", "open_out", "append", "append_end", "note"}
StopChild  == {"kill_child", "wait_child", "remove_files"}
StopBroker == {"kill_broker", "wait_broker", "remove_dir"}
Dropping   == StopChild \cup StopBroker \cup {"exit"}

LifecycleTypeOK ==
    /\ backend \in Backends /\ {peerGiven, outGiven, foreign} \subseteq BOOLEAN
    /\ pc \in {"arguments", "probe", "knock", "spawn_child", "read_line", "connect", "run"}
             \cup Preparing \cup Recording \cup Dropping
    /\ {unwinding, failed, brokerObj, workDir, childObj, announced, garbled, clientDir,
        printed} \subseteq BOOLEAN
    /\ broker \in States /\ child \in States
    /\ files \subseteq ToSet(Creates(backend))
    /\ undone \subseteq {"child", "files", "broker", "dir"}
    /\ line \in {"none", "torn", "whole"}

\* Each thing a run makes is gone, or the last call to that end failed unheard.
BrokerGone == broker \in Gone \/ "broker" \in undone
DirGone    == ~workDir \/ "dir" \in undone
ChildGone  == child \in Gone \/ "child" \in undone
FilesGone  == files \subseteq Unremoved \/ "files" \in undone

TornDown == BrokerGone /\ DirGone /\ ChildGone /\ FilesGone

\* broker.rs:3 and main.rs:166 promise that nothing is left.  What a run leaves
\* behind tells how far it got: what an owner was to stop or remove, only where
\* the call failed and its error was discarded; else the work directory only if
\* the run failed before its broker was started, a file of the child only if it
\* failed before READY, and a running child only if its output could not be read.
\* Nobody removes an iceoryx2 node or the driver directory of an Aeron client.
LeftoversExplained ==
    pc = "exit" =>
        /\ BrokerGone
        /\ childObj => ChildGone /\ FilesGone
        /\ child \in Running /\ ~childObj => garbled
        /\ ~DirGone => broker = "none"
        /\ ~TornDown => failed

\* A record is made when all that could disturb the next run has been stopped
\* and removed, or tried in vain, and the exit status tells whether it is whole:
\* no success without its line, no torn line without a failure.
RecordTellsTruth ==
    /\ printed \/ line # "none" => TornDown
    /\ pc = "exit" /\ ~failed => printed /\ (outGiven => line = "whole")
    /\ pc = "exit" /\ line = "torn" => failed

\* broker.rs:2: "started before the echo child, killed after it".  A run that
\* gets to its record kills its broker only when the child has been waited for,
\* or could not be; on an early return the drops go the other way round.
BrokerOutlivesChild ==
    [][~unwinding /\ pc = "kill_broker" /\ broker \in Running /\ broker' = "dead"
          /\ pc' # pc => child = "reaped" \/ "child" \in undone]_lifecycleVars

\* The inductive invariant behind these, part by part.
\* What exists has an owner: a broker process its Broker, an EchoChild of a
\* brokered run a Broker, a work directory or a Broker a backend that needs one.
Owned ==
    /\ (broker # "none") = brokerObj
    /\ announced \/ childObj \/ files # {} => child # "none"
    /\ childObj => announced
    /\ announced => child # "starting"
    /\ childObj /\ NeedsBroker => brokerObj
    /\ brokerObj \/ workDir => NeedsBroker
    /\ peerGiven => child = "none" /\ ~brokerObj /\ ~workDir
    /\ clientDir => peerGiven
    /\ "child" \in undone \/ "files" \in undone => childObj
    /\ "broker" \in undone \/ "dir" \in undone => brokerObj

\* What has no owner is being made, or was when the run failed.
Orphaned ==
    /\ workDir /\ ~brokerObj => pc \in Preparing \/ failed
    /\ child # "none" /\ ~childObj => pc = "read_line" \/ failed
    /\ child \in Running /\ ~childObj => pc = "read_line" \/ garbled

\* Up to the spawn of the child, a brokered run has started its broker; from then
\* on it holds both.
StartedInOrder ==
    /\ pc \in Preparing \cup {"probe", "knock"} => NeedsBroker
    /\ pc \in Preparing \cup {"probe", "knock", "spawn_child", "read_line"} => ~peerGiven
    /\ pc \in {"probe", "knock", "spawn_child", "read_line"} /\ NeedsBroker => brokerObj
    /\ pc \in Preparing \cup {"arguments", "probe", "knock", "spawn_child"} => child = "none"
    /\ ~unwinding /\ pc \in {"connect", "run"} \cup Dropping \cup Recording
          => peerGiven \/ childObj

\* On the way out each drop finds what the drops before it were to achieve.
Unwinds ==
    /\ unwinding => pc \in Dropping
    /\ pc = "exit" => unwinding
    /\ failed => unwinding
    /\ unwinding /\ pc \in {"remove_dir", "exit"} \cup StopChild => BrokerGone
    /\ unwinding /\ pc \in {"exit"} \cup StopChild /\ brokerObj => DirGone
    /\ unwinding /\ pc \in {"remove_files", "exit"} /\ childObj => ChildGone
    /\ pc = "exit" /\ childObj => FilesGone

\* So do the explicit stops of a run that succeeds, child first.
Stops ==
    /\ ~unwinding /\ pc \in {"remove_files"} \cup StopBroker \cup Recording => ChildGone
    /\ ~unwinding /\ pc \in StopBroker \cup Recording => FilesGone
    /\ ~unwinding /\ pc \in {"remove_dir"} \cup Recording => BrokerGone
    /\ pc \in Recording \/ (unwinding /\ ~failed) => TornDown

\* A line is written only at the end, and a run that returns has written it.
Recorded ==
    /\ printed \/ line # "none" => TornDown /\ (pc \in Recording \/ unwinding)
    /\ pc \in {"open_out", "append", "append_end", "note"} => printed
    /\ pc \in {"record", "open_out", "append"} => line = "none"
    /\ pc = "note" \/ (unwinding /\ ~failed) => printed /\ (outGiven => line = "whole")
    /\ line = "torn" => pc = "append_end" \/ failed

\* However far a run got, its owners account for all it has started, and their
\* drops for the rest; inductive.
LifecycleInvariant ==
    LifecycleTypeOK /\ Owned /\ Orphaned /\ StartedInOrder /\ Unwinds /\ Stops /\ Recorded

\* The five waits of rtt() without a deadline: for the child to announce itself
\* or die (main.rs:270), for the tools of Kafka, for a backend to connect, for
\* the scenario, and for a process that could not be killed to exit by itself.
WaitsForOthers ==
    \/ pc = "read_line" /\ child \in Running /\ ~announced
    \/ pc \in {"random_uuid", "format", "connect", "run"}
    \/ pc = "wait_child" /\ child \in Running
    \/ pc = "wait_broker" /\ broker \in Running

\* rtt() gets to its end or hangs in one of those waits: not in the startup check
\* of a broker that neither comes up nor exits, not in reading from a child that
\* has exited, not in waiting for a process it has killed.
RunEnds == <>(pc = "exit") \/ <>[]WaitsForOthers
=============================================================================
