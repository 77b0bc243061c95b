# wire-gauge: specifications, model checking and proofs

This directory holds TLA+ specifications of wire-gauge, a tool that measures the
round-trip latency of message transports: a runner process sends numbered
messages on a fixed schedule through one of eleven backends to an echo process
and records how late each comes back, counted from its *intended* send time.
The specifications are translated from the Rust sources (and, for the cross-host
campaign, from its shell script) and checked with TLC on small instances. Every
invariant and action property that a passing run checks, the three refinements
included, is also proved with TLAPS for every value of the constants.

## 1. The system

| Component | State | Operations | Hard parts |
|---|---|---|---|
| Scenario `run_rtt` (`harness/scenario.rs`, `clock.rs`) | schedule position, send-lag and latency histograms, counters, the flag `tx_done` | sending thread, receive thread, join | two threads that share one flag; when may the receive thread stop; loss, duplication, delay; errors of either thread |
| Runner (`runner/main.rs`) | what it owns: broker, echo child, files | check arguments, spawn, wait for READY, connect, run, stop, write the record | every step can fail; drop order; processes that die on their own |
| Broker (`runner/broker.rs`) | child process, work directory | start_for, wait_ready, stop, drop | startup race on a fixed port; partial failure before the owner object exists |
| Record (`harness/report.rs`) | one JSON line, on standard output and in a file | for_rtt, append_to | what the numbers claim; a line written in part |
| Shared memory (`backend-shm`) | two mapped files; per ring stamps, payloads, cursor; `next_seq`, `cached_cursor` | create, open_existing, prefault, send, recv | lock-free sharing of memory between processes, stale cursors, laps, half-built files, two timeouts that tell a slow party from a dead one |
| Stream sockets (`backend-sockets`: tcp, uds) | kernel buffers, bytes in hand, timeout count | write_all, recv, echo_loop | partial reads and writes, timeouts inside a message, full buffers, death of the peer |
| UDP | socket | send, recv, echo | loss, duplication, reordering |
| Redis (`backend-redis`) | two streams, last id, pending entries | XADD, XREAD, hand-out | trimming of unread entries, batches handed out one by one |
| NATS, JetStream, Kafka, iceoryx2, Aeron | client libraries' state | connect, echo, send, recv | order of subscription and publication, lazily built receivers, retries, back pressure |
| Campaign (`infra/aws/campaign.sh`) | the cell it is at, ssh sessions, results file; echo and broker processes on the far hosts | sweep, start, measure, kill, tear down | lost sessions, processes left over from one cell to the next, brokers that stop slowly |
| Reports, smoke test, provisioning | result files | select, draw, create machines | none of its own |

The runner calls the broker module and a backend's `connect`; the backend's
`Sender` and `Receiver` are handed to the scenario, which runs them on two
threads. Runner and echo child are two processes of the same binary; they
interact through the child's standard output (one READY line) and through the
transport alone. The campaign starts both over ssh, on two hosts; it interacts
with the far one through the READY line and through `pkill`.

What makes each correct:

- *scenario*: the record is true to what happened to the messages; no stall is
  hidden from the histograms; it returns, with the error of whichever thread
  failed;
- *runner and broker*: what a run leaves running or on disk tells how far it
  got or which clean-up call failed, and its exit status tells whether the
  record is whole;
- *shared memory*: each ring is a bounded FIFO, no byte of a message is read
  or overwritten while the other process uses it, no incomplete ring is ever
  used, and a party that is slow costs lag and no message;
- *streams*: framing never slips, a close is told from a broken message, and
  nobody waits for ever;
- *brokered and publish/subscribe backends*: a message sent is received, on its
  way, or lost in one of the ways the backend admits to; nothing is repeated or
  reordered; no echo is sent to nobody while the receiver is there; and nobody
  waits for ever;
- *campaign*: a record was measured against its own cell's processes, a sweep
  leaves nothing that could answer the next cell, and whatever fails on the way
  the script gets to its tear-down.

## 2. The modules

| Module | Models | Composition |
|---|---|---|
| `SpscFifo` | the abstract promise of a lossless backend: a FIFO that neither loses, tears, repeats nor reorders | implemented by `ShmRing`, `ShmRoundTrip` and `StreamEcho` |
| `ShmRing` | `RingProducer::send`, `RingConsumer::recv` | refines `SpscFifo` |
| `ShmSetup` | `echo`, `connect`, `Ring::create`, `open_existing`, `prefault` of both rings | two processes and the file system |
| `ShmRoundTrip` | both rings, the echo loop, `run_rtt`'s two threads, up to the runner's exit | two instances of `SpscFifo` as the rings; refines one `SpscFifo` of `2 * Capacity + 1` |
| `RttScenario` | `run_rtt` with explicit time over an abstract transport | two threads, transport, clock |
| `RunLifecycle` | `rtt()`, `EchoChild`, `Broker`, `append_to` | runner, broker, child, file system |
| `StreamEcho` | stream sender, echo loop, stream receiver, two kernel buffers | refines `SpscFifo` |
| `RedisStream` | client, server streams, echo process | two readers, two writers, the server |
| `NatsEcho` | core NATS and JetStream: both sides, two ordered connections, the server | three threads and the server |
| `KafkaEcho` | both sides, consumer groups, producer queues, the broker's two logs | three threads, librdkafka, the broker |
| `LazyReceiver` | iceoryx2, Aeron on one host and on two: ports of both sides, the receiver built on first use | three threads, one or two drivers |
| `Campaign` | `campaign.sh` and the `echo` subcommand with `--broker` | the script, host a, far hosts with echoes and brokers |
| `Shm_proofs` | theorems about the ring and its setup | extends `ShmRing` and `ShmSetup` |
| `Runner_proofs` | theorems about the measurement and the run around it | extends `RttScenario` and `RunLifecycle` |
| `Streams_proofs` | theorems about byte streams and Redis streams | extends `StreamEcho` and `RedisStream` |
| `ShmRoundTrip_proofs`, `NatsEcho_proofs`, `KafkaEcho_proofs`, `LazyReceiver_proofs`, `Campaign_proofs` | theorems | each extends its component's module |

Where one proof module extends two specifications, the second one's `Init`,
`Next`, `Spec` and `TypeOK` carry its name: `SetupSpec`, `LifecycleSpec`,
`RedisSpec`, and so on.

Operators named in a comment `Mutant of X` are deliberately wrong versions of
`X`; substituting one must break the property it is listed with in
`PROJECT.json`. They are no part of the specifications.

### ShmRing

`stamp`, `cell` and `cursor` are the mapped file; `pseq`, `cached` and `cseq`
are `next_seq`, `cached_cursor` and the consumer's `next_seq`. A step is one
atomic access or one word of a payload copy, because that is what the other
process can see. The release/acquire pairs on stamp and cursor order the copies
on both sides, so interleaving of these steps is what the memory model allows.
A payload word is represented by the number of the message that wrote it
(`-1` for the file's zeros), which is enough to tell a torn, stale or
overwritten message from a good one. The strided clock reads of both wait loops
are a choice: while waiting, spin again or find the deadline passed.

### ShmSetup

Each touch of `prefault` is a read and a write. The word touched is the magic
on page 0 and, on page 1, the stamp of slot 0, so a touch that came too late
would undo a message. The client may be one that did not wait for READY; a
client that does wait may find files of an earlier run at the same paths, which
the echo process replaces. A client that does *not* wait and is pointed at a
path with a left-over complete ring would map the old file; that combination
needs a user who reuses a `--bind` path by hand and is left out of `Init`.

### ShmRoundTrip

Each ring is the FIFO that `ShmRing` implements; a message is one word. What is
new is what the parties do to each other. `left` is the time to the deadline a
party has set: as in the code, it is set when a ring is first found full or a
message first missed, and the stamp or cursor is read before the clock, so a
message that has come in the meantime wins over a deadline that has passed. Any
party may go unscheduled for a while (`away`), and the echo process may die,
which shows only as silence to one thread and as a full ring to the other.
`SendTimesOut` leaves `run_rtt` with `tx_done` unset and the receive thread
behind; `StopEcho` and `Exit` are what `rtt()` does from there.

### RttScenario

The schedule is computed as in the code: `Interval` is a truncated division, the
first send is `Lead` ahead of now and `started` is taken after the receive
thread was spawned (`Spawn`). The clock is a variable and `Tick` waits for
whoever has something due: a message at the end of `MaxDelay`, the sender at the
end of a wait that may overshoot by `MaxStall` (`spin_sleep_until`, or a send
that blocks), and the receive thread, which is taken to be prompt. `Inject` is
the moment inside `send` when the message is on its way; an echo may arrive
before `send` returns. `sentBy` and `delivered` are history. The peer may close
the connection, which `recv` sees, or be gone, which it does not. `Record` is
what `RunRecord::for_rtt` makes of the outcome. UDP is this transport: its
`send` is `Inject`, the echo's `send_to` `Arrive`, the socket's read timeout
`RecvTimedOut`, and its errors are `SendFails` and `RecvFails`.

### RunLifecycle

`pc` walks through `rtt()`, with and without `--peer` and `--out`. `Fail` is a
`?`: the rest of the function is left and the locals are dropped, the broker
before the child, as the tuple pattern of `main.rs:194` has it. Each preparation
of a broker (work directory, search for the binary, properties, storage, log) is
a step that may fail before the `Broker` exists. `brokerObj` and `childObj` say
that the object whose drop cleans up exists; a failure before it does leaves
things behind. A stop is three calls, kill, wait and remove, each with its error
discarded; any of them may fail, and `undone` is what was not done, which only
the second attempt of a drop may still make good. The wait for a process that
could not be killed lasts until it exits on its own. Two things no run removes
even when all goes well: the directory of the Aeron driver that `connect` starts
for a `--peer` on another host (`clientDir`) and the node of an iceoryx2 child
that was killed (`Unremoved`), which a later run reaps. `garbled` is a child
whose output could not be read: `spawn` returns without killing it. The record
is printed, then appended to the file, where a failing write may leave a torn
line. Broker and child may die at any step. `foreign` says that another process
already listens on the broker's fixed port; ours then cannot bind it, and the
startup check is satisfied with whoever answers. `WaitsForOthers` are the places
where the runner depends on somebody else without a deadline: a child that
prints nothing, a command, a backend's `connect`, the scenario, a process that
does not end.

### StreamEcho

A message is `Chunks` pieces and a read or write moves one, so every partial
read and write is a state. `RecvTimedOut`, `RecvStalled` and `RecvEof` are the
arms of `StreamReceiver::recv` that return no message; a timeout at a message
boundary ends the loop once the sender is done, whatever is on its way, and until
then the receiver reads on. A killed echo process may take any suffix
of what it had written with it. `Ahead` is everything the receiver has not
returned, in one line: its own buffer, the kernel's, the echo's hand and the
other kernel buffer.

### RedisStream

Entries carry the server's number. `Xadd` may trim any number of the oldest
entries as long as `MaxLen` remain, which is what `MAXLEN ~` promises.
`RecvAny` is one `recv_any`: an XREAD, atomic on the server, and the hand-out of
one entry; `Above` is what XREAD returns for an id. An XREAD that blocks for
its second in vain (`ClientTimesOut`) ends the receive loop when the sender is
done, though the echo may only be slow. Any command of the client may fail
(`Fails`), which ends the party that gave it. `overrun` records what was trimmed
before its reader fetched it.

### NatsEcho

`wire` holds, per connection, the commands the server has not taken: a
`subscribe` is queued like a `publish`, which is why the order of the two
matters and why READY, which nothing flushes for, does not mean that the echo's
subscription is known. In core mode the server delivers into `inbox` or cuts the
subscriber off (`CutOff`): its connection is closed, with any suffix of what it
had not read and any prefix of what the same side had under way, and the client
library connects again and subscribes anew before it sends the rest. In
JetStream mode the server stores, trims to `StreamMax`, and an ordered consumer
is sent `given` messages and may at any time be recreated behind the last message
handed out. A subscription lasts as long as its receiver (`Listens`): when the
receive thread leaves its loop, on an error or on a second without a message
after the last send, the receiver is dropped and later echoes go to nobody.
`unheard` and `overrun` are the two ways a message may be lost.

### KafkaEcho

The wait of `consumer()` for its partition may end well (`JoinedWell`), with an
error or at its deadline (`JoinedBadly`). The two topics are empty at first:
they carry the echo's process id, and a `TopicAlreadyExists`, which
`create_topics` accepts, would need one with old messages in it under a reused
id. `enqueue` puts a message into the producer's queue while there is room.
librdkafka delivers the head of the queue, reports it failed for good, or
delivers it and, not having seen the acknowledgement, tries again.

### LazyReceiver

Two backends whose receiving port is built by the first `recv`, on the receive
thread, while the sender is already under way; Aeron in both its forms.
`Publish` is what a successful send does: heard by nobody, buffered, or
overwriting the oldest. `CanPublish` separates the backends: Aeron refuses where
iceoryx2 loses, and gives up at a deadline (`EchoGivesUp`, `ClientGivesUp`).
`Link` is Aeron's driver connecting a publication with a subscription some time
after both exist, or losing the connection again. On one host the measuring side
uses the driver of the echo process, which goes with that process; in
`aeron-remote` each side has its own and the measuring side's goes with its
sender (`Leave`), while the receive thread may still be running. That Aeron
loses nothing it accepted rests on its media driver repairing what the network
loses; a receiver that the driver gives up on is a `Link` that is lost.

### Campaign

`pc` is the script's place in its loop over the cells: sweep, start an echo over
ssh in the background, wait for READY, measure from host a, keep the line, kill
the local ssh, sweep again. `SweepBegins` and `SweepEnds` are the two `pkill`s of
one remote command and `SweepLost` is its `|| true`; the removal of the brokers'
directories at the end of that command can only make a broker exit, and a broker
may do so at any time here. An echo process goes on
when its ssh session ends; only a sweep ends it, and then its `Broker` value is
not dropped. A broker is `launching` while it still is a start script, under a
name the sweep does not match, `booting` until it binds the port, and `stopping`
for as long as it likes. Every ssh session may be lost, up to `MaxLost`, so that
an `rtt` may go on behind the script's back: host a is never swept. A record is
kept whether or not anybody answered; an `rtt` need not return at all. An echo
that fails drops its broker, one that is killed leaves it running (`EchoFails`).
`TearDown` ends in one of five ways: the hosts are gone, or were kept (`--keep`,
a hold file), or an aws call failed before or after they went. `missed`,
`strayRtt` and `escaped` are history: the failures that the properties name.

## 3. What is checked

Passing runs:

| Run | Properties | Shows |
|---|---|---|
| `shm_ring` | `RingInvariant`, `NoDataRace`, `ImplementsFifo`, `EveryMessageDelivered`, `SendReturns` | no torn, stale or overwritten message and no data race over three laps; the ring is a FIFO; every published message is delivered if the consumer lives, and `send` returns if it does not |
| `shm_setup` | `NoHalfBuiltRing`, `NoLostStore`, `OnlyOwnEchoes` | no half-built, left-over or differently sized ring is used; no page touch undoes a message |
| `shm_round_trip` | `RoundTripInvariant`, `StallShowsAsLag`, `ImplementsFifo`, `RunEnds` | stalls shorter than the read timeout cost neither a message nor an error; the loop through both rings is one FIFO, whether or not the echo process dies; the runner exits whoever stalls or dies |
| `rtt` | `RecordIsTrue`, `NoCoordinatedOmission`, `RunReturns` | drop count, measured count and elapsed time are true to what happened; no stall of the generator is hidden; the run returns, whoever fails |
| `run_lifecycle` | `LifecycleInvariant`, `LeftoversExplained`, `RecordTellsTruth`, `BrokerOutlivesChild`, `RunEnds` | what is left behind tells how far the run got or which clean-up call failed; the exit status tells whether the record is whole; a successful run stops the broker after the child; the run ends unless it waits for ever for one of the few things it sets no deadline for |
| `stream_echo` | `FramingIntact`, `ImplementsFifo`, `ReceiverEnds`, `AllReturned`, `SenderEnds` | framing survives partial reads and writes, timeouts and a peer killed at any byte; a living peer returns every message, or is silent for a whole timeout after the last send, or stalls longer than the code forgives; the receive thread ends, and the sender too unless the receive thread failed |
| `redis_stream` | `NothingVanishes`, `AllButTrimmedReturn` | nothing repeated or reordered, and lost only by being trimmed unread; what is not trimmed comes back, unless a command fails or the receive thread gives up after a second of silence that followed the last send |
| `nats` | `NothingVanishes`, `EchoesHaveAListener`, `RunEnds` | a message is lost only where it met no subscriber, with a cut-off connection, by trimming, or with its receiver; an echo goes to nobody only once the receiver has gone or was cut off; the run ends |
| `kafka` | `NoEarlyMessage`, `NothingVanishes`, `RunEnds` | no message meets a consumer still joining; what is enqueued is delivered or fails; retries alone repeat |
| `lazy_receiver` | `NothingVanishes`, `OnlyEarlyEchoesUnheard`, `RunEnds` | iceoryx2 loses only echoes published before the subscriber exists and what is overwritten; Aeron loses nothing it accepted; deadlines end every wait |
| `campaign` | `RecordsAreOwn`, `SweptIsClean`, `RigGoesDown` | which failures it takes for a record to be answered by another cell's processes; what a sweep leaves behind; the script gets to its tear-down, and which are the ways in which the rig stays up |

A module's `TypeOK` is the first conjunct of the main invariant a run checks, or
a theorem (`TypeCorrect` of `ShmRing`, `RttScenario` and `NatsEcho`,
`SetupTypeCorrect`).

One run in which the code does not do what a comment says:

| Run | Statement | What happens |
|---|---|---|
| `rtt_one_per_second` (`LosslessMeansNoDrops`) | scenario.rs:109-111, a timeout after the sender finished ends the drain, "the missing messages are never coming" | the flag is tested when the timeout is reported: a read that began before the sender finished ends the run with the last echo on its way |

Other divergences the models make visible are stated in the properties, as what
does hold:

- work directory and files are left by an early failure, contrary to
  broker.rs:3 (`LeftoversExplained` says which failures leave what);
- on an early return the broker is dropped before the child, though broker.rs:2
  has it "killed after it" (`BrokerOutlivesChild` holds of runs that succeed);
- a foreign broker answers the startup check (`foreign`): no property excludes
  it, the others hold with it;
- the errors of the clean-up calls are discarded (main.rs:291-301,
  broker.rs:122-126), so a run may report success with a process or a file left
  behind (`undone` in `LeftoversExplained`); the directory of the driver that
  `connect` starts for a remote Aeron peer is left by every such run, and the
  node of a killed iceoryx2 child until a later run reaps it;
- once the receive thread of a byte-stream run has failed, sends are gated on
  responses after all, contrary to scenario.rs:7 (`SenderEnds`);
- a duplicate stands in for a loss in the drop count (`RecordIsTrue`), and the
  elapsed time behind the achieved rate includes the drain;
- Redis trims unread entries that lib.rs:20-22 calls impossible to lose
  (`overrun` in `NothingVanishes`);
- the rig stays up without `--keep`, contrary to campaign.sh:5, after a ping that
  failed, with a hold file, by an aws call that failed or behind a measurement
  that never returns (`RigGoesDown` lists these); a broker still in its start
  script escapes the sweep (`SweptIsClean`).

One more met on the way changes no state and so is in no property: Kafka's scripts
are looked for in the user-space locations before `$PATH`, contrary to
broker.rs:11-13. The search is one step that may fail (`find`).

### Bounds

- `ShmRing`: three slots and ten messages are more than three laps, so a slot is
  reused with the producer both fresh and stale; two words are the fewest a
  message can be torn in. `MaxMsgs` bounds sends started.
- `ShmSetup`: two data pages, so a touch can be ahead of or behind the page
  being used; sizes 57 and 120 share a file length, 56 does not.
- `ShmRoundTrip`: four messages through rings of one slot, so that both rings
  fill while the echo has one in hand; a stall shorter than the read timeout and
  one longer than both timeouts, twice in any party.
- `RttScenario`: four messages, two of them warmup, at an interval that does not
  divide the second; one lost, one doubled, every wait late by up to one tick.
  `Timeout` is one tick longer than the longest silence those bounds allow before
  the last message is out, which is the condition under which the drop count is
  exact; yet a read of a peer that is gone times out while the sender is still at
  work. `RttSlow.cfg` shows what happens without the condition.
- `RunLifecycle`: seven backends, one of each kind of cleanup and two with a
  broker, one of them with storage to prepare. There is nothing to bound.
- `StreamEcho`: buffers of four pieces hold one and a third messages, so they
  fill in the middle of one. `StallWindows` bounds the timeouts inside one
  message; two is one more than the code forgives.
- `RedisStream`: six messages and streams that may be cut to two, so both
  readers can be overrun twice.
- `NatsEcho`, `KafkaEcho`, `LazyReceiver`: four to six messages against queues,
  buffers and streams of two or three; `MaxRetries` bounds the retries that have
  an effect.
- `Campaign`: two plain cells on one far host and two brokered ones on another,
  so that cells of both kinds follow one of the same kind and host, and a
  topology follows another; two lost sessions are enough for the two sweeps in a
  row, or the one sweep and the one measurement, that the properties name.

### Fairness

Threads and processes that can run do (weak fairness of each). The clock read in
a wait loop is eventually past the deadline (strong fairness of `SendTimedOut`
and `KnockTimedOut`: each is enabled again and again while the loop turns).
`shm_ring` assumes nothing of the consumer except where `EveryMessageDelivered`
says so, `RunLifecycle` nothing of broker, child, backend and commands: the
runner's own steps go on and every other wait is named in `RunEnds`. `KafkaEcho`
assumes nothing of the group coordinator. `Campaign` assumes nothing of the far
host, whose waits have deadlines in the script, and nothing of `rtt`, whose
session has none and is named in `RigGoesDown`. `RedisStream` and `StreamEcho`
do not assume that a read times out, and nothing keeps one from it. `NatsEcho`
needs strong fairness of the readers and of delivery, because an ordered
consumer may be reset any number of times; one that is reset for ever before
every read makes no progress in the code either. In the two timed modules,
`RttScenario` and `ShmRoundTrip`, whoever is scheduled runs and the clock
advances (weak fairness of `Next`). `KafkaEcho` and `LazyReceiver` take the read
timeout to be long against every delay (`Quiet`); `StreamEcho`, `RedisStream`
and `NatsEcho` let it pass with messages on their way. Deadlock is checked
everywhere but in `ShmSetup` (a client that failed, or a finished exchange, has
nothing to do) and `RedisStream` (all received, or a party has failed).

## 4. What is proved

All theorems hold for every value of the constants that satisfies the module's
named assumption, which only gives the constants their types and excludes zero
where the code does. Two have a hypothesis of their own, stated in the theorem:
`RecordIsCorrect` and `StallsAreOnlyLag`, below.

**`Shm_proofs`, the ring**: `TypeCorrect`, `RingInvariantHolds`;
`DeliveriesWhole`, `RaceFree`, `UnreadIntact` (each delivery is the next message
whole, the two copies never share a slot, an unread message stays);
`RingImplementsFifo` (the ring refines `SpscFifo`). The properties are not
inductive on their own. That a message is delivered whole depends on its slot
still being stamped and intact when the consumer gets to it (`PublishedIntact`),
which depends on the producer never entering the slot of an unread message
although it decides from an old cursor. `CursorBounds` says that the cached
cursor is never ahead (so the unsigned subtraction in `send` never wraps) and
the producer, once past its test, less than a ring ahead of it; `SlotsDiffer`
that numbers less than a ring apart have different slots. `StampsFromPast` (no
stamp is from the future) makes the consumer's exact comparison a proof that its
message has been published. The two `...Progress` parts say which words a copy
has already moved.

**`Shm_proofs`, the setup**: `SetupTypeCorrect`, `SetupInvariantHolds`,
`RingsAreComplete`, `StoresSurvive`, `EchoesAreOwn`. Types are not inductive
alone: the client reads a file, so it has to have one (`ClientHasFile`). The
invariant says that the magic of a ring is 0 until everything else has been done
to it (`MagicIsLast`); that whatever the client has accepted is finished
(`ClientProgress`); that a touch half done holds the word it will write back
(`TouchesHarmless`); and that data words are exactly the messages sent and
echoed (`WordsAreMessages`). With `Rewrite`, a touch then changes nothing at
all. `ClientProgress` is what keeps a store of the other side out from between
the two halves of a touch: stores need a connected client, and a connected
client has done its last touch.

**`ShmRoundTrip_proofs`**: `RoundTripInvariantHolds`, `RoundTripImplementsFifo`,
`StallsAreOnlyLag` (`StallShowsAsLag`). The echo loop has at most one message in
hand, the one it took last (`EchoVerbatim`); so the rings and its hand together
are one FIFO of `2 * Capacity + 1`, whatever stalls and deaths do. Every step is
a `send` of that FIFO (c2s), a `recv` (s2c) or a stutter. `StallsAreOnlyLag`
assumes what `backend-shm/src/lib.rs:45-47` sets, that a full ring is waited for
at least as long as a message (5 s and 1 s). Its invariant is an account of time
(`Punctual`): whoever waits, waits because another party is away or the next
message is not due, so what has run down of its deadline and what others still
have to be away is together no more than all stalls so far and, for the receive
thread, one gap of the schedule. A deadline can therefore not pass while the
stalls stay below the read timeout. That needs every wait to be for somebody: no
party waits on a ring that has what it waits for unless it is away itself, and
nobody is away for longer than the stalls account for (`Orderly`).

**`Runner_proofs`, the scenario**: `TypeCorrect`, `StallsAreNeverHidden`
(`NoCoordinatedOmission`), `ElapsedIsTheSchedule` (the part of `RecordIsTrue`
about the elapsed time), `NoLossIsHidden` (the part about
losses that needs no condition) and `RecordIsCorrect` (`RecordIsTrue`). The
argument for the histograms and the elapsed time: a `send` that returned did so
before now, and echo number n can only arrive after the first n sends have
returned (`Causal`); what was put into a histogram keeps its value (`SendsKept`,
`LagsKept`, `LatenciesKept`); and a target that a late `send` has passed counts
from the schedule and not from the `send`. For the counts: what was read and
what waits to be read is each delivered message once and the second copies
(`Counted`), and every echo after the warmup is in the histogram (`Measured`);
so at least as many messages are reported dropped as were lost, less the
duplicates, on any transport. That it is exactly as many is false where a read
can time out with messages still to come. `RecordIsCorrect` therefore has the
hypothesis `TimeoutOutlastsSilence`, a sum of `Timeout`'s rivals: the delay of
the transport, the sender's stalls, an interval of the schedule, and as many
sends again as the transport may lose. It is sufficient, and a little stronger
than what the run gets by with: it adds worst cases that do not coincide. At the
rates the tool is made for (thousands of messages a second, a timeout of one
second) it leaves room for hundreds of losses in a row. The proof shows that the
sender keeps to its schedule but for its stalls (`Paced`), that a message that
is not lost arrives in time (`Prompt`), and that what was delivered before a
read began was sent before it, too (`Silent`). When that read times out, take
the first message that was neither delivered nor lost: only lost ones lie
between the last delivered one and it, so it was due before the timeout. Hence a
timeout is reported only when nothing can come any more (`Quiet`), and what is
missing then is what the transport lost (`LossesCounted`).

**`Runner_proofs`, the lifecycle**, for every subset of the eleven backends:
`LifecycleInvariantHolds`, `LeftoversTellWhy`, `RecordsTellTruth`,
`BrokersOutliveChildren`. `Owned` says that what exists has an
owner, `Orphaned` what exists without one and at which failure that happened,
`StartedInOrder` what must be up by when; `Unwinds` and `Stops` that each drop or
stop finds what the ones before it achieved or noted in `undone`, and `Recorded`
that the line comes last. `CleanupIsComplete` says that `cleanup_paths` names all
a child creates but the iceoryx2 node.

**`NatsEcho_proofs`**: `TypeCorrect`, `EchoesAreHeard` (`EchoesHaveAListener`),
`NothingIsLost` (`NothingVanishes`). The client's subscription is queued on its
connection before its first message (`SubscribedFirst`) and the server takes a
connection in order, so when an echo arrives the server knows where to send it,
as long as the receiver has not gone and was not cut off (`Heard`).
What core NATS loses because the echo's subscription is not known yet precedes
everything that comes back (`LateInOrder`), because the echo reads and writes in
order. `Directions` says who publishes which way, `Startup` that nobody
publishes before READY, and that JetStream's two streams exist by then. For
`NothingIsLost`, what was sent is laid out as a `Line` of seven places: what was
received, and the inbox, the stream and the connection of either way. `Account`
says that the line is in order from its first place to its last and that line
and losses are together what was sent, without overlap. A read, a store, a
delivery or an echo moves a message one place on (`Advances`), a trim or
a receiver that goes drops some that become losses (`Shortened`), a cut-off drops
the last of an inbox and the first of the same side's connection, two gaps in the
line at once (`CutOffMoves`), and a recreated
consumer puts its whole inbox back in front of what is still undelivered
(`FallsBack`). That this neither repeats nor forgets anything is `Holds`:
between the oldest message of its inbox and the last it was sent, a consumer has
all that its stream still has. `StreamsInOrder` says the stream is in order, its
trimmed part included, and ahead of everything on its way to it; `PlainWires`
and `CoreStoresNothing` that a connection carries at most a subscription before
its messages and that core mode uses no stream.

**`KafkaEcho_proofs`**: `NobodyIsEarly` (`NoEarlyMessage`), `NothingIsLost`
(`NothingVanishes`). The echo prints READY only after its consumer has its
partition, the client sends only after READY and after its own consumer has
(`Announces`), and until then the logs are empty (`SilentFirst`). For
`NothingIsLost` the line is one sequence: what was received, then what is unread,
queued and in hand, back to the sender. Whatever librdkafka does to the head of a
queue leaves line and failures together what was sent, and, until the first
retry, the line in order and apart from the failures (`Accounted`); `Typed` is
the type invariant with the ranges that makes inductive.

**`Campaign_proofs`**: `RecordsAreTheirCells` (`RecordsAreOwn`),
`SweepsLeaveNothing` (`SweptIsClean`). A sweep that gets through leaves no echo
(`EchoesGone`) and, since no echo is left to start one, no broker but those named
(`BrokersGone`); the cell's own echo is started only after the sweep, so unless
two sweeps in a row are lost only its own echo can answer (`OwnMeasurement`). The
cells are visited in order (`InOrder`), hence one record each.

**`Streams_proofs`, byte streams**: `FramingHolds` (`FramingIntact`),
`StreamImplementsFifo` (`ImplementsFifo`). Which piece of which message it is
follows from its place alone: the `n`th of the run is `PieceAt(n)`, so a
sequence of pieces is intact if it starts where it should and counts on without
a gap (`From`). `Line` says this of the four places together, from the first
piece the receiver has not returned to the last one sent; a read, a write or an
echo moves one piece over a border between two of them. The echo writes only
when it has a whole message, and when it has written one its hand is empty again
(`Stages`). When it is killed the line breaks: what it has not written, and part
of what it has, is gone. What lies on the receiver's side of the break stays a
`Beginning` of the line, which is all that the refinement needs: a message is
returned when its last piece is read, and then every piece of it is that
message's (`Whole`). Each step therefore is a `Send` of the FIFO (the last piece
written), a `Receive` or a stutter.

**`Streams_proofs`, Redis**: `RedisInvariantHolds`, `NothingVanishesHolds`
(`NothingVanishes`). The server numbers the entries of a stream without a gap
and trims from the front, and a reply is handed out from the back, so stream and
reply are both runs of consecutive ids (`Up`, `Down`, `Numbered`), and what a
reader still has to hand out are the ids from its place on, those it has fetched
and those it has not. That makes what waits for a reader (`Waiting`) a set in
the order of its ids, whether or not the reply and the stream overlap, as they
do until the server trims what was fetched. `RecvAnyTakes` says that a
`recv_any` takes the first out of it, `XaddAdds` that an XADD adds a last one
and moves some that nobody has fetched to `overrun`. The messages received, on
their way back, in the echo's hand and on their way out are in this order
(`Ordered`) and together with `overrun` all that was sent (`Accounted`).
`Bounded` (the echo sends no more than it has received) gives the ids their
bound.

**`LazyReceiver_proofs`**, for iceoryx2 and both forms of Aeron at once:
`NothingVanishesHolds` (`NothingVanishes`), `OnlyEarlyEchoesUnheardHolds`
(`OnlyEarlyEchoesUnheard`). The line has the same four parts; a publication adds
to one of its borders, or is unheard, or overwrites the oldest of a full buffer
(`PublishMoves`). Who hears it is decided by how far the parties are (`Stages`):
an iceoryx2 client that is under way has seen READY, so the echo has its
subscription, and an Aeron offer succeeds only while connected; hence nothing of
the sender's is unheard. The receive thread has received nothing before its own
subscription exists, so what is unheard on the way back precedes everything else
(`Accounted`). That this stays so when the thread is done and drops its port
needs a count: each message received has a number no smaller than its place
(`Ordered`), so a thread that has counted all of them has the last one, and
leaves nothing behind that could still be echoed to nobody (`Finished`). Order
and account hold while both processes live and the receive thread has not
failed; afterwards the types and the stages remain.

Only model-checked: all liveness, since fairness and ENABLED are outside what the
proof system handles (`EveryMessageDelivered`, `SendReturns`, `RunReturns`,
`RunEnds`, `ReceiverEnds`, `AllReturned`, `SenderEnds`, `AllButTrimmedReturn`,
`RigGoesDown`); and that the counterexample `LosslessMeansNoDrops` exists.

## 5. Not modelled

- Reports and the smoke test: selection, formatting and drawing over a finished
  file; nothing happens concurrently and no state is kept.
- Percentiles, JSON and machine detection in `report.rs` and `lib.rs`: conversions
  without state of their own. What the record claims about counts and time is in
  `RttScenario`, how its line gets to disk in `RunLifecycle`.
- The scripts that create machines: straight-line calls of a cloud API.
- A runner that is killed by a signal: nothing in the code reacts to one. The
  process that the campaign kills, the echo with its broker, is in `Campaign`.
- The death of a broker in the middle of a run. For NATS it matters: `send`
  flushes without a deadline, so `RunEnds` of `NatsEcho` is about runs whose
  server lives. A connection that the server closes and the client library
  restores is in `NatsEcho`.
- The three header reads of `Ring::open_existing` are one step in `ShmSetup`
  (`ClientCheckHeader`): magic is written last and nothing is written after it.
- A Kafka topic with messages of an earlier run in it.
- Bind and accept of the stream sockets, which happen before `StreamEcho` begins
  and whose failures are `RunLifecycle`'s `connect` and `read_line`.
