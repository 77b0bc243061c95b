------------------------------ MODULE KafkaEcho ------------------------------
(***************************************************************************)
(* The Kafka backend (src/crates/backend-kafka/src/lib.rs): a topic per    *)
(* direction, a consumer on each side that waits until it owns its         *)
(* partition before the run begins, and producers that only enqueue.       *)
(*                                                                         *)
(* librdkafka's own threads (external) take messages from a producer's     *)
(* queue to the topic's log.  A request may fail for good, or be retried,  *)
(* and without enable.idempotence a retry may repeat or reorder messages.  *)
(***************************************************************************)
EXTENDS Integers, Sequences, SequencesExt

CONSTANTS
    Msgs,        \* messages of the run
    QueueMax,    \* messages a producer's queue holds
    MaxRetries   \* bound: requests that are retried with an effect

ASSUME KafkaAssumption ==
    {Msgs, QueueMax} \subseteq Nat \ {0} /\ MaxRetries \in Nat

Ways == {"c2s", "s2c"}

VARIABLES
    topics,     \* broker: the two topics exist
    group,      \* way -> its consumer: "none", "joining", "assigned"
    log,        \* broker: way -> the messages of the topic
    position,   \* way -> how many of them its consumer has returned
    queue,      \* way -> its producer's queue
    failed,     \* history: messages whose delivery failed for good
    retries,    \* bound: retries so far
    early,      \* history: a consumer met a message while still joining
    epc, hand, announced,
    cpc, next,
    rpc, received

kafka    == <<log, queue, failed, retries>>
echo     == <<epc, hand, announced>>
client   == <<cpc, next>>
receiver == <<rpc, received>>
vars     == <<topics, group, position, early, kafka, echo, client, receiver>>

Init ==
    /\ topics = FALSE
    /\ group = [w \in Ways |-> "none"]
    /\ log = [w \in Ways |-> <<>>] /\ position = [w \in Ways |-> 0]
    /\ queue = [w \in Ways |-> <<>>]
    /\ failed = {} /\ retries = 0 /\ early = FALSE
    /\ epc = "topics" /\ hand = -1 /\ announced = FALSE
    /\ cpc = "ready" /\ next = 0
    /\ rpc = "unstarted" /\ received = <<>>

-----------------------------------------------------------------------------
(* The broker and librdkafka                                               *)

\* The coordinator hands out the partition, if and when it likes.
Assign(w) ==
    /\ topics /\ group[w] = "joining"
    /\ group' = [group EXCEPT ![w] = "assigned"]
    /\ UNCHANGED <<topics, position, early, kafka, echo, client, receiver>>

Written(w, m) == log' = [log EXCEPT ![w] = Append(@, m)]

Delivered(w) ==
    /\ queue[w] # <<>>
    /\ queue' = [queue EXCEPT ![w] = Tail(@)]
    /\ \/ Written(w, Head(queue[w])) /\ UNCHANGED failed
       \/ failed' = failed \cup {Head(queue[w])} /\ UNCHANGED log
    /\ UNCHANGED <<topics, group, position, early, retries, echo, client, receiver>>

\* A request is retried: it had been written and is written again, or a later
\* one goes before it.
Retried(w) ==
    /\ queue[w] # <<>> /\ retries < MaxRetries
    /\ retries' = retries + 1
    /\ \/ Written(w, Head(queue[w])) /\ UNCHANGED queue
       \/ /\ Len(queue[w]) > 1
          /\ Written(w, queue[w][2])
          /\ queue' = [queue EXCEPT ![w] = RemoveAt(@, 2)]
    /\ UNCHANGED <<topics, group, position, early, failed, echo, client, receiver>>

-----------------------------------------------------------------------------
(* consumer(), enqueue(), as both sides use them                           *)

Subscribe(w) == group' = [group EXCEPT ![w] = "joining"]

\* The next message of a poll.
HasNext(w) == group[w] = "assigned" /\ position[w] < Len(log[w])
TheNext(w) == log[w][position[w] + 1]

\* Mutant of Advance: the position may run ahead of the reader.
AdvanceToEnd(w) == position' = [position EXCEPT ![w] = Len(log[w])]

Advance(w) == position' = [position EXCEPT ![w] = @ + 1]

\* The wait for the assignment ends well if the poll that brings it brings no
\* message, and badly with a message, an error or after 30 seconds.
JoinedWell(w)  == group[w] = "assigned" /\ UNCHANGED early

\* Mutant of JoinedBadly: the wait has neither deadline nor errors.
JoinedNever(w) == FALSE /\ early' = early

JoinedBadly(w) == early' = (early \/ HasNext(w))

\* QueueFull makes enqueue() poll and try again.
CanEnqueue(w) == Len(queue[w]) < QueueMax
Enqueue(w, m) == queue' = [queue EXCEPT ![w] = Append(@, m)]

-----------------------------------------------------------------------------
(* echo()                                                                  *)

EchoCreatesTopics ==
    /\ epc = "topics"
    /\ \/ topics' = TRUE /\ epc' = "subscribe"
       \/ topics' \in BOOLEAN /\ epc' = "dead"
    /\ UNCHANGED <<group, position, early, kafka, hand, announced, client, receiver>>

\* Mutant of EchoSubscribes: READY comes before the wait for the partition.
EchoSubscribesAndAnnounces ==
    /\ epc = "subscribe"
    /\ Subscribe("c2s")
    /\ epc' = "join"
    /\ announced' = TRUE
    /\ UNCHANGED <<topics, position, early, kafka, hand, client, receiver>>

EchoSubscribes ==
    /\ epc = "subscribe"
    /\ Subscribe("c2s")
    /\ epc' = "join"
    /\ UNCHANGED <<topics, position, early, kafka, hand, announced, client, receiver>>

\* The partition is the echo's: create the producer, announce READY.
EchoJoins ==
    /\ epc = "join"
    /\ \/ JoinedWell("c2s") /\ epc' = "poll" /\ announced' = TRUE
       \/ JoinedBadly("c2s") /\ epc' = "dead" /\ UNCHANGED announced
    /\ UNCHANGED <<topics, group, position, kafka, hand, client, receiver>>

EchoPoll ==
    /\ epc = "poll"
    /\ HasNext("c2s")
    /\ hand' = TheNext("c2s")
    /\ Advance("c2s")
    /\ epc' = "enqueue"
    /\ UNCHANGED <<topics, group, early, kafka, announced, client, receiver>>

EchoEnqueue ==
    /\ epc = "enqueue"
    /\ CanEnqueue("s2c")
    /\ Enqueue("s2c", hand)
    /\ hand' = -1
    /\ epc' = "poll"
    /\ UNCHANGED <<topics, group, position, early, log, failed, retries, announced,
                   client, receiver>>

\* A poll or a send returns an error: echo() returns it.
EchoFails ==
    /\ epc \in {"poll", "enqueue"}
    /\ epc' = "dead"
    /\ UNCHANGED <<topics, group, position, early, kafka, hand, announced, client, receiver>>

-----------------------------------------------------------------------------
(* connect(), and run_rtt                                                  *)

ClientStart ==
    /\ cpc = "ready"
    /\ \/ announced /\ cpc' = "connect"
       \/ ~announced /\ epc = "dead" /\ cpc' = "failed"
    /\ UNCHANGED <<topics, group, position, early, kafka, echo, next, receiver>>

ClientSubscribes ==
    /\ cpc = "connect"
    /\ Subscribe("s2c")
    /\ cpc' = "join"
    /\ UNCHANGED <<topics, position, early, kafka, echo, next, receiver>>

ClientJoins ==
    /\ cpc = "join"
    /\ \/ JoinedWell("s2c") /\ cpc' = "send" /\ rpc' = "recv"
       \/ JoinedBadly("s2c") /\ cpc' = "failed" /\ UNCHANGED rpc
    /\ UNCHANGED <<topics, group, position, kafka, echo, next, received>>

ClientSend ==
    /\ cpc = "send"
    /\ CanEnqueue("c2s")
    /\ Enqueue("c2s", next)
    /\ next' = next + 1
    /\ cpc' = IF next' = Msgs THEN "done" ELSE "send"
    /\ UNCHANGED <<topics, group, position, early, log, failed, retries, echo, receiver>>

ClientFails ==
    /\ cpc \in {"connect", "send"}
    /\ cpc' = "failed"
    /\ UNCHANGED <<topics, group, position, early, kafka, echo, next, receiver>>

RecvMsg ==
    /\ rpc = "recv"
    /\ HasNext("s2c")
    /\ received' = Append(received, TheNext("s2c"))
    /\ Advance("s2c")
    /\ rpc' = IF Len(received') = Msgs THEN "done" ELSE "recv"
    /\ UNCHANGED <<topics, group, early, kafka, echo, client>>

\* Everything on its way back, the receiver's end first.
Unread(w) == SubSeq(log[w], position[w] + 1, Len(log[w]))
Coming == Unread("s2c") \o queue["s2c"]
Going  == (IF hand = -1 THEN <<>> ELSE <<hand>>) \o Unread("c2s") \o queue["c2s"]

\* A second without a message after the last send: by then everything that
\* could still come has come (the timeout is long against every delay).
Quiet == cpc = "done" /\ Coming = <<>> /\ (Going = <<>> \/ epc = "dead")

RecvDrained ==
    /\ rpc = "recv" /\ Quiet
    /\ rpc' = "done"
    /\ UNCHANGED <<topics, group, position, early, kafka, echo, client, received>>

RecvFails ==
    /\ rpc = "recv"
    /\ rpc' = "failed"
    /\ UNCHANGED <<topics, group, position, early, kafka, echo, client, received>>

-----------------------------------------------------------------------------
Echo     == EchoCreatesTopics \/ EchoSubscribes \/ EchoJoins \/ EchoPoll \/ EchoEnqueue
Client   == ClientStart \/ ClientSubscribes \/ ClientJoins \/ ClientSend
Receiver == RecvMsg \/ RecvDrained
Kafka    == \E w \in Ways : Assign(w) \/ Delivered(w) \/ Retried(w)
Failure  == EchoFails \/ ClientFails \/ RecvFails

Returned == cpc = "failed" \/ (cpc = "done" /\ rpc \in {"done", "failed"})
Over == Returned /\ UNCHANGED vars

Next == Echo \/ Client \/ Receiver \/ Kafka \/ Failure \/ Over

Spec == Init /\ [][Next]_vars

\* Both processes and the receive thread run, and librdkafka delivers what is
\* queued or reports it failed.  Of the coordinator nothing is assumed.
FairSpec == /\ Spec
            /\ WF_vars(Echo) /\ WF_vars(Client) /\ WF_vars(Receiver)
            /\ \A w \in Ways : WF_vars(Delivered(w))

-----------------------------------------------------------------------------
(* Properties                                                              *)

Numbers == 0 .. Msgs - 1

TypeOK ==
    /\ topics \in BOOLEAN /\ early \in BOOLEAN /\ announced \in BOOLEAN
    /\ group \in [Ways -> {"none", "joining", "assigned"}]
    /\ \A w \in Ways :
          /\ ToSet(log[w]) \cup ToSet(queue[w]) \subseteq Numbers
          /\ position[w] \in 0 .. Len(log[w])
          /\ Len(queue[w]) <= QueueMax
    /\ failed \subseteq Numbers /\ retries \in 0 .. MaxRetries
    /\ epc \in {"topics", "subscribe", "join", "poll", "enqueue", "dead"}
    /\ hand \in Numbers \cup {-1}
    /\ cpc \in {"ready", "connect", "join", "send", "done", "failed"}
    /\ next \in 0 .. Msgs
    /\ rpc \in {"unstarted", "recv", "done", "failed"}
    /\ ToSet(received) \subseteq Numbers

\* lib.rs:72-74: "no messages can predate assignment here, because both ends do
\* this wait before the first message of a run is ever published".  So the
\* error the wait has for a message is never raised.
NoEarlyMessage == ~early

\* While the echo process lives, every message sent is received, on its way or
\* its delivery has failed for good; where nothing was retried, in order, once,
\* and never both delivered and failed.
NothingVanishes ==
    LET way == received \o Coming \o Going
    IN  /\ TypeOK
        /\ epc # "dead" =>
             /\ ToSet(way) \cup failed = 0 .. next - 1
             /\ retries = 0 =>
                   /\ \A i, j \in DOMAIN way : i < j => way[i] < way[j]
                   /\ ToSet(way) \cap failed = {}

\* The run comes to its end even if the coordinator never answers or the queue
\* is full again and again.
RunEnds == <>Returned
=============================================================================
