------------------------------- MODULE NatsEcho -------------------------------
(***************************************************************************)
(* The NATS backends (src/crates/backend-nats/src/lib.rs): core NATS and   *)
(* JetStream.  Two client connections, one per process, carry commands to  *)
(* the server in order; the server serves the two in any order.            *)
(*                                                                         *)
(* Core NATS forgets a message nobody has subscribed to, and cuts off a    *)
(* subscriber that is too slow, which connects and subscribes again.       *)
(* JetStream stores every message of a subject a stream captures, up to    *)
(* max_messages, and an ordered consumer reads the stream from its         *)
(* beginning; when the consumer notices a gap it is recreated behind the   *)
(* last message it has handed out.  A receiver that goes, with its process *)
(* or because the receive thread has left its loop, takes its subscription *)
(* or consumer and all it holds along.                                     *)
(***************************************************************************)
EXTENDS Integers, Sequences, SequencesExt

CONSTANTS
    Kinds,      \* the backends to run, of {"nats", "jetstream"}
    Msgs,       \* messages of the run
    Pending,    \* messages a subscriber may be behind before it is cut off
    StreamMax   \* max_messages of a stream

ASSUME NatsAssumption ==
    /\ Kinds \subseteq {"nats", "jetstream"}
    /\ {Msgs, Pending, StreamMax} \subseteq Nat \ {0}

Ways == {"c2s", "s2c"}

VARIABLES
    kind,
    wire,       \* side -> commands the server has not taken, in order
    active,     \* server: way -> it knows a core subscription
    exists,     \* server: way -> a stream captures the subject
    stored,     \* server: way -> all messages that stream has stored
    trimmed,    \* server: way -> how many of them it has discarded
    given,      \* server: way -> how many of them the consumer was sent
    inbox,      \* way -> messages delivered to the subscriber and unread
    unheard,    \* history: way -> published when nothing would take it
    overrun,    \* history: way -> discarded on their way or unread
    cut,        \* history: the ways whose subscriber was cut off
    epc, announced,
    cpc, next,
    rpc, received

server   == <<active, exists, stored, trimmed, given, unheard, cut>>
echo     == <<epc, announced>>
client   == <<cpc, next>>
receiver == <<rpc, received>>
vars     == <<kind, wire, server, inbox, overrun, echo, client, receiver>>

JetStream == kind = "jetstream"

Init ==
    /\ kind \in Kinds
    /\ wire = [s \in {"echo", "client"} |-> <<>>]
    /\ active = [w \in Ways |-> FALSE] /\ exists = [w \in Ways |-> FALSE]
    /\ stored = [w \in Ways |-> <<>>]
    /\ trimmed = [w \in Ways |-> 0] /\ given = [w \in Ways |-> 0]
    /\ inbox = [w \in Ways |-> <<>>]
    /\ unheard = [w \in Ways |-> {}] /\ overrun = [w \in Ways |-> {}]
    /\ cut = {}
    /\ epc = "setup" /\ announced = FALSE
    /\ cpc = "ready" /\ next = 0
    /\ rpc = "unstarted" /\ received = <<>>

Sub(w)    == [op |-> "SUB", way |-> w, msg |-> -1]
Pub(w, m) == [op |-> "PUB", way |-> w, msg |-> m]

\* Mutant of Write: a publish that may have gone out is published again.
WriteTwice(side, command) ==
    wire' = [wire EXCEPT ![side] = @ \o
                IF command.op = "PUB" THEN <<command, command>> ELSE <<command>>]

\* A command goes out on the connection of a side (publish and flush, or a
\* subscribe, which nothing flushes).
Write(side, command) == wire' = [wire EXCEPT ![side] = Append(@, command)]

\* Mutant of EnsureStream: only the stream of the echoes is made.
EnsureEchoStream(w) == exists' = [exists EXCEPT !["s2c"] = TRUE]

\* get_or_create_stream: a request, answered.
EnsureStream(w) == exists' = [exists EXCEPT ![w] = TRUE]

-----------------------------------------------------------------------------
(* The server                                                              *)

\* The receivers that are there: the echo process and the receive thread.
Listens(w) == IF w = "c2s" THEN epc = "serve" ELSE rpc = "recv"

\* Core: a subscriber that holds all it may has no room for the message.
Deliver(w, m) ==
    IF Len(inbox[w]) < Pending
      THEN inbox' = [inbox EXCEPT ![w] = Append(@, m)] /\ UNCHANGED overrun
      ELSE overrun' = [overrun EXCEPT ![w] = @ \cup {m}] /\ UNCHANGED inbox

\* JetStream: store; beyond max_messages the oldest one is discarded.
Store(w, m) ==
    LET all  == Append(stored[w], m)
        drop == Len(all) - trimmed[w] > StreamMax
    IN  /\ stored' = [stored EXCEPT ![w] = all]
        /\ trimmed' = [trimmed EXCEPT ![w] = IF drop THEN @ + 1 ELSE @]
        /\ overrun' = [overrun EXCEPT ![w] =
              IF drop /\ given[w] <= trimmed[w] THEN @ \cup {all[trimmed[w] + 1]} ELSE @]

ServerTakes(side) ==
    /\ wire[side] # <<>>
    /\ wire' = [wire EXCEPT ![side] = Tail(@)]
    /\ LET c == Head(wire[side]) IN
       \/ /\ c.op = "SUB"
          /\ active' = [active EXCEPT ![c.way] = TRUE]
          /\ UNCHANGED <<stored, trimmed, unheard, inbox, overrun>>
       \/ /\ c.op = "PUB"
          /\ IF JetStream /\ exists[c.way]
               THEN Store(c.way, c.msg) /\ UNCHANGED <<active, unheard, inbox>>
             ELSE IF ~JetStream /\ active[c.way] /\ Listens(c.way)
               THEN Deliver(c.way, c.msg) /\ UNCHANGED <<active, stored, trimmed, unheard>>
             ELSE /\ unheard' = [unheard EXCEPT ![c.way] = @ \cup {c.msg}]
                  /\ UNCHANGED <<active, stored, trimmed, inbox, overrun>>
    /\ UNCHANGED <<kind, exists, given, cut, echo, client, receiver>>

\* The side that reads a way, and the way its own messages go.
Reader(w)   == IF w = "c2s" THEN "echo" ELSE "client"
Opposite(w) == IF w = "c2s" THEN "s2c" ELSE "c2s"

\* Core: the server closes the connection of a subscriber that is too slow.
\* Some of what the subscriber had not read and some of what the same side had
\* sent is gone; the client connects again, subscribes, and sends the rest.
CutOff(w) ==
    /\ ~JetStream /\ active[w] /\ Listens(w) /\ Len(inbox[w]) = Pending
    /\ active' = [active EXCEPT ![w] = FALSE]
    /\ cut' = cut \cup {w}
    /\ LET commands == wire[Reader(w)] IN
       \E k \in 0 .. Len(inbox[w]), j \in 0 .. Len(commands) :
          /\ inbox' = [inbox EXCEPT ![w] = SubSeq(@, 1, k)]
          /\ wire' = [wire EXCEPT ![Reader(w)] =
                <<Sub(w)>> \o SubSeq(commands, j + 1, Len(commands))]
          /\ overrun' = [overrun EXCEPT
                ![w] = @ \cup ToSet(SubSeq(inbox[w], k + 1, Len(inbox[w]))),
                ![Opposite(w)] = @ \cup {commands[i].msg : i \in 1 .. j}]
    /\ UNCHANGED <<kind, exists, stored, trimmed, given, unheard, echo, client, receiver>>

HasConsumer(w) == JetStream /\ Listens(w)

Later(a, b) == IF a > b THEN a ELSE b

\* The consumer's pull is served with the next retained message.
ConsumerDelivers(w) ==
    /\ HasConsumer(w)
    /\ Len(inbox[w]) < Pending
    /\ LET n == Later(given[w], trimmed[w]) + 1
       IN  /\ n <= Len(stored[w])
           /\ given' = [given EXCEPT ![w] = n]
           /\ inbox' = [inbox EXCEPT ![w] = Append(@, stored[w][n])]
    /\ UNCHANGED <<kind, wire, active, exists, stored, trimmed, unheard, cut, overrun,
                   echo, client, receiver>>

\* The ordered consumer is recreated behind the last message handed out; of
\* what it drops, the part the stream has discarded meanwhile is gone.
ConsumerReset(w) ==
    /\ HasConsumer(w)
    /\ inbox[w] # <<>>
    /\ LET first == CHOOSE i \in 1 .. Len(stored[w]) : stored[w][i] = Head(inbox[w])
       IN  /\ given' = [given EXCEPT ![w] = first - 1]
           /\ overrun' = [overrun EXCEPT ![w] = @ \cup
                 (ToSet(inbox[w]) \cap ToSet(SubSeq(stored[w], first, trimmed[w])))]
    /\ inbox' = [inbox EXCEPT ![w] = <<>>]
    /\ UNCHANGED <<kind, wire, active, exists, stored, trimmed, unheard, cut,
                   echo, client, receiver>>

-----------------------------------------------------------------------------
(* echo(), echo_js()                                                       *)

\* Core: subscribe, which only queues the command, then READY.
EchoSubscribes ==
    /\ epc = "setup" /\ ~JetStream
    /\ Write("echo", Sub("c2s"))
    /\ epc' = "serve" /\ announced' = TRUE
    /\ UNCHANGED <<kind, server, inbox, overrun, client, receiver>>

\* JetStream: the stream of c2s and its consumer, by request and reply.
EchoMakesIn ==
    /\ epc = "setup" /\ JetStream
    /\ EnsureStream("c2s")
    /\ epc' = "out"
    /\ UNCHANGED <<kind, wire, active, stored, trimmed, given, unheard, cut, inbox,
                   overrun, announced, client, receiver>>

\* Then the stream of s2c, then READY.
EchoMakesOut ==
    /\ epc = "out"
    /\ EnsureStream("s2c")
    /\ epc' = "serve" /\ announced' = TRUE
    /\ UNCHANGED <<kind, wire, active, stored, trimmed, given, unheard, cut, inbox,
                   overrun, client, receiver>>

EchoServe ==
    /\ epc = "serve"
    /\ inbox["c2s"] # <<>>
    /\ Write("echo", Pub("s2c", Head(inbox["c2s"])))
    /\ inbox' = [inbox EXCEPT !["c2s"] = Tail(@)]
    /\ UNCHANGED <<kind, server, overrun, echo, client, receiver>>

\* Any `?` of the echo, or the end of its subscription: the process is gone.
EchoFails ==
    /\ epc # "dead"
    /\ epc' = "dead"
    /\ inbox' = [inbox EXCEPT !["c2s"] = <<>>]
    /\ UNCHANGED <<kind, wire, server, overrun, announced, client, receiver>>

-----------------------------------------------------------------------------
(* connect(), connect_js(), and run_rtt                                    *)

ClientStart ==
    /\ cpc = "ready"
    /\ \/ announced /\ cpc' = "connect"
       \/ ~announced /\ epc = "dead" /\ cpc' = "failed"
    /\ UNCHANGED <<kind, wire, server, inbox, overrun, echo, next, receiver>>

StartRun == cpc' = "send" /\ rpc' = "recv"

\* Core: subscribe and flush on the connection that will publish.
\* JetStream: the stream of s2c and its consumer.
ClientConnects ==
    /\ cpc = "connect"
    /\ StartRun
    /\ IF JetStream THEN EnsureStream("s2c") /\ UNCHANGED wire
                    ELSE Write("client", Sub("s2c")) /\ UNCHANGED exists
    /\ UNCHANGED <<kind, active, stored, trimmed, given, unheard, cut, inbox,
                   overrun, echo, next, received>>

AfterSend == IF next + 1 = Msgs THEN "done" ELSE "send"

ClientSend ==
    /\ cpc = "send"
    /\ Write("client", Pub("c2s", next))
    /\ next' = next + 1
    /\ cpc' = AfterSend
    /\ UNCHANGED <<kind, server, inbox, overrun, echo, receiver>>

ClientFails ==
    /\ cpc \in {"connect", "send"}
    /\ cpc' = "failed"
    /\ UNCHANGED <<kind, wire, server, inbox, overrun, echo, next, receiver>>

\* The last of all messages ends the loop; nothing is left to be dropped.
RecvMsg ==
    /\ rpc = "recv"
    /\ inbox["s2c"] # <<>>
    /\ received' = Append(received, Head(inbox["s2c"]))
    /\ inbox' = [inbox EXCEPT !["s2c"] = Tail(@)]
    /\ rpc' = IF Len(received') = Msgs THEN "done" ELSE "recv"
    /\ UNCHANGED <<kind, wire, server, overrun, echo, client>>

\* What a consumer has not been sent yet and the stream still has.
Undelivered(w) == SubSeq(stored[w], Later(given[w], trimmed[w]) + 1, Len(stored[w]))

\* The messages on a connection: all commands but the subscription, which each
\* side sends first if it sends one.
Messages(commands) ==
    LET pubs == IF commands # <<>> /\ Head(commands).op = "SUB" THEN Tail(commands)
                                                              ELSE commands
    IN  [i \in DOMAIN pubs |-> pubs[i].msg]

\* Everything on its way back, the receiver's end first.
Coming == inbox["s2c"] \o Undelivered("s2c") \o Messages(wire["echo"])
Going  == inbox["c2s"] \o Undelivered("c2s") \o Messages(wire["client"])

\* Mutant of Quiet: no second is quiet enough.
QuietNever == FALSE

\* A second without a message, the last one sent; whatever is still on its way.
Quiet == cpc = "done" /\ inbox["s2c"] = <<>>

RecvTimedOut ==
    /\ rpc = "recv" /\ Quiet
    /\ rpc' = "done"
    /\ UNCHANGED <<kind, wire, server, inbox, overrun, echo, client, received>>

\* recv() fails, or the process ends after a failed send: the receiver is
\* dropped with what it holds.
RecvFails ==
    /\ rpc = "recv"
    /\ rpc' = "failed"
    /\ inbox' = [inbox EXCEPT !["s2c"] = <<>>]
    /\ overrun' = [overrun EXCEPT !["s2c"] = @ \cup ToSet(inbox["s2c"])]
    /\ UNCHANGED <<kind, wire, server, echo, client, received>>

-----------------------------------------------------------------------------
Echo     == EchoSubscribes \/ EchoMakesIn \/ EchoMakesOut \/ EchoServe
Client   == ClientStart \/ ClientConnects \/ ClientSend
Receiver == RecvMsg \/ RecvTimedOut
Server   == \/ \E side \in {"echo", "client"} : ServerTakes(side)
            \/ \E w \in Ways : ConsumerDelivers(w)
Failure  == EchoFails \/ ClientFails \/ RecvFails

Returned == cpc = "failed" \/ (cpc = "done" /\ rpc \in {"done", "failed"})
Over == Returned /\ UNCHANGED vars

Next == \/ Echo \/ Client \/ Receiver \/ Server \/ Failure \/ Over
        \/ \E w \in Ways : CutOff(w) \/ ConsumerReset(w)

Spec == Init /\ [][Next]_vars

\* Both processes and the receive thread run, the server takes what each
\* connection brings and serves pulls.  A consumer that is reset for ever makes
\* no progress: a reader with something in its inbox eventually reads it.
FairSpec == /\ Spec
            /\ SF_vars(EchoServe) /\ WF_vars(Echo) /\ WF_vars(Client)
            /\ SF_vars(RecvMsg) /\ WF_vars(Receiver)
            /\ \A side \in {"echo", "client"} : WF_vars(ServerTakes(side))
            /\ \A w \in Ways : SF_vars(ConsumerDelivers(w))

-----------------------------------------------------------------------------
(* Properties                                                              *)

Numbers == 0 .. Msgs - 1

TypeOK ==
    /\ kind \in Kinds
    /\ \A s \in DOMAIN wire : \A i \in DOMAIN wire[s] :
          wire[s][i] \in [op : {"SUB", "PUB"}, way : Ways, msg : Numbers \cup {-1}]
    /\ {active, exists} \subseteq [Ways -> BOOLEAN] /\ cut \subseteq Ways
    /\ \A w \in Ways :
          /\ ToSet(stored[w]) \cup ToSet(inbox[w]) \cup unheard[w] \cup overrun[w]
               \subseteq Numbers
          /\ {trimmed[w], given[w]} \subseteq 0 .. Len(stored[w])
          /\ Len(inbox[w]) <= Pending
    /\ epc \in {"setup", "out", "serve", "dead"} /\ announced \in BOOLEAN
    /\ cpc \in {"ready", "connect", "send", "done", "failed"} /\ next \in 0 .. Msgs
    /\ rpc \in {"unstarted", "recv", "done", "failed"}
    /\ ToSet(received) \subseteq Numbers

\* While the echo process lives, every message sent has been received, is on its
\* way, in order and once, or was lost because nothing took it or because it
\* was discarded: by a stream or a reader that is full, with a connection that
\* was cut off, or with the receiver.  Resets, cut-offs and trimming neither
\* repeat nor reorder.
NothingVanishes ==
    LET way  == received \o Coming \o Going
        lost == UNION {unheard[w] \cup overrun[w] : w \in Ways}
    IN  /\ TypeOK
        /\ epc # "dead" =>
             /\ \A i, j \in DOMAIN way : i < j => way[i] < way[j]
             /\ ToSet(way) \cup lost = 0 .. next - 1
             /\ ToSet(way) \cap lost = {}

\* As long as the receiver is there and was not cut off, no echo is published
\* to nobody: connect() subscribes on the connection it will publish on
\* (lib.rs:91: "Server processes the SUB before anything we later publish").
\* JetStream captures every message of either way.  Core NATS, whose READY does
\* not wait for the server, hears the measuring side's from some message on, as
\* long as the echo was not cut off.
EchoesHaveAListener ==
    epc # "dead" =>
        /\ JetStream => \A w \in Ways : unheard[w] = {}
        /\ rpc = "recv" /\ "s2c" \notin cut => unheard["s2c"] = {}
        /\ "c2s" \notin cut =>
             \A m \in unheard["c2s"], n \in ToSet(inbox["s2c"]) \cup ToSet(received) : m < n

\* The run comes to its end whatever is lost and whoever fails.
RunEnds == <>Returned
=============================================================================
