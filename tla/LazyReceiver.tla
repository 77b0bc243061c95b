----------------------------- MODULE LazyReceiver -----------------------------
(***************************************************************************)
(* The iceoryx2 and Aeron backends                                         *)
(* (src/crates/backend-iceoryx2/src/lib.rs, backend-aeron/src/lib.rs):     *)
(* publish/subscribe over shared memory, one service or stream per         *)
(* direction, where the measuring side's receiver is built by its own      *)
(* first recv(), on the receive thread, when messages are already under    *)
(* way.                                                                    *)
(*                                                                         *)
(* The two differ in what a publication does that nobody can take:         *)
(* iceoryx2 drops (to nobody) or overwrites the oldest (buffer full);      *)
(* Aeron refuses, and offer_blocking tries again up to a deadline.  Aeron   *)
(* runs on one host, where both processes use the echo's media driver, or  *)
(* on two ("aeron-remote"), where each process has its own.                *)
(***************************************************************************)
EXTENDS Integers, Sequences, FiniteSets, SequencesExt

CONSTANTS
    Backends,   \* the backends to run, of AllBackends
    Msgs,       \* messages of the run
    Buffer      \* BUFFER_SIZE, or the window of an Aeron log

AllBackends == {"iceoryx2", "aeron", "aeron-remote"}

ASSUME LazyAssumption ==
    /\ Backends \subseteq AllBackends
    /\ {Msgs, Buffer} \subseteq Nat \ {0}

Ways  == {"c2s", "s2c"}
Sides == {"echo", "here"}

VARIABLES
    backend,
    driver,     \* side -> the Aeron media driver in its process: "none",
                \* "starting", "up"
    pub, sub,   \* way -> its publication, its subscription exists
    link,       \* way -> Aeron has connected the two
    unread,     \* way -> messages the subscriber has not taken
    unheard,    \* history: way -> messages published to nobody
    overrun,    \* history: way -> messages overwritten unread
    epc, hand,  \* echo process: where it is, the message it sends back
    announced,  \* READY
    cpc, next,  \* the measuring side's own thread: connect(), then run_rtt
    rpc,        \* its receive thread
    received    \* what recv() returned, in order

ports    == <<driver, pub, sub, link>>
medium   == <<unread, unheard, overrun>>
echo     == <<epc, hand, announced>>
client   == <<cpc, next>>
receiver == <<rpc, received>>
vars     == <<backend, ports, medium, echo, client, receiver>>

Remote == backend = "aeron-remote"
Aeron  == Remote \/ backend = "aeron"

\* The driver the measuring side attaches to: the echo's, whose directory READY
\* announces, or its own when the address names the endpoints of two hosts.
Mine == IF Remote THEN "here" ELSE "echo"

\* A port is made by the driver; iceoryx2 has none.
PortGranted == Aeron => driver[Mine] = "up"

\* Where a side begins to build its ports.
FirstPort(port) == IF Aeron THEN "attach" ELSE port

Init ==
    /\ backend \in Backends
    /\ driver = [s \in Sides |-> "none"]
    /\ pub = [w \in Ways |-> FALSE] /\ sub = [w \in Ways |-> FALSE]
    /\ link = [w \in Ways |-> FALSE]
    /\ unread = [w \in Ways |-> <<>>]
    /\ unheard = [w \in Ways |-> {}] /\ overrun = [w \in Ways |-> {}]
    /\ epc = IF Aeron THEN "driver" ELSE "subscription"
    /\ hand = -1 /\ announced = FALSE
    /\ cpc = "ready" /\ next = 0
    /\ rpc = "unstarted" /\ received = <<>>

-----------------------------------------------------------------------------
(* Publishing                                                              *)

Heard(w) == IF Aeron THEN link[w] ELSE sub[w]

\* Mutant of CanPublish: an offer that is not connected is taken for done.
CanPublishUnlinked(w) == Aeron => ~link[w] \/ Len(unread[w]) < Buffer

\* Aeron's offer() fails while the publication is not connected or its window
\* is full; iceoryx2's send() always succeeds.
CanPublish(w) == Aeron => link[w] /\ Len(unread[w]) < Buffer

\* What a successful send does with message m.
Publish(w, m) ==
    IF ~Heard(w)
      THEN /\ unheard' = [unheard EXCEPT ![w] = @ \cup {m}]
           /\ UNCHANGED <<unread, overrun>>
    ELSE IF Len(unread[w]) < Buffer
      THEN /\ unread' = [unread EXCEPT ![w] = Append(@, m)]
           /\ UNCHANGED <<unheard, overrun>>
    ELSE /\ unread' = [unread EXCEPT ![w] = Append(Tail(@), m)]
         /\ overrun' = [overrun EXCEPT ![w] = @ \cup {Head(unread[w])}]
         /\ UNCHANGED unheard

-----------------------------------------------------------------------------
(* echo()                                                                  *)

\* The echo process ends, and all it owns with it: its ports and the driver.
EchoEnds ==
    /\ epc' = "dead"
    /\ pub' = [pub EXCEPT !["s2c"] = FALSE]
    /\ sub' = [sub EXCEPT !["c2s"] = FALSE]
    /\ driver' = [driver EXCEPT !["echo"] = "none"]

EchoGoesTo(p) == epc' = p

EchoLaunchDriver ==
    /\ epc = "driver"
    /\ \/ EchoEnds
       \/ /\ EchoGoesTo("attach") /\ UNCHANGED <<pub, sub>>
          /\ driver' = [driver EXCEPT !["echo"] = "starting"]
    /\ UNCHANGED <<backend, link, medium, hand, announced, client, receiver>>

\* attach_client: retried until the driver is up or the deadline has passed.
EchoAttach ==
    /\ epc = "attach"
    /\ \/ driver["echo"] = "up" /\ EchoGoesTo("subscription") /\ UNCHANGED <<driver, pub, sub>>
       \/ EchoEnds
    /\ UNCHANGED <<backend, link, medium, hand, announced, client, receiver>>

EchoSubscribes ==
    /\ epc = "subscription"
    /\ \/ EchoGoesTo("publication") /\ sub' = [sub EXCEPT !["c2s"] = TRUE]
             /\ UNCHANGED <<driver, pub>>
       \/ EchoEnds
    /\ UNCHANGED <<backend, link, medium, hand, announced, client, receiver>>

\* The last port, then READY.
EchoPublishes ==
    /\ epc = "publication"
    /\ \/ EchoGoesTo("poll") /\ pub' = [pub EXCEPT !["s2c"] = TRUE] /\ announced' = TRUE
             /\ UNCHANGED <<driver, sub>>
       \/ EchoEnds /\ UNCHANGED announced
    /\ UNCHANGED <<backend, link, medium, hand, client, receiver>>

EchoPoll ==
    /\ epc = "poll"
    /\ unread["c2s"] # <<>>
    /\ hand' = Head(unread["c2s"])
    /\ unread' = [unread EXCEPT !["c2s"] = Tail(@)]
    /\ EchoGoesTo("send")
    /\ UNCHANGED <<backend, ports, unheard, overrun, announced, client, receiver>>

EchoSend ==
    /\ epc = "send"
    /\ CanPublish("s2c")
    /\ Publish("s2c", hand)
    /\ hand' = -1
    /\ EchoGoesTo("poll")
    /\ UNCHANGED <<backend, ports, announced, client, receiver>>

\* Aeron: the offer is past its deadline; the handler panics.
EchoGivesUp ==
    /\ epc = "send"
    /\ ~CanPublish("s2c")
    /\ EchoEnds
    /\ UNCHANGED <<backend, link, medium, hand, announced, client, receiver>>

\* receive() or poll(), a loan or a send, returns an error: echo() returns it.
EchoFails ==
    /\ epc = "poll" \/ (epc = "send" /\ ~Aeron)
    /\ EchoEnds
    /\ UNCHANGED <<backend, link, medium, hand, announced, client, receiver>>

-----------------------------------------------------------------------------
(* connect(), and run_rtt's sending thread                                 *)

\* connect() or run_rtt leaves, and drops the sender and the driver it owns.
Leave(p) ==
    /\ cpc' = p
    /\ pub' = [pub EXCEPT !["c2s"] = FALSE]
    /\ driver' = [driver EXCEPT !["here"] = "none"]

\* The runner has read READY, or the end of the child's output; nothing makes
\* it wait for an echo process on another host.
ClientStart ==
    /\ cpc = "ready"
    /\ \/ Remote /\ cpc' = "driver"
       \/ ~Remote /\ announced /\ cpc' = FirstPort("publication")
       \/ ~Remote /\ ~announced /\ epc = "dead" /\ cpc' = "failed"
    /\ UNCHANGED <<backend, ports, medium, echo, next, receiver>>

ClientLaunchDriver ==
    /\ cpc = "driver"
    /\ \/ /\ cpc' = "attach" /\ UNCHANGED pub
          /\ driver' = [driver EXCEPT !["here"] = "starting"]
       \/ Leave("failed")
    /\ UNCHANGED <<backend, sub, link, medium, echo, next, receiver>>

ClientAttach ==
    /\ cpc = "attach"
    /\ \/ driver[Mine] = "up" /\ cpc' = "publication" /\ UNCHANGED <<pub, driver>>
       \/ Leave("failed")
    /\ UNCHANGED <<backend, sub, link, medium, echo, next, receiver>>

\* run_rtt starts the receive thread, which owns an empty receiver.
StartRun == cpc' = "send" /\ rpc' = FirstPort("subscription")

ClientPublishes ==
    /\ cpc = "publication"
    /\ \/ /\ PortGranted
          /\ pub' = [pub EXCEPT !["c2s"] = TRUE] /\ UNCHANGED driver
          /\ IF Aeron THEN cpc' = "connecting" /\ UNCHANGED rpc ELSE StartRun
       \/ Leave("failed") /\ UNCHANGED rpc
    /\ UNCHANGED <<backend, sub, link, medium, echo, next, received>>

\* Aeron: wait for the echo's subscription, up to SETUP_TIMEOUT.
ClientConnected ==
    /\ cpc = "connecting"
    /\ \/ link["c2s"] /\ StartRun /\ UNCHANGED <<pub, driver>>
       \/ ~link["c2s"] /\ Leave("failed") /\ UNCHANGED rpc
    /\ UNCHANGED <<backend, sub, link, medium, echo, next, received>>

ClientSend ==
    /\ cpc = "send"
    /\ CanPublish("c2s")
    /\ Publish("c2s", next)
    /\ next' = next + 1
    /\ cpc' = IF next' = Msgs THEN "done" ELSE "send"
    /\ UNCHANGED <<backend, ports, echo, receiver>>

\* Mutant of ClientGivesUp: offers are retried without a deadline.
ClientRetries == cpc = "send" /\ ~CanPublish("c2s") /\ UNCHANGED vars

\* Aeron: past the deadline offer_blocking returns the error; run_rtt does too.
ClientGivesUp ==
    /\ cpc = "send"
    /\ ~CanPublish("c2s")
    /\ Leave("failed")
    /\ UNCHANGED <<backend, sub, link, medium, echo, next, receiver>>

\* iceoryx2: a loan or a send returns an error.
ClientSendFails ==
    /\ cpc = "send" /\ ~Aeron
    /\ Leave("failed")
    /\ UNCHANGED <<backend, sub, link, medium, echo, next, receiver>>

\* run_rtt has joined the receive thread: it returns.
ClientReturns ==
    /\ cpc = "done" /\ rpc \in {"done", "failed"}
    /\ Leave("returned")
    /\ UNCHANGED <<backend, sub, link, medium, echo, next, receiver>>

-----------------------------------------------------------------------------
(* LazyReceiver::recv, on the receive thread                               *)

RecvAttach ==
    /\ rpc = "attach"
    /\ \/ driver[Mine] = "up" /\ rpc' = "subscription"
       \/ rpc' = "failed"
    /\ UNCHANGED <<backend, ports, medium, echo, client, received>>

RecvSubscribes ==
    /\ rpc = "subscription"
    /\ \/ PortGranted /\ rpc' = "poll" /\ sub' = [sub EXCEPT !["s2c"] = TRUE]
       \/ rpc' = "failed" /\ UNCHANGED sub
    /\ UNCHANGED <<backend, driver, pub, link, medium, echo, client, received>>

\* Mutant of AfterMsg: the port lives for one call only.
AfterMsgPerCall == IF Len(received) + 1 = Msgs THEN "done" ELSE "subscription"

\* The thread that has everything returns and drops the receiver.
AfterMsg == IF Len(received) + 1 = Msgs THEN "done" ELSE "poll"

RecvMsg ==
    /\ rpc = "poll"
    /\ unread["s2c"] # <<>>
    /\ received' = Append(received, Head(unread["s2c"]))
    /\ unread' = [unread EXCEPT !["s2c"] = Tail(@)]
    /\ rpc' = AfterMsg
    /\ sub' = [sub EXCEPT !["s2c"] = AfterMsg = "poll"]
    /\ UNCHANGED <<backend, driver, pub, link, unheard, overrun, echo, client>>

\* A second without a message after the last send: by then everything that
\* could still come has come (the timeout is long against every delay).
Quiet == /\ cpc = "done" /\ unread["s2c"] = <<>>
         /\ epc = "dead" \/ (unread["c2s"] = <<>> /\ hand = -1)

RecvDrained ==
    /\ rpc = "poll"
    /\ Quiet
    /\ rpc' = "done"
    /\ sub' = [sub EXCEPT !["s2c"] = FALSE]
    /\ UNCHANGED <<backend, driver, pub, link, medium, echo, client, received>>

\* recv() returns an error: the thread ends and drops the receiver.
RecvFails ==
    /\ rpc = "poll"
    /\ rpc' = "failed"
    /\ sub' = [sub EXCEPT !["s2c"] = FALSE]
    /\ UNCHANGED <<backend, driver, pub, link, medium, echo, client, received>>

-----------------------------------------------------------------------------
(* Aeron's driver and conductors                                           *)

DriverStarts(side) ==
    /\ driver[side] = "starting"
    /\ driver' = [driver EXCEPT ![side] = "up"]
    /\ UNCHANGED <<backend, pub, sub, link, medium, echo, client, receiver>>

CanLink(w) == driver["echo"] = "up" /\ driver[Mine] = "up" /\ pub[w] /\ sub[w]

Link(w) ==
    /\ Aeron /\ link[w] # CanLink(w)
    /\ link' = [link EXCEPT ![w] = CanLink(w)]
    /\ UNCHANGED <<backend, driver, pub, sub, medium, echo, client, receiver>>

-----------------------------------------------------------------------------
Echo == \/ EchoLaunchDriver \/ EchoAttach \/ EchoSubscribes \/ EchoPublishes
        \/ EchoPoll \/ EchoSend \/ EchoGivesUp
Client == \/ ClientStart \/ ClientLaunchDriver \/ ClientAttach \/ ClientPublishes
          \/ ClientConnected \/ ClientSend \/ ClientGivesUp \/ ClientReturns
Receiver == RecvAttach \/ RecvSubscribes \/ RecvMsg \/ RecvDrained
Driver == (\E side \in Sides : DriverStarts(side)) \/ (\E w \in Ways : Link(w))

\* run_rtt, or connect() before it, has returned.
Returned == cpc \in {"failed", "returned"}

Over == Returned /\ UNCHANGED vars

Failure == EchoFails \/ ClientSendFails \/ RecvFails

Next == Echo \/ Client \/ Receiver \/ Failure \/ Driver \/ Over

Spec == Init /\ [][Next]_vars

\* Both processes, the receive thread and the driver run; an offer that keeps
\* failing meets its deadline.
FairSpec == /\ Spec
            /\ WF_vars(Echo) /\ WF_vars(Client) /\ WF_vars(Receiver)
            /\ WF_vars(Driver)

-----------------------------------------------------------------------------
(* Properties                                                              *)

Numbers == 0 .. Msgs - 1
Ports == {"attach", "subscription", "publication"}

TypeOK ==
    /\ backend \in Backends
    /\ driver \in [Sides -> {"none", "starting", "up"}]
    /\ {pub, sub, link} \subseteq [Ways -> BOOLEAN]
    /\ \A w \in Ways : /\ Len(unread[w]) <= Buffer
                       /\ ToSet(unread[w]) \cup unheard[w] \cup overrun[w] \subseteq Numbers
    /\ epc \in Ports \cup {"driver", "poll", "send", "dead"}
    /\ hand \in Numbers \cup {-1} /\ announced \in BOOLEAN
    /\ cpc \in Ports \cup {"ready", "driver", "connecting", "send", "done", "returned", "failed"}
    /\ next \in 0 .. Msgs
    /\ rpc \in Ports \cup {"unstarted", "poll", "done", "failed"}
    /\ ToSet(received) \subseteq Numbers

\* Everything on its way back, oldest first, from the receiver to the sender.
OnTheWay == received \o unread["s2c"]
              \o (IF hand = -1 THEN <<>> ELSE <<hand>>) \o unread["c2s"]

\* While both processes live, every message sent is received, on its way in
\* order and once, or lost in one of the two ways an iceoryx2 publication may
\* lose it; what Aeron has accepted it never loses (aeron lib.rs:23-24:
\* refusals "surface as send lag rather than as invented message loss").
NothingVanishes ==
    LET lost == UNION {unheard[w] \cup overrun[w] : w \in Ways}
    IN  /\ TypeOK
        /\ epc # "dead" /\ rpc # "failed" =>
             /\ \A i, j \in DOMAIN OnTheWay : i < j => OnTheWay[i] < OnTheWay[j]
             /\ ToSet(OnTheWay) \cup lost = 0 .. next - 1
             /\ ToSet(OnTheWay) \cap lost = {}
             /\ Aeron => lost = {}

\* The receiver is built once: what it was too late for are the first echoes of
\* the run, and no message of the sender's is ever published to nobody.
OnlyEarlyEchoesUnheard ==
    epc # "dead" /\ rpc # "failed" =>
        /\ unheard["c2s"] = {}
        /\ \A m \in unheard["s2c"], n \in ToSet(received) : m < n

\* The measurement comes to its end, even if the receive thread has failed and
\* nobody takes the echoes any more: the echo process's offer gives up, and
\* then the sender's.
RunEnds == <>Returned
=============================================================================
