--------------------------- MODULE KafkaEcho_proofs ---------------------------
(***************************************************************************)
(* Why no consumer meets a message while it waits for its partition, for   *)
(* every number of messages, every queue and every pattern of failures and *)
(* retries.  The argument goes through what each side knows when it        *)
(* starts: READY is printed behind the echo's own wait, and the measuring  *)
(* side sends behind its own, so until then both topics and both queues    *)
(* are empty.                                                              *)
(*                                                                         *)
(* And why no message vanishes.  What has been received and what is on its *)
(* way are one line, from the receiver's end back to the sender's; a step  *)
(* that moves a message moves the border between two neighbouring pieces   *)
(* of the line and so leaves the line as it is, a delivery that fails for  *)
(* good takes one message out of it, a retry repeats or reorders some, and *)
(* a send appends one.                                                     *)
(***************************************************************************)
EXTENDS KafkaEcho, SequenceTheorems, TLAPS

Shapes ==
    /\ position \in [Ways -> Nat]
    /\ DOMAIN log = Ways /\ DOMAIN queue = Ways

\* No message has been published, nor is about to be.
Silent == \A w \in Ways : log[w] = <<>> /\ queue[w] = <<>>

\* The measuring side has not begun to send.
Waiting == cpc \in {"ready", "connect", "join"}

Announces ==
    /\ epc \in {"topics", "subscribe", "join"} => ~announced
    /\ ~announced => cpc \in {"ready", "failed"}

\* Neither before READY nor before the measuring side's wait is over.
SilentFirst ==
    /\ ~announced \/ Waiting => Silent
    /\ epc = "enqueue" => announced /\ ~Waiting
    /\ epc = "poll" => announced

Invariant == Shapes /\ Announces /\ SilentFirst /\ NoEarlyMessage

LEMMA InvariantInit == Init => Invariant
  BY DEF Init, Invariant, Shapes, Announces, SilentFirst, Silent, Waiting,
         NoEarlyMessage, Ways

\* A silent topic has no next message for anybody.
LEMMA NothingNext ==
  ASSUME Shapes, Silent, NEW w \in Ways
  PROVE  ~HasNext(w)
<1>1. position[w] \in Nat /\ Len(log[w]) = 0
  BY DEF Shapes, Silent
<1> QED BY <1>1 DEF HasNext

LEMMA InvariantStep == Invariant /\ [Next]_vars => Invariant'
<1> SUFFICES ASSUME Invariant, [Next]_vars PROVE Invariant'
  OBVIOUS
<1> USE DEF Invariant, Shapes, Announces, NoEarlyMessage
<1>0. "c2s" \in Ways /\ "s2c" \in Ways
  BY DEF Ways
<1>1. ASSUME NEW w \in Ways, Assign(w) PROVE Invariant'
  BY <1>1 DEF Assign, SilentFirst, Silent, Waiting, kafka, echo, client, receiver
<1>2. ASSUME NEW w \in Ways, Delivered(w) PROVE Invariant'
  <2>1. ~Silent
    BY <1>2 DEF Delivered, Silent
  <2> QED BY <1>2, <2>1 DEF Delivered, Written, SilentFirst, Waiting, echo, client, receiver
<1>3. ASSUME NEW w \in Ways, Retried(w) PROVE Invariant'
  <2>1. ~Silent
    BY <1>3 DEF Retried, Silent
  <2> QED BY <1>3, <2>1 DEF Retried, Written, SilentFirst, Waiting, echo, client, receiver
<1>4. CASE EchoCreatesTopics \/ EchoSubscribes \/ EchoFails
  BY <1>4 DEF EchoCreatesTopics, EchoSubscribes, EchoFails, SilentFirst, Silent, Waiting,
              kafka, client, receiver
<1>5. CASE EchoJoins
  <2>1. ~HasNext("c2s")
    BY <1>0, <1>5, NothingNext DEF EchoJoins, SilentFirst
  <2>2. ~early'
    BY <1>5, <2>1, Zenon DEF EchoJoins, JoinedWell, JoinedBadly
  <2> QED BY <1>5, <2>2 DEF EchoJoins, SilentFirst, Silent, Waiting, kafka, client, receiver
<1>6. CASE EchoPoll
  <2>1. HasNext("c2s") /\ epc = "poll"
    BY <1>6 DEF EchoPoll
  <2>2. ~Silent
    BY <1>0, <2>1, NothingNext
  <2>3. announced /\ ~Waiting
    BY <2>1, <2>2 DEF SilentFirst
  <2> QED BY <1>0, <1>6, <2>2, <2>3 DEF EchoPoll, Advance, SilentFirst, Waiting,
                                        kafka, client, receiver
<1>7. CASE EchoEnqueue
  <2>1. announced /\ ~Waiting
    BY <1>7 DEF EchoEnqueue, SilentFirst
  <2> QED BY <1>7, <2>1 DEF EchoEnqueue, Enqueue, SilentFirst, Waiting, client, receiver
<1>8. CASE ClientStart \/ ClientSubscribes \/ ClientFails
  BY <1>8 DEF ClientStart, ClientSubscribes, ClientFails, SilentFirst, Silent, Waiting,
              kafka, echo, receiver
<1>9. CASE ClientJoins
  <2>1. ~HasNext("s2c")
    BY <1>0, <1>9, NothingNext DEF ClientJoins, SilentFirst, Waiting
  <2>2. ~early'
    BY <1>9, <2>1, Zenon DEF ClientJoins, JoinedWell, JoinedBadly
  <2> QED BY <1>9, <2>2 DEF ClientJoins, SilentFirst, Silent, Waiting, kafka, echo
<1>10. CASE ClientSend
  <2>1. announced /\ ~Waiting /\ ~Waiting'
    BY <1>10 DEF ClientSend, SilentFirst, Waiting
  <2> QED BY <1>10, <2>1 DEF ClientSend, Enqueue, SilentFirst, Waiting, echo, receiver
<1>11. CASE RecvMsg
  BY <1>0, <1>11 DEF RecvMsg, Advance, SilentFirst, Silent, Waiting, kafka, echo, client
<1>12. CASE RecvDrained \/ RecvFails \/ Over \/ UNCHANGED vars
  BY <1>12 DEF RecvDrained, RecvFails, Over, vars, SilentFirst, Silent, Waiting,
               kafka, echo, client, receiver
<1> QED BY <1>1, <1>2, <1>3, <1>4, <1>5, <1>6, <1>7, <1>8, <1>9, <1>10, <1>11, <1>12
           DEF Next, Echo, Client, Receiver, Kafka, Failure

\* kafka lib.rs:72-74: no message can predate an assignment, because both ends
\* wait for theirs before the first message of a run is published; the error
\* that the wait has for a message is never raised.
THEOREM NobodyIsEarly == Spec => []NoEarlyMessage
<1>1. Invariant => NoEarlyMessage
  BY DEF Invariant
<1> QED BY <1>1, InvariantInit, InvariantStep, PTL DEF Spec

-----------------------------------------------------------------------------
(* Sequences                                                               *)

Increasing(s) == \A i, j \in DOMAIN s : i < j => s[i] < s[j]

LEMMA ElementsOfConcat ==
  ASSUME NEW S, NEW a \in Seq(S), NEW b \in Seq(S)
  PROVE  ToSet(a \o b) = ToSet(a) \cup ToSet(b)
<1>1. a \o b \in Seq(S) /\ Len(a \o b) = Len(a) + Len(b)
  OBVIOUS
<1>2. ASSUME NEW i \in DOMAIN (a \o b) PROVE (a \o b)[i] \in ToSet(a) \cup ToSet(b)
  <2>1. CASE i \in DOMAIN a
    BY <2>1 DEF ToSet
  <2>2. CASE i \notin DOMAIN a
    <3>1. i - Len(a) \in DOMAIN b /\ (a \o b)[i] = b[i - Len(a)]
      BY <1>1, <1>2, <2>2
    <3> QED BY <3>1 DEF ToSet
  <2> QED BY <2>1, <2>2
<1>3. ASSUME NEW i \in DOMAIN a PROVE a[i] \in ToSet(a \o b)
  <2>1. i \in DOMAIN (a \o b) /\ (a \o b)[i] = a[i]
    BY <1>1, <1>3
  <2> QED BY <2>1 DEF ToSet
<1>4. ASSUME NEW i \in DOMAIN b PROVE b[i] \in ToSet(a \o b)
  <2>1. i + Len(a) \in DOMAIN (a \o b) /\ (a \o b)[i + Len(a)] = b[i]
    BY <1>1, <1>4
  <2> QED BY <2>1 DEF ToSet
<1> QED BY <1>2, <1>3, <1>4 DEF ToSet

LEMMA ElementsOfAppend ==
  ASSUME NEW S, NEW a \in Seq(S), NEW x \in S
  PROVE  ToSet(Append(a, x)) = ToSet(a) \cup {x}
<1>1. ToSet(<<x>>) = {x}
  BY DEF ToSet
<1>2. <<x>> \in Seq(S) /\ Append(a, x) = a \o <<x>>
  OBVIOUS
<1>3. ToSet(a \o <<x>>) = ToSet(a) \cup ToSet(<<x>>)
  BY <1>2, ElementsOfConcat
<1> QED BY <1>1, <1>2, <1>3

LEMMA ElementsOfTail ==
  ASSUME NEW S, NEW a \in Seq(S), a # <<>>
  PROVE  /\ Head(a) \in S /\ Tail(a) \in Seq(S)
         /\ a = <<Head(a)>> \o Tail(a)
         /\ ToSet(a) = {Head(a)} \cup ToSet(Tail(a))
<1>1. Head(a) \in S /\ Tail(a) \in Seq(S) /\ <<Head(a)>> \in Seq(S)
  OBVIOUS
<1>2. a = <<Head(a)>> \o Tail(a)
  OBVIOUS
<1>3. ToSet(<<Head(a)>>) = {Head(a)}
  BY DEF ToSet
<1>4. ToSet(<<Head(a)>> \o Tail(a)) = ToSet(<<Head(a)>>) \cup ToSet(Tail(a))
  BY <1>1, ElementsOfConcat
<1> QED BY <1>1, <1>2, <1>3, <1>4

\* What a reader at position p has before it.
LEMMA UnreadFirst ==
  ASSUME NEW S, NEW s \in Seq(S), NEW p \in Nat, p < Len(s)
  PROVE  /\ s[p + 1] \in S
         /\ SubSeq(s, p + 2, Len(s)) \in Seq(S)
         /\ SubSeq(s, p + 1, Len(s)) = <<s[p + 1]>> \o SubSeq(s, p + 2, Len(s))
<1>1. p + 1 \in 1 .. Len(s) /\ Len(s) \in p + 1 .. Len(s) /\ (p + 1) + 1 = p + 2
  OBVIOUS
<1> QED BY <1>1, SubSeqRecursiveFirst

LEMMA UnreadLast ==
  ASSUME NEW S, NEW s \in Seq(S), NEW x \in S, NEW p \in Nat, p <= Len(s)
  PROVE  SubSeq(Append(s, x), p + 1, Len(Append(s, x))) = Append(SubSeq(s, p + 1, Len(s)), x)
<1> DEFINE t == Append(s, x)
<1>1. t \in Seq(S) /\ Len(t) = Len(s) + 1 /\ t[Len(t)] = x
  OBVIOUS
<1>2. p + 1 \in 1 .. Len(t) /\ Len(t) \in p + 1 .. Len(t) /\ Len(t) - 1 = Len(s)
  BY <1>1
<1>3. SubSeq(t, p + 1, Len(t)) = SubSeq(t, p + 1, Len(s)) \o <<x>>
  BY <1>1, <1>2, SubSeqRecursiveSecond
<1>4. SubSeq(t, p + 1, Len(s)) = SubSeq(s, p + 1, Len(s))
  OBVIOUS
<1>5. SubSeq(s, p + 1, Len(s)) \in Seq(S)
  OBVIOUS
<1> QED BY <1>3, <1>4, <1>5, AppendIsConcat

\* A sequence without the nth element of another.
LEMMA OneLess ==
  ASSUME NEW l \in Seq(Int), NEW s \in Seq(Int), NEW n \in 1 .. Len(l),
         Len(l) = Len(s) + 1,
         \A i \in 1 .. Len(s) : s[i] = IF i < n THEN l[i] ELSE l[i + 1],
         Increasing(l)
  PROVE  Increasing(s) /\ l[n] \notin ToSet(s)
<1> DEFINE at(i) == IF i < n THEN i ELSE i + 1
<1>0. Len(s) \in Nat /\ DOMAIN l = 1 .. Len(s) + 1 /\ DOMAIN s = 1 .. Len(s) /\ n \in DOMAIN l
  OBVIOUS
<1>1. ASSUME NEW i \in DOMAIN l, NEW j \in DOMAIN l, i < j PROVE l[i] < l[j]
  BY <1>1 DEF Increasing
<1>2. ASSUME NEW i \in DOMAIN s PROVE at(i) \in DOMAIN l /\ s[i] = l[at(i)] /\ at(i) # n
  BY <1>0, <1>2
<1>3. ASSUME NEW i \in DOMAIN s, NEW j \in DOMAIN s, i < j PROVE s[i] < s[j]
  <2>1. at(i) < at(j)
    BY <1>0, <1>3
  <2> HIDE DEF at
  <2> QED BY <1>1, <1>2, <2>1
<1>4. ASSUME NEW i \in DOMAIN s PROVE s[i] # l[n]
  <2>1. at(i) < n \/ n < at(i)
    BY <1>0, <1>2
  <2>2. l[at(i)] \in Int /\ l[n] \in Int
    BY <1>0, <1>2
  <2> HIDE DEF at
  <2> QED BY <1>0, <1>1, <1>2, <2>1, <2>2
<1> QED BY <1>3, <1>4 DEF Increasing, ToSet

\* A sequence with one element taken out.
LEMMA TakenOut ==
  ASSUME NEW a \in Seq(Int), NEW x \in Int, NEW b \in Seq(Int)
  PROVE  /\ ToSet(a \o (<<x>> \o b)) = ToSet(a \o b) \cup {x}
         /\ Increasing(a \o (<<x>> \o b)) => Increasing(a \o b) /\ x \notin ToSet(a \o b)
<1>x. <<x>> \in Seq(Int) /\ <<x>> \o b \in Seq(Int)
  OBVIOUS
<1>1. PICK c \in Seq(Int) : c = <<x>> \o b
  BY <1>x
<1>2. PICK o \in Seq(Int) : o = <<x>>
  BY <1>x
<1>3. ToSet(c) = {x} \cup ToSet(b)
  <2>1. ToSet(o) = {x}
    BY <1>2 DEF ToSet
  <2>2. ToSet(o \o b) = ToSet(o) \cup ToSet(b)
    BY ElementsOfConcat
  <2> QED BY <1>1, <1>2, <2>1, <2>2
<1>4. Len(c) = Len(b) + 1 /\ c[1] = x
  BY <1>1
<1>5. \A k \in 1 .. Len(b) : c[k + 1] = b[k]
  BY <1>1
<1>y. a \o c \in Seq(Int) /\ a \o b \in Seq(Int)
  OBVIOUS
<1>6. PICK l \in Seq(Int) : l = a \o c
  BY <1>y
<1>7. PICK s \in Seq(Int) : s = a \o b
  BY <1>y
<1>8. ToSet(l) = ToSet(a) \cup ToSet(c) /\ ToSet(s) = ToSet(a) \cup ToSet(b)
  BY <1>6, <1>7, ElementsOfConcat
<1> DEFINE n == Len(a) + 1
<1>9. /\ Len(l) = Len(a) + Len(b) + 1 /\ Len(s) = Len(a) + Len(b)
      /\ Len(a) \in Nat /\ Len(b) \in Nat
  BY <1>4, <1>6, <1>7
<1>10. l[n] = x
  BY <1>4, <1>6
<1>11. ASSUME NEW i \in 1 .. Len(s) PROVE s[i] = IF i < n THEN l[i] ELSE l[i + 1]
  <2>1. CASE i < n
    BY <1>6, <1>7, <1>9, <2>1
  <2>2. CASE ~(i < n)
    <3>1. PICK k \in 1 .. Len(b) : i = Len(a) + k
      <4>1. i - Len(a) \in 1 .. Len(b) /\ i = Len(a) + (i - Len(a))
        BY <1>9, <2>2
      <4> QED BY <4>1
    <3>2. s[i] = b[k]
      BY <1>7, <1>9, <3>1
    <3>3. k + 1 \in 1 .. Len(c) /\ i + 1 = Len(a) + (k + 1)
      BY <1>4, <1>9, <3>1
    <3>4. \A m \in 1 .. Len(c) : (a \o c)[Len(a) + m] = c[m]
      OBVIOUS
    <3> QED BY <1>5, <1>6, <2>2, <3>1, <3>2, <3>3, <3>4
  <2> QED BY <2>1, <2>2
<1>12. n \in 1 .. Len(l) /\ Len(l) = Len(s) + 1
  BY <1>9
<1> HIDE DEF n
<1>13. Increasing(l) => Increasing(s) /\ l[n] \notin ToSet(s)
  BY <1>11, <1>12, OneLess
<1> QED BY <1>1, <1>3, <1>6, <1>7, <1>8, <1>10, <1>13

LEMMA IncreasingAppend ==
  ASSUME NEW s \in Seq(Int), NEW x \in Int, Increasing(s), \A y \in ToSet(s) : y < x
  PROVE  Increasing(Append(s, x))
<1>1. Append(s, x) \in Seq(Int) /\ Len(Append(s, x)) = Len(s) + 1
  OBVIOUS
<1>2. \A i \in DOMAIN s : Append(s, x)[i] = s[i] /\ s[i] < x
  BY DEF ToSet
<1>3. Append(s, x)[Len(s) + 1] = x
  OBVIOUS
<1> QED BY <1>1, <1>2, <1>3 DEF Increasing

LEMMA Associative ==
  ASSUME NEW a \in Seq(Int), NEW b \in Seq(Int), NEW c \in Seq(Int)
  PROVE  (a \o b) \o c = a \o (b \o c)
  BY ConcatAssociative

LEMMA AppendFirst ==
  ASSUME NEW a \in Seq(Int), NEW x \in Int, NEW b \in Seq(Int)
  PROVE  Append(a, x) \o b = a \o (<<x>> \o b)
<1>1. <<x>> \in Seq(Int) /\ Append(a, x) = a \o <<x>>
  BY AppendIsConcat
<1>2. (a \o <<x>>) \o b = a \o (<<x>> \o b)
  BY <1>1, Associative
<1> QED BY <1>1, <1>2

LEMMA JoinFirst ==
  ASSUME NEW x \in Int, NEW a \in Seq(Int), NEW b \in Seq(Int)
  PROVE  <<x>> \o (a \o b) = (<<x>> \o a) \o b
<1>1. <<x>> \in Seq(Int)
  OBVIOUS
<1> QED BY <1>1, Associative

LEMMA JoinLast ==
  ASSUME NEW x \in Int, NEW a \in Seq(Int), NEW b \in Seq(Int)
  PROVE  a \o Append(b, x) = Append(a \o b, x)
<1>1. <<x>> \in Seq(Int) /\ Append(b, x) = b \o <<x>> /\ a \o b \in Seq(Int)
  OBVIOUS
<1>2. (a \o b) \o <<x>> = a \o (b \o <<x>>)
  BY <1>1, Associative
<1>3. Append(a \o b, x) = (a \o b) \o <<x>>
  BY <1>1, AppendIsConcat
<1> QED BY <1>1, <1>2, <1>3

-----------------------------------------------------------------------------
(* The line                                                                *)

Typed ==
    /\ group \in [Ways -> {"none", "joining", "assigned"}]
    /\ log \in [Ways -> Seq(Numbers)] /\ queue \in [Ways -> Seq(Numbers)]
    /\ position \in [Ways -> Nat]
    /\ \A w \in Ways : position[w] <= Len(log[w]) /\ Len(queue[w]) <= QueueMax
    /\ failed \subseteq Numbers /\ retries \in 0 .. MaxRetries
    /\ topics \in BOOLEAN /\ early \in BOOLEAN /\ announced \in BOOLEAN
    /\ epc \in {"topics", "subscribe", "join", "poll", "enqueue", "dead"}
    /\ hand \in Numbers \cup {-1}
    /\ epc = "enqueue" => hand \in Numbers
    /\ epc \in {"topics", "subscribe", "join", "poll"} => hand = -1
    /\ cpc \in {"ready", "connect", "join", "send", "done", "failed"}
    /\ next \in 0 .. Msgs
    /\ cpc \in {"ready", "connect", "join", "send"} => next < Msgs
    /\ rpc \in {"unstarted", "recv", "done", "failed"}
    /\ received \in Seq(Numbers)

Held(x) == IF x = -1 THEN <<>> ELSE <<x>>
InHand == Held(hand)

\* Received, unread and queued on the way back, in the echo's hand, unread and
\* queued on the way out: from the receiver's end back to the sender's.
Joined(r, u, p, h, v, q) == r \o (u \o (p \o (h \o (v \o q))))

Line == Joined(received, Unread("s2c"), queue["s2c"], InHand, Unread("c2s"), queue["c2s"])

\* What of n messages sent is in the line or failed, after k retries.
Account(line, lost, n, k) ==
    /\ ToSet(line) \cup lost = 0 .. n - 1
    /\ k = 0 => Increasing(line) /\ ToSet(line) \cap lost = {}

Accounted == epc # "dead" => Account(Line, failed, next, retries)

LEMMA JoinedType ==
  ASSUME NEW r \in Seq(Int), NEW u \in Seq(Int), NEW p \in Seq(Int),
         NEW h \in Seq(Int), NEW v \in Seq(Int), NEW q \in Seq(Int)
  PROVE  /\ v \o q \in Seq(Int)
         /\ h \o (v \o q) \in Seq(Int)
         /\ p \o (h \o (v \o q)) \in Seq(Int)
         /\ u \o (p \o (h \o (v \o q))) \in Seq(Int)
         /\ Joined(r, u, p, h, v, q) \in Seq(Int)
<1>1. v \o q \in Seq(Int)
  OBVIOUS
<1>2. h \o (v \o q) \in Seq(Int)
  BY <1>1
<1>3. p \o (h \o (v \o q)) \in Seq(Int)
  BY <1>2
<1>4. u \o (p \o (h \o (v \o q))) \in Seq(Int)
  BY <1>3
<1>5. r \o (u \o (p \o (h \o (v \o q)))) \in Seq(Int)
  BY <1>4
<1> QED BY <1>1, <1>2, <1>3, <1>4, <1>5 DEF Joined

\* A sequence with x before it, and with x behind it.
Before(x, s) == <<x>> \o s
Behind(s, x) == Append(s, x)

LEMMA OverTheBorder ==
  ASSUME NEW x \in Int, NEW a \in Seq(Int), NEW b \in Seq(Int)
  PROVE  /\ Behind(a, x) \o b = a \o Before(x, b)
         /\ Before(x, a \o b) = Before(x, a) \o b
         /\ a \o Behind(b, x) = Behind(a \o b, x)
  BY AppendFirst, JoinFirst, JoinLast DEF Before, Behind

\* A message x moves over a border: read by the receiver, ...
LEMMA MovesToReceiver ==
  ASSUME NEW r \in Seq(Int), NEW u \in Seq(Int), NEW p \in Seq(Int),
         NEW h \in Seq(Int), NEW v \in Seq(Int), NEW q \in Seq(Int), NEW x \in Int
  PROVE  Joined(Behind(r, x), u, p, h, v, q) = Joined(r, Before(x, u), p, h, v, q)
<1> DEFINE e == p \o (h \o (v \o q))
<1>1. e \in Seq(Int) /\ u \o e \in Seq(Int)
  BY JoinedType
<1>2. /\ Joined(Behind(r, x), u, p, h, v, q) = Behind(r, x) \o (u \o e)
      /\ Joined(r, Before(x, u), p, h, v, q) = r \o (Before(x, u) \o e)
  BY DEF Joined
<1> HIDE DEF e
<1>3. Behind(r, x) \o (u \o e) = r \o Before(x, u \o e)
  BY <1>1, OverTheBorder
<1>4. Before(x, u \o e) = Before(x, u) \o e
  BY <1>1, OverTheBorder
<1> QED BY <1>2, <1>3, <1>4

\* ... delivered on the way back, ...
LEMMA MovesBack ==
  ASSUME NEW r \in Seq(Int), NEW u \in Seq(Int), NEW p \in Seq(Int),
         NEW h \in Seq(Int), NEW v \in Seq(Int), NEW q \in Seq(Int), NEW x \in Int
  PROVE  Joined(r, Behind(u, x), p, h, v, q) = Joined(r, u, Before(x, p), h, v, q)
<1> DEFINE d == h \o (v \o q)
<1>1. d \in Seq(Int) /\ p \o d \in Seq(Int)
  BY JoinedType
<1>2. /\ Joined(r, Behind(u, x), p, h, v, q) = r \o (Behind(u, x) \o (p \o d))
      /\ Joined(r, u, Before(x, p), h, v, q) = r \o (u \o (Before(x, p) \o d))
  BY DEF Joined
<1> HIDE DEF d
<1>3. Behind(u, x) \o (p \o d) = u \o Before(x, p \o d)
  BY <1>1, OverTheBorder
<1>4. Before(x, p \o d) = Before(x, p) \o d
  BY <1>1, OverTheBorder
<1> QED BY <1>2, <1>3, <1>4

\* ... enqueued by the echo, ...
LEMMA MovesFromHand ==
  ASSUME NEW r \in Seq(Int), NEW u \in Seq(Int), NEW p \in Seq(Int),
         NEW v \in Seq(Int), NEW q \in Seq(Int), NEW x \in Nat
  PROVE  Joined(r, u, Behind(p, x), Held(-1), v, q) = Joined(r, u, p, Held(x), v, q)
<1> DEFINE c == v \o q
<1>1. c \in Seq(Int) /\ x \in Int
  OBVIOUS
<1>2. /\ Joined(r, u, Behind(p, x), Held(-1), v, q) = r \o (u \o (Behind(p, x) \o (Held(-1) \o c)))
      /\ Joined(r, u, p, Held(x), v, q) = r \o (u \o (p \o (Held(x) \o c)))
  BY DEF Joined
<1> HIDE DEF c
<1>3. Held(-1) \o c = c /\ Held(x) \o c = Before(x, c)
  BY <1>1, SMTT(30) DEF Held, Before
<1>4. Behind(p, x) \o c = p \o Before(x, c)
  BY <1>1, OverTheBorder
<1> QED BY <1>2, <1>3, <1>4

\* ... read by it, ...
LEMMA MovesToHand ==
  ASSUME NEW r \in Seq(Int), NEW u \in Seq(Int), NEW p \in Seq(Int),
         NEW v \in Seq(Int), NEW q \in Seq(Int), NEW x \in Nat
  PROVE  Joined(r, u, p, Held(x), v, q) = Joined(r, u, p, Held(-1), Before(x, v), q)
<1> DEFINE c == v \o q
<1>1. c \in Seq(Int) /\ x \in Int /\ Before(x, v) \o q \in Seq(Int)
  BY DEF Before
<1>2. /\ Joined(r, u, p, Held(-1), Before(x, v), q) = r \o (u \o (p \o (Held(-1) \o (Before(x, v) \o q))))
      /\ Joined(r, u, p, Held(x), v, q) = r \o (u \o (p \o (Held(x) \o c)))
  BY DEF Joined
<1>3. Before(x, c) = Before(x, v) \o q
  <2>1. \A a, b \in Seq(Int) : <<x>> \o (a \o b) = (<<x>> \o a) \o b
    BY <1>1, JoinFirst
  <2> QED BY <2>1 DEF Before
<1> HIDE DEF c
<1>4. Held(x) \o c = Before(x, c)
  BY <1>1, SMTT(30) DEF Held, Before
<1>5. Held(-1) \o (Before(x, v) \o q) = Before(x, v) \o q
  BY <1>1 DEF Held
<1> QED BY <1>2, <1>3, <1>4, <1>5

\* ... delivered on the way out.
LEMMA MovesOut ==
  ASSUME NEW r \in Seq(Int), NEW u \in Seq(Int), NEW p \in Seq(Int),
         NEW h \in Seq(Int), NEW v \in Seq(Int), NEW q \in Seq(Int), NEW x \in Int
  PROVE  Joined(r, u, p, h, Behind(v, x), q) = Joined(r, u, p, h, v, Before(x, q))
  BY OverTheBorder DEF Joined

\* A message is sent.
LEMMA Sent ==
  ASSUME NEW r \in Seq(Int), NEW u \in Seq(Int), NEW p \in Seq(Int),
         NEW h \in Seq(Int), NEW v \in Seq(Int), NEW q \in Seq(Int), NEW x \in Int
  PROVE  Joined(r, u, p, h, v, Behind(q, x)) = Behind(Joined(r, u, p, h, v, q), x)
<1> DEFINE c == v \o q  d == h \o c  e == p \o d  k == u \o e
<1>1. c \in Seq(Int) /\ d \in Seq(Int) /\ e \in Seq(Int) /\ k \in Seq(Int)
  BY JoinedType
<1>2. c = v \o q /\ d = h \o c /\ e = p \o d /\ k = u \o e /\ Joined(r, u, p, h, v, q) = r \o k
  BY DEF Joined
<1> HIDE DEF c, d, e, k
<1>3. /\ v \o Behind(q, x) = Behind(v \o q, x)
      /\ h \o Behind(c, x) = Behind(h \o c, x)
      /\ p \o Behind(d, x) = Behind(p \o d, x)
      /\ u \o Behind(e, x) = Behind(u \o e, x)
      /\ r \o Behind(k, x) = Behind(r \o k, x)
  BY <1>1, JoinLast DEF Behind
<1> QED BY <1>2, <1>3 DEF Joined

LEMMA ElementsOfJoined ==
  ASSUME NEW r \in Seq(Int), NEW u \in Seq(Int), NEW p \in Seq(Int),
         NEW h \in Seq(Int), NEW v \in Seq(Int), NEW q \in Seq(Int)
  PROVE  ToSet(Joined(r, u, p, h, v, q))
           = ToSet(r) \cup ToSet(u) \cup ToSet(p) \cup ToSet(h) \cup ToSet(v) \cup ToSet(q)
<1> DEFINE c == v \o q  d == h \o c  e == p \o d  k == u \o e
<1>1. c \in Seq(Int) /\ d \in Seq(Int) /\ e \in Seq(Int) /\ k \in Seq(Int)
  BY JoinedType
<1>2. c = v \o q /\ d = h \o c /\ e = p \o d /\ k = u \o e
  OBVIOUS
<1>3. Joined(r, u, p, h, v, q) = r \o k
  BY DEF Joined
<1> HIDE DEF c, d, e, k
<1>4. \A a, b \in Seq(Int) : ToSet(a \o b) = ToSet(a) \cup ToSet(b)
  BY ElementsOfConcat
<1>5. /\ ToSet(r \o k) = ToSet(r) \cup ToSet(k)
      /\ ToSet(u \o e) = ToSet(u) \cup ToSet(e)
      /\ ToSet(p \o d) = ToSet(p) \cup ToSet(d)
      /\ ToSet(h \o c) = ToSet(h) \cup ToSet(c)
      /\ ToSet(v \o q) = ToSet(v) \cup ToSet(q)
  BY <1>1, <1>4
<1> QED BY <1>2, <1>3, <1>5

\* l, with one x taken out.
Without(l, x, s) == \E a, b \in Seq(Int) : l = a \o (<<x>> \o b) /\ s = a \o b

LEMMA WithoutBehind ==
  ASSUME NEW x \in Int, NEW c \in Seq(Int), NEW l, NEW s, Without(l, x, s)
  PROVE  Without(c \o l, x, c \o s)
<1>1. PICK a \in Seq(Int), b \in Seq(Int) : l = a \o (<<x>> \o b) /\ s = a \o b
  BY DEF Without
<1>2. c \o a \in Seq(Int) /\ <<x>> \in Seq(Int)
  BY <1>1
<1>3. <<x>> \o b \in Seq(Int)
  BY <1>1, <1>2
<1>4. c \o (a \o b) = (c \o a) \o b
  BY <1>1, Associative
<1>5. c \o (a \o (<<x>> \o b)) = (c \o a) \o (<<x>> \o b)
  BY <1>1, <1>3, Associative
<1> QED BY <1>1, <1>2, <1>4, <1>5 DEF Without

\* The head of a producer's queue, taken out of the line.
LEMMA WithoutHead ==
  ASSUME NEW r \in Seq(Int), NEW u \in Seq(Int), NEW p \in Seq(Int),
         NEW h \in Seq(Int), NEW v \in Seq(Int), NEW q \in Seq(Int), NEW x \in Int
  PROVE  /\ Without(Joined(r, u, <<x>> \o p, h, v, q), x, Joined(r, u, p, h, v, q))
         /\ Without(Joined(r, u, p, h, v, <<x>> \o q), x, Joined(r, u, p, h, v, q))
<1>1. \A c \in Seq(Int) : \A l, s : Without(l, x, s) => Without(c \o l, x, c \o s)
  BY WithoutBehind
<1>2. ASSUME NEW b \in Seq(Int) PROVE Without(<<x>> \o b, x, b)
  <2>1. <<>> \in Seq(Int) /\ <<>> \o b = b /\ <<>> \o (<<x>> \o b) = <<x>> \o b
    OBVIOUS
  <2> QED BY <2>1 DEF Without
<1>3. Without(Joined(r, u, <<x>> \o p, h, v, q), x, Joined(r, u, p, h, v, q))
  <2>1. Without(<<x>> \o (p \o (h \o (v \o q))), x, p \o (h \o (v \o q)))
    BY <1>2, JoinedType
  <2>2. <<x>> \o (p \o (h \o (v \o q))) = (<<x>> \o p) \o (h \o (v \o q))
    <3>1. \A a, b \in Seq(Int) : <<x>> \o (a \o b) = (<<x>> \o a) \o b
      BY JoinFirst
    <3>2. h \o (v \o q) \in Seq(Int)
      BY JoinedType
    <3> QED BY <3>1, <3>2
  <2> QED BY <1>1, <2>1, <2>2 DEF Joined
<1>4. Without(Joined(r, u, p, h, v, <<x>> \o q), x, Joined(r, u, p, h, v, q))
  BY <1>1, <1>2 DEF Joined
<1> QED BY <1>3, <1>4

LEMMA TypedInit == Init => Typed
<1> SUFFICES ASSUME Init PROVE Typed
  OBVIOUS
<1>1. Msgs \in Nat /\ QueueMax \in Nat /\ MaxRetries \in Nat /\ Msgs > 0
  BY KafkaAssumption DEF KafkaAssumption
<1>2. <<>> \in Seq(Numbers) /\ Len(<<>>) = 0
  OBVIOUS
<1>3. /\ group \in [Ways -> {"none", "joining", "assigned"}]
      /\ log \in [Ways -> Seq(Numbers)] /\ queue \in [Ways -> Seq(Numbers)]
      /\ received \in Seq(Numbers)
  BY <1>2 DEF Init
<1>4. position \in [Ways -> Nat]
  BY DEF Init
<1>5. \A w \in Ways : position[w] = 0 /\ log[w] = <<>> /\ queue[w] = <<>>
  BY DEF Init
<1>6. \A w \in Ways : position[w] <= Len(log[w]) /\ Len(queue[w]) <= QueueMax
  BY <1>1, <1>2, <1>5
<1>7. next \in 0 .. Msgs /\ next < Msgs /\ retries \in 0 .. MaxRetries
  BY <1>1 DEF Init
<1> QED BY <1>3, <1>4, <1>6, <1>7 DEF Init, Typed

LEMMA TypedStep == Typed /\ [Next]_vars => Typed'
<1> SUFFICES ASSUME Typed, [Next]_vars PROVE Typed'
  OBVIOUS
<1> USE DEF Typed
<1>0. "c2s" \in Ways /\ "s2c" \in Ways /\ Msgs \in Nat /\ QueueMax \in Nat /\ MaxRetries \in Nat
  BY KafkaAssumption DEF KafkaAssumption, Ways
<1>1. ASSUME NEW w \in Ways, Assign(w) PROVE Typed'
  BY <1>1 DEF Assign, kafka, echo, client, receiver
<1>2. ASSUME NEW w \in Ways, Delivered(w) PROVE Typed'
  <2>1. Head(queue[w]) \in Numbers /\ Tail(queue[w]) \in Seq(Numbers)
           /\ Len(Tail(queue[w])) = Len(queue[w]) - 1
    BY <1>2 DEF Delivered
  <2>2. CASE Written(w, Head(queue[w])) /\ UNCHANGED failed
    <3>1. log' \in [Ways -> Seq(Numbers)] /\ \A v \in Ways : position[v] <= Len(log'[v])
      BY <2>1, <2>2 DEF Written
    <3>2. queue' \in [Ways -> Seq(Numbers)] /\ \A v \in Ways : Len(queue'[v]) <= QueueMax
      BY <1>0, <1>2, <2>1 DEF Delivered
    <3> QED BY <1>0, <1>2, <2>2, <3>1, <3>2, SMTT(30) DEF Delivered, echo, client, receiver
  <2>3. CASE failed' = failed \cup {Head(queue[w])} /\ UNCHANGED log
    <3>2. queue' \in [Ways -> Seq(Numbers)] /\ \A v \in Ways : Len(queue'[v]) <= QueueMax
      BY <1>0, <1>2, <2>1 DEF Delivered
    <3> QED BY <1>0, <1>2, <2>1, <2>3, <3>2 DEF Delivered, echo, client, receiver
  <2> QED BY <1>2, <2>2, <2>3 DEF Delivered
<1>3. ASSUME NEW w \in Ways, Retried(w) PROVE Typed'
  <2>0. retries' \in 0 .. MaxRetries
    BY <1>0, <1>3 DEF Retried
  <2>1. ASSUME NEW m \in Numbers, Written(w, m)
        PROVE  log' \in [Ways -> Seq(Numbers)] /\ \A v \in Ways : Len(log[v]) <= Len(log'[v])
    BY <2>1 DEF Written
  <2>2. CASE Written(w, Head(queue[w])) /\ UNCHANGED queue
    <3>1. Head(queue[w]) \in Numbers
      BY <1>3 DEF Retried
    <3>2. log' \in [Ways -> Seq(Numbers)] /\ \A v \in Ways : Len(log[v]) <= Len(log'[v])
      BY <2>1, <2>2, <3>1
    <3> QED BY <1>0, <1>3, <2>0, <2>2, <3>2, SMTT(30) DEF Retried, echo, client, receiver
  <2>3. CASE /\ Len(queue[w]) > 1
             /\ Written(w, queue[w][2])
             /\ queue' = [queue EXCEPT ![w] = RemoveAt(@, 2)]
    <3>1. queue[w][2] \in Numbers
      BY <2>3
    <3>2. log' \in [Ways -> Seq(Numbers)] /\ \A v \in Ways : Len(log[v]) <= Len(log'[v])
      BY <2>1, <2>3, <3>1
    <3>3. RemoveAt(queue[w], 2) \in Seq(Numbers) /\ Len(RemoveAt(queue[w], 2)) <= Len(queue[w])
      BY <2>3 DEF RemoveAt
    <3>4. queue' \in [Ways -> Seq(Numbers)] /\ \A v \in Ways : Len(queue'[v]) <= QueueMax
      BY <1>0, <2>3, <3>3
    <3> QED BY <1>0, <1>3, <2>0, <3>2, <3>4, SMTT(30) DEF Retried, echo, client, receiver
  <2> QED BY <1>3, <2>2, <2>3 DEF Retried
<1>4. CASE EchoCreatesTopics \/ EchoSubscribes \/ EchoFails
  BY <1>0, <1>4 DEF EchoCreatesTopics, EchoSubscribes, EchoFails, Subscribe,
              kafka, client, receiver
<1>5. CASE EchoJoins
  <2>1. early' \in BOOLEAN
    BY <1>5, Zenon DEF EchoJoins, JoinedWell, JoinedBadly
  <2> QED BY <1>5, <2>1 DEF EchoJoins, kafka, client, receiver
<1>6. CASE EchoPoll
  <2>1. TheNext("c2s") \in Numbers /\ position["c2s"] + 1 <= Len(log["c2s"])
    BY <1>0, <1>6 DEF EchoPoll, HasNext, TheNext
  <2> QED BY <1>0, <1>6, <2>1 DEF EchoPoll, Advance, kafka, client, receiver
<1>7. CASE EchoEnqueue
  <2>1. queue' \in [Ways -> Seq(Numbers)] /\ \A v \in Ways : Len(queue'[v]) <= QueueMax
    BY <1>0, <1>7 DEF EchoEnqueue, Enqueue, CanEnqueue
  <2> QED BY <1>0, <1>7, <2>1 DEF EchoEnqueue, client, receiver
<1>8. CASE ClientStart \/ ClientSubscribes \/ ClientFails
  BY <1>0, <1>8 DEF ClientStart, ClientSubscribes, ClientFails, Subscribe, kafka, echo, receiver
<1>9. CASE ClientJoins
  <2>1. early' \in BOOLEAN
    BY <1>9, Zenon DEF ClientJoins, JoinedWell, JoinedBadly
  <2> QED BY <1>9, <2>1 DEF ClientJoins, kafka, echo
<1>10. CASE ClientSend
  <2>1. next \in Numbers /\ next' \in 0 .. Msgs
    BY <1>0, <1>10 DEF ClientSend, Numbers
  <2>2. queue' \in [Ways -> Seq(Numbers)] /\ \A v \in Ways : Len(queue'[v]) <= QueueMax
    BY <1>0, <1>10, <2>1 DEF ClientSend, Enqueue, CanEnqueue
  <2> QED BY <1>0, <1>10, <2>1, <2>2 DEF ClientSend, echo, receiver
<1>11. CASE RecvMsg
  <2>1. TheNext("s2c") \in Numbers /\ position["s2c"] + 1 <= Len(log["s2c"])
    BY <1>0, <1>11 DEF RecvMsg, HasNext, TheNext
  <2> QED BY <1>0, <1>11, <2>1 DEF RecvMsg, Advance, kafka, echo, client
<1>12. CASE RecvDrained \/ RecvFails \/ Over \/ UNCHANGED vars
  BY <1>12 DEF RecvDrained, RecvFails, Over, vars, kafka, echo, client, receiver
<1> QED BY <1>1, <1>2, <1>3, <1>4, <1>5, <1>6, <1>7, <1>8, <1>9, <1>10, <1>11, <1>12
           DEF Next, Echo, Client, Receiver, Kafka, Failure

\* The account after each kind of step.
LEMMA AccountFailed ==
  ASSUME NEW x \in Int, NEW l, NEW s, NEW lost, NEW n, NEW k,
         Without(l, x, s), Account(l, lost, n, k)
  PROVE  Account(s, lost \cup {x}, n, k)
<1>1. PICK a \in Seq(Int), b \in Seq(Int) : l = a \o (<<x>> \o b) /\ s = a \o b
  BY DEF Without
<1>2. /\ ToSet(l) = ToSet(s) \cup {x}
      /\ Increasing(l) => Increasing(s) /\ x \notin ToSet(s)
  BY <1>1, TakenOut
<1> QED BY <1>2 DEF Account

LEMMA AccountRetried ==
  ASSUME NEW l, NEW m, NEW lost, NEW n, NEW k \in Nat,
         Account(l, lost, n, k), ToSet(m) = ToSet(l)
  PROVE  Account(m, lost, n, k + 1)
  BY DEF Account

LEMMA AccountSent ==
  ASSUME NEW l \in Seq(Int), NEW lost, NEW n \in Nat, NEW k, Account(l, lost, n, k)
  PROVE  Account(Append(l, n), lost, n + 1, k)
<1>1. ToSet(Append(l, n)) = ToSet(l) \cup {n}
  BY ElementsOfAppend
<1>2. \A y \in ToSet(l) \cup lost : y \in Int /\ y < n
  BY DEF Account
<1>3. 0 .. (n + 1) - 1 = (0 .. n - 1) \cup {n}
  OBVIOUS
<1>4. ToSet(Append(l, n)) \cup lost = 0 .. (n + 1) - 1
  BY <1>1, <1>3 DEF Account
<1>5. ASSUME k = 0
      PROVE  Increasing(Append(l, n)) /\ ToSet(Append(l, n)) \cap lost = {}
  <2>1. Increasing(Append(l, n))
    BY <1>2, <1>5, IncreasingAppend DEF Account
  <2>2. ToSet(Append(l, n)) \cap lost = {}
    BY <1>1, <1>2, <1>5 DEF Account
  <2> QED BY <2>1, <2>2
<1> QED BY <1>4, <1>5 DEF Account

\* The pieces of the line, and that the line is the one NothingVanishes is about.
PieceTypes ==
    /\ \A w \in Ways : Unread(w) \in Seq(Int) /\ queue[w] \in Seq(Int)
    /\ received \in Seq(Int) /\ InHand \in Seq(Int)

LEMMA Pieces == Typed => PieceTypes /\ received \o Coming \o Going = Line
<1> SUFFICES ASSUME Typed PROVE PieceTypes /\ received \o Coming \o Going = Line
  OBVIOUS
<1>1. \A t \in Seq(Numbers) : t \in Seq(Int)
  <2>1. Numbers \subseteq Int
    BY DEF Numbers
  <2> QED BY <2>1, SeqMonotonic, Zenon
<1>2. ASSUME NEW w \in Ways PROVE Unread(w) \in Seq(Int) /\ queue[w] \in Seq(Int)
  <2>1. log[w] \in Seq(Numbers) /\ queue[w] \in Seq(Numbers)
           /\ position[w] \in Nat /\ position[w] <= Len(log[w])
    BY DEF Typed
  <2>2. Unread(w) \in Seq(Numbers)
    BY <2>1 DEF Unread
  <2> QED BY <1>1, <2>1, <2>2
<1>3. received \in Seq(Int)
  BY <1>1 DEF Typed
<1>4. InHand \in Seq(Int)
  <2>1. hand \in Int
    BY DEF Typed, Numbers
  <2> QED BY <2>1 DEF InHand, Held
<1>5. received \o Coming \o Going = Line
  <2> DEFINE u == Unread("s2c")  p == queue["s2c"]  v == Unread("c2s")  q == queue["c2s"]
  <2>1. u \in Seq(Int) /\ p \in Seq(Int) /\ v \in Seq(Int) /\ q \in Seq(Int)
    BY <1>2 DEF Ways
  <2>2. Coming = u \o p /\ Going = (InHand \o v) \o q
    BY DEF Coming, Going, InHand, Held
  <2>3. Line = received \o (u \o (p \o (InHand \o (v \o q))))
    BY DEF Line, Joined
  <2> HIDE DEF u, p, v, q
  <2>4. u \o p \in Seq(Int) /\ v \o q \in Seq(Int)
    BY <2>1
  <2>5. InHand \o (v \o q) \in Seq(Int)
    BY <1>4, <2>4
  <2>6. (InHand \o v) \o q = InHand \o (v \o q)
    BY <1>4, <2>1, Associative
  <2>7. (u \o p) \o (InHand \o (v \o q)) = u \o (p \o (InHand \o (v \o q)))
    BY <2>1, <2>5, Associative
  <2>8. (received \o (u \o p)) \o (InHand \o (v \o q))
          = received \o ((u \o p) \o (InHand \o (v \o q)))
    BY <1>3, <2>4, <2>5, Associative
  <2> QED BY <2>2, <2>3, <2>6, <2>7, <2>8
<1> QED BY <1>2, <1>3, <1>4, <1>5 DEF PieceTypes

LEMMA UnreadSame ==
  ASSUME NEW w \in Ways, log'[w] = log[w], position'[w] = position[w]
  PROVE  Unread(w)' = Unread(w)
  BY DEF Unread

LEMMA UnreadWritten ==
  ASSUME Typed, NEW w \in Ways, NEW m \in Numbers,
         log'[w] = Append(log[w], m), position'[w] = position[w]
  PROVE  Unread(w)' = Append(Unread(w), m)
<1>1. log[w] \in Seq(Numbers) /\ position[w] \in Nat /\ position[w] <= Len(log[w])
  BY DEF Typed
<1> QED BY <1>1, UnreadLast DEF Unread

LEMMA UnreadRead ==
  ASSUME Typed, NEW w \in Ways, HasNext(w),
         log'[w] = log[w], position'[w] = position[w] + 1
  PROVE  TheNext(w) \in Numbers /\ Unread(w) = <<TheNext(w)>> \o Unread(w)'
<1>1. log[w] \in Seq(Numbers) /\ position[w] \in Nat /\ position[w] < Len(log[w])
  BY DEF Typed, HasNext
<1>2. position[w] + 2 = (position[w] + 1) + 1
  BY <1>1
<1>3. /\ log[w][position[w] + 1] \in Numbers
      /\ SubSeq(log[w], position[w] + 1, Len(log[w]))
           = <<log[w][position[w] + 1]>> \o SubSeq(log[w], position[w] + 2, Len(log[w]))
  BY <1>1, UnreadFirst
<1> QED BY <1>2, <1>3 DEF Unread, TheNext

\* A message is taken from one queue to the end of its topic.
LEMMA QueueHead ==
  ASSUME Typed, NEW w \in Ways, queue[w] # <<>>,
         queue' = [queue EXCEPT ![w] = Tail(@)]
  PROVE  /\ Head(queue[w]) \in Numbers
         /\ queue[w] = <<Head(queue[w])>> \o queue'[w]
         /\ \A v \in Ways \ {w} : queue'[v] = queue[v]
<1>1. queue[w] \in Seq(Numbers) /\ queue'[w] = Tail(queue[w])
  BY DEF Typed
<1> QED BY <1>1, ElementsOfTail DEF Typed

LEMMA DeliveredStep ==
  ASSUME Typed, Typed', Accounted, NEW w \in Ways, Delivered(w)
  PROVE  Accounted'
<1> SUFFICES ASSUME epc # "dead" PROVE Account(Line', failed', next', retries')
  BY DEF Accounted, Delivered, echo
<1>0. Account(Line, failed, next, retries) /\ next' = next /\ retries' = retries
  BY DEF Accounted, Delivered, client
<1> DEFINE x == Head(queue[w])
<1>1. /\ \A v \in Ways : Unread(v) \in Seq(Int) /\ queue[v] \in Seq(Int)
      /\ received \in Seq(Int) /\ InHand \in Seq(Int)
  BY Pieces DEF PieceTypes
<1>2. \A v \in Ways : Unread(v)' \in Seq(Int) /\ queue'[v] \in Seq(Int)
  <2>1. PieceTypes'
    BY Pieces, PTL
  <2> QED BY <2>1 DEF PieceTypes
<1>3. /\ x \in Numbers
      /\ queue[w] = Before(x, queue'[w])
      /\ \A v \in Ways \ {w} : queue'[v] = queue[v]
  BY QueueHead DEF Delivered, Before
<1>4. x \in Int /\ x \in Nat
  BY <1>3 DEF Numbers
<1>5. received' = received /\ InHand' = InHand /\ position' = position
  BY DEF Delivered, receiver, echo, InHand
<1>6. Ways = {"c2s", "s2c"}
  BY DEF Ways
<1>t. /\ received \in Seq(Int) /\ InHand \in Seq(Int)
      /\ Unread("s2c") \in Seq(Int) /\ Unread("c2s") \in Seq(Int)
      /\ queue["s2c"] \in Seq(Int) /\ queue["c2s"] \in Seq(Int)
      /\ queue'["s2c"] \in Seq(Int) /\ queue'["c2s"] \in Seq(Int)
  BY <1>1, <1>2, <1>6
<1> HIDE DEF x
<1>7. CASE Written(w, Head(queue[w])) /\ UNCHANGED failed
  <2>1. log'[w] = Append(log[w], x) /\ \A v \in Ways \ {w} : log'[v] = log[v]
    BY <1>7 DEF Written, Typed, x
  <2>2. Unread(w)' = Behind(Unread(w), x)
    BY <1>3, <1>5, <2>1, UnreadWritten DEF Behind
  <2>3. \A v \in Ways \ {w} : Unread(v)' = Unread(v)
    BY <1>5, <2>1, UnreadSame
  <2>4. ASSUME w = "s2c" PROVE Line' = Line
    <3>1. /\ Unread("s2c")' = Behind(Unread("s2c"), x)
          /\ queue["s2c"] = Before(x, queue'["s2c"])
          /\ Unread("c2s")' = Unread("c2s") /\ queue'["c2s"] = queue["c2s"]
      BY <1>3, <1>6, <2>2, <2>3, <2>4
    <3>2. Joined(received, Behind(Unread("s2c"), x), queue'["s2c"], InHand,
                 Unread("c2s"), queue["c2s"])
            = Joined(received, Unread("s2c"), Before(x, queue'["s2c"]), InHand,
                     Unread("c2s"), queue["c2s"])
      <4> DEFINE r == received  u == Unread("s2c")  p == queue'["s2c"]
                 v == Unread("c2s")  q == queue["c2s"]
      <4>1. /\ r \in Seq(Int) /\ u \in Seq(Int) /\ p \in Seq(Int) /\ InHand \in Seq(Int)
            /\ v \in Seq(Int) /\ q \in Seq(Int)
        BY <1>t
      <4> HIDE DEF r, u, p, v, q
      <4>2. Joined(r, Behind(u, x), p, InHand, v, q) = Joined(r, u, Before(x, p), InHand, v, q)
        BY ONLY <1>4, <4>1, MovesBack, SMTT(40)
      <4> QED BY <4>2 DEF r, u, p, v, q
    <3> QED BY <1>5, <3>1, <3>2 DEF Line
  <2>5. ASSUME w = "c2s" PROVE Line' = Line
    <3>1. /\ Unread("c2s")' = Behind(Unread("c2s"), x)
          /\ queue["c2s"] = Before(x, queue'["c2s"])
          /\ Unread("s2c")' = Unread("s2c") /\ queue'["s2c"] = queue["s2c"]
      BY <1>3, <1>6, <2>2, <2>3, <2>5
    <3>2. Joined(received, Unread("s2c"), queue["s2c"], InHand,
                 Behind(Unread("c2s"), x), queue'["c2s"])
            = Joined(received, Unread("s2c"), queue["s2c"], InHand,
                     Unread("c2s"), Before(x, queue'["c2s"]))
      <4> DEFINE r == received  u == Unread("s2c")  p == queue["s2c"]
                 v == Unread("c2s")  q == queue'["c2s"]
      <4>1. /\ r \in Seq(Int) /\ u \in Seq(Int) /\ p \in Seq(Int) /\ InHand \in Seq(Int)
            /\ v \in Seq(Int) /\ q \in Seq(Int)
        BY <1>t
      <4> HIDE DEF r, u, p, v, q
      <4>2. Joined(r, u, p, InHand, Behind(v, x), q) = Joined(r, u, p, InHand, v, Before(x, q))
        BY ONLY <1>4, <4>1, MovesOut, SMTT(40)
      <4> QED BY <4>2 DEF r, u, p, v, q
    <3> QED BY <1>5, <3>1, <3>2 DEF Line
  <2> QED BY <1>0, <1>6, <1>7, <2>4, <2>5
<1>8. CASE failed' = failed \cup {Head(queue[w])} /\ UNCHANGED log
  <2>1. \A v \in Ways : Unread(v)' = Unread(v)
    BY <1>5, <1>8, UnreadSame
  <2>2. Without(Line, x, Line')
    BY <1>1, <1>2, <1>3, <1>4, <1>5, <1>6, <2>1, WithoutHead DEF Line, Before
  <2> QED BY <1>0, <1>4, <1>8, <2>2, AccountFailed DEF x
<1> QED BY <1>7, <1>8 DEF Delivered

\* The line's pieces before and after a step, all of them sequences of numbers.
LEMMA PiecesNow ==
  ASSUME Typed
  PROVE  /\ received \in Seq(Int) /\ InHand \in Seq(Int)
         /\ Unread("s2c") \in Seq(Int) /\ Unread("c2s") \in Seq(Int)
         /\ queue["s2c"] \in Seq(Int) /\ queue["c2s"] \in Seq(Int)
  BY Pieces DEF PieceTypes, Ways

LEMMA PiecesThen ==
  ASSUME Typed'
  PROVE  /\ received' \in Seq(Int) /\ InHand' \in Seq(Int)
         /\ Unread("s2c")' \in Seq(Int) /\ Unread("c2s")' \in Seq(Int)
         /\ queue'["s2c"] \in Seq(Int) /\ queue'["c2s"] \in Seq(Int)
<1>1. PieceTypes'
  BY Pieces, PTL
<1> QED BY <1>1 DEF PieceTypes, Ways

LEMMA RecvMsgStep ==
  ASSUME Typed, Typed', Accounted, RecvMsg
  PROVE  Accounted'
<1> DEFINE x == TheNext("s2c")  r == received  u == Unread("s2c")'  p == queue["s2c"]
           v == Unread("c2s")  q == queue["c2s"]
<1>1. x \in Numbers /\ Unread("s2c") = Before(x, u) /\ Unread("c2s")' = v
  BY UnreadRead, UnreadSame DEF RecvMsg, Advance, kafka, Ways, Typed, Before
<1>2. /\ r \in Seq(Int) /\ u \in Seq(Int) /\ p \in Seq(Int) /\ InHand \in Seq(Int)
      /\ v \in Seq(Int) /\ q \in Seq(Int)
  BY PiecesNow, PiecesThen
<1>3. received' = Behind(r, x) /\ InHand' = InHand /\ queue' = queue
  BY DEF RecvMsg, echo, kafka, InHand, Behind
<1>4. Line = Joined(r, Before(x, u), p, InHand, v, q)
  BY <1>1 DEF Line
<1>5. Line' = Joined(Behind(r, x), u, p, InHand, v, q)
  BY <1>1, <1>3 DEF Line
<1> HIDE DEF x, r, u, p, v, q
<1>6. x \in Int
  BY <1>1 DEF Numbers
<1>7. Line' = Line
  BY ONLY <1>2, <1>4, <1>5, <1>6, MovesToReceiver, SMTT(40)
<1> QED BY <1>7 DEF Accounted, RecvMsg, kafka, echo, client

LEMMA EchoPollStep ==
  ASSUME Typed, Typed', Accounted, EchoPoll
  PROVE  Accounted'
<1> DEFINE x == TheNext("c2s")  r == received  u == Unread("s2c")  p == queue["s2c"]
           v == Unread("c2s")'  q == queue["c2s"]
<1>1. x \in Numbers /\ Unread("c2s") = Before(x, v) /\ Unread("s2c")' = u
  BY UnreadRead, UnreadSame DEF EchoPoll, Advance, kafka, Ways, Typed, Before
<1>2. /\ r \in Seq(Int) /\ u \in Seq(Int) /\ p \in Seq(Int)
      /\ v \in Seq(Int) /\ q \in Seq(Int)
  BY PiecesNow, PiecesThen
<1>3. received' = r /\ InHand = Held(-1) /\ InHand' = Held(x) /\ queue' = queue
  BY DEF EchoPoll, receiver, kafka, InHand, Typed
<1>4. Line = Joined(r, u, p, Held(-1), Before(x, v), q)
  BY <1>1, <1>3 DEF Line
<1>5. Line' = Joined(r, u, p, Held(x), v, q)
  BY <1>1, <1>3 DEF Line
<1> HIDE DEF x, r, u, p, v, q
<1>6. x \in Nat
  BY <1>1 DEF Numbers
<1>7. Line' = Line
  BY <1>2, <1>4, <1>5, <1>6, MovesToHand
<1> QED BY <1>7 DEF Accounted, EchoPoll, kafka, client

LEMMA EchoEnqueueStep ==
  ASSUME Typed, Typed', Accounted, EchoEnqueue
  PROVE  Accounted'
<1> DEFINE x == hand  r == received  u == Unread("s2c")  p == queue["s2c"]
           v == Unread("c2s")  q == queue["c2s"]
<1>1. x \in Numbers /\ Unread("s2c")' = u /\ Unread("c2s")' = v
  BY UnreadSame DEF EchoEnqueue, Ways, Typed
<1>2. /\ r \in Seq(Int) /\ u \in Seq(Int) /\ p \in Seq(Int)
      /\ v \in Seq(Int) /\ q \in Seq(Int)
  BY PiecesNow
<1>3. /\ received' = r /\ InHand = Held(x) /\ InHand' = Held(-1)
      /\ queue'["s2c"] = Behind(p, x) /\ queue'["c2s"] = q
  BY DEF EchoEnqueue, Enqueue, receiver, InHand, Typed, Ways, Behind
<1>4. Line = Joined(r, u, p, Held(x), v, q)
  BY <1>3 DEF Line
<1>5. Line' = Joined(r, u, Behind(p, x), Held(-1), v, q)
  BY <1>1, <1>3 DEF Line
<1> HIDE DEF x, r, u, p, v, q
<1>6. x \in Nat
  BY <1>1 DEF Numbers
<1>7. Line' = Line
  BY <1>2, <1>4, <1>5, <1>6, MovesFromHand
<1> QED BY <1>7 DEF Accounted, EchoEnqueue, client

LEMMA ClientSendStep ==
  ASSUME Typed, Typed', Accounted, ClientSend
  PROVE  Accounted'
<1> DEFINE x == next  r == received  u == Unread("s2c")  p == queue["s2c"]
           h == InHand  v == Unread("c2s")  q == queue["c2s"]
<1>1. Unread("s2c")' = u /\ Unread("c2s")' = v
  BY UnreadSame DEF ClientSend, Ways
<1>2. /\ r \in Seq(Int) /\ u \in Seq(Int) /\ p \in Seq(Int) /\ h \in Seq(Int)
      /\ v \in Seq(Int) /\ q \in Seq(Int) /\ x \in Nat
  BY PiecesNow DEF Typed
<1>3. /\ received' = r /\ InHand' = h /\ next' = x + 1 /\ epc' = epc
      /\ queue'["s2c"] = p /\ queue'["c2s"] = Behind(q, x)
      /\ failed' = failed /\ retries' = retries
  BY DEF ClientSend, Enqueue, receiver, echo, InHand, Typed, Ways, Behind
<1>4. Line = Joined(r, u, p, h, v, q)
  BY DEF Line
<1>5. Line' = Joined(r, u, p, h, v, Behind(q, x))
  BY <1>1, <1>3 DEF Line
<1> HIDE DEF r, u, p, h, v, q
<1>6. Line' = Behind(Line, x) /\ Line \in Seq(Int)
  <2>1. Line' = Behind(Line, x)
    BY ONLY <1>2, <1>4, <1>5, Sent, SMTT(40)
  <2>2. Line \in Seq(Int)
    BY <1>2, <1>4, JoinedType
  <2> QED BY <2>1, <2>2
<1>7. Account(Line, failed, x, retries) => Account(Behind(Line, x), failed, x + 1, retries)
  BY <1>2, <1>6, AccountSent DEF Behind
<1> QED BY <1>3, <1>6, <1>7 DEF Accounted

LEMMA ElementsOfRemoveAt ==
  ASSUME NEW S, NEW s \in Seq(S), Len(s) > 1
  PROVE  s[2] \in S /\ ToSet(s) = ToSet(RemoveAt(s, 2)) \cup {s[2]}
<1> DEFINE t == RemoveAt(s, 2)
<1> DEFINE a == SubSeq(s, 1, 1)  b == SubSeq(s, 3, Len(s))
<1>a. Len(s) \in Nat /\ Len(s) - 2 \in Nat
  OBVIOUS
<1>b. a \in Seq(S) /\ Len(a) = 1 /\ a[1] = s[1]
  OBVIOUS
<1>c. b \in Seq(S) /\ Len(b) = Len(s) - 2
  <2>1. 3 \in Int /\ Len(s) \in Int /\ \A i \in 3 .. Len(s) : s[i] \in S
    BY <1>a
  <2>2. b \in Seq(S) /\ Len(b) = IF 3 <= Len(s) THEN Len(s) - 3 + 1 ELSE 0
    BY <2>1, SubSeqProperties
  <2> HIDE DEF b
  <2>3. \A n \in Nat : n > 1 => n - 2 = IF 3 <= n THEN n - 3 + 1 ELSE 0
    OBVIOUS
  <2> QED BY <1>a, <2>2, <2>3
<1>d. ASSUME NEW i \in 1 .. Len(s) - 2 PROVE b[i] = s[i + 2]
  <2>1. i \in 1 .. Len(s) - 3 + 1 /\ 3 + i - 1 = i + 2
    BY <1>a
  <2>2. b[i] = s[3 + i - 1]
    BY <1>a, <2>1
  <2> QED BY <2>1, <2>2
<1>e. t = a \o b
  BY DEF RemoveAt
<1> HIDE DEF t, a, b
<1>f. /\ Len(a \o b) = Len(a) + Len(b) /\ a \o b \in Seq(S)
      /\ \A i \in 1 .. Len(a) + Len(b) : (a \o b)[i] = IF i <= Len(a) THEN a[i] ELSE b[i - Len(a)]
  BY <1>b, <1>c, ConcatProperties
<1>1. Len(t) = Len(s) - 1 /\ DOMAIN t = 1 .. Len(s) - 1 /\ Len(s) \in Nat
  BY <1>a, <1>b, <1>c, <1>e, <1>f
<1>2. t[1] = s[1] /\ \A i \in 2 .. Len(s) - 1 : t[i] = s[i + 1]
  <2>1. t[1] = s[1]
    BY <1>a, <1>b, <1>c, <1>e, <1>f
  <2>2. ASSUME NEW i \in 2 .. Len(s) - 1 PROVE t[i] = s[i + 1]
    <3>1. t[i] = b[i - 1]
      BY <1>a, <1>b, <1>c, <1>e, <1>f, <2>2
    <3>2. i - 1 \in 1 .. Len(s) - 2 /\ (i - 1) + 2 = i + 1
      BY <1>a, <2>2
    <3> QED BY <1>d, <3>1, <3>2
  <2> QED BY <2>1, <2>2
<1>3. ASSUME NEW i \in DOMAIN s PROVE s[i] \in ToSet(t) \cup {s[2]}
  <2>1. i = 1 \/ i = 2 \/ (i - 1 \in 2 .. Len(s) - 1 /\ i = (i - 1) + 1)
    BY <1>1
  <2>2. ASSUME i # 1, i # 2 PROVE t[i - 1] = s[i] /\ i - 1 \in DOMAIN t
    BY <1>1, <1>2, <2>1, <2>2
  <2>3. 1 \in DOMAIN t
    BY <1>1
  <2> QED BY <1>2, <2>2, <2>3 DEF ToSet
<1>4. ASSUME NEW i \in DOMAIN t PROVE t[i] \in ToSet(s)
  <2>1. i = 1 \/ i \in 2 .. Len(s) - 1
    BY <1>1
  <2>2. CASE i = 1
    BY <1>2, <2>2 DEF ToSet
  <2>3. CASE i \in 2 .. Len(s) - 1
    <3>1. t[i] = s[i + 1] /\ i + 1 \in DOMAIN s
      BY <1>1, <1>2, <2>3
    <3> QED BY <3>1 DEF ToSet
  <2> QED BY <2>1, <2>2, <2>3
<1>5. s[2] \in ToSet(s) /\ s[2] \in S
  BY DEF ToSet
<1> QED BY <1>3, <1>4, <1>5 DEF ToSet, t

LEMMA RetriedStep ==
  ASSUME Typed, Typed', Accounted, NEW w \in Ways, Retried(w)
  PROVE  Accounted'
<1> DEFINE Elements(way) == ToSet(Unread(way)) \cup ToSet(queue[way])
<1>1. ToSet(Line) = ToSet(received) \cup ToSet(InHand) \cup Elements("s2c") \cup Elements("c2s")
  <2> DEFINE u == Unread("s2c")  p == queue["s2c"]  v == Unread("c2s")  q == queue["c2s"]
  <2>1. /\ u \in Seq(Int) /\ p \in Seq(Int) /\ v \in Seq(Int) /\ q \in Seq(Int)
        /\ received \in Seq(Int) /\ InHand \in Seq(Int)
    BY PiecesNow
  <2> HIDE DEF u, p, v, q
  <2>2. ToSet(Joined(received, u, p, InHand, v, q))
          = ToSet(received) \cup ToSet(u) \cup ToSet(p) \cup ToSet(InHand) \cup ToSet(v) \cup ToSet(q)
    BY ONLY <2>1, ElementsOfJoined, SMTT(40)
  <2> QED BY <2>2 DEF Line, u, p, v, q
<1>2. ToSet(Line') = ToSet(received') \cup ToSet(InHand')
                        \cup Elements("s2c")' \cup Elements("c2s")'
  <2> DEFINE r == received'  h == InHand'
             u == Unread("s2c")'  p == queue'["s2c"]  v == Unread("c2s")'  q == queue'["c2s"]
  <2>1. /\ u \in Seq(Int) /\ p \in Seq(Int) /\ v \in Seq(Int) /\ q \in Seq(Int)
        /\ r \in Seq(Int) /\ h \in Seq(Int)
    BY PiecesThen
  <2> HIDE DEF r, h, u, p, v, q
  <2>2. ToSet(Joined(r, u, p, h, v, q))
          = ToSet(r) \cup ToSet(u) \cup ToSet(p) \cup ToSet(h) \cup ToSet(v) \cup ToSet(q)
    BY ONLY <2>1, ElementsOfJoined, SMTT(40)
  <2> QED BY <2>2 DEF Line, r, h, u, p, v, q
<1>3. /\ received' = received /\ InHand' = InHand /\ position' = position /\ epc' = epc
      /\ next' = next /\ failed' = failed /\ retries' = retries + 1 /\ retries \in Nat
  BY DEF Retried, echo, client, receiver, InHand, Typed
<1>4. queue[w] \in Seq(Numbers) /\ queue[w] # <<>> /\ Unread(w) \in Seq(Int)
  BY PiecesNow DEF Retried, Typed, Ways
<1>5. ASSUME NEW m \in Numbers, Written(w, m)
      PROVE  /\ ToSet(Unread(w)') = ToSet(Unread(w)) \cup {m}
             /\ \A way \in Ways \ {w} : Unread(way)' = Unread(way)
  <2>1. log'[w] = Append(log[w], m) /\ \A way \in Ways \ {w} : log'[way] = log[way]
    BY <1>5 DEF Written, Typed
  <2>2. Unread(w)' = Append(Unread(w), m) /\ m \in Int
    BY <1>3, <1>5, <2>1, UnreadWritten DEF Numbers
  <2>3. \A way \in Ways \ {w} : Unread(way)' = Unread(way)
    BY <1>3, <2>1, UnreadSame
  <2> QED BY <1>4, <2>2, <2>3, ElementsOfAppend
<1>6. Elements(w)' = Elements(w) /\ \A way \in Ways \ {w} : Elements(way)' = Elements(way)
  <2>1. CASE Written(w, Head(queue[w])) /\ UNCHANGED queue
    <3>1. Head(queue[w]) \in Numbers /\ Head(queue[w]) \in ToSet(queue[w])
      BY <1>4, ElementsOfTail
    <3> QED BY <1>5, <2>1, <3>1
  <2>2. CASE /\ Len(queue[w]) > 1
             /\ Written(w, queue[w][2])
             /\ queue' = [queue EXCEPT ![w] = RemoveAt(@, 2)]
    <3>1. /\ queue[w][2] \in Numbers
          /\ ToSet(queue[w]) = ToSet(RemoveAt(queue[w], 2)) \cup {queue[w][2]}
      BY <1>4, <2>2, ElementsOfRemoveAt
    <3>2. queue'[w] = RemoveAt(queue[w], 2) /\ \A way \in Ways \ {w} : queue'[way] = queue[way]
      BY <2>2 DEF Typed
    <3> QED BY <1>5, <2>2, <3>1, <3>2
  <2> QED BY <2>1, <2>2 DEF Retried
<1>7. ToSet(Line') = ToSet(Line)
  BY <1>1, <1>2, <1>3, <1>6 DEF Ways
<1> QED BY <1>3, <1>7, AccountRetried DEF Accounted

LEMMA AccountedInit == Init => Accounted
<1> SUFFICES ASSUME Init PROVE Account(Line, failed, next, retries)
  BY DEF Accounted
<1>1. Line = <<>>
  BY DEF Init, Line, Joined, InHand, Held, Unread, Ways
<1>2. ToSet(<<>>) = {} /\ Increasing(<<>>)
  BY DEF ToSet, Increasing
<1> QED BY <1>1, <1>2 DEF Init, Account

LEMMA AccountedStep == Typed /\ Typed' /\ Accounted /\ [Next]_vars => Accounted'
<1> SUFFICES ASSUME Typed, Typed', Accounted, [Next]_vars PROVE Accounted'
  OBVIOUS
\* A step that moves nothing and cannot raise the dead.
<1>1. ASSUME UNCHANGED <<position, log, queue, failed, retries, hand, next, received>>,
             epc' # "dead" => epc # "dead"
      PROVE  Accounted'
  <2>1. Line' = Line
    BY <1>1 DEF Line, Unread, InHand
  <2> QED BY <1>1, <2>1 DEF Accounted
<1>2. CASE \/ EchoCreatesTopics \/ EchoSubscribes \/ EchoJoins \/ EchoFails
           \/ ClientStart \/ ClientSubscribes \/ ClientJoins \/ ClientFails
           \/ RecvDrained \/ RecvFails \/ Over \/ UNCHANGED vars
           \/ \E w \in Ways : Assign(w)
  BY <1>1, <1>2 DEF EchoCreatesTopics, EchoSubscribes, EchoJoins, EchoFails, ClientStart,
     ClientSubscribes, ClientJoins, ClientFails, RecvDrained, RecvFails, Over, Assign,
     vars, kafka, echo, client, receiver
<1> QED BY <1>2, DeliveredStep, RetriedStep, EchoPollStep, EchoEnqueueStep, ClientSendStep,
           RecvMsgStep
           DEF Next, Echo, Client, Receiver, Kafka, Failure

\* The run's NothingVanishes: while the echo process lives, every message sent
\* is received, on its way or reported failed by its producer (enqueue() at
\* lib.rs:158-172); where nothing was retried, in order, once, and never
\* both delivered and failed.
THEOREM NothingIsLost == Spec => []NothingVanishes
<1>1. Typed => TypeOK
  <2> SUFFICES ASSUME Typed PROVE TypeOK
    OBVIOUS
  <2>1. \A s \in Seq(Numbers) : ToSet(s) \subseteq Numbers
    BY DEF ToSet
  <2>2. ASSUME NEW w \in Ways
        PROVE  /\ ToSet(log[w]) \cup ToSet(queue[w]) \subseteq Numbers
               /\ position[w] \in 0 .. Len(log[w])
               /\ Len(queue[w]) <= QueueMax
    BY <2>1 DEF Typed
  <2> QED BY <2>1, <2>2 DEF Typed, TypeOK
<1>2. Typed /\ Accounted => NothingVanishes
  BY <1>1, Pieces DEF Accounted, Account, Increasing, NothingVanishes
<1> QED BY <1>2, TypedInit, TypedStep, AccountedInit, AccountedStep, PTL DEF Spec
=============================================================================
