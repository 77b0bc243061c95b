---------------------------- MODULE NatsEcho_proofs ----------------------------
(***************************************************************************)
(* Why no echo is published to nobody as long as the receiver is there and *)
(* was not cut off, and why no message vanishes, for every number of       *)
(* messages, every bound of subscribers and streams and every pattern of   *)
(* resets, cut-offs and failures.                                          *)
(*                                                                         *)
(* In core mode everything hangs on the order of one connection: the       *)
(* measuring side's subscription is the first command on the connection    *)
(* that later carries its messages (SubscribedFirst), so whatever the      *)
(* server has taken after it, and whatever the echo made of it, comes      *)
(* later.  The echo's own subscription is on the other connection, and the *)
(* server may be late to take it: what it has missed by then precedes all  *)
(* the rest (LateInOrder).  In JetStream mode both streams exist before    *)
(* READY.                                                                  *)
(*                                                                         *)
(* What was sent lies in seven places, one behind the other: what was      *)
(* received, then inbox, stream and connection of either way (Line).  A    *)
(* step moves a message from one place to the next, or drops one that is   *)
(* then counted as lost; only a recreated consumer goes back, and what it  *)
(* goes back for is in the stream still, or has been trimmed (Holds).      *)
(***************************************************************************)
EXTENDS NatsEcho, SequenceTheorems, TLAPS

USE NatsAssumption

-----------------------------------------------------------------------------
(* The invariant                                                           *)

Sides    == {"echo", "client"}
Commands == {c \in [op : {"SUB", "PUB"}, way : Ways, msg : Numbers \cup {-1}] :
                c.op = "PUB" => c.msg \in Numbers}

Types ==
    /\ kind \in Kinds
    /\ wire \in [Sides -> Seq(Commands)]
    /\ active \in [Ways -> BOOLEAN] /\ exists \in [Ways -> BOOLEAN]
    /\ stored \in [Ways -> Seq(Numbers)] /\ inbox \in [Ways -> Seq(Numbers)]
    /\ trimmed \in [Ways -> Nat] /\ given \in [Ways -> Nat]
    /\ \A w \in Ways : /\ trimmed[w] <= Len(stored[w]) /\ given[w] <= Len(stored[w])
                       /\ Len(inbox[w]) <= Pending
    /\ unheard \in [Ways -> SUBSET Numbers] /\ overrun \in [Ways -> SUBSET Numbers]
    /\ cut \subseteq Ways
    /\ received \in Seq(Numbers)
    /\ epc \in {"setup", "out", "serve", "dead"} /\ announced \in BOOLEAN
    /\ cpc \in {"ready", "connect", "send", "done", "failed"} /\ next \in 0 .. Msgs
    /\ rpc \in {"unstarted", "recv", "done", "failed"}
    /\ cpc \in {"ready", "connect", "send"} => next < Msgs

\* What an ordered consumer was sent is in the stream.
InboxStored ==
    JetStream => \A w \in Ways : \A i \in DOMAIN inbox[w] :
        \E j \in 1 .. Len(stored[w]) : stored[w][j] = inbox[w][i]

\* The messages on a connection.
Published(side) == {i \in DOMAIN wire[side] : wire[side][i].op = "PUB"}

\* The two sides publish in opposite directions: the measuring side the messages
\* it has sent, the echo what it was sent.
Directions ==
    /\ \A i \in Published("client") : /\ wire["client"][i].way = "c2s"
                                      /\ wire["client"][i].msg \in 0 .. next - 1
    /\ \A i \in Published("echo") : /\ wire["echo"][i].way = "s2c"
                                    /\ wire["echo"][i].msg \in Numbers

\* Nobody sends before READY, and before READY both streams are made.
Startup ==
    /\ epc \in {"setup", "out"} => wire["echo"] = <<>> /\ ~announced
    /\ epc = "out" => JetStream /\ exists["c2s"]
    /\ epc = "serve" => announced
    /\ JetStream /\ announced => exists["c2s"] /\ exists["s2c"]
    /\ cpc \in {"connect", "send", "done"} => announced
    /\ cpc \in {"ready", "connect"} => wire["client"] = <<>>
    /\ wire["client"] # <<>> \/ wire["echo"] # <<>> => announced
    /\ cpc \in {"ready", "connect"} => rpc = "unstarted"
    /\ cpc \in {"send", "done"} => rpc # "unstarted"
    /\ rpc # "unstarted" => announced

\* The way a side's messages come.
Incoming(side) == IF side = "echo" THEN "c2s" ELSE "s2c"

\* A subscription on its way is the first command of its connection, and the
\* server does not know one for the same messages; nobody subscribes before it
\* runs.
SubscribedOnce ==
    /\ \A s \in Sides : \A i \in DOMAIN wire[s] : wire[s][i].op = "SUB" =>
          i = 1 /\ wire[s][1] = Sub(Incoming(s)) /\ ~active[Incoming(s)]
    /\ epc \in {"setup", "out"} => ~active["c2s"]
    /\ rpc = "unstarted" => ~active["s2c"] /\ wire["client"] = <<>>

\* Core: as long as the server does not know the measuring side's subscription,
\* that is the next command it will take from that side, and nothing has come
\* through to the echo.  (A side that was cut off subscribes again later.)
SubscribedFirst ==
    ~JetStream /\ ~active["s2c"] /\ "s2c" \notin cut =>
        /\ wire["client"] = <<>> \/ wire["client"][1] = Sub("s2c")
        /\ cpc \in {"send", "done"} => wire["client"] # <<>>
        /\ inbox["c2s"] = <<>> /\ Published("echo") = {}

\* m precedes all that is still on its way or has come back.
Precedes(m) ==
    /\ \A i \in Published("client") : m < wire["client"][i].msg
    /\ \A i \in Published("echo") : m < wire["echo"][i].msg
    /\ \A i \in DOMAIN inbox["c2s"] : m < inbox["c2s"][i]
    /\ \A i \in DOMAIN inbox["s2c"] : m < inbox["s2c"][i]
    /\ \A i \in DOMAIN received : m < received[i]

\* Core: what the server took before it knew the echo's subscription precedes
\* all the rest; until it knows it, nothing else has gone through.
LateInOrder ==
    ~JetStream /\ epc # "dead" =>
        /\ \A i, j \in Published("client") : i < j => wire["client"][i].msg < wire["client"][j].msg
        /\ "c2s" \notin cut =>
             /\ \A m \in unheard["c2s"] : m < next /\ Precedes(m)
             /\ ~active["c2s"] => /\ inbox["c2s"] = <<>> /\ Published("echo") = {}
                                  /\ inbox["s2c"] = <<>> /\ received = <<>>

\* JetStream captures everything; in core mode somebody listens to the echoes
\* until the receiver goes or is cut off.
Heard ==
    /\ JetStream => unheard["c2s"] = {} /\ unheard["s2c"] = {}
    /\ rpc \in {"unstarted", "recv"} /\ "s2c" \notin cut => unheard["s2c"] = {}

Invariant == /\ Types /\ InboxStored /\ Directions /\ Startup
             /\ SubscribedOnce /\ SubscribedFirst /\ LateInOrder /\ Heard

-----------------------------------------------------------------------------
(* Sequences                                                               *)

LEMMA TailElements ==
  ASSUME NEW S, NEW s \in Seq(S), s # <<>>
  PROVE  /\ Head(s) \in S /\ Head(s) = s[1] /\ 1 \in DOMAIN s
         /\ Tail(s) \in Seq(S) /\ Len(Tail(s)) = Len(s) - 1
         /\ \A i \in DOMAIN Tail(s) : i + 1 \in DOMAIN s /\ Tail(s)[i] = s[i + 1]
  OBVIOUS

LEMMA AppendElements ==
  ASSUME NEW S, NEW s \in Seq(S), NEW e \in S
  PROVE  /\ Append(s, e) \in Seq(S) /\ Len(Append(s, e)) = Len(s) + 1
         /\ \A i \in DOMAIN s : i \in DOMAIN Append(s, e) /\ Append(s, e)[i] = s[i]
         /\ \A i \in DOMAIN Append(s, e) : \/ i \in DOMAIN s /\ Append(s, e)[i] = s[i]
                                           \/ i = Len(s) + 1 /\ Append(s, e)[i] = e
  OBVIOUS

LEMMA PrefixElements ==
  ASSUME NEW S, NEW s \in Seq(S), NEW k \in 0 .. Len(s)
  PROVE  /\ SubSeq(s, 1, k) \in Seq(S) /\ Len(SubSeq(s, 1, k)) = k
         /\ \A i \in DOMAIN SubSeq(s, 1, k) : i \in DOMAIN s /\ SubSeq(s, 1, k)[i] = s[i]
  OBVIOUS

LEMMA PartElements ==
  ASSUME NEW S, NEW s \in Seq(S), NEW k \in Nat, NEW n \in 0 .. Len(s)
  PROVE  ToSet(SubSeq(s, k + 1, n)) \subseteq S
  BY DEF ToSet

-----------------------------------------------------------------------------
(* The invariant is kept                                                   *)

LEMMA InvariantInit == Init => Invariant
<1> SUFFICES ASSUME Init PROVE Invariant
  OBVIOUS
<1> USE DEF Init
<1>1. Types
  <2>1. Pending \in Nat /\ Msgs \in Nat
    OBVIOUS
  <2>2. /\ wire \in [Sides -> Seq(Commands)]
        /\ stored \in [Ways -> Seq(Numbers)] /\ inbox \in [Ways -> Seq(Numbers)]
        /\ unheard \in [Ways -> SUBSET Numbers] /\ overrun \in [Ways -> SUBSET Numbers]
        /\ trimmed \in [Ways -> Nat] /\ given \in [Ways -> Nat]
        /\ active \in [Ways -> BOOLEAN] /\ exists \in [Ways -> BOOLEAN]
    BY DEF Sides
  <2>3. \A w \in Ways : /\ trimmed[w] <= Len(stored[w]) /\ given[w] <= Len(stored[w])
                         /\ Len(inbox[w]) <= Pending
    BY <2>1
  <2>4. received \in Seq(Numbers) /\ next \in 0 .. Msgs /\ next < Msgs
    BY <2>1
  <2> QED BY <2>2, <2>3, <2>4 DEF Types
<1>2. InboxStored /\ Directions /\ LateInOrder
  BY DEF InboxStored, Directions, LateInOrder, Precedes, Published, Ways
<1>3. Startup /\ SubscribedFirst /\ Heard
  BY DEF Startup, SubscribedFirst, Heard, Published, Ways
<1>4. SubscribedOnce
  <2>1. \A t \in Sides : wire[t] = <<>>
    BY DEF Sides
  <2>2. \A w \in Ways : ~active[w]
    OBVIOUS
  <2> QED BY <2>1, <2>2 DEF SubscribedOnce, Ways, Sides
<1> QED BY <1>1, <1>2, <1>3, <1>4 DEF Invariant

\* TypeOK speaks of sets where Types speaks of sequences.
LEMMA TypesSuffice == Types => TypeOK
<1> SUFFICES ASSUME Types PROVE TypeOK
  OBVIOUS
<1>1. \A w \in Ways : ToSet(stored[w]) \cup ToSet(inbox[w]) \cup unheard[w] \cup overrun[w]
                        \subseteq Numbers
  BY DEF Types, ToSet
<1>2. ToSet(received) \subseteq Numbers
  BY DEF Types, ToSet
<1>3. \A s \in DOMAIN wire : \A i \in DOMAIN wire[s] : wire[s][i] \in Commands
  BY DEF Types
<1>4. \A w \in Ways : {trimmed[w], given[w]} \subseteq 0 .. Len(stored[w])
  BY DEF Types
<1>5. \A w \in Ways : Len(inbox[w]) <= Pending
  BY DEF Types
<1>6. {active, exists} \subseteq [Ways -> BOOLEAN]
  BY DEF Types
<1> QED BY <1>1, <1>2, <1>3, <1>4, <1>5, <1>6 DEF Types, TypeOK, Commands

\* What Write puts on a connection.
LEMMA WriteTypes ==
  ASSUME Types, NEW side \in Sides, NEW c \in Commands, Write(side, c)
  PROVE  wire' \in [Sides -> Seq(Commands)]
  BY AppendElements DEF Write, Types

\* What the server does with a stored and with a delivered message.
LEMMA StoreTypes ==
  ASSUME Types, NEW w \in Ways, NEW m \in Numbers, Store(w, m)
  PROVE  /\ stored' = [stored EXCEPT ![w] = Append(stored[w], m)]
         /\ stored' \in [Ways -> Seq(Numbers)]
         /\ \A x \in Ways : given[x] <= Len(stored'[x])
         /\ trimmed' \in [Ways -> Nat] /\ \A x \in Ways : trimmed'[x] <= Len(stored'[x])
         /\ overrun' \in [Ways -> SUBSET Numbers]
<1> DEFINE all == Append(stored[w], m)
<1>1. /\ stored \in [Ways -> Seq(Numbers)] /\ given \in [Ways -> Nat]
      /\ trimmed \in [Ways -> Nat] /\ overrun \in [Ways -> SUBSET Numbers]
      /\ \A x \in Ways : given[x] <= Len(stored[x]) /\ trimmed[x] <= Len(stored[x])
  BY DEF Types
<1>2. all \in Seq(Numbers) /\ Len(all) = Len(stored[w]) + 1
  BY <1>1, AppendElements
<1>3. stored' = [stored EXCEPT ![w] = all]
  BY DEF Store
<1>4. StreamMax \in Nat /\ StreamMax > 0
  OBVIOUS
<1>5. Len(all) - trimmed[w] > StreamMax => all[trimmed[w] + 1] \in Numbers
  BY <1>1, <1>2, <1>4
<1>6. \/ trimmed' = trimmed
      \/ Len(all) - trimmed[w] > StreamMax /\ trimmed' = [trimmed EXCEPT ![w] = trimmed[w] + 1]
  BY <1>1 DEF Store
<1>7. \/ overrun' = overrun
      \/ /\ Len(all) - trimmed[w] > StreamMax
         /\ overrun' = [overrun EXCEPT ![w] = overrun[w] \cup {all[trimmed[w] + 1]}]
  BY <1>1 DEF Store
<1> HIDE DEF all
<1>8. /\ stored' \in [Ways -> Seq(Numbers)] /\ Len(stored'[w]) = Len(stored[w]) + 1
      /\ \A x \in Ways : x # w => stored'[x] = stored[x]
  BY <1>1, <1>2, <1>3
<1>12. \A x \in Ways : Len(stored[x]) \in Nat /\ Len(stored'[x]) \in Nat
                       /\ Len(stored[x]) <= Len(stored'[x])
  <2>1. \A x \in Ways : Len(stored[x]) \in Nat /\ Len(stored'[x]) \in Nat
    BY <1>1, <1>8
  <2> QED BY <1>8, <2>1, SMTT(30)
<1>9. trimmed' \in [Ways -> Nat] /\ \A x \in Ways : trimmed'[x] <= Len(stored'[x])
  <2>1. \A x \in Ways : trimmed[x] <= Len(stored'[x])
    BY <1>1, <1>12
  <2>2. CASE /\ Len(all) - trimmed[w] > StreamMax
             /\ trimmed' = [trimmed EXCEPT ![w] = trimmed[w] + 1]
    <3>1. trimmed[w] + 1 <= Len(stored'[w])
      BY <1>1, <1>2, <1>4, <1>8, <2>2
    <3> QED BY <1>1, <2>1, <2>2, <3>1, SMTT(30)
  <2> QED BY <1>1, <1>6, <2>1, <2>2
<1>10. overrun' \in [Ways -> SUBSET Numbers]
  BY <1>1, <1>5, <1>7
<1>11. \A x \in Ways : given[x] <= Len(stored'[x])
  BY <1>1, <1>12
<1> QED BY <1>3, <1>8, <1>9, <1>10, <1>11 DEF all

LEMMA DeliverTypes ==
  ASSUME Types, NEW w \in Ways, NEW m \in Numbers, Deliver(w, m)
  PROVE  /\ \/ inbox' = [inbox EXCEPT ![w] = Append(inbox[w], m)]
            \/ inbox' = inbox
         /\ inbox' \in [Ways -> Seq(Numbers)] /\ \A x \in Ways : Len(inbox'[x]) <= Pending
         /\ overrun' \in [Ways -> SUBSET Numbers]
<1> DEFINE q == inbox[w]
<1>1. /\ inbox \in [Ways -> Seq(Numbers)] /\ \A x \in Ways : Len(inbox[x]) <= Pending
      /\ overrun \in [Ways -> SUBSET Numbers]
      /\ q \in Seq(Numbers) /\ Len(q) <= Pending /\ Pending \in Nat
  BY DEF Types
<1>2. CASE Len(q) < Pending
  <2>1. /\ inbox' = [inbox EXCEPT ![w] = Append(q, m)] /\ overrun' = overrun
        /\ Append(q, m) \in Seq(Numbers) /\ Len(Append(q, m)) = Len(q) + 1
    BY <1>1, <1>2, AppendElements DEF Deliver
  <2>2. Len(Append(q, m)) <= Pending
    BY <1>1, <1>2, <2>1
  <2> QED BY <1>1, <2>1, <2>2
<1>3. CASE ~(Len(q) < Pending)
  <2>1. overrun' = [overrun EXCEPT ![w] = overrun[w] \cup {m}] /\ inbox' = inbox
    BY <1>3 DEF Deliver
  <2> QED BY <1>1, <2>1
<1> QED BY <1>2, <1>3

\* A reader's inbox after a step that leaves it no longer.
LEMMA InboxSet ==
  ASSUME Types, NEW w \in Ways, NEW t \in Seq(Numbers), Len(t) <= Len(inbox[w]),
         inbox' = [inbox EXCEPT ![w] = t]
  PROVE  inbox' \in [Ways -> Seq(Numbers)] /\ \A x \in Ways : Len(inbox'[x]) <= Pending
<1>1. /\ inbox \in [Ways -> Seq(Numbers)] /\ \A x \in Ways : Len(inbox[x]) <= Pending
      /\ Pending \in Nat
  BY DEF Types
<1>2. Len(t) <= Pending
  <2>1. Len(inbox[w]) \in Nat /\ Len(t) \in Nat
    BY <1>1
  <2> QED BY <1>1, <2>1
<1>3. inbox'[w] = t /\ \A x \in Ways : x # w => inbox'[x] = inbox[x]
  BY <1>1
<1> QED BY <1>1, <1>2, <1>3

LEMMA InboxEmptied ==
  ASSUME Types, NEW w \in Ways, inbox' = [inbox EXCEPT ![w] = <<>>]
  PROVE  inbox' \in [Ways -> Seq(Numbers)] /\ \A x \in Ways : Len(inbox'[x]) <= Pending
<1>1. <<>> \in Seq(Numbers) /\ Len(<<>>) <= Len(inbox[w])
  <2>1. inbox[w] \in Seq(Numbers)
    BY DEF Types
  <2> QED BY <2>1
<1> QED BY <1>1, InboxSet

\* What is left of a connection that was cut off, behind the new subscription.
LEMMA RestSent ==
  ASSUME NEW s \in Seq(Commands), NEW j \in 0 .. Len(s), NEW e \in Commands,
         NEW t, t = <<e>> \o SubSeq(s, j + 1, Len(s))
  PROVE  /\ t \in Seq(Commands) /\ t # <<>> /\ t[1] = e
         /\ \A i \in DOMAIN t : i \in Nat /\ i >= 1
         /\ \A i \in DOMAIN t : i # 1 => (i - 1) + j \in DOMAIN s /\ t[i] = s[(i - 1) + j]
<1> DEFINE u == SubSeq(s, j + 1, Len(s))  n == Len(s) - j
<1>0. t = <<e>> \o u
  OBVIOUS
<1>1. /\ u \in Seq(Commands) /\ n \in Nat /\ Len(u) = n /\ j \in Nat /\ DOMAIN s = 1 .. n + j
      /\ \A i \in 1 .. n : u[i] = s[i + j]
  BY ONLY s \in Seq(Commands), j \in 0 .. Len(s)
<1> HIDE DEF u, n
<1>2. /\ t \in Seq(Commands) /\ Len(t) = n + 1 /\ t[1] = e
      /\ \A i \in 1 .. n + 1 : i # 1 => t[i] = u[i - 1]
  BY <1>0, <1>1
<1>3. DOMAIN t = 1 .. n + 1 /\ t # <<>>
  BY <1>1, <1>2
<1>4. ASSUME NEW i \in 1 .. n + 1, i # 1
      PROVE  (i - 1) + j \in DOMAIN s /\ t[i] = s[(i - 1) + j]
  <2>1. i - 1 \in 1 .. n /\ (i - 1) + j \in 1 .. n + j
    BY <1>1, <1>4
  <2> QED BY <1>1, <1>2, <1>4, <2>1
<1>5. \A i \in DOMAIN t : i \in Nat /\ i >= 1
  BY <1>1, <1>3
<1>6. \A i \in DOMAIN t : i # 1 => (i - 1) + j \in DOMAIN s /\ t[i] = s[(i - 1) + j]
  BY ONLY <1>3, <1>4
<1> QED BY <1>2, <1>3, <1>5, <1>6

\* What a cut-off leaves: of the inbox the front, and of the commands on their
\* way, behind the subscription, the rest.
LEMMA CutElements ==
  ASSUME Types, NEW w \in Ways, CutOff(w)
  PROVE  /\ Reader(w) \in Sides /\ ~JetStream /\ active[w] /\ Listens(w)
         /\ active' = [active EXCEPT ![w] = FALSE] /\ cut' = cut \cup {w}
         /\ inbox' \in [Ways -> Seq(Numbers)] /\ \A x \in Ways : Len(inbox'[x]) <= Pending
         /\ \A x \in Ways : \A i \in DOMAIN inbox'[x] : i \in DOMAIN inbox[x]
                                                        /\ inbox'[x][i] = inbox[x][i]
         /\ wire' \in [Sides -> Seq(Commands)] /\ wire'[Reader(w)] # <<>>
         /\ wire'[Reader(w)][1] = Sub(w)
         /\ \E j \in Nat : \A i \in DOMAIN wire'[Reader(w)] : i \in Nat /\ i >= 1 /\
               (i # 1 => /\ (i - 1) + j \in DOMAIN wire[Reader(w)]
                         /\ wire'[Reader(w)][i] = wire[Reader(w)][(i - 1) + j])
         /\ \A s \in Sides : s # Reader(w) => wire'[s] = wire[s]
<1> DEFINE cs == wire[Reader(w)]
<1>1. PICK k \in 0 .. Len(inbox[w]), j \in 0 .. Len(cs) :
          /\ inbox' = [inbox EXCEPT ![w] = SubSeq(inbox[w], 1, k)]
          /\ wire' = [wire EXCEPT ![Reader(w)] = <<Sub(w)>> \o SubSeq(cs, j + 1, Len(cs))]
  BY DEF CutOff
<1>2. /\ inbox \in [Ways -> Seq(Numbers)] /\ \A x \in Ways : Len(inbox[x]) <= Pending
      /\ Pending \in Nat /\ wire \in [Sides -> Seq(Commands)] /\ Reader(w) \in Sides
      /\ cs \in Seq(Commands) /\ Sub(w) \in Commands
  BY DEF Types, Reader, Sides, Sub, Commands
<1>3. /\ SubSeq(inbox[w], 1, k) \in Seq(Numbers) /\ Len(SubSeq(inbox[w], 1, k)) = k
      /\ \A i \in DOMAIN SubSeq(inbox[w], 1, k) :
            i \in DOMAIN inbox[w] /\ SubSeq(inbox[w], 1, k)[i] = inbox[w][i]
  BY <1>1, <1>2, PrefixElements
<1>4. k <= Pending
  BY <1>1, <1>2
<1>5. /\ inbox'[w] = SubSeq(inbox[w], 1, k) /\ \A x \in Ways : x # w => inbox'[x] = inbox[x]
      /\ inbox' \in [Ways -> Seq(Numbers)]
  BY <1>1, <1>2, <1>3
<1> DEFINE t == <<Sub(w)>> \o SubSeq(cs, j + 1, Len(cs))
<1>6. /\ t \in Seq(Commands) /\ t # <<>> /\ t[1] = Sub(w)
      /\ \A i \in DOMAIN t : i \in Nat /\ i >= 1
      /\ \A i \in DOMAIN t : i # 1 => (i - 1) + j \in DOMAIN cs /\ t[i] = cs[(i - 1) + j]
  <2>1. cs \in Seq(Commands) /\ j \in 0 .. Len(cs) /\ Sub(w) \in Commands
        /\ t = <<Sub(w)>> \o SubSeq(cs, j + 1, Len(cs))
    BY <1>1, <1>2
  <2> HIDE DEF cs, t
  <2> QED BY ONLY <2>1, RestSent, SMTT(30)
<1>7. wire' = [wire EXCEPT ![Reader(w)] = t]
  BY <1>1
<1> HIDE DEF t, cs
<1>8. /\ wire'[Reader(w)] = t /\ \A s \in Sides : s # Reader(w) => wire'[s] = wire[s]
      /\ wire' \in [Sides -> Seq(Commands)]
  BY <1>2, <1>6, <1>7
<1>9. j \in Nat
  BY <1>1, <1>2
<1>10. \A x \in Ways : /\ Len(inbox'[x]) <= Pending
                        /\ \A i \in DOMAIN inbox'[x] : i \in DOMAIN inbox[x]
                                                       /\ inbox'[x][i] = inbox[x][i]
  BY <1>2, <1>3, <1>4, <1>5
<1>11. ~JetStream /\ active[w] /\ Listens(w) /\ cut' = cut \cup {w}
       /\ active' = [active EXCEPT ![w] = FALSE]
  BY DEF CutOff
<1> QED BY <1>2, <1>5, <1>6, <1>8, <1>9, <1>10, <1>11 DEF cs

LEMMA TypesStep == Types /\ InboxStored /\ SubscribedOnce /\ [Next]_vars => Types'
<1> SUFFICES ASSUME Types, InboxStored, SubscribedOnce, [Next]_vars PROVE Types'
  OBVIOUS
<1> USE DEF server, echo, client, receiver
<1> USE DEF Types
<1>01. /\ "c2s" \in Ways /\ "s2c" \in Ways /\ "echo" \in Sides /\ "client" \in Sides
       /\ Msgs \in Nat /\ Msgs > 0 /\ Pending \in Nat /\ StreamMax \in Nat /\ StreamMax > 0
  BY DEF Ways, Sides
<1>02. \A w \in Ways : /\ Sub(w) \in Commands
                       /\ \A m \in Numbers : Pub(w, m) \in Commands
  BY DEF Sub, Pub, Commands
<1> HIDE NatsAssumption
<1>1. ASSUME NEW side \in Sides, ServerTakes(side) PROVE Types'
  <2> DEFINE c == Head(wire[side])
  <2>1. c \in Commands /\ wire' \in [Sides -> Seq(Commands)]
    BY <1>1, TailElements DEF ServerTakes
  <2>2. /\ c.way \in Ways /\ (c.op = "PUB" => c.msg \in Numbers)
        /\ UNCHANGED <<kind, exists, given, cut, echo, client, receiver>>
    BY <1>1, <2>1 DEF ServerTakes, Commands
  <2> HIDE DEF c
  <2>3. CASE /\ active' = [active EXCEPT ![c.way] = TRUE]
             /\ UNCHANGED <<stored, trimmed, unheard, inbox, overrun>>
    BY <2>1, <2>2, <2>3
  <2>4. CASE c.op = "PUB" /\ Store(c.way, c.msg) /\ UNCHANGED <<active, unheard, inbox>>
    BY <2>1, <2>2, <2>4, StoreTypes
  <2>5. CASE c.op = "PUB" /\ Deliver(c.way, c.msg) /\ UNCHANGED <<active, stored, trimmed, unheard>>
    BY <2>1, <2>2, <2>5, DeliverTypes
  <2>6. CASE /\ c.op = "PUB" /\ unheard' = [unheard EXCEPT ![c.way] = @ \cup {c.msg}]
             /\ UNCHANGED <<active, stored, trimmed, inbox, overrun>>
    BY <2>1, <2>2, <2>6
  <2> QED BY <1>1, <2>3, <2>4, <2>5, <2>6 DEF ServerTakes, c
<1>2. ASSUME NEW w \in Ways, ConsumerDelivers(w) PROVE Types'
  <2> DEFINE n == Later(given[w], trimmed[w]) + 1
  <2>1. /\ n \in 1 .. Len(stored[w]) /\ Len(inbox[w]) < Pending
        /\ given' = [given EXCEPT ![w] = n]
        /\ inbox' = [inbox EXCEPT ![w] = Append(inbox[w], stored[w][n])]
    BY <1>2 DEF ConsumerDelivers, Later
  <2> HIDE DEF n
  <2>2. stored[w][n] \in Numbers
    BY <2>1
  <2>3. /\ Append(inbox[w], stored[w][n]) \in Seq(Numbers)
        /\ Len(Append(inbox[w], stored[w][n])) = Len(inbox[w]) + 1
    BY <2>2, AppendElements
  <2>4. Len(Append(inbox[w], stored[w][n])) <= Pending
    BY <1>01, <2>1, <2>3
  <2>6. inbox' \in [Ways -> Seq(Numbers)] /\ \A x \in Ways : Len(inbox'[x]) <= Pending
    BY <2>1, <2>3, <2>4
  <2>5. given' \in [Ways -> Nat] /\ \A x \in Ways : given'[x] <= Len(stored[x])
    BY <2>1
  <2> QED BY <1>2, <2>5, <2>6 DEF ConsumerDelivers
<1>3. ASSUME NEW w \in Ways, ConsumerReset(w) PROVE Types'
  <2> DEFINE first == CHOOSE i \in 1 .. Len(stored[w]) : stored[w][i] = Head(inbox[w])
  <2>1. JetStream /\ inbox[w] # <<>>
    BY <1>3 DEF ConsumerReset, HasConsumer
  <2>2. \E i \in 1 .. Len(stored[w]) : stored[w][i] = Head(inbox[w])
    BY <2>1, TailElements DEF InboxStored
  <2>3. first \in 1 .. Len(stored[w])
    BY <2>2
  <2>4. /\ given' = [given EXCEPT ![w] = first - 1]
        /\ inbox' = [inbox EXCEPT ![w] = <<>>]
        /\ overrun' = [overrun EXCEPT ![w] = overrun[w] \cup
              (ToSet(inbox[w]) \cap ToSet(SubSeq(stored[w], first, trimmed[w])))]
    BY <1>3 DEF ConsumerReset
  <2> HIDE DEF first
  <2>5. given' \in [Ways -> Nat] /\ \A x \in Ways : given'[x] <= Len(stored[x])
    BY <2>3, <2>4
  <2>6. ToSet(inbox[w]) \subseteq Numbers
    BY DEF ToSet
  <2>7. overrun' \in [Ways -> SUBSET Numbers]
    BY <2>4, <2>6
  <2>8. inbox' \in [Ways -> Seq(Numbers)] /\ \A x \in Ways : Len(inbox'[x]) <= Pending
    BY <2>4, InboxEmptied
  <2> QED BY <1>3, <2>5, <2>7, <2>8 DEF ConsumerReset
<1>4. CASE EchoSubscribes
  <2>1. wire' \in [Sides -> Seq(Commands)]
    BY <1>01, <1>02, <1>4, WriteTypes DEF EchoSubscribes
  <2> QED BY <1>4, <2>1 DEF EchoSubscribes
<1>5. CASE EchoMakesIn \/ EchoMakesOut
  <2>1. exists' \in [Ways -> BOOLEAN]
    BY <1>5 DEF EchoMakesIn, EchoMakesOut, EnsureStream
  <2> QED BY <1>5, <2>1 DEF EchoMakesIn, EchoMakesOut
<1>6. CASE EchoServe
  <2> DEFINE q == inbox["c2s"]
  <2>1. Head(q) \in Numbers /\ Tail(q) \in Seq(Numbers) /\ Len(Tail(q)) = Len(q) - 1
    BY <1>01, <1>6, TailElements DEF EchoServe
  <2>2. wire' \in [Sides -> Seq(Commands)]
    BY <1>01, <1>02, <1>6, <2>1, WriteTypes DEF EchoServe
  <2>3. /\ inbox' \in [Ways -> Seq(Numbers)]
        /\ \A w \in Ways : Len(inbox'[w]) <= Pending
    <3>1. inbox' = [inbox EXCEPT !["c2s"] = Tail(q)] /\ Len(Tail(q)) <= Len(q)
      BY <1>01, <1>6, <2>1 DEF EchoServe
    <3> QED BY <1>01, <2>1, <3>1, InboxSet
  <2> QED BY <1>6, <2>2, <2>3 DEF EchoServe
<1>7. CASE EchoFails
  <2>1. /\ inbox' \in [Ways -> Seq(Numbers)]
        /\ \A w \in Ways : Len(inbox'[w]) <= Pending
    BY <1>01, <1>7, InboxEmptied DEF EchoFails
  <2> QED BY <1>7, <2>1 DEF EchoFails
<1>8. CASE ClientStart \/ ClientFails \/ RecvTimedOut
  BY <1>8 DEF ClientStart, ClientFails, RecvTimedOut
<1>9. CASE ClientConnects
  <2>1. wire' \in [Sides -> Seq(Commands)] /\ exists' \in [Ways -> BOOLEAN]
    BY <1>01, <1>02, <1>9, WriteTypes DEF ClientConnects, EnsureStream
  <2>2. /\ cpc' = "send" /\ rpc' = "recv" /\ next' < Msgs
        /\ UNCHANGED <<kind, active, stored, trimmed, given, unheard, cut, inbox, overrun,
                       echo, next, received>>
    BY <1>01, <1>9 DEF ClientConnects, StartRun
  <2> QED BY <2>1, <2>2
<1>10. CASE ClientSend
  <2>1. next \in Numbers /\ next' = next + 1 /\ next' \in 0 .. Msgs
    BY <1>01, <1>10 DEF ClientSend, Numbers
  <2>2. wire' \in [Sides -> Seq(Commands)]
    BY <1>01, <1>02, <1>10, <2>1, WriteTypes DEF ClientSend
  <2>3. cpc' \in {"send", "done"} /\ (cpc' = "send" => next' < Msgs)
    BY <1>01, <1>10, <2>1 DEF ClientSend, AfterSend
  <2> QED BY <1>10, <2>1, <2>2, <2>3 DEF ClientSend
<1>11. CASE RecvMsg
  <2> DEFINE q == inbox["s2c"]
  <2>1. Head(q) \in Numbers /\ Tail(q) \in Seq(Numbers) /\ Len(Tail(q)) = Len(q) - 1
    BY <1>01, <1>11, TailElements DEF RecvMsg
  <2>2. /\ inbox' \in [Ways -> Seq(Numbers)]
        /\ \A w \in Ways : Len(inbox'[w]) <= Pending
    <3>1. inbox' = [inbox EXCEPT !["s2c"] = Tail(q)] /\ Len(Tail(q)) <= Len(q)
      BY <1>01, <1>11, <2>1 DEF RecvMsg
    <3> QED BY <1>01, <2>1, <3>1, InboxSet
  <2>3. received' \in Seq(Numbers)
    BY <1>11, <2>1, AppendElements DEF RecvMsg
  <2> QED BY <1>11, <2>2, <2>3 DEF RecvMsg
<1>12. CASE Over \/ UNCHANGED vars
  BY <1>12 DEF Over, vars
<1>13. CASE RecvFails
  <2>1. ToSet(inbox["s2c"]) \subseteq Numbers
    BY <1>01 DEF ToSet
  <2>2. overrun' \in [Ways -> SUBSET Numbers]
    BY <1>01, <1>13, <2>1 DEF RecvFails
  <2>3. /\ inbox' \in [Ways -> Seq(Numbers)]
        /\ \A w \in Ways : Len(inbox'[w]) <= Pending
    BY <1>01, <1>13, InboxEmptied DEF RecvFails
  <2> QED BY <1>13, <2>2, <2>3 DEF RecvFails
<1>14. ASSUME NEW w \in Ways, CutOff(w) PROVE Types'
  <2> DEFINE cs == wire[Reader(w)]
  <2>1. PICK k \in 0 .. Len(inbox[w]), j \in 0 .. Len(cs) :
            overrun' = [overrun EXCEPT
                ![w] = @ \cup ToSet(SubSeq(inbox[w], k + 1, Len(inbox[w]))),
                ![Opposite(w)] = @ \cup {cs[i].msg : i \in 1 .. j}]
    BY <1>14 DEF CutOff
  <2>2. ToSet(SubSeq(inbox[w], k + 1, Len(inbox[w]))) \subseteq Numbers
    <3>1. inbox[w] \in Seq(Numbers) /\ k \in Nat /\ Len(inbox[w]) \in 0 .. Len(inbox[w])
      BY <2>1
    <3> QED BY <3>1, PartElements
  <2>3. {cs[i].msg : i \in 1 .. j} \subseteq Numbers
    <3>1. Reader(w) \in Sides /\ Incoming(Reader(w)) = w /\ active[w]
      BY <1>14 DEF CutOff, Reader, Incoming, Sides, Ways
    <3>2. ASSUME NEW i \in 1 .. j PROVE cs[i].msg \in Numbers
      <4>1. i \in DOMAIN cs /\ cs[i] \in Commands
        BY <2>1, <3>1
      <4>2. cs[i].op # "SUB"
        BY <3>1, <4>1 DEF SubscribedOnce
      <4> QED BY <4>1, <4>2 DEF Commands
    <3> QED BY <3>2
  <2>4. Opposite(w) \in Ways
    BY DEF Opposite, Ways
  <2> HIDE DEF cs
  <2>5. overrun' \in [Ways -> SUBSET Numbers]
    BY <2>1, <2>2, <2>3, <2>4
  <2>6. /\ active' \in [Ways -> BOOLEAN] /\ cut' \subseteq Ways
        /\ inbox' \in [Ways -> Seq(Numbers)] /\ \A x \in Ways : Len(inbox'[x]) <= Pending
        /\ wire' \in [Sides -> Seq(Commands)]
    <3>1. /\ active' = [active EXCEPT ![w] = FALSE] /\ cut' = cut \cup {w}
          /\ inbox' \in [Ways -> Seq(Numbers)] /\ \A x \in Ways : Len(inbox'[x]) <= Pending
          /\ wire' \in [Sides -> Seq(Commands)]
      BY <1>14, CutElements
    <3> QED BY <3>1
  <2>7. UNCHANGED <<kind, exists, stored, trimmed, given, unheard, echo, client, receiver>>
    BY <1>14 DEF CutOff
  <2> QED BY <2>5, <2>6, <2>7
<1> QED BY <1>1, <1>2, <1>3, <1>4, <1>5, <1>6, <1>7, <1>8, <1>9, <1>10, <1>11, <1>12, <1>13, <1>14
        DEF Next, Echo, Client, Receiver, Server, Failure, Sides

\* What a step does to the commands on a connection: the server takes the
\* first, a side adds one behind the last.
LEMMA TakenCommands ==
  ASSUME Types, NEW side \in Sides, ServerTakes(side)
  PROVE  /\ 1 \in DOMAIN wire[side] /\ Head(wire[side]) = wire[side][1]
         /\ Head(wire[side]) \in Commands
         /\ Head(wire[side]).op = "PUB" => 1 \in Published(side)
         /\ \A i \in Published(side)' : /\ i + 1 \in Published(side) /\ i \in Nat /\ i > 0
                                        /\ wire'[side][i] = wire[side][i + 1]
         /\ \A s \in Sides : s # side => wire'[s] = wire[s] /\ Published(s)' = Published(s)
<1>1. /\ wire \in [Sides -> Seq(Commands)] /\ wire[side] \in Seq(Commands) /\ wire[side] # <<>>
      /\ wire' = [wire EXCEPT ![side] = Tail(wire[side])]
  BY DEF Types, ServerTakes
<1>2. wire'[side] = Tail(wire[side])
  BY <1>1
<1> QED BY <1>1, <1>2, TailElements DEF Published

LEMMA WrittenCommands ==
  ASSUME Types, NEW side \in Sides, NEW c \in Commands, Write(side, c)
  PROVE  /\ wire'[side] # <<>>
         /\ wire'[side][1] = IF wire[side] = <<>> THEN c ELSE wire[side][1]
         /\ \A i \in Published(side) : i \in Nat /\ i <= Len(wire[side])
         /\ \A i \in Published(side)' :
              \/ i \in Published(side) /\ wire'[side][i] = wire[side][i]
              \/ i = Len(wire[side]) + 1 /\ wire'[side][i] = c /\ c.op = "PUB"
         /\ \A s \in Sides : s # side => wire'[s] = wire[s] /\ Published(s)' = Published(s)
<1>1. /\ wire \in [Sides -> Seq(Commands)] /\ wire[side] \in Seq(Commands)
      /\ wire' = [wire EXCEPT ![side] = Append(wire[side], c)]
  BY DEF Types, Write
<1>2. wire'[side] = Append(wire[side], c)
  BY <1>1
<1>3. wire'[side] # <<>> /\ wire'[side][1] = IF wire[side] = <<>> THEN c ELSE wire[side][1]
  BY <1>1, <1>2
<1> QED BY <1>1, <1>2, <1>3, AppendElements DEF Published

\* What a cut-off leaves on a connection was there before, in the same order.
LEMMA CutPublished ==
  ASSUME Types, NEW w \in Ways, CutOff(w), NEW s \in Sides
  PROVE  \E j \in Int : \A i \in Published(s)' :
            /\ i \in Int /\ i + j \in Published(s)
            /\ wire'[s][i] = wire[s][i + j]
<1>1. wire[s] \in Seq(Commands)
  BY DEF Types
<1>2. CASE s = Reader(w)
  <2>1. /\ wire'[s][1] = Sub(w)
        /\ \E j \in Nat : \A i \in DOMAIN wire'[s] : i \in Nat /\ i >= 1 /\
               (i # 1 => (i - 1) + j \in DOMAIN wire[s] /\ wire'[s][i] = wire[s][(i - 1) + j])
    BY <1>2, CutElements
  <2>2. PICK j \in Nat : \A i \in DOMAIN wire'[s] : i \in Nat /\ i >= 1 /\
               (i # 1 => (i - 1) + j \in DOMAIN wire[s] /\ wire'[s][i] = wire[s][(i - 1) + j])
    BY <2>1
  <2>3. Sub(w).op # "PUB"
    BY DEF Sub
  <2>4. j - 1 \in Int
    BY <2>2
  <2>5. ASSUME NEW i \in Published(s)'
        PROVE  /\ i \in Int /\ i + (j - 1) \in Published(s)
               /\ wire'[s][i] = wire[s][i + (j - 1)]
    <3>1. i \in DOMAIN wire'[s] /\ wire'[s][i].op = "PUB"
      BY <2>5 DEF Published
    <3>2. i # 1
      BY <2>1, <2>3, <3>1
    <3>3. /\ i \in Nat /\ (i - 1) + j \in DOMAIN wire[s]
          /\ wire'[s][i] = wire[s][(i - 1) + j]
      BY <2>2, <3>1, <3>2
    <3>4. (i - 1) + j = i + (j - 1)
      BY <2>2, <3>3
    <3> QED BY <3>1, <3>3, <3>4 DEF Published
  <2> QED BY <2>4, <2>5
<1>3. CASE s # Reader(w)
  <2>1. wire'[s] = wire[s]
    BY <1>3, CutElements
  <2>2. \A i \in Published(s)' : /\ i \in Int /\ i + 0 \in Published(s)
                                 /\ wire'[s][i] = wire[s][i + 0]
    BY <1>1, <2>1 DEF Published
  <2> QED BY <2>2
<1> QED BY <1>2, <1>3

\* A delivery brings its message alone.
LEMMA DeliveredElements ==
  ASSUME Types, NEW w \in Ways, NEW m \in Numbers, Deliver(w, m)
  PROVE  \A x \in Ways : \A i \in DOMAIN inbox'[x] :
            \/ i \in DOMAIN inbox[x] /\ inbox'[x][i] = inbox[x][i]
            \/ x = w /\ inbox'[x][i] = m
<1>1. inbox \in [Ways -> Seq(Numbers)] /\ inbox[w] \in Seq(Numbers)
  BY DEF Types
<1>2. CASE inbox' = [inbox EXCEPT ![w] = Append(inbox[w], m)]
  <2>1. inbox'[w] = Append(inbox[w], m) /\ \A x \in Ways : x # w => inbox'[x] = inbox[x]
    BY <1>1, <1>2
  <2> QED BY <1>1, <2>1, AppendElements
<1>3. CASE inbox' = inbox
  BY <1>3
<1> QED BY <1>2, <1>3, DeliverTypes

\* What a reader leaves.
LEMMA TakenElements ==
  ASSUME Types, NEW w \in Ways, inbox[w] # <<>>, inbox' = [inbox EXCEPT ![w] = Tail(inbox[w])]
  PROVE  /\ 1 \in DOMAIN inbox[w] /\ Head(inbox[w]) = inbox[w][1] /\ Head(inbox[w]) \in Numbers
         /\ \A i \in DOMAIN inbox'[w] : i + 1 \in DOMAIN inbox[w] /\ inbox'[w][i] = inbox[w][i + 1]
         /\ \A x \in Ways : x # w => inbox'[x] = inbox[x]
<1>1. inbox \in [Ways -> Seq(Numbers)] /\ inbox[w] \in Seq(Numbers)
  BY DEF Types
<1>2. inbox'[w] = Tail(inbox[w])
  BY <1>1
<1> QED BY <1>1, <1>2, TailElements

\* The four things the server may do with a command.
LEMMA ServerCases ==
  ASSUME Types, NEW side \in Sides, ServerTakes(side)
  PROVE  LET c == Head(wire[side]) IN
         /\ c.way \in Ways /\ (c.op = "PUB" => c.msg \in Numbers)
         /\ UNCHANGED <<kind, exists, given, cut, echo, client, receiver>>
         /\ \/ /\ c.op = "SUB" /\ active' = [active EXCEPT ![c.way] = TRUE]
               /\ UNCHANGED <<stored, unheard, inbox>>
            \/ /\ c.op = "PUB" /\ JetStream /\ exists[c.way]
               /\ stored' = [stored EXCEPT ![c.way] = Append(stored[c.way], c.msg)]
               /\ UNCHANGED <<active, unheard, inbox>>
            \/ /\ c.op = "PUB" /\ ~JetStream /\ active[c.way] /\ Listens(c.way)
               /\ Deliver(c.way, c.msg)
               /\ UNCHANGED <<active, stored, unheard>>
            \/ /\ c.op = "PUB"
               /\ IF JetStream THEN ~exists[c.way] ELSE ~active[c.way] \/ ~Listens(c.way)
               /\ unheard' = [unheard EXCEPT ![c.way] = unheard[c.way] \cup {c.msg}]
               /\ UNCHANGED <<active, stored, inbox>>
<1> DEFINE c == Head(wire[side])
<1>1. c \in Commands
  BY TakenCommands
<1>2. c.way \in Ways /\ (c.op = "PUB" => c.msg \in Numbers)
  BY <1>1 DEF Commands
<1>3. UNCHANGED <<kind, exists, given, cut, echo, client, receiver>>
  BY DEF ServerTakes
<1> QED BY <1>2, <1>3 DEF ServerTakes, Store, Types

\* A step that adds to the streams, and to the inboxes only what is stored.
LEMMA StaysStored ==
  ASSUME InboxStored, kind' = kind,
         \A w \in Ways : \A j \in 1 .. Len(stored[w]) :
            j \in 1 .. Len(stored'[w]) /\ stored'[w][j] = stored[w][j],
         \A w \in Ways : \A i \in DOMAIN inbox'[w] :
            \/ \E k \in DOMAIN inbox[w] : inbox'[w][i] = inbox[w][k]
            \/ \E j \in 1 .. Len(stored[w]) : inbox'[w][i] = stored[w][j]
  PROVE  InboxStored'
<1> SUFFICES ASSUME JetStream, NEW w \in Ways, NEW i \in DOMAIN inbox'[w]
             PROVE  \E j \in 1 .. Len(stored'[w]) : stored'[w][j] = inbox'[w][i]
  BY DEF InboxStored, JetStream
<1>1. PICK j \in 1 .. Len(stored[w]) : stored[w][j] = inbox'[w][i]
  <2>1. CASE \E k \in DOMAIN inbox[w] : inbox'[w][i] = inbox[w][k]
    <3>1. PICK k \in DOMAIN inbox[w] : inbox'[w][i] = inbox[w][k]
      BY <2>1
    <3> QED BY <3>1 DEF InboxStored
  <2> QED BY <2>1
<1> QED BY <1>1

LEMMA StoredStep == Types /\ InboxStored /\ [Next]_vars => InboxStored'
<1> SUFFICES ASSUME Types, InboxStored, [Next]_vars PROVE InboxStored'
  OBVIOUS
<1>0. /\ stored \in [Ways -> Seq(Numbers)] /\ inbox \in [Ways -> Seq(Numbers)]
      /\ "c2s" \in Ways /\ "s2c" \in Ways
  BY DEF Types, Ways
<1> HIDE NatsAssumption
<1>1. ASSUME NEW side \in Sides, ServerTakes(side) PROVE InboxStored'
  <2> DEFINE c == Head(wire[side])
  <2>1. kind' = kind /\ \/ UNCHANGED <<stored, inbox>>
                        \/ ~JetStream
                        \/ /\ inbox' = inbox /\ c.way \in Ways /\ c.msg \in Numbers
                           /\ stored' = [stored EXCEPT ![c.way] = Append(stored[c.way], c.msg)]
    BY <1>1, ServerCases
  <2> HIDE DEF c
  <2>2. CASE ~JetStream
    BY <2>1, <2>2 DEF InboxStored, JetStream
  <2>3. CASE UNCHANGED <<stored, inbox>>
    BY <2>1, <2>3, StaysStored
  <2>4. CASE /\ inbox' = inbox /\ c.way \in Ways /\ c.msg \in Numbers
             /\ stored' = [stored EXCEPT ![c.way] = Append(stored[c.way], c.msg)]
    <3>1. \A w \in Ways : \A j \in 1 .. Len(stored[w]) :
             j \in 1 .. Len(stored'[w]) /\ stored'[w][j] = stored[w][j]
      BY <1>0, <2>4, AppendElements
    <3> QED BY <2>1, <2>4, <3>1, StaysStored
  <2> QED BY <2>1, <2>2, <2>3, <2>4
<1>2. ASSUME NEW w \in Ways, ConsumerDelivers(w) PROVE InboxStored'
  <2> DEFINE n == Later(given[w], trimmed[w]) + 1
  <2>1. /\ n \in 1 .. Len(stored[w]) /\ kind' = kind /\ stored' = stored
        /\ inbox' = [inbox EXCEPT ![w] = Append(inbox[w], stored[w][n])]
    BY <1>2 DEF ConsumerDelivers, Later, Types
  <2> HIDE DEF n
  <2>2. stored[w][n] \in Numbers /\ inbox[w] \in Seq(Numbers)
    BY <1>0, <2>1
  <2>3. inbox'[w] = Append(inbox[w], stored[w][n]) /\ \A x \in Ways : x # w => inbox'[x] = inbox[x]
    BY <1>0, <2>1
  <2>4. \A i \in DOMAIN inbox'[w] : (i \in DOMAIN inbox[w] /\ inbox'[w][i] = inbox[w][i])
                                      \/ inbox'[w][i] = stored[w][n]
    BY <2>2, <2>3, AppendElements
  <2> QED BY <2>1, <2>3, <2>4, StaysStored
<1>3. ASSUME NEW w \in Ways, kind' = kind, stored' = stored, inbox' = [inbox EXCEPT ![w] = <<>>]
      PROVE  InboxStored'
  <2>1. inbox'[w] = <<>> /\ \A x \in Ways : x # w => inbox'[x] = inbox[x]
    BY <1>0, <1>3
  <2> QED BY <1>3, <2>1, StaysStored
<1>4. ASSUME NEW w \in Ways, inbox[w] # <<>>, inbox' = [inbox EXCEPT ![w] = Tail(inbox[w])],
             UNCHANGED <<kind, stored>>
      PROVE  InboxStored'
  <2>1. /\ \A i \in DOMAIN inbox'[w] : i + 1 \in DOMAIN inbox[w] /\ inbox'[w][i] = inbox[w][i + 1]
        /\ \A x \in Ways : x # w => inbox'[x] = inbox[x]
    BY <1>4, TakenElements
  <2> QED BY <1>4, <2>1, StaysStored
<1>5. CASE EchoServe
  BY <1>0, <1>4, <1>5 DEF EchoServe, server
<1>6. CASE RecvMsg
  BY <1>0, <1>4, <1>6 DEF RecvMsg, server
<1>7. CASE EchoFails
  BY <1>0, <1>3, <1>7 DEF EchoFails, server
<1>8. ASSUME NEW w \in Ways, ConsumerReset(w) PROVE InboxStored'
  BY <1>3, <1>8 DEF ConsumerReset
<1>9. CASE UNCHANGED <<kind, stored, inbox>>
  BY <1>9, StaysStored
<1>10. CASE RecvFails
  BY <1>0, <1>3, <1>10 DEF RecvFails, server
<1>11. ASSUME NEW w \in Ways, CutOff(w) PROVE InboxStored'
  BY <1>11 DEF CutOff, InboxStored, JetStream
<1> QED BY <1>1, <1>2, <1>5, <1>6, <1>7, <1>8, <1>9, <1>10, <1>11
        DEF Next, Echo, Client, Receiver, Server, Failure, Sides, EchoSubscribes, EchoMakesIn,
            EchoMakesOut, ClientStart, ClientConnects, ClientSend, ClientFails, RecvTimedOut,
            Over, vars, server

LEMMA DirectionsStep == Types /\ Directions /\ [Next]_vars => Directions'
<1> SUFFICES ASSUME Types, Directions, [Next]_vars PROVE Directions'
  OBVIOUS
<1> USE DEF Directions
<1>0. /\ "echo" \in Sides /\ "client" \in Sides /\ next \in Nat /\ Msgs \in Nat
      /\ "c2s" \in Ways /\ "s2c" \in Ways
  BY DEF Types, Sides, Ways
<1>01. \A w \in Ways : /\ Sub(w) \in Commands
                       /\ \A m \in Numbers : Pub(w, m) \in Commands
  BY DEF Sub, Pub, Commands
<1> HIDE NatsAssumption
<1>1. ASSUME NEW side \in Sides, ServerTakes(side) PROVE Directions'
  <2>1. next' = next
    BY <1>1, ServerCases DEF client
  <2>2. \A s \in Sides : \A i \in Published(s)' :
           \E j \in Published(s) : wire'[s][i] = wire[s][j]
    BY <1>1, TakenCommands
  <2> QED BY <1>0, <2>1, <2>2
<1>2. CASE EchoSubscribes
  <2>1. Write("echo", Sub("c2s")) /\ next' = next
    BY <1>2 DEF EchoSubscribes, client
  <2> QED BY <1>0, <1>01, <2>1, WrittenCommands DEF Sub
<1>3. CASE EchoServe
  <2>1. Head(inbox["c2s"]) \in Numbers
    BY <1>0, <1>3, TailElements DEF EchoServe, Types
  <2>2. Write("echo", Pub("s2c", Head(inbox["c2s"]))) /\ next' = next
    BY <1>3 DEF EchoServe, client
  <2> QED BY <1>0, <1>01, <2>1, <2>2, WrittenCommands DEF Pub
<1>4. CASE ClientConnects
  <2>1. (Write("client", Sub("s2c")) \/ wire' = wire) /\ next' = next
    BY <1>4 DEF ClientConnects
  <2>2. CASE Write("client", Sub("s2c"))
    BY <1>0, <1>01, <2>1, <2>2, WrittenCommands DEF Sub
  <2> QED BY <2>1, <2>2 DEF Published
<1>5. CASE ClientSend
  <2>1. next \in Numbers /\ Write("client", Pub("c2s", next)) /\ next' = next + 1
    BY <1>0, <1>5 DEF ClientSend, Numbers, Types
  <2>2. \A i \in Published("client")' :
           \/ i \in Published("client") /\ wire'["client"][i] = wire["client"][i]
           \/ wire'["client"][i] = Pub("c2s", next)
    BY <1>0, <1>01, <2>1, WrittenCommands
  <2>3. wire'["echo"] = wire["echo"] /\ Published("echo")' = Published("echo")
    BY <1>0, <1>01, <2>1, WrittenCommands
  <2> QED BY <1>0, <2>1, <2>2, <2>3 DEF Pub
<1>6. CASE UNCHANGED <<wire, next>>
  BY <1>6 DEF Published
<1>7. ASSUME NEW w \in Ways, CutOff(w) PROVE Directions'
  <2>1. next' = next
    BY <1>7 DEF CutOff, client
  <2>2. \A s \in Sides : \A i \in Published(s)' :
           \E j \in Published(s) : wire'[s][i] = wire[s][j]
    BY <1>7, CutPublished
  <2> QED BY <1>0, <2>1, <2>2
<1> QED BY <1>1, <1>2, <1>3, <1>4, <1>5, <1>6, <1>7
        DEF Next, Echo, Client, Receiver, Server, Failure, Sides, EchoMakesIn, EchoMakesOut,
            EchoFails, ClientStart, ClientFails, RecvMsg, RecvTimedOut, RecvFails, Over, vars,
            client, ConsumerDelivers, ConsumerReset

LEMMA StartupStep == Types /\ Startup /\ [Next]_vars => Startup'
<1> SUFFICES ASSUME Types, Startup, [Next]_vars PROVE Startup'
  OBVIOUS
<1> USE DEF Startup, JetStream, echo, client, receiver
<1>0. /\ "echo" \in Sides /\ "client" \in Sides /\ "c2s" \in Ways /\ "s2c" \in Ways
      /\ wire \in [Sides -> Seq(Commands)] /\ exists \in [Ways -> BOOLEAN]
      /\ "echo" # "client"
  BY DEF Types, Sides, Ways
<1> HIDE NatsAssumption
<1>1. ASSUME NEW side \in Sides, ServerTakes(side) PROVE Startup'
  <2>1. UNCHANGED <<kind, exists, echo, client, receiver>>
    BY <1>1, ServerCases
  <2>2. \A s \in Sides : wire[s] = <<>> => wire'[s] = <<>>
    BY <1>1, TakenCommands DEF ServerTakes
  <2>3. wire[side] # <<>>
    BY <1>1 DEF ServerTakes
  <2> QED BY <1>0, <2>1, <2>2, <2>3
<1>2. CASE EchoSubscribes
  BY <1>0, <1>2 DEF EchoSubscribes, Write, server
<1>3. CASE EchoMakesIn \/ EchoMakesOut
  BY <1>0, <1>3 DEF EchoMakesIn, EchoMakesOut, EnsureStream
<1>4. CASE EchoServe
  <2>1. wire'["client"] = wire["client"] /\ UNCHANGED <<kind, exists, echo, client, receiver>>
    BY <1>0, <1>4 DEF EchoServe, Write, server
  <2>2. epc = "serve"
    BY <1>4 DEF EchoServe
  <2> QED BY <2>1, <2>2
<1>5. CASE ClientConnects
  BY <1>0, <1>5 DEF ClientConnects, StartRun, Write, EnsureStream
<1>6. CASE ClientSend
  BY <1>0, <1>6 DEF ClientSend, AfterSend, Write, server
<1>7. CASE ClientStart \/ ClientFails \/ EchoFails
  BY <1>7 DEF ClientStart, ClientFails, EchoFails, server
<1>8. CASE UNCHANGED <<kind, wire, exists, echo, client, receiver>>
  BY <1>8
<1>9. CASE RecvMsg \/ RecvTimedOut \/ RecvFails
  BY <1>9 DEF RecvMsg, RecvTimedOut, RecvFails, server
<1>10. ASSUME NEW w \in Ways, CutOff(w) PROVE Startup'
  <2>1. UNCHANGED <<kind, exists, echo, client, receiver>>
    BY <1>10 DEF CutOff
  <2>2. /\ epc = "serve" \/ rpc = "recv"
        /\ Reader(w) = "client" => rpc = "recv"
        /\ Reader(w) = "echo" => epc = "serve"
    BY <1>10 DEF CutOff, Listens, Reader
  <2>3. \A s \in Sides : s # Reader(w) => wire'[s] = wire[s]
    BY <1>10, CutElements
  <2> QED BY <1>0, <2>1, <2>2, <2>3
<1> QED BY <1>1, <1>2, <1>3, <1>4, <1>5, <1>6, <1>7, <1>8, <1>9, <1>10
        DEF Next, Echo, Client, Receiver, Server, Failure, Sides,
            Over, vars, server, ConsumerDelivers, ConsumerReset

\* A step that puts nothing but messages on the connections and makes the server
\* know no other subscription.
LEMMA StaysOnce ==
  ASSUME SubscribedOnce, active' = active,
         epc' \in {"setup", "out"} => epc \in {"setup", "out"},
         rpc' = "unstarted" => rpc = "unstarted" /\ wire'["client"] = wire["client"],
         \A s \in Sides : \A i \in DOMAIN wire'[s] : wire'[s][i].op = "SUB" =>
            i \in DOMAIN wire[s] /\ wire'[s][i] = wire[s][i] /\ wire'[s][1] = wire[s][1]
  PROVE  SubscribedOnce'
  BY DEF SubscribedOnce, Sides

LEMMA MessageWritten ==
  ASSUME Types, NEW side \in Sides, NEW c \in Commands, Write(side, c), c.op = "PUB"
  PROVE  \A s \in Sides : \A i \in DOMAIN wire'[s] : wire'[s][i].op = "SUB" =>
            i \in DOMAIN wire[s] /\ wire'[s][i] = wire[s][i] /\ wire'[s][1] = wire[s][1]
<1>1. /\ wire[side] \in Seq(Commands) /\ wire'[side] = Append(wire[side], c)
      /\ \A s \in Sides : s # side => wire'[s] = wire[s]
  BY DEF Types, Write
<1>2. ASSUME NEW i \in DOMAIN wire'[side], wire'[side][i].op = "SUB"
      PROVE  i \in DOMAIN wire[side] /\ wire'[side][i] = wire[side][i]
  BY <1>1, <1>2, AppendElements
<1>3. wire[side] # <<>> => wire'[side][1] = wire[side][1]
  BY <1>1, AppendElements
<1>4. \A i \in DOMAIN wire[side] : wire[side] # <<>>
  BY <1>1
<1> QED BY <1>1, <1>2, <1>3, <1>4

LEMMA OnceStep == Types /\ Startup /\ SubscribedOnce /\ [Next]_vars => SubscribedOnce'
<1> SUFFICES ASSUME Types, Startup, SubscribedOnce, [Next]_vars PROVE SubscribedOnce'
  OBVIOUS
<1>0. /\ "echo" \in Sides /\ "client" \in Sides /\ "c2s" \in Ways /\ "s2c" \in Ways
      /\ "echo" # "client" /\ "c2s" # "s2c"
      /\ wire \in [Sides -> Seq(Commands)] /\ active \in [Ways -> BOOLEAN]
      /\ Incoming("echo") = "c2s" /\ Incoming("client") = "s2c"
  BY DEF Types, Sides, Ways, Incoming
<1>01. \A w \in Ways : /\ Sub(w) \in Commands /\ Sub(w).op = "SUB"
                       /\ \A m \in Numbers : Pub(w, m) \in Commands /\ Pub(w, m).op = "PUB"
  BY DEF Sub, Pub, Commands
<1> HIDE NatsAssumption
<1>1. ASSUME NEW side \in Sides, ServerTakes(side) PROVE SubscribedOnce'
  <2> DEFINE c == Head(wire[side])
  <2>1. /\ 1 \in DOMAIN wire[side] /\ c = wire[side][1] /\ c \in Commands
        /\ wire'[side] = Tail(wire[side]) /\ wire[side] \in Seq(Commands) /\ wire[side] # <<>>
        /\ \A s \in Sides : s # side => wire'[s] = wire[s]
        /\ UNCHANGED <<epc, rpc>>
    BY <1>0, <1>1, TakenCommands DEF ServerTakes, echo, receiver
  <2>2. \A i \in DOMAIN wire'[side] : wire'[side][i].op # "SUB"
    <3>1. \A i \in DOMAIN wire'[side] : /\ i \in Nat /\ i >= 1 /\ i + 1 \in DOMAIN wire[side]
                                         /\ wire'[side][i] = wire[side][i + 1]
      BY <2>1, TailElements
    <3>2. ASSUME NEW i \in DOMAIN wire'[side] PROVE i + 1 # 1
      BY <3>1
    <3> QED BY <3>1, <3>2 DEF SubscribedOnce
  <2>3. CASE c.op = "SUB"
    <3>1. c = Sub(Incoming(side)) /\ c.way = Incoming(side)
      BY <2>1, <2>3 DEF SubscribedOnce, Sub
    <3>2. active' = [active EXCEPT ![Incoming(side)] = TRUE]
      BY <1>1, <2>3, <3>1, ServerCases
    <3>3. CASE side = "echo"
      <4>1. epc \notin {"setup", "out"}
        BY <2>1, <3>3 DEF Startup
      <4>2. active'["s2c"] = active["s2c"]
        BY <1>0, <3>2, <3>3
      <4> QED BY <1>0, <2>1, <2>2, <3>3, <4>1, <4>2, SMTT(30) DEF SubscribedOnce, Sides
    <3>4. CASE side = "client"
      <4>1. rpc # "unstarted"
        BY <2>1, <3>4 DEF SubscribedOnce
      <4>2. active'["c2s"] = active["c2s"]
        BY <1>0, <3>2, <3>4
      <4> QED BY <1>0, <2>1, <2>2, <3>4, <4>1, <4>2 DEF SubscribedOnce, Sides
    <3> QED BY <3>3, <3>4 DEF Sides
  <2>4. CASE c.op # "SUB"
    <3>1. active' = active
      BY <1>1, <2>4, ServerCases
    <3>2. side = "client" => rpc # "unstarted"
      BY <2>1 DEF SubscribedOnce
    <3> QED BY <1>0, <2>1, <2>2, <3>1, <3>2, StaysOnce DEF Sides
  <2> QED BY <2>3, <2>4
<1>2. CASE EchoSubscribes
  <2>1. /\ Write("echo", Sub("c2s")) /\ UNCHANGED <<active, rpc>> /\ epc' = "serve"
        /\ epc = "setup" /\ wire["echo"] = <<>> /\ ~active["c2s"]
    BY <1>2 DEF EchoSubscribes, server, receiver, Startup, SubscribedOnce
  <2>2. /\ wire'["echo"] = <<Sub("c2s")>> /\ wire'["client"] = wire["client"]
    BY <1>0, <2>1 DEF Write
  <2>3. \A i \in DOMAIN wire'["echo"] : i = 1 /\ wire'["echo"][1] = Sub("c2s")
    BY <2>2
  <2> QED BY <1>0, <2>1, <2>2, <2>3 DEF SubscribedOnce, Sides
<1>3. CASE EchoServe
  <2>1. Head(inbox["c2s"]) \in Numbers
    BY <1>0, <1>3, TailElements DEF EchoServe, Types
  <2>2. /\ Write("echo", Pub("s2c", Head(inbox["c2s"]))) /\ UNCHANGED <<active, epc, rpc>>
        /\ wire'["client"] = wire["client"]
    BY <1>0, <1>3 DEF EchoServe, server, echo, receiver, Write
  <2> QED BY <1>0, <1>01, <2>1, <2>2, MessageWritten, StaysOnce
<1>4. CASE ClientConnects
  <2>1. /\ UNCHANGED <<active, epc>> /\ rpc' = "recv" /\ ~active["s2c"] /\ wire["client"] = <<>>
        /\ Write("client", Sub("s2c")) \/ wire' = wire
    BY <1>4 DEF ClientConnects, StartRun, echo, Startup, SubscribedOnce
  <2>2. CASE wire' = wire
    BY <2>1, <2>2 DEF SubscribedOnce
  <2>3. CASE Write("client", Sub("s2c"))
    <3>1. wire'["client"] = <<Sub("s2c")>> /\ wire'["echo"] = wire["echo"]
      BY <1>0, <2>1, <2>3 DEF Write
    <3>2. \A i \in DOMAIN wire'["client"] : i = 1 /\ wire'["client"][1] = Sub("s2c")
      BY <3>1
    <3> QED BY <1>0, <2>1, <3>1, <3>2 DEF SubscribedOnce, Sides
  <2> QED BY <2>1, <2>2, <2>3
<1>5. CASE ClientSend
  <2>1. next \in Numbers
    BY <1>5, NatsAssumption DEF ClientSend, Types, Numbers
  <2>2. /\ Write("client", Pub("c2s", next)) /\ UNCHANGED <<active, epc, rpc>>
        /\ rpc # "unstarted"
    BY <1>5 DEF ClientSend, server, echo, receiver, Startup
  <2> QED BY <1>0, <1>01, <2>1, <2>2, MessageWritten, StaysOnce
<1>6. ASSUME NEW w \in Ways, CutOff(w) PROVE SubscribedOnce'
  <2> DEFINE r == Reader(w)
  <2>1. /\ r \in Sides /\ active[w] /\ active' = [active EXCEPT ![w] = FALSE]
        /\ wire'[r][1] = Sub(w) /\ Incoming(r) = w /\ UNCHANGED <<epc, rpc>>
        /\ \A s \in Sides : s # r => wire'[s] = wire[s] /\ Incoming(s) # w
    BY <1>6, CutElements DEF CutOff, Reader, Incoming, Sides, Ways, echo, receiver
  <2>2. PICK j \in Nat : \A i \in DOMAIN wire'[r] : i \in Nat /\ i >= 1 /\
               (i # 1 => (i - 1) + j \in DOMAIN wire[r] /\ wire'[r][i] = wire[r][(i - 1) + j])
    BY <1>6, CutElements
  <2>3. \A i \in DOMAIN wire[r] : wire[r][i].op # "SUB"
    BY <2>1 DEF SubscribedOnce
  <2>4. ~active'[w] /\ \A x \in Ways : x # w => active'[x] = active[x]
    BY <1>0, <2>1
  <2>5. /\ w = "c2s" => epc = "serve"
        /\ w = "s2c" => rpc = "recv"
        /\ r = "client" => w = "s2c"
    BY <1>0, <1>6 DEF CutOff, Listens, Reader, Ways
  <2> HIDE DEF r
  <2>6. ASSUME NEW s \in Sides, NEW i \in DOMAIN wire'[s], wire'[s][i].op = "SUB"
        PROVE  i = 1 /\ wire'[s][1] = Sub(Incoming(s)) /\ ~active'[Incoming(s)]
    <3>1. CASE s = r
      BY <2>1, <2>2, <2>3, <2>4, <2>6, <3>1
    <3>2. CASE s # r
      <4>1. Incoming(s) \in Ways
        BY <1>0 DEF Sides
      <4> QED BY <2>1, <2>4, <2>6, <3>2, <4>1 DEF SubscribedOnce
    <3> QED BY <3>1, <3>2
  <2>7. /\ epc' \in {"setup", "out"} => ~active'["c2s"]
        /\ rpc' = "unstarted" => ~active'["s2c"] /\ wire'["client"] = <<>>
    BY <1>0, <2>1, <2>4, <2>5 DEF SubscribedOnce, Ways
  <2> QED BY <2>6, <2>7 DEF SubscribedOnce
<1>7. CASE UNCHANGED <<active, wire>> /\ (epc' = epc \/ epc' = "dead" \/ epc = "setup")
                                     /\ (rpc' = "unstarted" => rpc = "unstarted")
  <2>1. \A s \in Sides : \A i \in DOMAIN wire'[s] :
            i \in DOMAIN wire[s] /\ wire'[s][i] = wire[s][i] /\ wire'[s][1] = wire[s][1]
    BY <1>7
  <2> QED BY <1>7, <2>1, StaysOnce
<1>8. CASE EchoMakesIn \/ EchoMakesOut \/ EchoFails
  <2>1. epc' = epc \/ epc' \in {"dead", "serve"} \/ epc = "setup"
    BY <1>8 DEF EchoMakesIn, EchoMakesOut, EchoFails
  <2>2. UNCHANGED <<active, wire, rpc>>
    BY <1>8 DEF EchoMakesIn, EchoMakesOut, EchoFails, server, receiver
  <2> QED BY <2>1, <2>2 DEF SubscribedOnce
<1>9. CASE ClientStart \/ ClientFails \/ RecvMsg \/ RecvTimedOut \/ RecvFails \/ Over
            \/ UNCHANGED vars
  <2>1. UNCHANGED <<active, wire, epc>> /\ (rpc' = "unstarted" => rpc = "unstarted")
    BY <1>9 DEF ClientStart, ClientFails, RecvMsg, RecvTimedOut, RecvFails, Over, vars, server,
                echo, receiver
  <2> QED BY <1>7, <2>1
<1>10. ASSUME NEW w \in Ways, ConsumerDelivers(w) \/ ConsumerReset(w) PROVE SubscribedOnce'
  <2>1. UNCHANGED <<active, wire, epc, rpc>>
    BY <1>10 DEF ConsumerDelivers, ConsumerReset, echo, receiver
  <2> QED BY <1>7, <2>1
<1> QED BY <1>1, <1>2, <1>3, <1>4, <1>5, <1>6, <1>8, <1>9, <1>10
        DEF Next, Echo, Client, Receiver, Server, Failure, Sides

LEMMA SubscribedStep == Invariant /\ [Next]_vars => SubscribedFirst'
<1> SUFFICES ASSUME Invariant, [Next]_vars PROVE SubscribedFirst'
  OBVIOUS
<1> USE DEF SubscribedFirst, JetStream
<1>0. /\ Types /\ Startup /\ SubscribedFirst /\ cut \subseteq Ways
      /\ "echo" \in Sides /\ "client" \in Sides /\ "c2s" \in Ways /\ "s2c" \in Ways
      /\ "echo" # "client" /\ "c2s" # "s2c"
      /\ active \in [Ways -> BOOLEAN] /\ inbox \in [Ways -> Seq(Numbers)]
  BY DEF Invariant, Types, Sides, Ways
<1>01. \A w \in Ways : /\ Sub(w) \in Commands
                       /\ \A m \in Numbers : Pub(w, m) \in Commands
  BY DEF Sub, Pub, Commands
<1> HIDE NatsAssumption
<1>1. CASE ServerTakes("client")
  <2>1. wire["client"] # <<>> /\ UNCHANGED <<kind, cpc, cut>>
    BY <1>0, <1>1, ServerCases DEF ServerTakes, client
  <2>2. active["s2c"] => active'["s2c"]
    BY <1>0, <1>1, ServerCases
  <2>3. kind # "jetstream" /\ ~active["s2c"] /\ "s2c" \notin cut => active'["s2c"]
    <3>1. kind # "jetstream" /\ ~active["s2c"] /\ "s2c" \notin cut => Head(wire["client"]) = Sub("s2c")
      BY <1>0, <1>1, <2>1, TakenCommands
    <3> QED BY <1>0, <1>1, <3>1, ServerCases DEF Sub
  <2> QED BY <2>1, <2>2, <2>3
<1>2. CASE ServerTakes("echo")
  <2>1. /\ UNCHANGED <<kind, cpc, cut>> /\ wire'["client"] = wire["client"]
        /\ Published("echo") = {} => Published("echo")' = {} /\ Head(wire["echo"]).op # "PUB"
    BY <1>0, <1>2, ServerCases, TakenCommands DEF client
  <2>2. Head(wire["echo"]).op # "PUB" => inbox' = inbox
    BY <1>0, <1>2, ServerCases
  <2>3. active["s2c"] => active'["s2c"]
    BY <1>0, <1>2, ServerCases
  <2>4. CASE kind # "jetstream" /\ ~active["s2c"] /\ "s2c" \notin cut
    <3>1. /\ Published("echo")' = {} /\ inbox' = inbox /\ inbox["c2s"] = <<>>
      BY <1>0, <2>1, <2>2, <2>4
    <3> QED BY <1>0, <2>1, <2>4, <3>1
  <2> QED BY <2>1, <2>3, <2>4
<1>3. CASE EchoSubscribes
  <2>1. /\ Write("echo", Sub("c2s")) /\ UNCHANGED <<kind, active, cut, inbox, cpc>>
    BY <1>3 DEF EchoSubscribes, server, client
  <2>2. Sub("c2s").op # "PUB"
    BY DEF Sub
  <2>3. Published("echo") = {} => Published("echo")' = {}
    BY <1>0, <1>01, <2>1, <2>2, WrittenCommands
  <2>4. wire'["client"] = wire["client"]
    BY <1>0, <1>01, <2>1, WrittenCommands
  <2>5. CASE kind # "jetstream" /\ ~active["s2c"] /\ "s2c" \notin cut
    BY <1>0, <2>1, <2>3, <2>4, <2>5
  <2> QED BY <2>1, <2>5
<1>4. CASE EchoServe
  BY <1>0, <1>4 DEF EchoServe, server
<1>5. CASE EchoFails
  BY <1>0, <1>5 DEF EchoFails, server, client, Published
<1>6. CASE ClientConnects
  <2>1. kind # "jetstream" => Write("client", Sub("s2c"))
    BY <1>6 DEF ClientConnects
  <2>2. UNCHANGED <<kind, active, cut, inbox>> /\ wire["client"] = <<>>
    BY <1>0, <1>6 DEF ClientConnects, Startup
  <2>3. kind # "jetstream" => /\ wire'["client"] # <<>> /\ wire'["client"][1] = Sub("s2c")
                              /\ Published("echo")' = Published("echo")
    BY <1>0, <1>01, <2>1, <2>2, WrittenCommands
  <2>4. CASE kind # "jetstream" /\ ~active["s2c"] /\ "s2c" \notin cut
    BY <1>0, <2>2, <2>3, <2>4
  <2> QED BY <2>2, <2>4
<1>7. CASE ClientSend
  <2>1. /\ Write("client", Pub("c2s", next)) /\ cpc = "send"
        /\ UNCHANGED <<kind, active, cut, inbox>>
    BY <1>7 DEF ClientSend, server
  <2>2. Pub("c2s", next) \in Commands
    <3>1. next \in Numbers
      BY <1>0, <2>1, NatsAssumption DEF Types, Numbers
    <3> QED BY <1>0, <1>01, <3>1
  <2>3. /\ wire'["client"] # <<>>
        /\ wire["client"] # <<>> => wire'["client"][1] = wire["client"][1]
        /\ Published("echo")' = Published("echo")
    BY <1>0, <2>1, <2>2, WrittenCommands
  <2> QED BY <1>0, <2>1, <2>3
<1>8. CASE ClientStart \/ ClientFails
  BY <1>0, <1>8 DEF ClientStart, ClientFails, server, Published
<1>9. CASE RecvMsg
  BY <1>0, <1>9 DEF RecvMsg, server, client, Published
<1>10. CASE kind = "jetstream" /\ kind' = kind
  BY <1>10
<1>11. CASE UNCHANGED <<kind, wire, active, cut, inbox, cpc>>
  BY <1>0, <1>11 DEF Published
<1>12. ASSUME NEW w \in Ways, ConsumerDelivers(w) \/ ConsumerReset(w) PROVE SubscribedFirst'
  BY <1>10, <1>12 DEF ConsumerDelivers, ConsumerReset, HasConsumer
<1>13. CASE EchoMakesIn \/ EchoMakesOut
  BY <1>0, <1>10, <1>13 DEF EchoMakesIn, EchoMakesOut, Startup
<1>14. CASE RecvFails
  <2>1. /\ UNCHANGED <<kind, wire, active, cut, cpc>>
        /\ inbox'["c2s"] = inbox["c2s"]
    BY <1>0, <1>14 DEF RecvFails, server, client
  <2> QED BY <1>0, <2>1 DEF Published
<1>15. CASE CutOff("s2c")
  BY <1>15 DEF CutOff
<1>16. CASE CutOff("c2s")
  <2>1. UNCHANGED <<kind, cpc>> /\ cut' = cut \cup {"c2s"} /\ inbox["c2s"] # <<>>
    <3>1. Len(inbox["c2s"]) = Pending /\ Pending \in Nat \ {0}
      BY <1>16, NatsAssumption DEF CutOff
    <3> QED BY <1>0, <1>16, <3>1 DEF CutOff, client
  <2>2. active'["s2c"] = active["s2c"]
    BY <1>0, <1>16 DEF CutOff
  <2> QED BY <1>0, <2>1, <2>2
<1> QED BY <1>1, <1>2, <1>3, <1>4, <1>5, <1>6, <1>7, <1>8, <1>9, <1>11, <1>12, <1>13, <1>14,
           <1>15, <1>16
        DEF Next, Echo, Client, Receiver, Server, Failure, RecvTimedOut, Ways, Sides,
            Over, vars, server, client

LEMMA HeardStep == Invariant /\ [Next]_vars => Heard'
<1> SUFFICES ASSUME Invariant, [Next]_vars PROVE Heard'
  OBVIOUS
<1> USE DEF Heard, JetStream
<1>0. /\ Types /\ Startup /\ SubscribedFirst /\ Directions /\ Heard
      /\ "c2s" \in Ways /\ "s2c" \in Ways /\ cut \subseteq Ways
      /\ unheard \in [Ways -> SUBSET Numbers]
      /\ rpc # "unstarted" \/ ~active["s2c"]
      /\ "echo" \in Sides /\ "client" \in Sides
      /\ "echo" # "client" /\ "c2s" # "s2c"
  BY DEF Invariant, Sides, Ways, Types, SubscribedOnce
<1>1. ASSUME NEW side \in Sides, ServerTakes(side) PROVE Heard'
  <2> DEFINE c == Head(wire[side])
  <2>1. UNCHANGED <<kind, rpc, cut>> /\ wire[side] # <<>> /\ announced
    BY <1>0, <1>1, ServerCases DEF ServerTakes, Startup, Sides, receiver
  <2>2. SUFFICES ASSUME c.op = "PUB",
                        IF JetStream THEN ~exists[c.way] ELSE ~active[c.way] \/ ~Listens(c.way),
                        unheard' = [unheard EXCEPT ![c.way] = unheard[c.way] \cup {c.msg}]
                 PROVE  Heard'
    BY <1>0, <1>1, <2>1, ServerCases
  <2>3. 1 \in Published(side) /\ c = wire[side][1]
    BY <1>0, <1>1, <2>2, TakenCommands
  <2>4. CASE side = "client"
    <3>1. c.way = "c2s"
      BY <2>3, <2>4, <1>0 DEF Directions
    <3>2. ~JetStream
      BY <1>0, <2>1, <2>2, <3>1 DEF Startup
    <3>3. unheard'["s2c"] = unheard["s2c"]
      BY <1>0, <2>2, <3>1
    <3> QED BY <1>0, <2>1, <3>2, <3>3
  <2>5. CASE side = "echo"
    <3>1. c.way = "s2c"
      BY <2>3, <2>5, <1>0 DEF Directions
    <3>2. ~JetStream /\ ((~active["s2c"]) \/ rpc # "recv")
      BY <1>0, <2>1, <2>2, <3>1 DEF Startup, Listens
    <3>3. Published("echo") # {}
      BY <2>3, <2>5
    <3>4. rpc \in {"unstarted", "recv"} => "s2c" \in cut
      BY <1>0, <3>2, <3>3 DEF SubscribedFirst
    <3> QED BY <2>1, <3>2, <3>4
  <2> QED BY <2>4, <2>5 DEF Sides
<1>2. CASE /\ UNCHANGED <<kind, unheard>> /\ cut \subseteq cut'
           /\ rpc' \in {"unstarted", "recv"} => rpc \in {"unstarted", "recv"}
  BY <1>0, <1>2
<1>3. CASE ClientConnects
  <2>1. rpc = "unstarted" /\ UNCHANGED <<kind, unheard, cut>>
    BY <1>0, <1>3 DEF ClientConnects, Startup
  <2> QED BY <1>2, <2>1
<1>4. ASSUME NEW w \in Ways, CutOff(w) PROVE Heard'
  <2>1. UNCHANGED <<kind, unheard, rpc>> /\ cut \subseteq cut'
    BY <1>4 DEF CutOff, receiver
  <2> QED BY <1>2, <2>1
<1> QED BY <1>1, <1>2, <1>3, <1>4
        DEF Next, Echo, Client, Receiver, Server, Failure, Sides, EchoSubscribes, EchoMakesIn,
            EchoMakesOut, EchoServe, EchoFails, ClientStart, ClientSend,
            ClientFails, RecvMsg, RecvTimedOut, RecvFails, Over, vars, server, receiver,
            ConsumerDelivers, ConsumerReset

\* What precedes all that is under way, and was sent, goes on doing so.
LEMMA PrecedesKept ==
  ASSUME Types, [Next]_vars, ~JetStream, NEW m \in Nat, m < next, Precedes(m)
  PROVE  Precedes(m)'
<1> USE DEF Precedes
<1>0. /\ "echo" \in Sides /\ "client" \in Sides /\ "c2s" \in Ways /\ "s2c" \in Ways
      /\ "echo" # "client" /\ "c2s" # "s2c"
      /\ inbox \in [Ways -> Seq(Numbers)] /\ received \in Seq(Numbers)
  BY DEF Types, Sides, Ways
<1>01. \A w \in Ways : /\ Sub(w) \in Commands /\ Sub(w).op # "PUB"
                       /\ \A n \in Numbers : Pub(w, n) \in Commands /\ Pub(w, n).msg = n
  BY DEF Sub, Pub, Commands
<1> HIDE NatsAssumption
<1>02. ASSUME NEW side \in Sides, NEW c \in Commands, Write(side, c), c.op = "PUB" => m < c.msg
       PROVE  \A s \in Sides : \A i \in Published(s)' : m < wire'[s][i].msg
  <2>1. \A i \in Published(side) : m < wire[side][i].msg
    BY DEF Sides
  <2>2. \A i \in Published(side)' : m < wire'[side][i].msg
    BY <1>02, <2>1, WrittenCommands
  <2>3. ASSUME NEW s \in Sides, s # side, NEW i \in Published(s)'
        PROVE  m < wire'[s][i].msg
    <3>1. wire'[s] = wire[s] /\ i \in Published(s)
      BY <1>02, <2>3, WrittenCommands
    <3> QED BY <3>1 DEF Sides
  <2> QED BY <2>2, <2>3
<1>1. ASSUME NEW side \in Sides, ServerTakes(side) PROVE Precedes(m)'
  <2> DEFINE c == Head(wire[side])
  <2>1. \A s \in Sides : \A i \in Published(s)' : m < wire'[s][i].msg
    BY <1>1, TakenCommands DEF Sides
  <2>2. received' = received
    BY <1>1, ServerCases DEF receiver
  <2>3. CASE inbox' = inbox
    BY <1>0, <2>1, <2>2, <2>3
  <2>4. CASE c.op = "PUB" /\ Deliver(c.way, c.msg)
    <3>1. c.way \in Ways /\ c.msg \in Numbers /\ m < c.msg
      BY <1>1, <2>4, ServerCases, TakenCommands DEF Sides
    <3> HIDE DEF c
    <3>2. \A x \in Ways : \A i \in DOMAIN inbox'[x] :
            \/ i \in DOMAIN inbox[x] /\ inbox'[x][i] = inbox[x][i]
            \/ inbox'[x][i] = c.msg
      BY <2>4, <3>1, DeliveredElements
    <3> QED BY <1>0, <2>1, <2>2, <3>1, <3>2
  <2> QED BY <1>1, <2>3, <2>4, ServerCases
<1>2. CASE EchoSubscribes
  <2>1. Write("echo", Sub("c2s")) /\ UNCHANGED <<inbox, received>>
    BY <1>2 DEF EchoSubscribes, receiver
  <2>2. \A s \in Sides : \A i \in Published(s)' : m < wire'[s][i].msg
    BY <1>0, <1>01, <1>02, <2>1
  <2> QED BY <1>0, <2>1, <2>2
<1>3. CASE EchoServe
  <2>1. /\ Write("echo", Pub("s2c", Head(inbox["c2s"]))) /\ received' = received
        /\ inbox["c2s"] # <<>> /\ inbox' = [inbox EXCEPT !["c2s"] = Tail(inbox["c2s"])]
    BY <1>3 DEF EchoServe, receiver
  <2>2. /\ Head(inbox["c2s"]) \in Numbers /\ m < Head(inbox["c2s"])
        /\ \A i \in DOMAIN inbox'["c2s"] : m < inbox'["c2s"][i]
        /\ inbox'["s2c"] = inbox["s2c"]
    BY <1>0, <2>1, TakenElements
  <2>3. \A s \in Sides : \A i \in Published(s)' : m < wire'[s][i].msg
    BY <1>0, <1>01, <1>02, <2>1, <2>2
  <2> QED BY <1>0, <2>1, <2>2, <2>3
<1>4. CASE EchoFails
  BY <1>0, <1>4 DEF EchoFails, receiver, Published
<1>5. CASE ClientConnects
  <2>1. Write("client", Sub("s2c")) /\ UNCHANGED <<inbox, received>>
    BY <1>5 DEF ClientConnects
  <2>2. \A s \in Sides : \A i \in Published(s)' : m < wire'[s][i].msg
    BY <1>0, <1>01, <1>02, <2>1
  <2> QED BY <1>0, <2>1, <2>2
<1>6. CASE ClientSend
  <2>1. Write("client", Pub("c2s", next)) /\ UNCHANGED <<inbox, received>>
    BY <1>6 DEF ClientSend, receiver
  <2>2. next \in Numbers
    BY <1>6, NatsAssumption DEF ClientSend, Types, Numbers
  <2>3. \A s \in Sides : \A i \in Published(s)' : m < wire'[s][i].msg
    BY <1>0, <1>01, <1>02, <2>1, <2>2
  <2> QED BY <1>0, <2>1, <2>3
<1>7. CASE RecvMsg
  <2>1. /\ wire' = wire /\ inbox["s2c"] # <<>>
        /\ inbox' = [inbox EXCEPT !["s2c"] = Tail(inbox["s2c"])]
        /\ received' = Append(received, Head(inbox["s2c"]))
    BY <1>7 DEF RecvMsg
  <2>2. /\ Head(inbox["s2c"]) \in Numbers /\ m < Head(inbox["s2c"])
        /\ \A i \in DOMAIN inbox'["s2c"] : m < inbox'["s2c"][i]
        /\ inbox'["c2s"] = inbox["c2s"]
    BY <1>0, <2>1, TakenElements
  <2>3. \A i \in DOMAIN received' : m < received'[i]
    BY <1>0, <2>1, <2>2, AppendElements
  <2> QED BY <2>1, <2>2, <2>3 DEF Published
<1>8. CASE UNCHANGED <<wire, inbox, received>>
  BY <1>8 DEF Published
<1>9. CASE RecvFails
  BY <1>0, <1>9 DEF RecvFails, Published
<1>10. ASSUME NEW w \in Ways, CutOff(w) PROVE Precedes(m)'
  <2>1. \A s \in Sides : \A i \in Published(s)' : m < wire'[s][i].msg
    <3>1. \A s \in Sides : \A i \in Published(s)' :
             \E j \in Published(s) : wire'[s][i] = wire[s][j]
      BY <1>10, CutPublished
    <3>2. \A s \in Sides : \A i \in Published(s) : m < wire[s][i].msg
      BY DEF Sides
    <3> QED BY <3>1, <3>2
  <2>2. /\ \A x \in Ways : \A i \in DOMAIN inbox'[x] : i \in DOMAIN inbox[x]
                                                        /\ inbox'[x][i] = inbox[x][i]
        /\ received' = received
    BY <1>10, CutElements DEF CutOff, receiver
  <2> QED BY <1>0, <2>1, <2>2
<1> QED BY <1>1, <1>2, <1>3, <1>4, <1>5, <1>6, <1>7, <1>8, <1>9, <1>10
        DEF Next, Echo, Client, Receiver, Server, Failure, Sides, EchoMakesIn, EchoMakesOut,
            ClientStart, ClientFails, RecvTimedOut, Over, vars, receiver,
            ConsumerDelivers, ConsumerReset, HasConsumer

Increasing ==
    \A i, j \in Published("client") : i < j => wire["client"][i].msg < wire["client"][j].msg

LEMMA IncreasingStep ==
  ASSUME Invariant, [Next]_vars, Increasing
  PROVE  Increasing'
<1> USE DEF Increasing
<1>0. /\ Types /\ Startup /\ Directions
      /\ "echo" \in Sides /\ "client" \in Sides /\ "echo" # "client"
  BY DEF Invariant, Sides
<1>01. \A w \in Ways : /\ Sub(w) \in Commands /\ Sub(w).op # "PUB"
                       /\ \A n \in Numbers : Pub(w, n) \in Commands /\ Pub(w, n).msg = n
  BY DEF Sub, Pub, Commands
<1>02. "c2s" \in Ways /\ "s2c" \in Ways
  BY DEF Ways
<1>1. ASSUME NEW side \in Sides, ServerTakes(side) PROVE Increasing'
  <2>1. CASE side = "client"
    BY <1>0, <1>1, <2>1, TakenCommands
  <2>2. CASE side = "echo"
    BY <1>0, <1>1, <2>2, TakenCommands
  <2> QED BY <2>1, <2>2 DEF Sides
<1>2. ASSUME NEW c \in Commands, Write("echo", c) PROVE Increasing'
  BY <1>0, <1>2, WrittenCommands
<1>3. CASE EchoSubscribes
  BY <1>01, <1>02, <1>2, <1>3 DEF EchoSubscribes
<1>4. CASE EchoServe
  <2>1. Head(inbox["c2s"]) \in Numbers
    BY <1>0, <1>02, <1>4, TailElements DEF EchoServe, Types
  <2> QED BY <1>01, <1>02, <1>2, <1>4, <2>1 DEF EchoServe
<1>5. CASE ClientConnects
  <2>1. Write("client", Sub("s2c")) \/ wire' = wire
    BY <1>5 DEF ClientConnects
  <2>2. CASE Write("client", Sub("s2c"))
    BY <1>0, <1>01, <1>02, <2>2, WrittenCommands
  <2> QED BY <2>1, <2>2 DEF Published
<1>6. CASE ClientSend
  <2>1. Write("client", Pub("c2s", next)) /\ next \in Numbers
    BY <1>0, <1>6, NatsAssumption DEF ClientSend, Types, Numbers
  <2>2. /\ \A i \in Published("client") : i \in Nat /\ i <= Len(wire["client"])
                                          /\ wire["client"][i].msg \in 0 .. next - 1
        /\ \A i \in Published("client")' :
              \/ i \in Published("client") /\ wire'["client"][i] = wire["client"][i]
              \/ i = Len(wire["client"]) + 1 /\ wire'["client"][i].msg = next
    BY <1>0, <1>01, <1>02, <2>1, WrittenCommands DEF Directions
  <2>3. Len(wire["client"]) \in Nat /\ next \in Nat
    BY <1>0 DEF Types
  <2>4. ASSUME NEW i \in Published("client")', NEW j \in Published("client")', i < j
        PROVE  wire'["client"][i].msg < wire'["client"][j].msg
    <3>1. CASE /\ i \in Published("client") /\ wire'["client"][i] = wire["client"][i]
               /\ j \in Published("client") /\ wire'["client"][j] = wire["client"][j]
      BY <2>4, <3>1
    <3>2. CASE /\ i \in Published("client") /\ wire'["client"][i] = wire["client"][i]
               /\ wire'["client"][j].msg = next
      BY <2>2, <2>3, <3>2
    <3>3. CASE i = Len(wire["client"]) + 1
      <4>1. j \in Nat /\ j <= Len(wire["client"]) + 1
        BY <2>2, <2>3
      <4> QED BY <2>3, <2>4, <3>3, <4>1
    <3> QED BY <2>2, <3>1, <3>2, <3>3
  <2> QED BY <2>4
<1>7. CASE UNCHANGED wire
  BY <1>7 DEF Published
<1>8. ASSUME NEW w \in Ways, CutOff(w) PROVE Increasing'
  <2>1. PICK k \in Int : \A i \in Published("client")' :
            /\ i \in Int /\ i + k \in Published("client")
            /\ wire'["client"][i] = wire["client"][i + k]
    BY <1>0, <1>8, CutPublished
  <2>2. ASSUME NEW i \in Published("client")', NEW j \in Published("client")', i < j
        PROVE  wire'["client"][i].msg < wire'["client"][j].msg
    <3>1. i + k < j + k
      BY <2>1, <2>2
    <3> QED BY <2>1, <3>1
  <2> QED BY <2>2
<1> QED BY <1>1, <1>3, <1>4, <1>5, <1>6, <1>7, <1>8
        DEF Next, Echo, Client, Receiver, Server, Failure, Sides, EchoMakesIn, EchoMakesOut,
            EchoFails, ClientStart, ClientFails, RecvMsg, RecvTimedOut, RecvFails, Over, vars,
            ConsumerDelivers, ConsumerReset

\* What the echo side has not yet heard of has not gone through.
Silent == /\ inbox["c2s"] = <<>> /\ Published("echo") = {}
          /\ inbox["s2c"] = <<>> /\ received = <<>>

LEMMA SilentStep ==
  ASSUME Invariant, [Next]_vars, ~JetStream, epc' # "dead", Silent, ~active["c2s"]
  PROVE  active'["c2s"] \/ Silent'
<1> USE DEF Silent
<1>0. /\ Types /\ Directions
      /\ "echo" \in Sides /\ "client" \in Sides /\ "c2s" \in Ways /\ "s2c" \in Ways
      /\ "echo" # "client" /\ "c2s" # "s2c"
      /\ inbox \in [Ways -> Seq(Numbers)]
  BY DEF Invariant, Types, Sides, Ways
<1>01. Sub("c2s") \in Commands /\ Sub("s2c") \in Commands /\ Sub("c2s").op # "PUB"
  BY DEF Sub, Commands, Ways
<1> HIDE NatsAssumption
<1>1. ASSUME NEW side \in Sides, ServerTakes(side) PROVE Silent'
  <2> DEFINE c == Head(wire[side])
  <2>1. /\ Published("echo")' = {} /\ received' = received
        /\ c.op = "PUB" => c.way = "c2s"
    <3>1. CASE side = "echo"
      BY <1>0, <1>1, <3>1, TakenCommands, ServerCases DEF receiver
    <3>2. CASE side = "client"
      BY <1>0, <1>1, <3>2, TakenCommands, ServerCases DEF receiver, Directions
    <3> QED BY <3>1, <3>2 DEF Sides
  <2>2. inbox' = inbox
    BY <1>0, <1>1, <2>1, ServerCases
  <2> QED BY <2>1, <2>2
<1>2. CASE EchoSubscribes
  <2>1. Write("echo", Sub("c2s")) /\ UNCHANGED <<inbox, received>>
    BY <1>2 DEF EchoSubscribes, receiver
  <2> QED BY <1>0, <1>01, <2>1, WrittenCommands
<1>3. CASE ClientConnects \/ ClientSend
  <2>1. wire'["echo"] = wire["echo"] /\ UNCHANGED <<inbox, received>>
    BY <1>0, <1>3 DEF ClientConnects, ClientSend, Write, Types, receiver
  <2> QED BY <2>1 DEF Published
<1>4. CASE UNCHANGED <<wire, inbox, received>>
  BY <1>4 DEF Published
<1>5. CASE RecvFails
  BY <1>0, <1>5 DEF RecvFails, Published
<1>6. ASSUME NEW w \in Ways, CutOff(w) PROVE FALSE
  <2>1. w = "s2c" /\ Len(inbox["s2c"]) = Pending /\ Pending \in Nat \ {0}
    BY <1>6, NatsAssumption DEF CutOff, Ways
  <2> QED BY <2>1
<1> QED BY <1>1, <1>2, <1>3, <1>4, <1>5, <1>6
        DEF Next, Echo, Client, Receiver, Server, Failure, Sides, EchoMakesIn, EchoMakesOut,
            EchoServe, EchoFails, ClientStart, ClientFails, RecvMsg, RecvTimedOut,
            Over, vars, receiver, ConsumerDelivers, ConsumerReset, HasConsumer

\* Where a newly unheard message comes from.
LEMMA NewlyUnheard ==
  ASSUME Invariant, [Next]_vars, ~JetStream, epc # "dead", "c2s" \notin cut, NEW m \in unheard'["c2s"]
  PROVE  \/ m \in unheard["c2s"]
         \/ ServerTakes("client") /\ m < next /\ Precedes(m)'
<1>0. /\ Types /\ Directions /\ LateInOrder /\ Startup
      /\ "echo" \in Sides /\ "client" \in Sides /\ "c2s" \in Ways /\ "s2c" \in Ways
      /\ "echo" # "client" /\ "c2s" # "s2c"
      /\ inbox \in [Ways -> Seq(Numbers)] /\ unheard \in [Ways -> SUBSET Numbers]
  BY DEF Invariant, Types, Sides, Ways
<1> HIDE NatsAssumption
<1>1. ASSUME NEW side \in Sides, ServerTakes(side), m \notin unheard["c2s"]
      PROVE  ServerTakes("client") /\ m < next /\ Precedes(m)'
  <2> DEFINE c == Head(wire[side])
  <2>0. wire[side] # <<>> /\ announced /\ epc = "serve"
    BY <1>0, <1>1 DEF ServerTakes, Startup, Types, Sides
  <2>1. /\ c.op = "PUB" /\ ~active[c.way] /\ c.way = "c2s" /\ m = c.msg
        /\ inbox' = inbox /\ received' = received
    BY <1>0, <1>1, <2>0, ServerCases DEF receiver, Listens
  <2>2. 1 \in Published(side) /\ c = wire[side][1]
    BY <1>0, <1>1, <2>1, TakenCommands
  <2>3. side = "client"
    BY <1>0, <2>1, <2>2 DEF Directions, Sides
  <2>4. m < next /\ m = wire["client"][1].msg /\ 1 \in Published("client")
    BY <1>0, <2>1, <2>2, <2>3 DEF Directions, Types
  <2>5. \A i \in Published("client")' : m < wire'["client"][i].msg
    BY <1>0, <1>1, <2>3, <2>4, TakenCommands, SMTT(30) DEF LateInOrder
  <2>6. Silent
    BY <1>0, <2>1 DEF LateInOrder, Silent
  <2>7. Published("echo")' = {}
    BY <1>0, <1>1, <2>3, <2>6, TakenCommands DEF Silent
  <2> QED BY <1>1, <2>1, <2>3, <2>4, <2>5, <2>6, <2>7 DEF Precedes, Silent
<1>2. CASE UNCHANGED unheard
  BY <1>2
<1> QED BY <1>1, <1>2
        DEF Next, Echo, Client, Receiver, Server, Failure, Sides, EchoSubscribes, EchoMakesIn,
            EchoMakesOut, EchoServe, EchoFails, ClientStart, ClientConnects, ClientSend,
            ClientFails, RecvMsg, RecvTimedOut, RecvFails, Over, vars, server,
            ConsumerDelivers, ConsumerReset, CutOff

LEMMA Frame ==
  ASSUME [Next]_vars, Types
  PROVE  /\ kind' = kind /\ (epc' # "dead" => epc # "dead")
         /\ next' \in Nat /\ next <= next'
         /\ active["c2s"] => active'["c2s"] \/ "c2s" \in cut'
         /\ cut \subseteq cut'
<1> USE DEF Types, server, echo, client
<1>1. ASSUME NEW side \in Sides, ServerTakes(side)
      PROVE  /\ UNCHANGED <<kind, epc, next, cut>>
             /\ active["c2s"] => active'["c2s"]
  BY <1>1, ServerCases DEF Ways
<1>2. CASE EchoSubscribes \/ EchoMakesIn \/ EchoMakesOut \/ EchoServe \/ EchoFails
  BY <1>2 DEF EchoSubscribes, EchoMakesIn, EchoMakesOut, EchoServe, EchoFails
<1>3. CASE ClientStart \/ ClientConnects \/ ClientSend \/ ClientFails
  BY <1>3 DEF ClientStart, ClientConnects, ClientSend, ClientFails
<1>4. CASE UNCHANGED <<kind, epc, next, active, cut>>
  BY <1>4
<1>5. ASSUME NEW w \in Ways, CutOff(w)
      PROVE  /\ UNCHANGED <<kind, epc, next>> /\ cut' = cut \cup {w}
             /\ active' = [active EXCEPT ![w] = FALSE]
  BY <1>5 DEF CutOff
<1>6. ASSUME NEW w \in Ways, CutOff(w)
      PROVE  active["c2s"] => active'["c2s"] \/ "c2s" \in cut'
  <2>1. cut' = cut \cup {w} /\ active' = [active EXCEPT ![w] = FALSE]
    BY <1>5, <1>6
  <2>2. active \in [Ways -> BOOLEAN]
    OBVIOUS
  <2>3. CASE w = "c2s"
    BY <2>1, <2>3
  <2>4. CASE w # "c2s"
    BY <2>1, <2>2, <2>4 DEF Ways
  <2> QED BY <2>3, <2>4
<1> QED BY <1>1, <1>2, <1>3, <1>4, <1>5, <1>6
        DEF Next, Echo, Client, Receiver, Server, Failure, Sides, RecvMsg, RecvTimedOut, RecvFails,
            Over, vars, ConsumerDelivers, ConsumerReset

LEMMA LateStep == Invariant /\ [Next]_vars => LateInOrder'
<1> SUFFICES ASSUME Invariant, [Next]_vars, ~JetStream', epc' # "dead" PROVE LateInOrder'
  BY DEF LateInOrder
<1>0. /\ Types /\ LateInOrder /\ ~JetStream /\ epc # "dead" /\ next' \in Nat /\ next <= next'
      /\ active["c2s"] => active'["c2s"] \/ "c2s" \in cut'
      /\ "c2s" \notin cut' => "c2s" \notin cut
  BY Frame DEF Invariant, JetStream
<1>1. Increasing'
  BY <1>0, IncreasingStep DEF LateInOrder, Increasing
<1>2. ASSUME NEW m \in unheard'["c2s"], "c2s" \notin cut' PROVE m < next' /\ Precedes(m)'
  <2>1. CASE m \in unheard["c2s"]
    <3>1. m \in Nat /\ m < next /\ Precedes(m)
      BY <1>0, <1>2, <2>1 DEF LateInOrder, Types, Numbers, Ways
    <3> QED BY <1>0, <3>1, PrecedesKept DEF Types
  <2>2. CASE ServerTakes("client") /\ m < next /\ Precedes(m)'
    BY <1>0, <2>2 DEF ServerTakes, client
  <2> QED BY <1>0, <1>2, <2>1, <2>2, NewlyUnheard
<1>3. "c2s" \notin cut' /\ ~active'["c2s"] => Silent'
  BY <1>0, SilentStep DEF LateInOrder, Silent
<1> QED BY <1>1, <1>2, <1>3 DEF LateInOrder, Increasing, Silent

LEMMA InvariantStep == Invariant /\ [Next]_vars => Invariant'
  BY TypesStep, StoredStep, DirectionsStep, StartupStep, OnceStep, SubscribedStep, LateStep, HeardStep
  DEF Invariant

LEMMA InvariantHolds == Spec => []Invariant
  BY InvariantInit, InvariantStep, PTL DEF Spec

-----------------------------------------------------------------------------
(* The theorems                                                            *)

\* Every variable keeps its type, whatever is reset, cut off or trimmed: a
\* subscriber never holds more than it may, and a stream's counters stay within
\* what it has stored.
THEOREM TypeCorrect == Spec => []TypeOK
<1>1. Invariant => TypeOK
  BY TypesSuffice DEF Invariant
<1> QED BY InvariantHolds, <1>1, PTL

\* lib.rs:91: while the receiver is there and was not cut off, no echo is
\* published to nobody, and what core NATS lost before it knew the echo's
\* subscription precedes everything that comes back as long as the echo was not
\* cut off either.
THEOREM EchoesAreHeard == Spec => []EchoesHaveAListener
<1>1. Invariant => EchoesHaveAListener
  <2> SUFFICES ASSUME Invariant, epc # "dead" PROVE EchoesHaveAListener
    BY DEF EchoesHaveAListener
  <2>1. Heard
    BY DEF Invariant
  <2>2. ASSUME "c2s" \notin cut, NEW m \in unheard["c2s"], NEW n \in ToSet(inbox["s2c"]) \cup ToSet(received)
        PROVE  m < n
    <3>1. ~JetStream
      BY <2>1, <2>2 DEF Heard
    <3> QED BY <3>1, <2>2 DEF Invariant, LateInOrder, Precedes, ToSet
  <2> QED BY <2>1, <2>2 DEF Heard, EchoesHaveAListener, Ways
<1> QED BY InvariantHolds, <1>1, PTL

-----------------------------------------------------------------------------
(* The line                                                                *)

HIDE NatsAssumption

\* What is on its way, from the receiver's end to the sender's, in seven places
\* that each hold their messages in order.
Place == 1 .. 7
Lines == [Place -> Seq(Int)]

InLine(f) == \A p, q \in Place : \A i \in DOMAIN f[p], j \in DOMAIN f[q] :
                 (p < q \/ (p = q /\ i < j)) => f[p][i] < f[q][j]

OnTheLine(f) == {m \in Int : \E p \in Place : \E i \in DOMAIN f[p] : f[p][i] = m}

\* g is f with place q changed.
Elsewhere(f, g, q) == \A r \in Place : r # q => g[r] = f[r]

LEMMA HeadTail ==
  ASSUME NEW s \in Seq(Int), s # <<>>
  PROVE  /\ Tail(s) \in Seq(Int) /\ Head(s) \in Int /\ 1 \in DOMAIN s /\ s[1] = Head(s)
         /\ \A i \in DOMAIN s : i \in Int /\ i >= 1 /\ s[i] \in Int
         /\ \A i \in DOMAIN s : i # 1 => i - 1 \in DOMAIN Tail(s) /\ Tail(s)[i - 1] = s[i]
         /\ \A i \in DOMAIN Tail(s) : i \in Int /\ i + 1 \in DOMAIN s /\ Tail(s)[i] = s[i + 1]
  OBVIOUS

LEMMA LastAdded ==
  ASSUME NEW s \in Seq(Int), NEW x \in Int
  PROVE  /\ Append(s, x) \in Seq(Int) /\ Len(s) + 1 \in DOMAIN Append(s, x)
         /\ Append(s, x)[Len(s) + 1] = x
         /\ \A i \in DOMAIN s : /\ i \in Int /\ i < Len(s) + 1 /\ i \in DOMAIN Append(s, x)
                                /\ Append(s, x)[i] = s[i] /\ s[i] \in Int
         /\ \A i \in DOMAIN Append(s, x) : i \in DOMAIN s \/ i = Len(s) + 1
  OBVIOUS

\* The first of a place goes to the end of an earlier one, with nothing between.
LEMMA Advances ==
  ASSUME NEW f \in Lines, NEW g \in Lines, NEW p \in Place, NEW q \in Place, p < q,
         \A r \in Place : p < r /\ r < q => f[r] = <<>>,
         f[q] # <<>>, g[p] = Append(f[p], Head(f[q])), g[q] = Tail(f[q]),
         \A r \in Place : r # p /\ r # q => g[r] = f[r],
         InLine(f)
  PROVE  InLine(g) /\ OnTheLine(g) = OnTheLine(f)
<1> DEFINE x == Head(f[q])
<1> DEFINE n == Len(f[p]) + 1
<1>1. /\ x \in Int /\ f[q][1] = x /\ 1 \in DOMAIN f[q]
      /\ \A i \in DOMAIN f[q] : i \in Int /\ i >= 1 /\ f[q][i] \in Int
      /\ \A i \in DOMAIN f[q] : i # 1 => i - 1 \in DOMAIN g[q] /\ g[q][i - 1] = f[q][i]
      /\ \A i \in DOMAIN g[q] : i \in Int /\ i + 1 \in DOMAIN f[q] /\ g[q][i] = f[q][i + 1]
  <2>1. f[q] \in Seq(Int)
    BY DEF Lines
  <2> QED BY <2>1, HeadTail
<1>2. /\ n \in DOMAIN g[p] /\ g[p][n] = x
      /\ \A i \in DOMAIN f[p] : /\ i \in Int /\ i < n /\ i \in DOMAIN g[p]
                                /\ g[p][i] = f[p][i] /\ f[p][i] \in Int
      /\ \A i \in DOMAIN g[p] : i \in DOMAIN f[p] \/ i = n
  <2>1. f[p] \in Seq(Int)
    BY DEF Lines
  <2> QED BY <1>1, <2>1, LastAdded
<1>6. n \in Int
  BY DEF Lines
<1> HIDE DEF x, n
<1>3. ASSUME NEW r \in Place, NEW i \in DOMAIN g[r]
      PROVE  \E s \in Place : \E j \in DOMAIN f[s] :
                /\ f[s][j] = g[r][i] /\ i \in Int /\ j \in Int /\ f[s][j] \in Int
                /\ \/ s = r /\ s # p /\ s # q /\ j = i
                   \/ s = r /\ s = p /\ j = i /\ i < n
                   \/ s = r /\ s = q /\ j = i + 1
                   \/ s = q /\ j = 1 /\ r = p /\ i = n
  <2>1. CASE r # p /\ r # q
    <3>1. g[r] = f[r] /\ f[r] \in Seq(Int)
      BY <2>1 DEF Lines
    <3> QED BY <1>3, <2>1, <3>1
  <2>2. CASE r = p
    BY <1>1, <1>2, <1>3, <1>6, <2>2
  <2>3. CASE r = q
    BY <1>1, <1>3, <2>3
  <2> QED BY <2>1, <2>2, <2>3
<1>4. InLine(g)
  <2> SUFFICES ASSUME NEW r \in Place, NEW t \in Place, NEW i \in DOMAIN g[r], NEW j \in DOMAIN g[t],
                      r < t \/ (r = t /\ i < j)
               PROVE  g[r][i] < g[t][j]
    BY DEF InLine
  <2>1. PICK a \in Place : \E k \in DOMAIN f[a] :
                /\ f[a][k] = g[r][i] /\ i \in Int /\ k \in Int /\ f[a][k] \in Int
                /\ \/ a = r /\ a # p /\ a # q /\ k = i
                   \/ a = r /\ a = p /\ k = i /\ i < n
                   \/ a = r /\ a = q /\ k = i + 1
                   \/ a = q /\ k = 1 /\ r = p /\ i = n
    BY <1>3
  <2>2. PICK k \in DOMAIN f[a] :
                /\ f[a][k] = g[r][i] /\ i \in Int /\ k \in Int /\ f[a][k] \in Int
                /\ \/ a = r /\ a # p /\ a # q /\ k = i
                   \/ a = r /\ a = p /\ k = i /\ i < n
                   \/ a = r /\ a = q /\ k = i + 1
                   \/ a = q /\ k = 1 /\ r = p /\ i = n
    BY <2>1
  <2>3. PICK b \in Place : \E l \in DOMAIN f[b] :
                /\ f[b][l] = g[t][j] /\ j \in Int /\ l \in Int /\ f[b][l] \in Int
                /\ \/ b = t /\ b # p /\ b # q /\ l = j
                   \/ b = t /\ b = p /\ l = j /\ j < n
                   \/ b = t /\ b = q /\ l = j + 1
                   \/ b = q /\ l = 1 /\ t = p /\ j = n
    BY <1>3
  <2>4. PICK l \in DOMAIN f[b] :
                /\ f[b][l] = g[t][j] /\ j \in Int /\ l \in Int /\ f[b][l] \in Int
                /\ \/ b = t /\ b # p /\ b # q /\ l = j
                   \/ b = t /\ b = p /\ l = j /\ j < n
                   \/ b = t /\ b = q /\ l = j + 1
                   \/ b = q /\ l = 1 /\ t = p /\ j = n
    BY <2>3
  <2>5. a \in Int /\ b \in Int /\ p \in Int /\ q \in Int /\ r \in Int /\ t \in Int /\ j >= 1
    <3>1. g[t] \in Seq(Int)
      BY DEF Lines
    <3> QED BY <2>4, <3>1, SMTT(30) DEF Place
  <2>6. p < b /\ b < q => f[b] = <<>>
    OBVIOUS
  <2>7. ~(p < b /\ b < q)
    BY <2>4, <2>6
  <2>8. a < b \/ (a = b /\ k < l)
    BY ONLY <2>2, <2>4, <2>5, <2>7, <1>6, p < q, r < t \/ (r = t /\ i < j)
  <2>9. f[a][k] < f[b][l]
    BY <2>2, <2>4, <2>8 DEF InLine
  <2> QED BY <2>2, <2>4, <2>9
<1>5. OnTheLine(g) = OnTheLine(f)
  <2>1. ASSUME NEW m \in OnTheLine(g) PROVE m \in OnTheLine(f)
    BY <1>3, <2>1 DEF OnTheLine
  <2>2. ASSUME NEW r \in Place, NEW i \in DOMAIN f[r] 
        PROVE \E s \in Place : \E j \in DOMAIN g[s] : g[s][j] = f[r][i]
    <3>1. CASE r # p /\ r # q
      BY <2>2, <3>1
    <3>2. CASE r = p
      BY <1>2, <2>2, <3>2
    <3>3. CASE r = q /\ i # 1
      BY <1>1, <2>2, <3>3
    <3>4. CASE r = q /\ i = 1
      BY <1>1, <1>2, <2>2, <3>4
    <3> QED BY <3>1, <3>2, <3>3, <3>4
  <2>3. ASSUME NEW m \in OnTheLine(f) PROVE m \in OnTheLine(g)
    BY <2>2, <2>3 DEF OnTheLine
  <2> QED BY <2>1, <2>3
<1> QED BY <1>4, <1>5

\* What remains of a line of which some places have lost something.
LEMMA Shortened ==
  ASSUME NEW f \in Lines, NEW g \in Lines, InLine(f),
         \A r \in Place : \A i \in DOMAIN g[r] : \E j \in DOMAIN f[r] : g[r][i] = f[r][j],
         \A r \in Place : \A i, j \in DOMAIN g[r] : i < j => g[r][i] < g[r][j]
  PROVE  InLine(g) /\ OnTheLine(g) \subseteq OnTheLine(f)
  BY DEF InLine, OnTheLine

\* The first of a place is lost.
LEMMA HeadLost ==
  ASSUME NEW f \in Lines, NEW g \in Lines, NEW q \in Place, InLine(f), f[q] # <<>>,
         g[q] = Tail(f[q]), Elsewhere(f, g, q)
  PROVE  /\ InLine(g) /\ OnTheLine(f) = OnTheLine(g) \cup {Head(f[q])}
         /\ Head(f[q]) \notin OnTheLine(g)
<1> DEFINE x == Head(f[q])
<1>1. /\ x \in Int /\ f[q][1] = x /\ 1 \in DOMAIN f[q]
      /\ \A i \in DOMAIN f[q] : i \in Int /\ i >= 1 /\ f[q][i] \in Int
      /\ \A i \in DOMAIN f[q] : i # 1 => i - 1 \in DOMAIN g[q] /\ g[q][i - 1] = f[q][i]
      /\ \A i \in DOMAIN g[q] : i \in Int /\ i + 1 \in DOMAIN f[q] /\ g[q][i] = f[q][i + 1]
  <2>1. f[q] \in Seq(Int)
    BY DEF Lines
  <2> QED BY <2>1, HeadTail
<1> HIDE DEF x
<1>2. \A r \in Place : \A i \in DOMAIN g[r] : \E j \in DOMAIN f[r] : g[r][i] = f[r][j]
  <2> SUFFICES ASSUME NEW r \in Place, NEW i \in DOMAIN g[r]
               PROVE  \E j \in DOMAIN f[r] : g[r][i] = f[r][j]
    OBVIOUS
  <2>1. CASE r # q
    BY <2>1 DEF Elsewhere
  <2>2. CASE r = q
    BY <1>1, <2>2
  <2> QED BY <2>1, <2>2
<1>3. \A r \in Place : \A i, j \in DOMAIN g[r] : i < j => g[r][i] < g[r][j]
  <2> SUFFICES ASSUME NEW r \in Place, NEW i \in DOMAIN g[r], NEW j \in DOMAIN g[r], i < j
               PROVE  g[r][i] < g[r][j]
    OBVIOUS
  <2>1. CASE r # q
    BY <2>1 DEF Elsewhere, InLine
  <2>2. CASE r = q
    <3>0. i \in DOMAIN g[q] /\ j \in DOMAIN g[q]
      BY <2>2
    <3>1. i + 1 \in DOMAIN f[q] /\ j + 1 \in DOMAIN f[q] /\ i \in Int /\ j \in Int
      BY <1>1, <3>0
    <3>2. i + 1 < j + 1
      BY <3>1
    <3> QED BY <1>1, <2>2, <3>0, <3>1, <3>2 DEF InLine
  <2> QED BY <2>1, <2>2
<1>4. InLine(g) /\ OnTheLine(g) \subseteq OnTheLine(f)
  BY <1>2, <1>3, Shortened
<1>5. x \in OnTheLine(f)
  BY <1>1 DEF OnTheLine
<1>6. OnTheLine(f) \subseteq OnTheLine(g) \cup {x}
  <2> SUFFICES ASSUME NEW r \in Place, NEW i \in DOMAIN f[r], f[r][i] # x
               PROVE  \E j \in DOMAIN g[r] : g[r][j] = f[r][i]
    BY DEF OnTheLine
  <2>1. CASE r # q
    BY <2>1 DEF Elsewhere
  <2>2. CASE r = q
    BY <1>1, <2>2
  <2> QED BY <2>1, <2>2
<1>7. x \notin OnTheLine(g)
  <2> SUFFICES ASSUME NEW r \in Place, NEW i \in DOMAIN g[r], g[r][i] = x PROVE FALSE
    BY DEF OnTheLine
  <2>1. CASE r = q
    <3>1. 1 < i + 1 /\ i + 1 \in DOMAIN f[q]
      <4>1. g[q] \in Seq(Int) /\ i \in DOMAIN g[q]
        BY <2>1 DEF Lines
      <4>2. i \in Nat /\ i > 0
        BY <4>1
      <4> QED BY <1>1, <4>1, <4>2
    <3>2. x < f[q][i + 1] /\ f[q][i + 1] = x
      BY <1>1, <2>1, <3>1 DEF InLine
    <3> QED BY <1>1, <3>2
  <2>2. CASE r # q
    <3>1. i \in DOMAIN f[r] /\ f[r][i] = x
      BY <2>2 DEF Elsewhere
    <3>2. r < q \/ q < r
      BY <2>2 DEF Place
    <3>3. x < x
      BY <1>1, <3>1, <3>2 DEF InLine
    <3> QED BY <1>1, <3>3
  <2> QED BY <2>1, <2>2
<1> QED BY <1>4, <1>5, <1>6, <1>7 DEF x

LEMMA Part ==
  ASSUME NEW s \in Seq(Int), NEW m \in Int, NEW n \in Int, 1 <= m, n <= Len(s), m <= n + 1
  PROVE  /\ SubSeq(s, m, n) \in Seq(Int) /\ Len(SubSeq(s, m, n)) = n - m + 1
         /\ DOMAIN SubSeq(s, m, n) = 1 .. n - m + 1
         /\ \A i \in 1 .. n - m + 1 : SubSeq(s, m, n)[i] = s[m + i - 1]
<1>1. CASE m <= n
  BY <1>1
<1>2. CASE m = n + 1
  BY <1>2
<1> QED BY <1>1, <1>2

LEMMA RestElements ==
  ASSUME NEW s \in Seq(Int), NEW k \in 0 .. Len(s), NEW t, t = SubSeq(s, k + 1, Len(s))
  PROVE  /\ \A i \in DOMAIN t : i \in Nat /\ i + k \in DOMAIN s /\ i + k > k /\ t[i] = s[i + k]
         /\ \A i \in DOMAIN s : i > k => i - k \in DOMAIN t /\ t[i - k] = s[i]
<1> DEFINE n == Len(s)
<1> DEFINE m == k + 1
<1>1. /\ n \in Nat /\ k \in Nat /\ k <= n /\ DOMAIN s = 1 .. n
      /\ m = k + 1 /\ t = SubSeq(s, m, n)
  OBVIOUS
<1> HIDE DEF n, m
<1>2. 1 <= m /\ n <= Len(s) /\ m <= n + 1 /\ m \in Int /\ n \in Int
  BY <1>1 DEF n
<1>3. /\ DOMAIN t = 1 .. n - m + 1
      /\ \A i \in 1 .. n - m + 1 : t[i] = s[m + i - 1]
  BY <1>1, <1>2, Part
<1>4. ASSUME NEW i \in 1 .. n - m + 1 PROVE t[i] = s[i + k]
  <2>1. m + i - 1 = i + k
    BY <1>1
  <2> QED BY <1>3, <2>1
<1>5. n - m + 1 = n - k
  BY <1>1, <1>2
<1>6. DOMAIN t = 1 .. n - k /\ \A i \in 1 .. n - k : t[i] = s[i + k]
  BY ONLY <1>3, <1>4, <1>5
<1>7. /\ \A i \in 1 .. n - k : i \in Nat /\ i + k \in 1 .. n /\ i + k > k
      /\ \A i \in 1 .. n : i > k => i - k \in 1 .. n - k /\ (i - k) + k = i
  BY ONLY <1>1
<1>8. \A i \in DOMAIN s : i > k => i - k \in DOMAIN t /\ t[i - k] = s[i]
  <2> SUFFICES ASSUME NEW i \in 1 .. n, i > k PROVE i - k \in DOMAIN t /\ t[i - k] = s[i]
    BY ONLY <1>1, SMTT(30)
  <2>1. i - k \in 1 .. n - k /\ (i - k) + k = i
    BY <1>7
  <2>2. t[i - k] = s[(i - k) + k]
    BY <1>6, <2>1
  <2> QED BY <1>6, <2>1, <2>2
<1>9. \A i \in DOMAIN t : i \in Nat /\ i + k \in DOMAIN s /\ i + k > k /\ t[i] = s[i + k]
  BY ONLY <1>1, <1>6, <1>7
<1> QED BY <1>8, <1>9

\* What was behind the first k of a place is lost.
LEMMA EndLost ==
  ASSUME NEW f \in Lines, NEW g \in Lines, NEW q \in Place, NEW k \in 0 .. Len(f[q]), InLine(f),
         g[q] = SubSeq(f[q], 1, k), Elsewhere(f, g, q),
         NEW x, x = ToSet(SubSeq(f[q], k + 1, Len(f[q])))
  PROVE  InLine(g) /\ OnTheLine(f) = OnTheLine(g) \cup x /\ OnTheLine(g) \cap x = {}
<1>1. /\ \A i \in DOMAIN f[q] : i \in Int /\ f[q][i] \in Int /\ (i > k <=> i \notin DOMAIN g[q])
      /\ \A i \in DOMAIN g[q] : i \in Int /\ i <= k /\ i \in DOMAIN f[q] /\ g[q][i] = f[q][i]
      /\ k \in Int
  <2>1. f[q] \in Seq(Int)
    BY DEF Lines
  <2> QED BY <2>1
<1>2. \A m : m \in x <=> \E i \in DOMAIN f[q] : i > k /\ f[q][i] = m
  <2> DEFINE s == SubSeq(f[q], k + 1, Len(f[q]))
  <2>1. f[q] \in Seq(Int)
    BY DEF Lines
  <2>2. /\ \A i \in DOMAIN s : i \in Nat /\ i + k \in DOMAIN f[q] /\ i + k > k /\ s[i] = f[q][i + k]
        /\ \A i \in DOMAIN f[q] : i > k => i - k \in DOMAIN s /\ s[i - k] = f[q][i]
    <3>1. s = SubSeq(f[q], k + 1, Len(f[q]))
      OBVIOUS
    <3>2. /\ \A i \in DOMAIN s : i \in Nat /\ i + k \in DOMAIN f[q] /\ i + k > k /\ s[i] = f[q][i + k]
          /\ \A i \in DOMAIN f[q] : i > k => i - k \in DOMAIN s /\ s[i - k] = f[q][i]
      <4> DEFINE u == f[q]
      <4>1. u \in Seq(Int) /\ k \in 0 .. Len(u) /\ s = SubSeq(u, k + 1, Len(u))
        BY <2>1
      <4> HIDE DEF u, s
      <4>2. /\ \A i \in DOMAIN s : i \in Nat /\ i + k \in DOMAIN u /\ i + k > k /\ s[i] = u[i + k]
            /\ \A i \in DOMAIN u : i > k => i - k \in DOMAIN s /\ s[i - k] = u[i]
        BY ONLY <4>1, RestElements, SMTT(30)
      <4> QED BY <4>2 DEF u
    <3> QED BY <3>2
  <2>3. \A m : m \in x <=> \E i \in DOMAIN s : s[i] = m
    BY DEF ToSet
  <2> HIDE DEF s
  <2> QED BY <2>2, <2>3
<1>3. InLine(g) /\ OnTheLine(g) \subseteq OnTheLine(f)
  <2>1. \A r \in Place : \A i \in DOMAIN g[r] : i \in DOMAIN f[r] /\ g[r][i] = f[r][i]
    <3> SUFFICES ASSUME NEW r \in Place, NEW i \in DOMAIN g[r]
                 PROVE  i \in DOMAIN f[r] /\ g[r][i] = f[r][i]
      OBVIOUS
    <3>1. CASE r # q
      BY <3>1 DEF Elsewhere
    <3>2. CASE r = q
      BY <1>1, <3>2
    <3> QED BY <3>1, <3>2
  <2>2. \A r \in Place : \A i, j \in DOMAIN g[r] : i < j => g[r][i] < g[r][j]
    BY <2>1 DEF InLine
  <2> QED BY <2>1, <2>2, Shortened
<1>4. x \subseteq OnTheLine(f)
  BY <1>1, <1>2 DEF OnTheLine
<1>5. OnTheLine(f) \subseteq OnTheLine(g) \cup x
  <2> SUFFICES ASSUME NEW r \in Place, NEW i \in DOMAIN f[r], f[r][i] \notin x
               PROVE  \E j \in DOMAIN g[r] : g[r][j] = f[r][i]
    BY DEF OnTheLine
  <2>1. CASE r # q
    BY <2>1 DEF Elsewhere
  <2>2. CASE r = q
    BY <1>1, <1>2, <2>2
  <2> QED BY <2>1, <2>2
<1>6. OnTheLine(g) \cap x = {}
  <2> SUFFICES ASSUME NEW r \in Place, NEW i \in DOMAIN g[r], NEW j \in DOMAIN f[q], j > k,
                      g[r][i] = f[q][j]
               PROVE  FALSE
    BY <1>2 DEF OnTheLine
  <2>1. CASE r = q
    <3>0. i \in DOMAIN g[q]
      BY <2>1
    <3>1. i \in Int /\ j \in Int /\ i <= k /\ i \in DOMAIN f[q] /\ g[q][i] = f[q][i]
      BY <1>1, <3>0
    <3>2. i < j
      BY <1>1, <3>1
    <3>3. f[q][i] < f[q][j]
      BY <3>1, <3>2 DEF InLine
    <3> QED BY <1>1, <2>1, <3>1, <3>3
  <2>2. CASE r # q
    <3>1. i \in DOMAIN f[r] /\ f[r][i] = f[q][j]
      BY <2>2 DEF Elsewhere
    <3>2. r < q \/ q < r
      BY <2>2 DEF Place
    <3>3. f[q][j] < f[q][j]
      BY <3>1, <3>2 DEF InLine
    <3> QED BY <1>1, <3>3
  <2> QED BY <2>1, <2>2
<1> QED BY <1>3, <1>4, <1>5, <1>6

\* A place is emptied into the one behind it, which loses nothing of its own.
LEMMA FallsBack ==
  ASSUME NEW f \in Lines, NEW g \in Lines, NEW q \in Place, q + 1 \in Place, InLine(f),
         g[q] = <<>>, \A r \in Place : r # q /\ r # q + 1 => g[r] = f[r],
         \A i, j \in DOMAIN g[q + 1] : i < j => g[q + 1][i] < g[q + 1][j],
         \A i \in DOMAIN g[q + 1] : \E r \in {q, q + 1} : \E j \in DOMAIN f[r] : f[r][j] = g[q + 1][i],
         \A i \in DOMAIN f[q + 1] : \E j \in DOMAIN g[q + 1] : f[q + 1][i] = g[q + 1][j],
         NEW x, \A m : m \in x <=> /\ \E i \in DOMAIN f[q] : f[q][i] = m
                                   /\ ~\E j \in DOMAIN g[q + 1] : g[q + 1][j] = m
  PROVE  InLine(g) /\ OnTheLine(f) = OnTheLine(g) \cup x /\ OnTheLine(g) \cap x = {}
<1>0. /\ \A r \in Place : r \in Int /\ \A i \in DOMAIN f[r] : f[r][i] \in Int
      /\ \A r \in Place : \A i \in DOMAIN g[r] : g[r][i] \in Int
  <2>1. \A r \in Place : f[r] \in Seq(Int) /\ g[r] \in Seq(Int)
    BY DEF Lines
  <2>3. \A r \in Place : r \in Int
    BY DEF Place
  <2>2. \A s \in Seq(Int) : \A i \in DOMAIN s : s[i] \in Int
    OBVIOUS
  <2> QED BY <2>1, <2>2, <2>3
<1>1. ASSUME NEW r \in Place, NEW i \in DOMAIN g[r]
      PROVE  /\ r # q 
             /\ \E s \in Place : \E j \in DOMAIN f[s] :
                /\ f[s][j] = g[r][i] 
                /\ \/ s = r /\ r # q + 1 /\ j = i
                   \/ r = q + 1 /\ s \in {q, q + 1}
  <2>1. CASE r # q /\ r # q + 1
    BY <2>1
  <2>2. CASE r = q + 1
    BY <1>0, <2>2
  <2>3. r # q
    OBVIOUS
  <2> QED BY <2>1, <2>2, <2>3
<1>2. InLine(g)
  <2> SUFFICES ASSUME NEW r \in Place, NEW t \in Place, NEW i \in DOMAIN g[r], NEW j \in DOMAIN g[t],
                      r < t \/ (r = t /\ i < j)
               PROVE  g[r][i] < g[t][j]
    BY DEF InLine
  <2>1. CASE r = t /\ r = q + 1
    BY <1>0, <2>1
  <2>2. CASE r # t \/ r # q + 1
    <3>1. r # q /\ \E a \in Place : \E k \in DOMAIN f[a] :
              f[a][k] = g[r][i] /\ ((a = r /\ r # q + 1 /\ k = i) \/ (r = q + 1 /\ a \in {q, q + 1}))
      BY <1>1
    <3>2. t # q /\ \E b \in Place : \E l \in DOMAIN f[b] :
              f[b][l] = g[t][j] /\ ((b = t /\ t # q + 1 /\ l = j) \/ (t = q + 1 /\ b \in {q, q + 1}))
      BY <1>1
    <3>3. PICK a \in Place : \E k \in DOMAIN f[a] :
              f[a][k] = g[r][i] /\ ((a = r /\ r # q + 1 /\ k = i) \/ (r = q + 1 /\ a \in {q, q + 1}))
      BY <3>1
    <3>4. PICK k \in DOMAIN f[a] :
              f[a][k] = g[r][i] /\ ((a = r /\ r # q + 1 /\ k = i) \/ (r = q + 1 /\ a \in {q, q + 1}))
      BY <3>3
    <3>5. PICK b \in Place : \E l \in DOMAIN f[b] :
              f[b][l] = g[t][j] /\ ((b = t /\ t # q + 1 /\ l = j) \/ (t = q + 1 /\ b \in {q, q + 1}))
      BY <3>2
    <3>6. PICK l \in DOMAIN f[b] :
              f[b][l] = g[t][j] /\ ((b = t /\ t # q + 1 /\ l = j) \/ (t = q + 1 /\ b \in {q, q + 1}))
      BY <3>5
    <3>7. r \in Int /\ t \in Int /\ q \in Int /\ a \in Int /\ b \in Int
      BY <1>0
    <3>8. a < b \/ (a = b /\ k < l)
      BY ONLY <2>2, <3>1, <3>2, <3>4, <3>6, <3>7, r < t \/ (r = t /\ i < j)
    <3>9. f[a][k] < f[b][l]
      BY <3>8 DEF InLine
    <3> QED BY <3>4, <3>6, <3>9
  <2> QED BY <2>1, <2>2
<1>3. OnTheLine(g) \subseteq OnTheLine(f)
  BY <1>1 DEF OnTheLine
<1>4. x \subseteq OnTheLine(f)
  BY <1>0 DEF OnTheLine
<1>5. OnTheLine(f) \subseteq OnTheLine(g) \cup x
  <2> SUFFICES ASSUME NEW r \in Place, NEW i \in DOMAIN f[r], f[r][i] \notin x
               PROVE  \E s \in Place : \E j \in DOMAIN g[s] : g[s][j] = f[r][i]
    BY DEF OnTheLine
  <2>1. CASE r # q /\ r # q + 1
    BY <2>1
  <2>2. CASE r = q
    BY <2>2
  <2>3. CASE r = q + 1
    BY <2>3
  <2> QED BY <2>1, <2>2, <2>3
<1>6. OnTheLine(g) \cap x = {}
  <2> SUFFICES ASSUME NEW r \in Place, NEW i \in DOMAIN g[r], NEW j \in DOMAIN f[q],
                      g[r][i] = f[q][j], ~\E l \in DOMAIN g[q + 1] : g[q + 1][l] = f[q][j]
               PROVE  FALSE
    BY DEF OnTheLine
  <2>1. r # q /\ r # q + 1
    BY <1>1
  <2>2. i \in DOMAIN f[r] /\ f[r][i] = f[q][j]
    BY <2>1
  <2>3. r < q \/ q < r
    BY <1>0, <2>1
  <2>4. f[q][j] < f[q][j]
    BY <2>2, <2>3 DEF InLine
  <2> QED BY <1>0, <2>4
<1> QED BY <1>2, <1>3, <1>4, <1>5, <1>6

\* A new message, larger than all, joins at the sender's end.
LEMMA Joins ==
  ASSUME NEW f \in Lines, NEW g \in Lines, NEW n \in Int, InLine(f),
         \A m \in OnTheLine(f) : m < n,
         g[7] = Append(f[7], n), Elsewhere(f, g, 7)
  PROVE  InLine(g) /\ OnTheLine(g) = OnTheLine(f) \cup {n}
<1> DEFINE e == Len(f[7]) + 1
<1>1. /\ e \in DOMAIN g[7] /\ g[7][e] = n
      /\ \A i \in DOMAIN f[7] : i \in Int /\ i < e /\ i \in DOMAIN g[7] /\ g[7][i] = f[7][i]
      /\ \A i \in DOMAIN g[7] : i \in DOMAIN f[7] \/ i = e
  <2>1. f[7] \in Seq(Int)
    BY DEF Lines, Place
  <2> QED BY <2>1, LastAdded
<1>2. e \in Int
  BY DEF Lines, Place
<1> HIDE DEF e
<1>3. \A r \in Place : \A i \in DOMAIN g[r] :
         \/ i \in DOMAIN f[r] /\ g[r][i] = f[r][i] /\ (r = 7 => i \in Int /\ i < e)
         \/ r = 7 /\ i = e /\ g[r][i] = n
  <2> SUFFICES ASSUME NEW r \in Place, NEW i \in DOMAIN g[r]
               PROVE \/ i \in DOMAIN f[r] /\ g[r][i] = f[r][i] /\ (r = 7 => i \in Int /\ i < e)
                     \/ r = 7 /\ i = e /\ g[r][i] = n
    OBVIOUS
  <2>1. CASE r # 7
    BY <2>1 DEF Elsewhere
  <2>2. CASE r = 7
    BY <1>1, <2>2
  <2> QED BY <2>1, <2>2
<1>4. \A r \in Place : \A i \in DOMAIN f[r] : /\ i \in DOMAIN g[r] /\ g[r][i] = f[r][i]
                                              /\ f[r][i] \in Int /\ f[r][i] < n
  <2> SUFFICES ASSUME NEW r \in Place, NEW i \in DOMAIN f[r]
               PROVE  /\ i \in DOMAIN g[r] /\ g[r][i] = f[r][i] /\ f[r][i] \in Int /\ f[r][i] < n
    OBVIOUS
  <2>1. f[r][i] \in Int
    BY DEF Lines
  <2>2. f[r][i] \in OnTheLine(f)
    BY <2>1 DEF OnTheLine
  <2>3. CASE r # 7
    BY <2>1, <2>2, <2>3 DEF Elsewhere
  <2>4. CASE r = 7
    BY <1>1, <2>1, <2>2, <2>4
  <2> QED BY <2>3, <2>4
<1>5. InLine(g)
  <2> SUFFICES ASSUME NEW r \in Place, NEW t \in Place, NEW i \in DOMAIN g[r], NEW j \in DOMAIN g[t],
                      r < t \/ (r = t /\ i < j)
               PROVE  g[r][i] < g[t][j]
    BY DEF InLine
  <2>1. CASE i \in DOMAIN f[r] /\ j \in DOMAIN f[t] /\ g[r][i] = f[r][i] /\ g[t][j] = f[t][j]
    BY <2>1 DEF InLine
  <2>2. CASE i \in DOMAIN f[r] /\ g[r][i] = f[r][i] /\ g[t][j] = n
    BY <1>4, <2>2
  <2>3. CASE r = 7 /\ i = e
    <3>1. t = 7
      BY <2>3 DEF Place
    <3> QED BY <1>1, <1>2, <1>3, <2>3, <3>1
  <2> QED BY <1>3, <2>1, <2>2, <2>3
<1>6. OnTheLine(g) \subseteq OnTheLine(f) \cup {n}
  BY <1>3 DEF OnTheLine
<1>7. OnTheLine(f) \subseteq OnTheLine(g)
  BY <1>4 DEF OnTheLine
<1>8. n \in OnTheLine(g)
  BY <1>1 DEF OnTheLine, Place
<1> QED BY <1>5, <1>6, <1>7, <1>8

Ascends(s) == \A i, j \in DOMAIN s : i < j => s[i] < s[j]
Values(s)  == {s[i] : i \in DOMAIN s}

\* Two pieces one after the other.
LEMMA Joined ==
  ASSUME NEW s \in Seq(Int), NEW t \in Seq(Int)
  PROVE  /\ s \o t \in Seq(Int) /\ Values(s \o t) = Values(s) \cup Values(t)
         /\ Ascends(s) /\ Ascends(t) /\ (\A x \in Values(s), y \in Values(t) : x < y)
              => Ascends(s \o t)
<1> DEFINE u == s \o t
<1> DEFINE n == Len(s)
<1> DEFINE k == Len(t)
<1>1. /\ u \in Seq(Int) /\ n \in Nat /\ k \in Nat
      /\ DOMAIN s = 1 .. n /\ DOMAIN t = 1 .. k /\ DOMAIN u = 1 .. n + k
      /\ \A i \in 1 .. n : u[i] = s[i]
      /\ \A i \in 1 .. n + k : i > n => u[i] = t[i - n]
  OBVIOUS
<1> HIDE DEF u, n, k
<1>2. \A i \in 1 .. k : u[i + n] = t[i]
  <2> SUFFICES ASSUME NEW i \in 1 .. k PROVE u[i + n] = t[i]
    OBVIOUS
  <2>1. i + n \in 1 .. n + k /\ i + n > n /\ (i + n) - n = i
    BY <1>1
  <2>2. u[i + n] = t[(i + n) - n]
    BY <1>1, <2>1
  <2> QED BY <2>1, <2>2
<1>3. ASSUME NEW i \in 1 .. n + k
      PROVE  i \in 1 .. n \/ (i - n \in 1 .. k /\ i > n /\ u[i] = t[i - n])
  BY <1>1
<1>4. Values(u) = Values(s) \cup Values(t)
  <2>1. Values(u) \subseteq Values(s) \cup Values(t)
    BY <1>1, <1>3 DEF Values
  <2>2. Values(s) \subseteq Values(u)
    BY <1>1 DEF Values
  <2>3. \A i \in 1 .. k : i + n \in 1 .. n + k
    BY <1>1
  <2>4. ASSUME NEW i \in 1 .. k PROVE \E j \in 1 .. n + k : t[i] = u[j]
    BY <1>2, <2>3
  <2>5. Values(t) \subseteq Values(u)
    <3> SUFFICES ASSUME NEW i \in 1 .. k PROVE t[i] \in Values(u)
      BY <1>1 DEF Values
    <3>1. PICK j \in 1 .. n + k : t[i] = u[j]
      BY <2>4
    <3> QED BY <1>1, <3>1 DEF Values
  <2> QED BY <2>1, <2>2, <2>5
<1>5. ASSUME Ascends(s), Ascends(t), \A x \in Values(s), y \in Values(t) : x < y
      PROVE  Ascends(u)
  <2> SUFFICES ASSUME NEW i \in 1 .. n + k, NEW j \in 1 .. n + k, i < j PROVE u[i] < u[j]
    BY <1>1 DEF Ascends
  <2>1. CASE i \in 1 .. n /\ j \in 1 .. n
    BY <1>1, <1>5, <2>1 DEF Ascends
  <2>2. CASE i \in 1 .. n /\ j > n
    <3>1. j - n \in 1 .. k /\ u[j] = t[j - n] /\ u[i] = s[i]
      BY <1>1, <2>2
    <3> QED BY <1>1, <1>5, <2>2, <3>1 DEF Values
  <2>3. CASE i > n
    <3>1. /\ j - n \in 1 .. k /\ u[j] = t[j - n] /\ i - n \in 1 .. k /\ u[i] = t[i - n]
          /\ i - n < j - n
      BY <1>1, <2>3
    <3> QED BY <1>1, <1>5, <3>1 DEF Ascends
  <2>4. i \in 1 .. n \/ i > n
    BY <1>1
  <2>5. j \in 1 .. n \/ j > n
    BY <1>1
  <2> QED BY <1>1, <2>1, <2>2, <2>3, <2>4, <2>5
<1> QED BY <1>1, <1>4, <1>5 DEF u

\* A line put together is ascending, and holds what its places hold.
LEMMA WholeLine ==
  ASSUME NEW f \in Lines, InLine(f)
  PROVE  LET whole == (f[1] \o ((f[2] \o f[3]) \o f[4])) \o ((f[5] \o f[6]) \o f[7])
         IN  /\ Ascends(whole) /\ Values(whole) = OnTheLine(f)
<1>1. \A p \in Place : f[p] \in Seq(Int) /\ Ascends(f[p])
  BY DEF Lines, InLine, Ascends, Place
<1>2. \A p, q \in Place : p < q => \A x \in Values(f[p]), y \in Values(f[q]) : x < y
  BY DEF InLine, Values
<1>3. OnTheLine(f) = UNION {Values(f[p]) : p \in Place}
  BY DEF OnTheLine, Values, Lines
<1> DEFINE a == f[1]  b == f[2]  c == f[3]  d == f[4]  h == f[5]  k == f[6]  l == f[7]
<1>4. /\ a \in Seq(Int) /\ b \in Seq(Int) /\ c \in Seq(Int) /\ d \in Seq(Int)
      /\ h \in Seq(Int) /\ k \in Seq(Int) /\ l \in Seq(Int)
      /\ Ascends(a) /\ Ascends(b) /\ Ascends(c) /\ Ascends(d)
      /\ Ascends(h) /\ Ascends(k) /\ Ascends(l)
  BY <1>1 DEF Place
<1>5. OnTheLine(f) = Values(a) \cup Values(b) \cup Values(c) \cup Values(d)
                       \cup Values(h) \cup Values(k) \cup Values(l)
  <2>1. Place = {1, 2, 3, 4, 5, 6, 7}
    BY DEF Place
  <2> QED BY <1>3, <2>1
<1>6. /\ \A x \in Values(a), y \in Values(b) \cup Values(c) \cup Values(d) : x < y
      /\ \A x \in Values(b), y \in Values(c) \cup Values(d) : x < y
      /\ \A x \in Values(c), y \in Values(d) : x < y
      /\ \A x \in Values(h), y \in Values(k) \cup Values(l) : x < y
      /\ \A x \in Values(k), y \in Values(l) : x < y
      /\ \A x \in Values(a) \cup Values(b) \cup Values(c) \cup Values(d),
            y \in Values(h) \cup Values(k) \cup Values(l) : x < y
  BY <1>2 DEF Place
<1> HIDE DEF a, b, c, d, h, k, l
<1>7. /\ b \o c \in Seq(Int) /\ Ascends(b \o c) /\ Values(b \o c) = Values(b) \cup Values(c)
      /\ h \o k \in Seq(Int) /\ Ascends(h \o k) /\ Values(h \o k) = Values(h) \cup Values(k)
  BY <1>4, <1>6, Joined
<1> DEFINE bc == b \o c  hk == h \o k
<1>8. /\ bc \in Seq(Int) /\ Ascends(bc) /\ Values(bc) = Values(b) \cup Values(c)
      /\ hk \in Seq(Int) /\ Ascends(hk) /\ Values(hk) = Values(h) \cup Values(k)
  BY <1>7
<1> HIDE DEF bc, hk
<1>9. /\ \A x \in Values(bc), y \in Values(d) : x < y
      /\ \A x \in Values(hk), y \in Values(l) : x < y
  BY <1>6, <1>8
<1> DEFINE bcd == bc \o d  hkl == hk \o l
<1>10. /\ bcd \in Seq(Int) /\ Ascends(bcd) /\ Values(bcd) = Values(bc) \cup Values(d)
       /\ hkl \in Seq(Int) /\ Ascends(hkl) /\ Values(hkl) = Values(hk) \cup Values(l)
  BY <1>4, <1>8, <1>9, Joined
<1> HIDE DEF bcd, hkl
<1>11. \A x \in Values(a), y \in Values(bcd) : x < y
  BY <1>6, <1>8, <1>10
<1> DEFINE abcd == a \o bcd
<1>12. abcd \in Seq(Int) /\ Ascends(abcd) /\ Values(abcd) = Values(a) \cup Values(bcd)
  BY <1>4, <1>10, <1>11, Joined
<1> HIDE DEF abcd
<1>13. \A x \in Values(abcd), y \in Values(hkl) : x < y
  BY <1>6, <1>8, <1>10, <1>12
<1>14. /\ Ascends(abcd \o hkl) /\ Values(abcd \o hkl) = Values(abcd) \cup Values(hkl)
  BY <1>10, <1>12, <1>13, Joined
<1>15. Values(abcd \o hkl) = OnTheLine(f)
  BY <1>5, <1>8, <1>10, <1>12, <1>14
<1> QED BY <1>14, <1>15 DEF a, b, c, d, h, k, l, bc, hk, bcd, hkl, abcd

-----------------------------------------------------------------------------
(* The places of the line                                                  *)

\* What of a stream lies behind its first k messages.
LEMMA Behind ==
  ASSUME NEW s \in Seq(Int), NEW k \in Nat, k <= Len(s)
  PROVE  LET u == SubSeq(s, k + 1, Len(s)) IN
         /\ u \in Seq(Int) /\ Len(u) = Len(s) - k /\ DOMAIN u = 1 .. Len(s) - k
         /\ \A i \in 1 .. Len(s) - k : u[i] = s[k + i]
<1> DEFINE m == k + 1  n == Len(s)  u == SubSeq(s, m, n)
<1>1. m \in Int /\ n \in Int /\ 1 <= m /\ n <= Len(s) /\ m <= n + 1
  OBVIOUS
<1>2. n - m + 1 = n - k /\ \A i \in 1 .. n - k : m + i - 1 = k + i
  OBVIOUS
<1> HIDE DEF m, n
<1>3. /\ u \in Seq(Int) /\ Len(u) = n - m + 1 /\ DOMAIN u = 1 .. n - m + 1
      /\ \A i \in 1 .. n - m + 1 : u[i] = s[m + i - 1]
  BY <1>1, Part
<1> HIDE DEF u
<1>4. /\ u \in Seq(Int) /\ Len(u) = n - k /\ DOMAIN u = 1 .. n - k
      /\ \A i \in 1 .. n - k : u[i] = s[k + i]
  BY ONLY <1>2, <1>3
<1> QED BY <1>4 DEF m, n, u

LEMMA BehindAdded ==
  ASSUME NEW s \in Seq(Int), NEW x \in Int, NEW k \in Nat, k <= Len(s)
  PROVE  SubSeq(Append(s, x), k + 1, Len(Append(s, x))) = Append(SubSeq(s, k + 1, Len(s)), x)
<1> DEFINE t == Append(s, x)
<1>1. t \in Seq(Int) /\ Len(t) = Len(s) + 1 /\ t[Len(t)] = x
  OBVIOUS
<1>2. k + 1 \in 1 .. Len(t) /\ Len(t) \in k + 1 .. Len(t) /\ Len(t) - 1 = Len(s)
  BY <1>1
<1>3. SubSeq(t, k + 1, Len(t)) = SubSeq(t, k + 1, Len(s)) \o <<x>>
  BY <1>1, <1>2, SubSeqRecursiveSecond
<1>4. SubSeq(t, k + 1, Len(s)) = SubSeq(s, k + 1, Len(s))
  OBVIOUS
<1>5. SubSeq(s, k + 1, Len(s)) \in Seq(Int)
  OBVIOUS
<1> QED BY <1>3, <1>4, <1>5, AppendIsConcat

LEMMA BehindNext ==
  ASSUME NEW s \in Seq(Int), NEW k \in Nat, k < Len(s)
  PROVE  /\ SubSeq(s, k + 1, Len(s)) # <<>> /\ Head(SubSeq(s, k + 1, Len(s))) = s[k + 1]
         /\ SubSeq(s, (k + 1) + 1, Len(s)) = Tail(SubSeq(s, k + 1, Len(s)))
<1>1. k + 1 \in 1 .. Len(s) /\ Len(s) \in k + 1 .. Len(s)
  OBVIOUS
<1>2. Len(SubSeq(s, k + 1, Len(s))) = Len(s) - k
  BY Behind
<1>3. SubSeq(s, k + 1, Len(s)) # <<>>
  <2> DEFINE u == SubSeq(s, k + 1, Len(s))
  <2>1. Len(u) = Len(s) - k /\ Len(s) \in Nat
    BY <1>2
  <2> HIDE DEF u
  <2>2. Len(u) # 0
    BY <2>1
  <2>3. u # <<>>
    BY <2>2
  <2> QED BY <2>3 DEF u
<1> QED BY <1>1, <1>3, HeadTailOfSubSeq

\* A connection that carries a subscription, if any, as its first command.
Plain(cs) == cs \in Seq(Commands) /\ \A i \in DOMAIN cs : cs[i].op = "SUB" => i = 1

LEMMA MessagesType ==
  ASSUME NEW cs \in Seq(Commands)
  PROVE  Messages(cs) \in Seq(Int)
<1> DEFINE pubs == IF cs # <<>> /\ Head(cs).op = "SUB" THEN Tail(cs) ELSE cs
<1>1. pubs \in Seq(Commands)
  OBVIOUS
<1>2. \A i \in DOMAIN pubs : pubs[i].msg \in Int
  <2>1. \A c \in Commands : c.msg \in Int
    BY DEF Commands, Numbers
  <2> HIDE DEF pubs
  <2> QED BY <1>1, <2>1
<1>3. Messages(cs) = [i \in DOMAIN pubs |-> pubs[i].msg]
  BY DEF Messages
<1> HIDE DEF pubs
<1>4. DOMAIN pubs = 1 .. Len(pubs) /\ Len(pubs) \in Nat
  BY <1>1
<1>5. Messages(cs) \in [1 .. Len(pubs) -> Int]
  BY <1>2, <1>3, <1>4
<1> QED BY <1>4, <1>5

\* The server takes the first command.
LEMMA SubscriptionTaken ==
  ASSUME NEW cs, Plain(cs), cs # <<>>, Head(cs).op = "SUB"
  PROVE  Messages(Tail(cs)) = Messages(cs)
<1>1. cs \in Seq(Commands) /\ Tail(cs) \in Seq(Commands) /\ Head(cs) = cs[1]
  BY DEF Plain
<1>2. ~(Tail(cs) # <<>> /\ Head(Tail(cs)).op = "SUB")
  <2> SUFFICES ASSUME Tail(cs) # <<>> PROVE Head(Tail(cs)).op # "SUB"
    OBVIOUS
  <2>1. 2 \in DOMAIN cs /\ Head(Tail(cs)) = cs[2]
    BY <1>1
  <2> QED BY <2>1 DEF Plain
<1> QED BY <1>2 DEF Messages

LEMMA MessageTaken ==
  ASSUME NEW cs, Plain(cs), cs # <<>>, Head(cs).op = "PUB"
  PROVE  /\ Messages(cs) # <<>> /\ Head(Messages(cs)) = Head(cs).msg
         /\ Messages(Tail(cs)) = Tail(Messages(cs))
<1> DEFINE t == Tail(cs)  ms == Messages(cs)  mt == Messages(t)
<1>1. /\ cs \in Seq(Commands) /\ t \in Seq(Commands) /\ Head(cs) = cs[1]
      /\ Len(t) = Len(cs) - 1 /\ Len(cs) \in Nat /\ Len(cs) > 0
      /\ \A i \in 1 .. Len(t) : t[i] = cs[i + 1] /\ i + 1 \in 1 .. Len(cs)
  BY DEF Plain
<1>2. ~(t # <<>> /\ Head(t).op = "SUB")
  <2> SUFFICES ASSUME t # <<>> PROVE Head(t).op # "SUB"
    OBVIOUS
  <2>1. 2 \in DOMAIN cs /\ Head(t) = cs[2]
    BY <1>1
  <2> QED BY <2>1 DEF Plain
<1>3. ms = [i \in DOMAIN cs |-> cs[i].msg]
  BY DEF Messages
<1>4. mt = [i \in DOMAIN t |-> t[i].msg]
  BY <1>2 DEF Messages
<1>5. ms \in Seq(Int) /\ mt \in Seq(Int)
  BY <1>1, MessagesType
<1> HIDE DEF t, ms, mt
<1>6. Len(ms) = Len(cs) /\ Len(mt) = Len(t) /\ ms # <<>>
  BY <1>1, <1>3, <1>4, <1>5
<1>7. /\ Tail(ms) \in Seq(Int) /\ Len(Tail(ms)) = Len(ms) - 1 /\ Head(ms) = ms[1]
      /\ \A i \in 1 .. Len(Tail(ms)) : Tail(ms)[i] = ms[i + 1]
  BY <1>5, <1>6
<1>8. ASSUME NEW i \in 1 .. Len(mt) PROVE mt[i] = Tail(ms)[i]
  BY <1>1, <1>3, <1>4, <1>6, <1>7
<1>9. mt = Tail(ms)
  <2> DEFINE u == Tail(ms)
  <2>1. u \in Seq(Int) /\ Len(u) = Len(mt) /\ \A i \in 1 .. Len(mt) : mt[i] = u[i]
    BY <1>1, <1>6, <1>7, <1>8
  <2> HIDE DEF u
  <2>2. u = mt
    BY <1>5, <2>1, SeqEqual
  <2> QED BY <2>2 DEF u
<1>10. Head(ms) = Head(cs).msg
  BY <1>1, <1>3, <1>7
<1> QED BY <1>6, <1>9, <1>10 DEF t, ms, mt

\* A side adds a command behind the last.
LEMMA MessageAdded ==
  ASSUME NEW cs, Plain(cs), NEW c \in Commands, c.op = "PUB"
  PROVE  Messages(Append(cs, c)) = Append(Messages(cs), c.msg) /\ Plain(Append(cs, c))
<1> DEFINE t == Append(cs, c)
<1>1. /\ cs \in Seq(Commands) /\ t \in Seq(Commands) /\ Len(t) = Len(cs) + 1 /\ t # <<>>
      /\ t[Len(t)] = c /\ \A i \in DOMAIN cs : i \in DOMAIN t /\ t[i] = cs[i]
      /\ \A i \in DOMAIN t : i \in DOMAIN cs \/ i = Len(t)
  BY DEF Plain
<1>2. Plain(t)
  BY <1>1 DEF Plain
<1>3. CASE cs # <<>> /\ Head(cs).op = "SUB"
  <2> DEFINE a == Tail(cs)  b == Tail(t)
  <2>1. Head(t) = Head(cs) /\ b = Append(a, c) /\ a \in Seq(Commands)
    BY <1>1, <1>3
  <2>2. Messages(cs) = [i \in DOMAIN a |-> a[i].msg] /\ Messages(t) = [i \in DOMAIN b |-> b[i].msg]
    BY <1>1, <1>3, <2>1 DEF Messages
  <2> HIDE DEF a, b, t
  <2>3. [i \in DOMAIN b |-> b[i].msg] = Append([i \in DOMAIN a |-> a[i].msg], c.msg)
    BY <2>1
  <2> QED BY <1>2, <2>2, <2>3 DEF t
<1>4. CASE cs = <<>>
  BY <1>1, <1>2, <1>4 DEF Messages
<1>5. CASE cs # <<>> /\ Head(cs).op # "SUB"
  <2>1. Head(t) = Head(cs)
    BY <1>1, <1>5
  <2>2. Messages(cs) = [i \in DOMAIN cs |-> cs[i].msg] /\ Messages(t) = [i \in DOMAIN t |-> t[i].msg]
    BY <1>1, <1>5, <2>1 DEF Messages
  <2>3. [i \in DOMAIN t |-> t[i].msg] = Append([i \in DOMAIN cs |-> cs[i].msg], c.msg)
    BY <1>1
  <2> QED BY <1>2, <2>2, <2>3
<1> QED BY <1>3, <1>4, <1>5

LEMMA SubscriptionAdded ==
  ASSUME NEW c \in Commands, c.op = "SUB"
  PROVE  Messages(Append(<<>>, c)) = Messages(<<>>) /\ Plain(Append(<<>>, c))
<1>1. Append(<<>>, c) = <<c>> /\ <<c>> \in Seq(Commands) /\ Head(<<c>>) = c /\ Tail(<<c>>) = <<>>
  OBVIOUS
<1>2. Messages(<<c>>) = [i \in DOMAIN <<>> |-> <<>>[i].msg]
  BY <1>1 DEF Messages
<1>3. Messages(<<>>) = [i \in DOMAIN <<>> |-> <<>>[i].msg]
  BY DEF Messages
<1> QED BY <1>1, <1>2, <1>3 DEF Plain

\* A connection that was cut off: the subscription again, and the rest of the
\* messages.
LEMMA MessagesCut ==
  ASSUME NEW cs \in Seq(Commands), \A i \in DOMAIN cs : cs[i].op # "SUB",
         NEW j \in 0 .. Len(cs), NEW c \in Commands, c.op = "SUB"
  PROVE  /\ Messages(<<c>> \o SubSeq(cs, j + 1, Len(cs)))
               = SubSeq(Messages(cs), j + 1, Len(Messages(cs)))
         /\ Len(Messages(cs)) = Len(cs)
         /\ \A i \in 1 .. j : Messages(cs)[i] = cs[i].msg
<1> DEFINE u == SubSeq(cs, j + 1, Len(cs))  t == <<c>> \o u  ms == Messages(cs)
           n == Len(cs) - j  v == SubSeq(ms, j + 1, Len(ms))
<1>1. /\ u \in Seq(Commands) /\ n \in Nat /\ Len(u) = n /\ j \in Nat /\ Len(cs) = n + j
      /\ \A i \in 1 .. n : u[i] = cs[i + j]
  BY ONLY cs \in Seq(Commands), j \in 0 .. Len(cs)
<1>2. t # <<>> /\ Head(t) = c /\ Tail(t) = u
  <2> HIDE DEF u
  <2> QED BY <1>1
<1>3. Messages(t) = [i \in DOMAIN u |-> u[i].msg]
  BY <1>2 DEF Messages
<1>4. ms = [i \in DOMAIN cs |-> cs[i].msg]
  <2>1. cs # <<>> => Head(cs).op # "SUB"
    OBVIOUS
  <2> QED BY <2>1 DEF Messages
<1>5. ms \in Seq(Int)
  BY MessagesType
<1> HIDE DEF u, ms, t, n
<1>6. DOMAIN cs = 1 .. n + j /\ DOMAIN u = 1 .. n
  BY <1>1
<1>7. Len(ms) = n + j /\ \A i \in 1 .. n + j : ms[i] = cs[i].msg
  <2>1. DOMAIN ms = 1 .. n + j
    BY <1>4, <1>6
  <2>2. Len(ms) \in Nat /\ DOMAIN ms = 1 .. Len(ms)
    BY <1>5
  <2>3. Len(ms) = n + j
    BY <1>1, <2>1, <2>2
  <2> QED BY <1>4, <1>6, <2>3
<1>8. v \in Seq(Int) /\ Len(v) = n /\ \A i \in 1 .. n : v[i] = ms[j + i]
  <2>1. j \in Nat /\ j <= Len(ms) /\ Len(ms) - j = n
    BY <1>1, <1>7
  <2> HIDE DEF v
  <2>2. /\ v \in Seq(Int) /\ Len(v) = Len(ms) - j
        /\ \A i \in 1 .. Len(ms) - j : v[i] = ms[j + i]
    BY <1>5, <2>1, Behind DEF v
  <2> QED BY <2>1, <2>2
<1> HIDE DEF v
<1>9. ASSUME NEW i \in 1 .. n PROVE v[i] = u[i].msg
  <2>1. j + i \in 1 .. n + j /\ i + j = j + i
    BY <1>1
  <2> QED BY <1>1, <1>7, <1>8, <2>1
<1>10. v = [i \in DOMAIN u |-> u[i].msg]
  <2>1. v = [i \in 1 .. n |-> v[i]]
    BY <1>1, <1>8
  <2> QED BY <1>6, <1>9, <2>1
<1>11. \A i \in 1 .. j : ms[i] = cs[i].msg
  BY <1>1, <1>7
<1> QED BY <1>1, <1>3, <1>7, <1>10, <1>11 DEF t, u, ms, v

\* Where every message that is neither unsent nor lost is, nearest the receiver
\* first.
Line == << received, inbox["s2c"], Undelivered("s2c"), Messages(wire["echo"]),
           inbox["c2s"], Undelivered("c2s"), Messages(wire["client"]) >>
Lost == UNION {unheard[w] \cup overrun[w] : w \in Ways}

\* What NothingVanishes says of a line, the messages lost and the next number.
Account(f, lost, n) == /\ InLine(f)
                       /\ OnTheLine(f) \cup lost = 0 .. n - 1
                       /\ OnTheLine(f) \cap lost = {}

\* A side subscribes before it publishes, if it subscribes at all.
PlainWires == \A s \in Sides : Plain(wire[s])

\* In core mode there are no streams.
CoreStoresNothing ==
    ~JetStream => \A w \in Ways : stored[w] = <<>> /\ trimmed[w] = 0 /\ given[w] = 0

\* The place of a stream's messages, and of a connection's.
StreamPlace(w) == IF w = "s2c" THEN 3 ELSE 6

\* All of s precedes n and what lies behind place q.
Leads(s, f, q, n) ==
    \A i \in DOMAIN s : /\ s[i] < n
                        /\ \A r \in Place : r > q => \A j \in DOMAIN f[r] : s[i] < f[r][j]

\* A stream is in order, those it has discarded included, and everything on its
\* way to it comes later.
StreamsInOrder == \A w \in Ways : Ascends(stored[w]) /\ Leads(stored[w], Line, StreamPlace(w), next)

\* Between the oldest message in a consumer's inbox and the last it was sent,
\* the consumer holds all that the stream still has.
Holds(w) ==
    /\ \A i \in DOMAIN inbox[w] : \E j \in 1 .. given[w] : stored[w][j] = inbox[w][i]
    /\ \A j \in 1 .. given[w] :
          inbox[w] # <<>> /\ stored[w][j] >= inbox[w][1] =>
              j <= trimmed[w] \/ \E i \in DOMAIN inbox[w] : inbox[w][i] = stored[w][j]

Complete == epc # "dead" =>
    /\ Account(Line, Lost, next)
    /\ StreamsInOrder
    /\ JetStream => \A w \in Ways : Holds(w)

-----------------------------------------------------------------------------
(* Steps of the line, whatever moves                                       *)

\* A message only moves towards the receiver.
OnlyForward(f, g) == \A r \in Place : \A j \in DOMAIN g[r] :
    \E t \in Place : t >= r /\ \E k \in DOMAIN f[t] : f[t][k] = g[r][j]

LEMMA LeadsKept ==
  ASSUME NEW f \in Lines, NEW g \in Lines, NEW s, NEW q \in Place, NEW n,
         OnlyForward(f, g), Leads(s, f, q, n)
  PROVE  Leads(s, g, q, n)
<1>1. ASSUME NEW i \in DOMAIN s, NEW r \in Place, r > q, NEW j \in DOMAIN g[r]
      PROVE  s[i] < g[r][j]
  <2>1. PICK t \in Place : t >= r /\ \E k \in DOMAIN f[t] : f[t][k] = g[r][j]
    BY DEF OnlyForward
  <2>2. PICK k \in DOMAIN f[t] : f[t][k] = g[r][j]
    BY <2>1
  <2>3. t > q
    BY <1>1, <2>1 DEF Place
  <2> QED BY <2>2, <2>3 DEF Leads
<1> QED BY <1>1 DEF Leads

LEMMA AdvancesForward ==
  ASSUME NEW f \in Lines, NEW g \in Lines, NEW p \in Place, NEW q \in Place, p < q,
         f[q] # <<>>, g[p] = Append(f[p], Head(f[q])), g[q] = Tail(f[q]),
         \A r \in Place : r # p /\ r # q => g[r] = f[r]
  PROVE  OnlyForward(f, g)
<1> SUFFICES ASSUME NEW r \in Place, NEW j \in DOMAIN g[r]
             PROVE  \E t \in Place : t >= r /\ \E k \in DOMAIN f[t] : f[t][k] = g[r][j]
  BY DEF OnlyForward
<1>1. f[p] \in Seq(Int) /\ f[q] \in Seq(Int)
  BY DEF Lines
<1>2. r \in Int /\ p \in Int /\ q \in Int
  BY DEF Place
<1>3. CASE r # p /\ r # q
  BY <1>2, <1>3
<1>4. CASE r = q
  <2>1. \A i \in DOMAIN Tail(f[q]) : i + 1 \in DOMAIN f[q] /\ Tail(f[q])[i] = f[q][i + 1]
    BY <1>1, HeadTail
  <2>2. j + 1 \in DOMAIN f[q] /\ f[q][j + 1] = g[r][j]
    BY <1>4, <2>1
  <2>3. q >= r
    BY <1>2, <1>4
  <2> QED BY <2>2, <2>3
<1>5. CASE r = p
  <2> DEFINE x == Head(f[q])
  <2>1. x \in Int /\ 1 \in DOMAIN f[q] /\ f[q][1] = x
    BY <1>1, HeadTail
  <2> HIDE DEF x
  <2>2. /\ Append(f[p], x)[Len(f[p]) + 1] = x
        /\ \A i \in DOMAIN f[p] : Append(f[p], x)[i] = f[p][i]
        /\ \A i \in DOMAIN Append(f[p], x) : i \in DOMAIN f[p] \/ i = Len(f[p]) + 1
    BY <1>1, <2>1, LastAdded
  <2>3. g[p] = Append(f[p], x)
    BY DEF x
  <2>4. CASE j \in DOMAIN f[p]
    BY <1>2, <1>5, <2>2, <2>3, <2>4
  <2>5. CASE j = Len(f[p]) + 1
    BY <1>2, <1>5, <2>1, <2>2, <2>3, <2>5
  <2> QED BY <1>5, <2>2, <2>3, <2>4, <2>5
<1> QED BY <1>3, <1>4, <1>5

\* A line of which places have only lost something.
LEMMA ShortenedForward ==
  ASSUME NEW f \in Lines, NEW g \in Lines,
         \A r \in Place : \A j \in DOMAIN g[r] : \E k \in DOMAIN f[r] : f[r][k] = g[r][j]
  PROVE  OnlyForward(f, g)
BY DEF OnlyForward, Place

LEMMA ForwardTwice ==
  ASSUME NEW f, NEW g, NEW h, OnlyForward(f, g), OnlyForward(g, h)
  PROVE  OnlyForward(f, h)
<1> SUFFICES ASSUME NEW r \in Place, NEW j \in DOMAIN h[r]
             PROVE  \E t \in Place : t >= r /\ \E k \in DOMAIN f[t] : f[t][k] = h[r][j]
  BY DEF OnlyForward
<1>1. PICK t \in Place : t >= r /\ \E k \in DOMAIN g[t] : g[t][k] = h[r][j]
  BY DEF OnlyForward
<1>2. PICK k \in DOMAIN g[t] : g[t][k] = h[r][j]
  BY <1>1
<1>3. PICK u \in Place : u >= t /\ \E l \in DOMAIN f[u] : f[u][l] = g[t][k]
  BY DEF OnlyForward
<1>4. u >= r
  BY <1>1, <1>3 DEF Place
<1> QED BY <1>2, <1>3, <1>4

LEMMA AccountKept ==
  ASSUME NEW f, NEW g, NEW lost, NEW n, Account(f, lost, n), InLine(g),
         OnTheLine(g) = OnTheLine(f)
  PROVE  Account(g, lost, n)
  BY DEF Account

LEMMA AccountLost ==
  ASSUME NEW f, NEW g, NEW lost, NEW n, NEW x, Account(f, lost, n), InLine(g),
         OnTheLine(f) = OnTheLine(g) \cup x, OnTheLine(g) \cap x = {}
  PROVE  Account(g, lost \cup x, n)
  BY DEF Account

LEMMA AccountSent ==
  ASSUME NEW f \in Lines, NEW g \in Lines, NEW lost, NEW n \in Nat, Account(f, lost, n),
         g[7] = Append(f[7], n), Elsewhere(f, g, 7)
  PROVE  Account(g, lost, n + 1)
<1>1. \A m \in OnTheLine(f) \cup lost : m \in Int /\ m < n
  BY DEF Account
<1>2. InLine(g) /\ OnTheLine(g) = OnTheLine(f) \cup {n}
  BY <1>1, Joins DEF Account
<1>3. 0 .. (n + 1) - 1 = (0 .. n - 1) \cup {n}
  OBVIOUS
<1>4. n \notin lost
  BY <1>1
<1> QED BY <1>2, <1>3, <1>4 DEF Account

-----------------------------------------------------------------------------

LEMMA Pieces ==
  /\ Line[1] = received /\ Line[2] = inbox["s2c"] /\ Line[3] = Undelivered("s2c")
  /\ Line[4] = Messages(wire["echo"]) /\ Line[5] = inbox["c2s"]
  /\ Line[6] = Undelivered("c2s") /\ Line[7] = Messages(wire["client"])
  BY DEF Line

LEMMA PiecesThen ==
  /\ Line'[1] = received' /\ Line'[2] = inbox'["s2c"] /\ Line'[3] = Undelivered("s2c")'
  /\ Line'[4] = Messages(wire["echo"])' /\ Line'[5] = inbox'["c2s"]
  /\ Line'[6] = Undelivered("c2s")' /\ Line'[7] = Messages(wire["client"])'
  BY DEF Line

LEMMA NumbersAreIntegers == Numbers \subseteq Int /\ \A s \in Seq(Numbers) : s \in Seq(Int)
<1>1. Numbers \subseteq Int
  BY DEF Numbers
<1> QED BY <1>1, SeqMonotonic, Zenon

LEMMA SevenPlaces == \A r \in Place : r \in {1, 2, 3, 4, 5, 6, 7}
  BY DEF Place

LineTyped == Line \in Lines

LEMMA LineType == Types => LineTyped
<1> SUFFICES ASSUME Types PROVE Line \in Lines
  BY DEF LineTyped
<1>1. ASSUME NEW w \in Ways PROVE Undelivered(w) \in Seq(Int) /\ inbox[w] \in Seq(Int)
  <2> DEFINE k == Later(given[w], trimmed[w])
  <2>1. /\ stored[w] \in Seq(Numbers) /\ inbox[w] \in Seq(Numbers)
        /\ given[w] \in Nat /\ trimmed[w] \in Nat
        /\ given[w] <= Len(stored[w]) /\ trimmed[w] <= Len(stored[w])
    BY DEF Types
  <2>2. k \in Nat /\ k <= Len(stored[w])
    BY <2>1 DEF Later
  <2>3. stored[w] \in Seq(Int) /\ inbox[w] \in Seq(Int)
    BY <2>1, NumbersAreIntegers
  <2> HIDE DEF k
  <2>4. SubSeq(stored[w], k + 1, Len(stored[w])) \in Seq(Int)
    BY <2>2, <2>3, Behind
  <2> QED BY <2>3, <2>4 DEF k, Undelivered
<1>2. Messages(wire["echo"]) \in Seq(Int) /\ Messages(wire["client"]) \in Seq(Int)
  <2>1. wire["echo"] \in Seq(Commands) /\ wire["client"] \in Seq(Commands)
    BY DEF Types, Sides
  <2> QED BY <2>1, MessagesType
<1>3. received \in Seq(Int)
  BY NumbersAreIntegers DEF Types
<1>4. \A r \in Place : Line[r] \in Seq(Int)
  BY <1>1, <1>2, <1>3, Pieces, SevenPlaces DEF Ways
<1>5. DOMAIN Line = Place /\ Line = [r \in Place |-> Line[r]]
  BY DEF Line, Place
<1> QED BY <1>4, <1>5 DEF Lines

\* All but the account of messages, which needs the rest.
Base == Invariant /\ PlainWires /\ CoreStoresNothing

LEMMA PlainTail ==
  ASSUME NEW cs, Plain(cs), cs # <<>>
  PROVE  Plain(Tail(cs))
<1>1. cs \in Seq(Commands) /\ Tail(cs) \in Seq(Commands)
      /\ \A i \in DOMAIN Tail(cs) : i + 1 \in DOMAIN cs /\ Tail(cs)[i] = cs[i + 1]
                                    /\ i \in Nat /\ i > 0
  BY DEF Plain
<1>2. ASSUME NEW i \in DOMAIN Tail(cs) PROVE Tail(cs)[i].op # "SUB"
  <2>1. i + 1 \in DOMAIN cs /\ Tail(cs)[i] = cs[i + 1] /\ i + 1 # 1
    BY <1>1
  <2> QED BY <2>1 DEF Plain
<1> QED BY <1>1, <1>2 DEF Plain

LEMMA PlainWritten ==
  ASSUME PlainWires, Types, NEW side \in Sides, NEW c \in Commands, Write(side, c),
         c.op = "PUB" \/ wire[side] = <<>>
  PROVE  PlainWires'
<1>1. wire' = [wire EXCEPT ![side] = Append(wire[side], c)] /\ wire \in [Sides -> Seq(Commands)]
  BY DEF Write, Types
<1>2. Plain(Append(wire[side], c))
  <2>1. CASE c.op = "PUB"
    BY <2>1, MessageAdded DEF PlainWires
  <2>2. CASE wire[side] = <<>> /\ c.op # "PUB"
    <3>1. c.op = "SUB"
      BY <2>2 DEF Commands
    <3> QED BY <2>2, <3>1, SubscriptionAdded
  <2> QED BY <2>1, <2>2
<1>3. \A s \in Sides : wire'[s] = IF s = side THEN Append(wire[side], c) ELSE wire[s]
  BY <1>1
<1> QED BY <1>2, <1>3 DEF PlainWires

LEMMA PlainStep == PlainWires /\ Invariant /\ [Next]_vars => PlainWires'
<1> SUFFICES ASSUME PlainWires, Types, Startup, SubscribedOnce, [Next]_vars PROVE PlainWires'
  BY DEF Invariant
<1>0. "echo" \in Sides /\ "client" \in Sides /\ "c2s" \in Ways /\ "s2c" \in Ways
  BY DEF Sides, Ways
<1>1. ASSUME NEW side \in Sides, ServerTakes(side) PROVE PlainWires'
  <2>1. wire' = [wire EXCEPT ![side] = Tail(wire[side])] /\ wire[side] # <<>>
        /\ wire \in [Sides -> Seq(Commands)]
    BY <1>1 DEF ServerTakes, Types
  <2>2. Plain(Tail(wire[side]))
    BY <2>1, PlainTail DEF PlainWires
  <2>3. \A s \in Sides : wire'[s] = IF s = side THEN Tail(wire[side]) ELSE wire[s]
    BY <2>1
  <2> QED BY <2>2, <2>3 DEF PlainWires
<1>2. CASE EchoSubscribes
  <2>1. Write("echo", Sub("c2s")) /\ wire["echo"] = <<>> /\ Sub("c2s") \in Commands
    BY <1>2 DEF EchoSubscribes, Startup, Sub, Commands, Ways
  <2> QED BY <1>0, <2>1, PlainWritten
<1>3. CASE EchoServe
  <2>1. Head(inbox["c2s"]) \in Numbers
    BY <1>3 DEF EchoServe, Types, Ways
  <2>2. Pub("s2c", Head(inbox["c2s"])) \in Commands /\ Pub("s2c", Head(inbox["c2s"])).op = "PUB"
    BY <2>1 DEF Pub, Commands, Ways
  <2> QED BY <1>0, <1>3, <2>2, PlainWritten DEF EchoServe
<1>4. CASE ClientConnects
  <2>1. CASE ~JetStream
    <3>1. Write("client", Sub("s2c")) /\ wire["client"] = <<>> /\ Sub("s2c") \in Commands
      BY <1>4, <2>1 DEF ClientConnects, Startup, Sub, Commands, Ways
    <3> QED BY <1>0, <3>1, PlainWritten
  <2>2. CASE JetStream
    BY <1>4, <2>2 DEF ClientConnects, PlainWires
  <2> QED BY <2>1, <2>2
<1>5. CASE ClientSend
  <2>1. next \in Numbers
    BY <1>5, NatsAssumption DEF ClientSend, Types, Numbers
  <2>2. Pub("c2s", next) \in Commands /\ Pub("c2s", next).op = "PUB"
    BY <2>1 DEF Pub, Commands, Ways
  <2> QED BY <1>0, <1>5, <2>2, PlainWritten DEF ClientSend
<1>6. CASE wire' = wire
  BY <1>6 DEF PlainWires
<1>7. ASSUME NEW w \in Ways, CutOff(w) PROVE PlainWires'
  <2> DEFINE r == Reader(w)
  <2>1. /\ r \in Sides /\ Incoming(r) = w /\ active[w]
        /\ wire' \in [Sides -> Seq(Commands)]
        /\ \A s \in Sides : s # r => wire'[s] = wire[s]
    BY <1>7, CutElements DEF Reader, Incoming, Sides, Ways
  <2>2. PICK j \in Nat : \A i \in DOMAIN wire'[r] : i \in Nat /\ i >= 1 /\
               (i # 1 => (i - 1) + j \in DOMAIN wire[r] /\ wire'[r][i] = wire[r][(i - 1) + j])
    BY <1>7, CutElements
  <2>3. \A i \in DOMAIN wire[r] : wire[r][i].op # "SUB"
    BY <2>1 DEF SubscribedOnce
  <2> HIDE DEF r
  <2>4. Plain(wire'[r])
    BY <2>1, <2>2, <2>3 DEF Plain
  <2> QED BY <2>1, <2>4 DEF PlainWires
<1> QED BY <1>1, <1>2, <1>3, <1>4, <1>5, <1>6, <1>7
        DEF Next, Echo, Client, Receiver, Server, Failure, Sides, EchoMakesIn, EchoMakesOut,
            EchoFails, ClientStart, ClientFails, RecvMsg, RecvTimedOut, RecvFails,
            Over, vars, ConsumerDelivers, ConsumerReset

LEMMA CoreStep == CoreStoresNothing /\ Types /\ [Next]_vars => CoreStoresNothing'
<1> SUFFICES ASSUME CoreStoresNothing, Types, [Next]_vars, ~JetStream'
             PROVE  CoreStoresNothing'
  BY DEF CoreStoresNothing
<1>1. ASSUME NEW side \in Sides, ServerTakes(side) PROVE CoreStoresNothing'
  <2>1. ~JetStream
    BY <1>1 DEF ServerTakes, JetStream
  <2>2. UNCHANGED <<stored, trimmed, given>>
    BY <1>1, <2>1 DEF ServerTakes
  <2> QED BY <2>1, <2>2 DEF CoreStoresNothing
<1>2. CASE UNCHANGED <<kind, stored, trimmed, given>>
  BY <1>2 DEF CoreStoresNothing, JetStream
<1>3. ASSUME NEW w \in Ways, ConsumerDelivers(w) \/ ConsumerReset(w) PROVE CoreStoresNothing'
  BY <1>3 DEF ConsumerDelivers, ConsumerReset, HasConsumer, JetStream
<1>4. CASE Echo \/ EchoFails
  BY <1>2, <1>4 DEF Echo, EchoFails, EchoSubscribes, EchoMakesIn, EchoMakesOut, EchoServe, server
<1>5. CASE Client \/ ClientFails
  BY <1>2, <1>5 DEF Client, ClientFails, ClientStart, ClientConnects, ClientSend, server
<1>6. CASE Receiver \/ RecvFails \/ Over \/ UNCHANGED vars
  BY <1>2, <1>6 DEF Receiver, RecvMsg, RecvTimedOut, RecvFails, Over, vars, server
<1>7. ASSUME NEW w \in Ways, CutOff(w) PROVE CoreStoresNothing'
  BY <1>2, <1>7 DEF CutOff
<1> QED BY <1>1, <1>3, <1>4, <1>5, <1>6, <1>7 DEF Next, Server, Failure, Sides

-----------------------------------------------------------------------------

\* A step that leaves the line and the streams alone.
LEMMA NothingMoves ==
  ASSUME Complete, epc' # "dead" => epc # "dead",
         UNCHANGED <<kind, received, inbox, stored, trimmed, given, unheard, overrun, next>>,
         Messages(wire["echo"])' = Messages(wire["echo"]),
         Messages(wire["client"])' = Messages(wire["client"])
  PROVE  Complete'
<1>1. Line' = Line
  BY DEF Line, Undelivered
<1>2. Lost' = Lost
  BY DEF Lost
<1>3. StreamsInOrder => StreamsInOrder'
  BY <1>1 DEF StreamsInOrder
<1>4. JetStream' <=> JetStream
  BY DEF JetStream
<1>5. \A w \in Ways : Holds(w) => Holds(w)'
  BY DEF Holds
<1> QED BY <1>1, <1>2, <1>3, <1>4, <1>5 DEF Complete

\* A step that leaves the streams, and what the consumers have, alone.
LEMMA StreamsStay ==
  ASSUME Types, Types', Complete, epc # "dead",
         UNCHANGED <<stored, next>>, OnlyForward(Line, Line')
  PROVE  StreamsInOrder'
<1>1. Line \in Lines /\ Line' \in Lines
  <2>1. (Types => LineTyped)'
    BY LineType, PTL
  <2> QED BY LineType, <2>1 DEF LineTyped
<1> QED BY <1>1, LeadsKept DEF Complete, StreamsInOrder, StreamPlace, Place

LEMMA LinesNow == Types /\ Types' => Line \in Lines /\ Line' \in Lines
<1>1. (Types => LineTyped)'
  BY LineType, PTL
<1> QED BY LineType, <1>1 DEF LineTyped

\* A message goes from one place of the line to an earlier one.
LEMMA MovesOn ==
  ASSUME Types, Types', Complete, epc # "dead",
         NEW p \in Place, NEW q \in Place, p < q,
         \A r \in Place : p < r /\ r < q => Line[r] = <<>>,
         Line[q] # <<>>, Line'[p] = Append(Line[p], Head(Line[q])), Line'[q] = Tail(Line[q]),
         \A r \in Place : r # p /\ r # q => Line'[r] = Line[r],
         UNCHANGED <<unheard, overrun, next>>
  PROVE  Account(Line, Lost, next)' /\ OnlyForward(Line, Line')
<1>1. Line \in Lines /\ Line' \in Lines
  BY LinesNow
<1> DEFINE f == Line  g == Line'
<1>2. /\ f \in Lines /\ g \in Lines /\ InLine(f)
      /\ \A r \in Place : p < r /\ r < q => f[r] = <<>>
      /\ f[q] # <<>> /\ g[p] = Append(f[p], Head(f[q])) /\ g[q] = Tail(f[q])
      /\ \A r \in Place : r # p /\ r # q => g[r] = f[r]
  BY <1>1 DEF Complete, Account
<1> HIDE DEF f, g
<1>3. InLine(g) /\ OnTheLine(g) = OnTheLine(f)
  BY <1>2, Advances
<1>4. OnlyForward(f, g)
  BY <1>2, AdvancesForward
<1>5. Lost' = Lost /\ next' = next
  BY DEF Lost
<1>6. Account(f, Lost, next)
  BY DEF Complete, f
<1>7. Account(g, Lost, next)
  BY <1>3, <1>6, AccountKept
<1> QED BY <1>4, <1>5, <1>7 DEF f, g

\* A reader takes the first message of its inbox.
LEMMA StillHolds ==
  ASSUME Types, NEW w \in Ways, Ascends(inbox[w]), inbox[w] # <<>>,
         inbox' = [inbox EXCEPT ![w] = Tail(inbox[w])],
         UNCHANGED <<stored, given, trimmed>>,
         NEW x \in Ways, Holds(x)
  PROVE  Holds(x)'
<1>1. inbox \in [Ways -> Seq(Numbers)] /\ stored \in [Ways -> Seq(Numbers)]
      /\ given[w] \in Nat /\ given[w] <= Len(stored[w])
  BY DEF Types
<1>2. CASE x # w
  BY <1>1, <1>2 DEF Holds
<1>3. CASE x = w
  <2> DEFINE s == inbox[w]  t == inbox'[w]  a == stored[w]
  <2>1. /\ t = Tail(s) /\ s \in Seq(Int) /\ s # <<>> /\ a \in Seq(Int) 
    BY <1>1, NumbersAreIntegers
  <2> HIDE DEF s, t, a
  <2>2. /\ 1 \in DOMAIN s /\ s[1] \in Int
        /\ \A i \in DOMAIN s : i \in Int /\ i >= 1 /\ s[i] \in Int
        /\ \A i \in DOMAIN s : i # 1 => i - 1 \in DOMAIN t /\ t[i - 1] = s[i]
        /\ \A i \in DOMAIN t : i \in Int /\ i + 1 \in DOMAIN s /\ t[i] = s[i + 1]
    BY <2>1, HeadTail
  <2>3. Ascends(s) /\ stored'[w] = a /\ given'[w] = given[w] /\ trimmed'[w] = trimmed[w]
    BY DEF s, a
  <2>4. ASSUME NEW i \in DOMAIN t PROVE \E j \in 1 .. given[w] : a[j] = t[i]
    <3>1. i + 1 \in DOMAIN s /\ t[i] = s[i + 1]
      BY <2>2
    <3> QED BY <1>3, <3>1 DEF Holds, s, a
  <2>5. ASSUME NEW j \in 1 .. given[w], t # <<>>, a[j] >= t[1]
        PROVE  j <= trimmed[w] \/ \E i \in DOMAIN t : t[i] = a[j]
    <3>1. 1 \in DOMAIN t /\ t[1] = s[1 + 1] /\ 1 + 1 \in DOMAIN s
      <4>1. t \in Seq(Int)
        BY <2>1
      <4>2. 1 \in DOMAIN t
        BY <2>5, <4>1
      <4> QED BY <2>2, <4>2
    <3>2. s[1] < s[1 + 1] /\ s[1 + 1] \in Int
      BY <2>2, <2>3, <3>1 DEF Ascends
    <3>3. a[j] \in Int
      <4>1. j \in DOMAIN a
        BY <1>1, <2>1 DEF a
      <4> QED BY <2>1, <4>1
    <3>4. a[j] >= s[1] /\ a[j] # s[1]
      BY <2>2, <2>5, <3>1, <3>2, <3>3
    <3>5. j <= trimmed[w] \/ \E i \in DOMAIN s : s[i] = a[j]
      BY <1>3, <2>1, <3>4 DEF Holds, s, a
    <3>6. ASSUME NEW i \in DOMAIN s, s[i] = a[j] PROVE \E k \in DOMAIN t : t[k] = a[j]
      <4>1. i # 1
        BY <3>4, <3>6
      <4> QED BY <2>2, <3>6, <4>1
    <3> QED BY <3>5, <3>6
  <2> QED BY <1>3, <2>3, <2>4, <2>5, SMTT(30) DEF Holds, t
<1> QED BY <1>2, <1>3

LEMMA RecvMsgMoves ==
  ASSUME Base, Types', Complete, epc # "dead", RecvMsg
  PROVE  Complete'
<1>0. Types /\ "c2s" \in Ways /\ "s2c" \in Ways /\ "c2s" # "s2c"
  BY DEF Base, Invariant, Ways
<1>1. /\ inbox["s2c"] # <<>> /\ inbox' = [inbox EXCEPT !["s2c"] = Tail(inbox["s2c"])]
      /\ received' = Append(received, Head(inbox["s2c"]))
      /\ UNCHANGED <<kind, wire, stored, trimmed, given, unheard, overrun, next, epc>>
  BY DEF RecvMsg, server, echo, client
<1>2. inbox'["s2c"] = Tail(inbox["s2c"]) /\ inbox'["c2s"] = inbox["c2s"]
  BY <1>0, <1>1 DEF Types
<1>3. /\ Undelivered("s2c")' = Undelivered("s2c") /\ Undelivered("c2s")' = Undelivered("c2s")
      /\ Messages(wire["echo"])' = Messages(wire["echo"])
      /\ Messages(wire["client"])' = Messages(wire["client"])
  BY <1>1 DEF Undelivered
<1>4. /\ Line[2] # <<>> /\ Line'[1] = Append(Line[1], Head(Line[2])) /\ Line'[2] = Tail(Line[2])
      /\ \A r \in Place : r # 1 /\ r # 2 => Line'[r] = Line[r]
  BY <1>1, <1>2, <1>3, Pieces, PiecesThen, SevenPlaces
<1>5. Account(Line, Lost, next)' /\ OnlyForward(Line, Line')
  <2>1. 1 \in Place /\ 2 \in Place /\ 1 < 2 /\ \A r \in Place : 1 < r /\ r < 2 => Line[r] = <<>>
    BY DEF Place
  <2> QED BY <1>0, <1>1, <1>4, <2>1, MovesOn
<1>6. StreamsInOrder'
  BY <1>0, <1>1, <1>5, StreamsStay
<1>7. JetStream' => \A w \in Ways : Holds(w)'
  <2>1. Ascends(inbox["s2c"])
    BY Pieces DEF Complete, Account, InLine, Ascends, Place
  <2>2. JetStream' => \A w \in Ways : Holds(w)
    BY <1>1 DEF Complete, JetStream
  <2> QED BY <1>0, <1>1, <2>1, <2>2, StillHolds
<1> QED BY <1>5, <1>6, <1>7 DEF Complete

LEMMA EchoServeMoves ==
  ASSUME Base, Types', Complete, epc # "dead", EchoServe
  PROVE  Complete'
<1>0. /\ Types /\ "c2s" \in Ways /\ "s2c" \in Ways /\ "c2s" # "s2c"
      /\ "echo" \in Sides /\ "client" \in Sides /\ "echo" # "client"
  BY DEF Base, Invariant, Ways, Sides
<1> DEFINE m == Head(inbox["c2s"])
<1>1. /\ inbox["c2s"] # <<>> /\ inbox' = [inbox EXCEPT !["c2s"] = Tail(inbox["c2s"])]
      /\ Write("echo", Pub("s2c", m))
      /\ UNCHANGED <<kind, received, stored, trimmed, given, unheard, overrun, next, epc>>
  BY DEF EchoServe, server, echo, client, receiver
<1>2. inbox'["c2s"] = Tail(inbox["c2s"]) /\ inbox'["s2c"] = inbox["s2c"]
  BY <1>0, <1>1 DEF Types
<1>3. /\ Undelivered("s2c")' = Undelivered("s2c") /\ Undelivered("c2s")' = Undelivered("c2s")
  BY <1>1 DEF Undelivered
<1>4. m \in Numbers
  BY <1>0, <1>1 DEF Types
<1>5. Pub("s2c", m) \in Commands /\ Pub("s2c", m).op = "PUB" /\ Pub("s2c", m).msg = m
  BY <1>4 DEF Pub, Commands, Ways
<1>6. wire'["echo"] = Append(wire["echo"], Pub("s2c", m)) /\ wire'["client"] = wire["client"]
  BY <1>0, <1>1 DEF Write, Types
<1>7. /\ Messages(wire["echo"])' = Append(Messages(wire["echo"]), m)
      /\ Messages(wire["client"])' = Messages(wire["client"])
  <2>1. Plain(wire["echo"])
    BY <1>0 DEF Base, PlainWires
  <2>2. Messages(wire["echo"])' = Messages(wire'["echo"])
        /\ Messages(wire["client"])' = Messages(wire'["client"])
    BY DEF Messages
  <2> HIDE DEF m
  <2> QED BY <1>5, <1>6, <2>1, <2>2, MessageAdded
<1>8. /\ Line[5] # <<>> /\ Line'[4] = Append(Line[4], Head(Line[5])) /\ Line'[5] = Tail(Line[5])
      /\ \A r \in Place : r # 4 /\ r # 5 => Line'[r] = Line[r]
  BY <1>1, <1>2, <1>3, <1>7, Pieces, PiecesThen, SevenPlaces
<1>9. Account(Line, Lost, next)' /\ OnlyForward(Line, Line')
  <2>1. 4 \in Place /\ 5 \in Place /\ 4 < 5 /\ \A r \in Place : 4 < r /\ r < 5 => Line[r] = <<>>
    BY DEF Place
  <2> QED BY <1>0, <1>1, <1>8, <2>1, MovesOn
<1>10. StreamsInOrder'
  BY <1>0, <1>1, <1>9, StreamsStay
<1>11. JetStream' => \A w \in Ways : Holds(w)'
  <2>1. Ascends(inbox["c2s"])
    BY Pieces DEF Complete, Account, InLine, Ascends, Place
  <2>2. JetStream' => \A w \in Ways : Holds(w)
    BY <1>1 DEF Complete, JetStream
  <2> QED BY <1>0, <1>1, <2>1, <2>2, StillHolds
<1> QED BY <1>9, <1>10, <1>11 DEF Complete

LEMMA ClientSendMoves ==
  ASSUME Base, Types', Complete, epc # "dead", ClientSend
  PROVE  Complete'
<1>0. /\ Types /\ "echo" \in Sides /\ "client" \in Sides /\ "echo" # "client"
  BY DEF Base, Invariant, Sides
<1>1. /\ Write("client", Pub("c2s", next)) /\ next' = next + 1 /\ cpc = "send"
      /\ UNCHANGED <<kind, received, inbox, stored, trimmed, given, unheard, overrun, epc>>
  BY DEF ClientSend, server, echo, receiver
<1>2. next \in Numbers /\ next \in Nat
  BY <1>0, <1>1, NatsAssumption DEF Types, Numbers
<1>3. Pub("c2s", next) \in Commands /\ Pub("c2s", next).op = "PUB" /\ Pub("c2s", next).msg = next
  BY <1>2 DEF Pub, Commands, Ways
<1>4. wire'["client"] = Append(wire["client"], Pub("c2s", next)) /\ wire'["echo"] = wire["echo"]
  BY <1>0, <1>1 DEF Write, Types
<1>5. /\ Messages(wire["client"])' = Append(Messages(wire["client"]), next)
      /\ Messages(wire["echo"])' = Messages(wire["echo"])
  <2>1. Plain(wire["client"])
    BY <1>0 DEF Base, PlainWires
  <2>2. Messages(wire["echo"])' = Messages(wire'["echo"])
        /\ Messages(wire["client"])' = Messages(wire'["client"])
    BY DEF Messages
  <2> QED BY <1>3, <1>4, <2>1, <2>2, MessageAdded
<1>6. /\ Line'[7] = Append(Line[7], next) /\ Elsewhere(Line, Line', 7)
  <2>1. Undelivered("s2c")' = Undelivered("s2c") /\ Undelivered("c2s")' = Undelivered("c2s")
    BY <1>1 DEF Undelivered
  <2> QED BY <1>1, <1>5, <2>1, Pieces, PiecesThen, SevenPlaces DEF Elsewhere
<1>7. Line \in Lines /\ Line' \in Lines
  BY <1>0, LinesNow
<1>8. Lost' = Lost
  BY <1>1 DEF Lost
<1>9. Account(Line, Lost, next)'
  <2> DEFINE f == Line  g == Line'
  <2>1. /\ f \in Lines /\ g \in Lines /\ Account(f, Lost, next)
        /\ g[7] = Append(f[7], next) /\ Elsewhere(f, g, 7)
    BY <1>6, <1>7 DEF Complete
  <2> HIDE DEF f, g
  <2>2. Account(g, Lost, next + 1)
    BY <1>2, <2>1, AccountSent
  <2> QED BY <1>1, <1>8, <2>2 DEF g
<1>10. StreamsInOrder'
  <2> SUFFICES ASSUME NEW w \in Ways
               PROVE  Ascends(stored[w]) /\ Leads(stored[w], Line', StreamPlace(w), next + 1)
    BY <1>1 DEF StreamsInOrder
  <2>1. Ascends(stored[w]) /\ Leads(stored[w], Line, StreamPlace(w), next)
    BY DEF Complete, StreamsInOrder
  <2>2. ASSUME NEW i \in DOMAIN stored[w] PROVE stored[w][i] < next /\ stored[w][i] \in Nat
    <3>1. stored[w] \in Seq(Numbers)
      BY <1>0 DEF Types
    <3>2. stored[w][i] \in Numbers
      BY <3>1
    <3> QED BY <2>1, <3>2 DEF Leads, Numbers
  <2>3. ASSUME NEW i \in DOMAIN stored[w], NEW r \in Place, r > StreamPlace(w),
               NEW j \in DOMAIN Line'[r]
        PROVE  stored[w][i] < Line'[r][j]
    <3>1. CASE r # 7
      BY <1>6, <2>1, <2>3, <3>1 DEF Elsewhere, Leads
    <3>2. CASE r = 7
      <4>1. Line[7] \in Seq(Int) /\ 7 \in Place
        BY <1>7 DEF Lines, Place
      <4>2. \/ j \in DOMAIN Line[7] /\ Line'[7][j] = Line[7][j]
            \/ Line'[7][j] = next
        BY <1>2, <1>6, <2>3, <3>2, <4>1, LastAdded
      <4> QED BY <2>1, <2>2, <2>3, <3>2, <4>1, <4>2 DEF Leads
    <3> QED BY <3>1, <3>2
  <2>4. \A i \in DOMAIN stored[w] : stored[w][i] < next + 1
    BY <1>2, <2>2
  <2> QED BY <2>1, <2>3, <2>4 DEF Leads
<1>11. JetStream' => \A w \in Ways : Holds(w)'
  BY <1>1 DEF Complete, JetStream, Holds
<1> QED BY <1>9, <1>10, <1>11 DEF Complete

\* A subscription is no message.
LEMMA Subscribes ==
  ASSUME Base, Complete, epc' # "dead" => epc # "dead", NEW side \in Sides, NEW w \in Ways,
         wire[side] = <<>>, Write(side, Sub(w)),
         UNCHANGED <<kind, received, inbox, stored, trimmed, given, unheard, overrun, next>>
  PROVE  Complete'
<1>1. wire \in [Sides -> Seq(Commands)] /\ "echo" \in Sides /\ "client" \in Sides
  BY DEF Base, Invariant, Types, Sides
<1>2. Sub(w) \in Commands /\ Sub(w).op = "SUB"
  BY DEF Sub, Commands
<1>3. \A s \in Sides : wire'[s] = IF s = side THEN Append(<<>>, Sub(w)) ELSE wire[s]
  BY <1>1 DEF Write
<1>4. Messages(Append(<<>>, Sub(w))) = Messages(<<>>)
  BY <1>2, SubscriptionAdded
<1>5. \A s \in Sides : Messages(wire'[s]) = Messages(wire[s])
  BY <1>3, <1>4
<1>6. /\ Messages(wire["echo"])' = Messages(wire'["echo"])
      /\ Messages(wire["client"])' = Messages(wire'["client"])
  BY DEF Messages
<1> QED BY <1>1, <1>5, <1>6, NothingMoves

\* The place of a reader's inbox: the stream's messages are one place behind it.
InboxPlace(w) == IF w = "s2c" THEN 2 ELSE 5

LEMMA Places ==
  ASSUME NEW w \in Ways
  PROVE  LET q == InboxPlace(w) IN
         /\ q \in Place /\ q + 1 \in Place /\ StreamPlace(w) = q + 1 /\ q \in Int /\ q < q + 1
         /\ \A r \in Place : ~(q < r /\ r < q + 1)
         /\ Line[q] = inbox[w] /\ Line[q + 1] = Undelivered(w)
         /\ Line'[q] = inbox'[w] /\ Line'[q + 1] = Undelivered(w)'
<1>1. CASE w = "s2c"
  BY <1>1, Pieces, PiecesThen DEF InboxPlace, StreamPlace, Place
<1>2. CASE w = "c2s"
  BY <1>2, Pieces, PiecesThen DEF InboxPlace, StreamPlace, Place
<1> QED BY <1>1, <1>2 DEF Ways

\* What only concerns one stream leaves the rest of the line.
LEMMA OtherPlaces ==
  ASSUME NEW w \in Ways, UNCHANGED <<wire, received>>,
         \A x \in Ways : x # w => /\ inbox'[x] = inbox[x] /\ stored'[x] = stored[x]
                                  /\ given'[x] = given[x] /\ trimmed'[x] = trimmed[x]
  PROVE  \A r \in Place : r # InboxPlace(w) /\ r # InboxPlace(w) + 1 => Line'[r] = Line[r]
<1>1. \A x \in Ways : x # w => Undelivered(x)' = Undelivered(x)
  BY DEF Undelivered
<1>2. /\ Messages(wire["echo"])' = Messages(wire["echo"])
      /\ Messages(wire["client"])' = Messages(wire["client"])
  BY DEF Messages
<1>3. CASE w = "s2c"
  BY <1>1, <1>2, <1>3, Pieces, PiecesThen, SevenPlaces DEF InboxPlace, Ways
<1>4. CASE w = "c2s"
  BY <1>1, <1>2, <1>4, Pieces, PiecesThen, SevenPlaces DEF InboxPlace, Ways
<1> QED BY <1>3, <1>4 DEF Ways

LEMMA DeliveryMoves ==
  ASSUME Base, Types', Complete, epc # "dead", NEW w \in Ways, ConsumerDelivers(w)
  PROVE  Complete'
<1> DEFINE k == Later(given[w], trimmed[w])
<1> DEFINE a == stored[w]
<1> DEFINE s == inbox[w]
<1> DEFINE q == InboxPlace(w)
<1>0. Types /\ JetStream
  BY DEF Base, Invariant, ConsumerDelivers, HasConsumer
<1>1. /\ k + 1 <= Len(a) /\ given' = [given EXCEPT ![w] = k + 1]
      /\ inbox' = [inbox EXCEPT ![w] = Append(s, a[k + 1])]
      /\ UNCHANGED <<kind, wire, received, stored, trimmed, unheard, overrun, next, epc>>
  BY DEF ConsumerDelivers, echo, client, receiver
<1>2. /\ a \in Seq(Numbers) /\ s \in Seq(Numbers) /\ given[w] \in Nat /\ trimmed[w] \in Nat
      /\ given[w] <= Len(a) /\ trimmed[w] <= Len(a)
      /\ inbox \in [Ways -> Seq(Numbers)] /\ given \in [Ways -> Nat]
  BY <1>0 DEF Types
<1>3. k \in Nat /\ k >= given[w] /\ k >= trimmed[w] /\ (k = given[w] \/ k = trimmed[w])
  BY <1>2 DEF Later
<1>4. /\ a \in Seq(Int) /\ s \in Seq(Int) /\ k < Len(a) /\ k + 1 \in Nat /\ k + 1 \in DOMAIN a
      /\ a[k + 1] \in Int
  <2>1. a \in Seq(Int) /\ s \in Seq(Int)
    BY <1>2, NumbersAreIntegers
  <2> HIDE DEF k
  <2> QED BY <1>1, <1>3, <2>1
<1>5. /\ inbox'[w] = Append(s, a[k + 1]) /\ given'[w] = k + 1
      /\ \A x \in Ways : x # w => inbox'[x] = inbox[x] /\ given'[x] = given[x]
  BY <1>1, <1>2
<1>6. Undelivered(w) = SubSeq(a, k + 1, Len(a))
  BY DEF Undelivered
<1>7. Undelivered(w)' = SubSeq(a, (k + 1) + 1, Len(a))
  <2>1. Later(k + 1, trimmed[w]) = k + 1
    BY <1>2, <1>3 DEF Later
  <2> QED BY <1>1, <1>5, <2>1 DEF Undelivered
<1> HIDE DEF k
<1>8. Undelivered(w) # <<>> /\ Head(Undelivered(w)) = a[k + 1]
      /\ Undelivered(w)' = Tail(Undelivered(w))
  BY <1>3, <1>4, <1>6, <1>7, BehindNext
<1>9. /\ q \in Place /\ q + 1 \in Place /\ q < q + 1
      /\ \A r \in Place : ~(q < r /\ r < q + 1)
      /\ Line[q] = inbox[w] /\ Line[q + 1] = Undelivered(w)
      /\ Line'[q] = inbox'[w] /\ Line'[q + 1] = Undelivered(w)'
  BY Places
<1>10. /\ Line[q + 1] # <<>> /\ Line'[q] = Append(Line[q], Head(Line[q + 1]))
       /\ Line'[q + 1] = Tail(Line[q + 1])
  BY <1>5, <1>8, <1>9
<1>11. \A r \in Place : r # q /\ r # q + 1 => Line'[r] = Line[r]
  BY <1>1, <1>5, OtherPlaces
<1> HIDE DEF q
<1>12. Account(Line, Lost, next)' /\ OnlyForward(Line, Line')
  BY <1>0, <1>1, <1>9, <1>10, <1>11, MovesOn
<1>13. StreamsInOrder'
  BY <1>0, <1>1, <1>12, StreamsStay
<1>14. Holds(w)'
  <2> DEFINE t == inbox'[w]
  <2>1. /\ Len(s) + 1 \in DOMAIN t /\ t[Len(s) + 1] = a[k + 1] /\ t # <<>>
        /\ \A i \in DOMAIN s : i \in DOMAIN t /\ t[i] = s[i]
        /\ \A i \in DOMAIN t : i \in DOMAIN s \/ i = Len(s) + 1
    <3>1. /\ Len(s) + 1 \in DOMAIN Append(s, a[k + 1]) /\ Append(s, a[k + 1]) # <<>>
          /\ Append(s, a[k + 1])[Len(s) + 1] = a[k + 1]
          /\ \A i \in DOMAIN s : i \in DOMAIN Append(s, a[k + 1]) /\ Append(s, a[k + 1])[i] = s[i]
          /\ \A i \in DOMAIN Append(s, a[k + 1]) : i \in DOMAIN s \/ i = Len(s) + 1
      BY <1>4, LastAdded
    <3> QED BY <1>5, <3>1
  <2>2. Holds(w) /\ stored'[w] = a /\ trimmed'[w] = trimmed[w] /\ given'[w] = k + 1
    BY <1>0, <1>1, <1>5 DEF Complete
  <2> HIDE DEF t
  <2>3. ASSUME NEW i \in DOMAIN t PROVE \E j \in 1 .. k + 1 : a[j] = t[i]
    <3>1. CASE i \in DOMAIN s
      <4>1. PICK j \in 1 .. given[w] : a[j] = s[i]
        BY <2>2, <3>1 DEF Holds
      <4>2. j \in 1 .. k + 1
        BY <1>2, <1>3, <4>1
      <4> QED BY <2>1, <3>1, <4>1, <4>2
    <3>2. CASE i = Len(s) + 1
      <4>1. k + 1 \in 1 .. k + 1
        BY <1>3
      <4> QED BY <2>1, <3>2, <4>1
    <3> QED BY <2>1, <2>3, <3>1, <3>2
  <2>4. ASSUME NEW j \in 1 .. k + 1, a[j] >= t[1], j > trimmed[w]
        PROVE  \E i \in DOMAIN t : t[i] = a[j]
    <3>1. CASE j = k + 1
      BY <2>1, <3>1
    <3>2. CASE j # k + 1
      <4>1. j \in 1 .. given[w] /\ j <= k
        BY <1>2, <1>3, <2>4, <3>2
      <4>2. CASE s # <<>>
        <5>1. t[1] = s[1] 
          <6>1. 1 \in DOMAIN s
            BY <1>2, <4>2
          <6> QED BY <2>1, <6>1
        <5>2. \E i \in DOMAIN s : s[i] = a[j]
          BY <1>2, <2>2, <2>4, <4>1, <4>2, <5>1 DEF Holds
        <5> QED BY <2>1, <5>2
      <4>3. CASE s = <<>>
        <5>1. t[1] = a[k + 1]
          <6>1. Len(s) + 1 = 1
            BY <4>3
          <6> QED BY <2>1, <6>1
        <5>2. a[j] < a[k + 1]
          <6>1. Ascends(a)
            BY DEF Complete, StreamsInOrder
          <6>2. j \in DOMAIN a /\ j < k + 1
            BY <1>2, <1>3, <1>4, <4>1
          <6> QED BY <1>4, <6>1, <6>2 DEF Ascends
        <5>3. a[j] \in Int
          BY <1>2, <1>3, <1>4, <4>1
        <5> QED BY <1>4, <2>4, <5>1, <5>2, <5>3
      <4> QED BY <4>2, <4>3
    <3> QED BY <3>1, <3>2
  <2>5. \A j \in 1 .. k + 1 : j > trimmed[w] \/ j <= trimmed[w]
    BY <1>2
  <2> QED BY <2>2, <2>3, <2>4, <2>5 DEF Holds, t
<1>15. JetStream' => \A x \in Ways : Holds(x)'
  <2>1. ASSUME NEW x \in Ways, x # w PROVE Holds(x)'
    BY <1>0, <1>1, <1>5, <2>1 DEF Complete, Holds
  <2> QED BY <1>14, <2>1
<1> QED BY <1>12, <1>13, <1>15 DEF Complete

LEMMA ResetMoves ==
  ASSUME Base, Types', Complete, epc # "dead", NEW w \in Ways, ConsumerReset(w)
  PROVE  Complete'
<1> DEFINE a == stored[w]
<1> DEFINE s == inbox[w]
<1> DEFINE n == Len(a)
<1> DEFINE t == trimmed[w]
<1> DEFINE first == CHOOSE i \in 1 .. Len(a) : a[i] = Head(s)
<1> DEFINE x == ToSet(s) \cap ToSet(SubSeq(a, first, t))
<1> DEFINE k == Later(given[w], t)
<1> DEFINE l == Later(first - 1, t)
<1> DEFINE q == InboxPlace(w)
<1>0. Types /\ JetStream /\ Holds(w)
  BY DEF Base, Invariant, ConsumerReset, HasConsumer, Complete
<1>1. /\ s # <<>> /\ given' = [given EXCEPT ![w] = first - 1]
      /\ overrun' = [overrun EXCEPT ![w] = overrun[w] \cup x]
      /\ inbox' = [inbox EXCEPT ![w] = <<>>]
      /\ UNCHANGED <<kind, wire, received, stored, trimmed, unheard, next, epc>>
  BY DEF ConsumerReset, echo, client, receiver
<1>2. /\ a \in Seq(Numbers) /\ s \in Seq(Numbers) /\ given[w] \in Nat /\ t \in Nat
      /\ given[w] <= n /\ t <= n /\ n \in Nat
      /\ inbox \in [Ways -> Seq(Numbers)] /\ given \in [Ways -> Nat]
      /\ overrun \in [Ways -> SUBSET Numbers]
  BY <1>0 DEF Types
<1>3. /\ a \in Seq(Int) /\ s \in Seq(Int) /\ Head(s) = s[1] /\ 1 \in DOMAIN s
      /\ DOMAIN a = 1 .. n /\ \A j \in 1 .. n : a[j] \in Int
  <2>1. a \in Seq(Int) /\ s \in Seq(Int)
    BY <1>2, NumbersAreIntegers
  <2> QED BY <1>1, <2>1, HeadTail
<1>4. Ascends(a) /\ Ascends(s)
  <2>1. Line[q] = s /\ q \in Place
    BY Places
  <2> QED BY <2>1 DEF Complete, StreamsInOrder, Account, InLine, Ascends
<1>5. /\ overrun'[w] = overrun[w] \cup x /\ given'[w] = first - 1 /\ inbox'[w] = <<>>
      /\ \A v \in Ways : v # w => /\ inbox'[v] = inbox[v] /\ given'[v] = given[v]
                                  /\ overrun'[v] = overrun[v]
  BY <1>1, <1>2
<1>6. first \in 1 .. given[w] /\ a[first] = s[1]
  <2>1. PICK j \in 1 .. given[w] : a[j] = s[1]
    BY <1>0, <1>3 DEF Holds
  <2>2. j \in 1 .. n
    BY <1>2, <2>1
  <2>3. first \in 1 .. n /\ a[first] = s[1]
    BY <1>3, <2>1, <2>2
  <2> HIDE DEF first
  <2>4. first = j
    <3>1. a[j] = a[first] /\ a[j] \in Int /\ j \in Int /\ first \in Int
      BY <1>3, <2>1, <2>2, <2>3
    <3>2. ~(a[j] < a[first]) /\ ~(a[first] < a[j])
      BY <3>1
    <3>3. ~(j < first) /\ ~(first < j)
      BY <1>3, <1>4, <2>2, <2>3, <3>2 DEF Ascends
    <3> QED BY <3>1, <3>3
  <2> QED BY <2>1, <2>3, <2>4
<1>7. /\ Undelivered(w) = SubSeq(a, k + 1, Len(a))
      /\ Undelivered(w)' = SubSeq(a, l + 1, Len(a))
  BY <1>1, <1>5 DEF Undelivered
<1>8. /\ first \in Nat /\ first >= 1 /\ first <= given[w]
      /\ k \in Nat /\ k >= given[w] /\ k >= t /\ (k = given[w] \/ k = t) /\ k <= n
      /\ l \in Nat /\ l >= first - 1 /\ l >= t /\ (l = first - 1 \/ l = t) /\ l <= k
  <2> HIDE DEF first
  <2> QED BY <1>2, <1>6 DEF Later
<1> HIDE DEF first, k, l, n, t
<1> DEFINE u == SubSeq(a, k + 1, Len(a))
<1> DEFINE v == SubSeq(a, l + 1, Len(a))
<1>9. /\ u \in Seq(Int) /\ DOMAIN u = 1 .. n - k /\ \A i \in 1 .. n - k : u[i] = a[k + i]
      /\ v \in Seq(Int) /\ DOMAIN v = 1 .. n - l /\ \A i \in 1 .. n - l : v[i] = a[l + i]
  <2>1. k <= Len(a) /\ l <= Len(a)
    BY <1>2, <1>8 DEF n
  <2> QED BY <1>3, <1>8, <2>1, Behind DEF n
<1>10. \A m : (\E i \in DOMAIN u : u[i] = m) <=> (\E j \in 1 .. n : j > k /\ a[j] = m)
  <2> HIDE DEF u, v, a
  <2>1. ASSUME NEW i \in DOMAIN u PROVE k + i \in 1 .. n /\ k + i > k /\ u[i] = a[k + i]
    <3>1. i \in 1 .. n - k
      BY <1>9
    <3>2. k + i \in 1 .. n /\ k + i > k
      BY <1>2, <1>8, <3>1
    <3> QED BY <1>9, <3>1, <3>2
  <2>2. ASSUME NEW j \in 1 .. n, j > k PROVE j - k \in DOMAIN u /\ u[j - k] = a[j]
    <3>1. j - k \in 1 .. n - k /\ k + (j - k) = j
      BY <1>2, <1>8, <2>2
    <3> QED BY <1>9, <3>1
  <2> QED BY <2>1, <2>2
<1>11. \A m : (\E i \in DOMAIN v : v[i] = m) <=> (\E j \in 1 .. n : j > l /\ a[j] = m)
  <2> HIDE DEF u, v, a
  <2>1. ASSUME NEW i \in DOMAIN v PROVE l + i \in 1 .. n /\ l + i > l /\ v[i] = a[l + i]
    <3>1. i \in 1 .. n - l
      BY <1>9
    <3>2. l + i \in 1 .. n /\ l + i > l
      BY <1>2, <1>8, <3>1
    <3> QED BY <1>9, <3>1, <3>2
  <2>2. ASSUME NEW j \in 1 .. n, j > l PROVE j - l \in DOMAIN v /\ v[j - l] = a[j]
    <3>1. j - l \in 1 .. n - l /\ l + (j - l) = j
      BY <1>2, <1>8, <2>2
    <3> QED BY <1>9, <3>1
  <2> QED BY <2>1, <2>2
<1>12. Ascends(v)
  <2> SUFFICES ASSUME NEW i \in 1 .. n - l, NEW j \in 1 .. n - l, i < j PROVE v[i] < v[j]
    BY <1>9 DEF Ascends
  <2>1. l + i \in 1 .. n /\ l + j \in 1 .. n /\ l + i < l + j
    BY <1>2, <1>8
  <2>2. a[l + i] < a[l + j]
    BY <1>3, <1>4, <2>1 DEF Ascends
  <2> QED BY <1>9, <2>2
\* Where the inbox's messages are in the stream, and which of the stream's are
\* in the inbox.
<1>13. \A i \in DOMAIN s : \E j \in 1 .. n : j >= first /\ j <= given[w] /\ a[j] = s[i]
  <2> SUFFICES ASSUME NEW i \in DOMAIN s
               PROVE  \E j \in 1 .. n : j >= first /\ j <= given[w] /\ a[j] = s[i]
    OBVIOUS
  <2>1. PICK j \in 1 .. given[w] : a[j] = s[i]
    BY <1>0 DEF Holds
  <2>2. j \in 1 .. n /\ first \in 1 .. n /\ j \in Int /\ first \in Int
    BY <1>2, <1>8, <2>1
  <2>3. s[1] <= s[i]
    <3>1. i \in Nat /\ i >= 1 /\ s[1] \in Int
      BY <1>3
    <3> QED BY <1>3, <1>4, <3>1 DEF Ascends
  <2>4. ~(a[j] < a[first])
    BY <1>3, <1>6, <2>1, <2>2, <2>3
  <2>5. j >= first
    <3>1. j \in DOMAIN a /\ first \in DOMAIN a
      BY <1>3, <2>2
    <3>2. j < first => a[j] < a[first]
      BY <1>4, <3>1 DEF Ascends
    <3> QED BY <2>2, <2>4, <3>2
  <2> QED BY <2>1, <2>2, <2>5
<1>14. \A j \in 1 .. n : j >= first /\ j <= given[w] /\ j > t => \E i \in DOMAIN s : s[i] = a[j]
  <2> SUFFICES ASSUME NEW j \in 1 .. n, j >= first, j <= given[w], j > t
               PROVE  \E i \in DOMAIN s : s[i] = a[j]
    OBVIOUS
  <2>1. j \in 1 .. given[w] /\ first \in 1 .. n
    BY <1>2, <1>8
  <2>2. a[j] >= s[1]
    <3>1. a[j] \in Int /\ a[first] \in Int
      BY <1>3, <2>1
    <3>2. j = first \/ a[first] < a[j]
      BY <1>3, <1>4, <1>8, <2>1, SMTT(30) DEF Ascends
    <3> QED BY <1>6, <3>1, <3>2
  <2>3. ~(j <= t)
    BY <1>2
  <2> QED BY <1>0, <1>1, <2>1, <2>2, <2>3 DEF Holds, t
<1>15. \A m : m \in ToSet(SubSeq(a, first, t)) <=> \E j \in 1 .. n : j >= first /\ j <= t /\ a[j] = m
  <2> DEFINE b == SubSeq(a, first, t)
  <2>1. \A m : m \in ToSet(b) <=> \E i \in DOMAIN b : b[i] = m
    BY DEF ToSet
  <2>2. CASE t < first
    <3>1. b = <<>>
      BY <1>2, <1>8, <2>2, SubSeqEmpty
    <3>2. ToSet(b) = {}
      BY <2>1, <3>1
    <3>3. ~\E j \in 1 .. n : j >= first /\ j <= t
      BY <1>2, <1>8, <2>2
    <3> QED BY <3>2, <3>3
  <2>3. CASE t >= first
    <3>1. 1 <= first /\ t <= Len(a) /\ first <= t + 1 /\ first \in Int /\ t \in Int
      BY <1>2, <1>8, <2>3 DEF n
    <3>2. /\ DOMAIN b = 1 .. t - first + 1
          /\ \A i \in 1 .. t - first + 1 : b[i] = a[first + i - 1]
      BY <1>3, <3>1, Part
    <3> HIDE DEF a, b
    <3>3. ASSUME NEW i \in DOMAIN b
          PROVE  first + i - 1 \in 1 .. n /\ first + i - 1 >= first /\ first + i - 1 <= t
                 /\ b[i] = a[first + i - 1]
      BY <1>2, <1>8, <3>1, <3>2
    <3>4. ASSUME NEW j \in 1 .. n, j >= first, j <= t
          PROVE  j - first + 1 \in DOMAIN b /\ b[j - first + 1] = a[j]
      <4>1. j - first + 1 \in 1 .. t - first + 1 /\ first + (j - first + 1) - 1 = j
        BY <1>2, <1>8, <3>1, <3>4
      <4> QED BY <3>2, <4>1
    <3>5. \A m : m \in ToSet(b) <=> \E j \in 1 .. n : j >= first /\ j <= t /\ a[j] = m
      BY <2>1, <3>3, <3>4
    <3> QED BY <3>5 DEF b
  <2>4. t < first \/ t >= first
    BY <1>2, <1>8
  <2> QED BY <2>2, <2>3, <2>4
<1> HIDE DEF u, v, x, q, a, s
<1>16. \A i \in DOMAIN v : \/ \E j \in DOMAIN s : s[j] = v[i]
                           \/ \E j \in DOMAIN u : u[j] = v[i]
  <2> SUFFICES ASSUME NEW i \in DOMAIN v
               PROVE  \/ \E j \in DOMAIN s : s[j] = v[i]
                      \/ \E j \in DOMAIN u : u[j] = v[i]
    OBVIOUS
  <2>1. PICK j \in 1 .. n : j > l /\ a[j] = v[i]
    BY <1>11
  <2>2. CASE j > k
    BY <1>10, <2>1, <2>2
  <2>3. CASE ~(j > k)
    <3>1. j >= first /\ j <= given[w] /\ j > t
      BY <1>2, <1>8, <2>1, <2>3
    <3> QED BY <1>14, <2>1, <3>1
  <2> QED BY <2>2, <2>3
<1>17. \A i \in DOMAIN u : \E j \in DOMAIN v : u[i] = v[j]
  <2> SUFFICES ASSUME NEW i \in DOMAIN u PROVE \E j \in DOMAIN v : v[j] = u[i]
    OBVIOUS
  <2>1. PICK j \in 1 .. n : j > k /\ a[j] = u[i]
    BY <1>10
  <2>2. j > l
    BY <1>2, <1>8, <2>1
  <2> QED BY <1>11, <2>1, <2>2
<1>18. \A m : m \in x <=> /\ \E i \in DOMAIN s : s[i] = m
                          /\ ~\E j \in DOMAIN v : v[j] = m
  <2>1. \A m : m \in x <=> /\ \E i \in DOMAIN s : s[i] = m
                           /\ \E j \in 1 .. n : j >= first /\ j <= t /\ a[j] = m
    <3>1. \A m : m \in ToSet(s) <=> \E i \in DOMAIN s : s[i] = m
      BY DEF ToSet
    <3> QED BY <1>15, <3>1 DEF x
  <2>2. ASSUME NEW i \in DOMAIN s
        PROVE  (\E j \in 1 .. n : j >= first /\ j <= t /\ a[j] = s[i])
                 <=> ~\E j \in DOMAIN v : v[j] = s[i]
    <3>1. PICK j \in 1 .. n : j >= first /\ a[j] = s[i]
      BY <1>13
    <3>2. (\E h \in DOMAIN v : v[h] = s[i]) <=> (\E h \in 1 .. n : h > l /\ a[h] = s[i])
      BY <1>11
    <3>3. ASSUME NEW h \in 1 .. n, a[h] = s[i] PROVE h = j
      <4>1. a[j] \in Int /\ a[h] \in Int /\ j \in DOMAIN a /\ h \in DOMAIN a
        BY <1>3
      <4>2. ~(h < j) /\ ~(j < h)
        BY <1>4, <3>1, <3>3, <4>1 DEF Ascends
      <4> QED BY <4>2
    <3>4. j > l <=> ~(j <= t)
      BY <1>2, <1>8, <3>1
    <3> QED BY <3>1, <3>2, <3>3, <3>4
  <2> QED BY <2>1, <2>2
<1>19. /\ q \in Place /\ q + 1 \in Place /\ StreamPlace(w) = q + 1 /\ q \in Int
       /\ Line[q] = s /\ Line[q + 1] = u /\ Line'[q] = <<>> /\ Line'[q + 1] = v
  BY <1>5, <1>7, Places DEF q, s, u, v
<1>20. \A r \in Place : r # q /\ r # q + 1 => Line'[r] = Line[r]
  BY <1>1, <1>5, OtherPlaces DEF q
<1> DEFINE f == Line
<1> DEFINE g == Line'
<1>21. /\ f \in Lines /\ g \in Lines /\ InLine(f)
       /\ f[q] = s /\ f[q + 1] = u /\ g[q] = <<>> /\ g[q + 1] = v
       /\ \A r \in Place : r # q /\ r # q + 1 => g[r] = f[r]
  BY <1>0, <1>19, <1>20, LinesNow DEF Complete, Account
<1>22. Account(f, Lost, next)
  BY DEF Complete
<1> HIDE DEF f, g
<1>23. InLine(g) /\ OnTheLine(f) = OnTheLine(g) \cup x /\ OnTheLine(g) \cap x = {}
  <2>1. \A i, j \in DOMAIN g[q + 1] : i < j => g[q + 1][i] < g[q + 1][j]
    BY <1>12, <1>21 DEF Ascends
  <2>2. \A i \in DOMAIN g[q + 1] : \E r \in {q, q + 1} : \E j \in DOMAIN f[r] : f[r][j] = g[q + 1][i]
    BY <1>16, <1>21
  <2>3. \A i \in DOMAIN f[q + 1] : \E j \in DOMAIN g[q + 1] : f[q + 1][i] = g[q + 1][j]
    BY <1>17, <1>21
  <2>4. \A m : m \in x <=> /\ \E i \in DOMAIN f[q] : f[q][i] = m
                           /\ ~\E j \in DOMAIN g[q + 1] : g[q + 1][j] = m
    BY <1>18, <1>21
  <2> QED BY <1>19, <1>21, <2>1, <2>2, <2>3, <2>4, FallsBack
<1>24. Account(g, Lost \cup x, next)
  BY <1>22, <1>23, AccountLost
<1>25. Lost' = Lost \cup x
  <2>1. \A y \in Ways : (unheard[y] \cup overrun[y])'
                           = IF y = w THEN (unheard[y] \cup overrun[y]) \cup x
                                      ELSE unheard[y] \cup overrun[y]
    BY <1>1, <1>5
  <2> QED BY <2>1 DEF Lost
<1>26. StreamsInOrder'
  <2> SUFFICES ASSUME NEW y \in Ways, NEW i \in DOMAIN stored[y], NEW r \in Place,
                      r > StreamPlace(y), NEW j \in DOMAIN g[r]
               PROVE  stored[y][i] < g[r][j]
    BY <1>1 DEF Complete, StreamsInOrder, Leads, g
  <2>1. \A z \in Place : z > StreamPlace(y) => \A h \in DOMAIN f[z] : stored[y][i] < f[z][h]
    BY DEF Complete, StreamsInOrder, Leads, f
  <2>2. CASE r # q /\ r # q + 1
    BY <1>21, <2>1, <2>2
  <2>3. CASE r = q
    BY <1>21, <2>3
  <2>4. CASE r = q + 1
    <3>1. q > StreamPlace(y) /\ q + 1 > StreamPlace(y)
      BY <2>4 DEF StreamPlace, InboxPlace, q
    <3>2. PICK z \in {q, q + 1} : \E h \in DOMAIN f[z] : f[z][h] = v[j]
      BY <1>16, <1>21, <2>4
    <3> QED BY <1>19, <1>21, <2>1, <2>4, <3>1, <3>2
  <2> QED BY <2>2, <2>3, <2>4
<1>27. JetStream' => \A y \in Ways : Holds(y)'
  <2>1. ASSUME NEW y \in Ways, y # w PROVE Holds(y)'
    BY <1>0, <1>1, <1>5, <2>1 DEF Complete, Holds
  <2>2. Holds(w)'
    BY <1>5 DEF Holds
  <2> QED BY <2>1, <2>2
<1> QED BY <1>1, <1>24, <1>25, <1>26, <1>27 DEF Complete, g

\* The place of a side's connection, and the way its messages go.
ConnectionPlace(side) == IF side = "echo" THEN 4 ELSE 7
Toward(side) == IF side = "echo" THEN "s2c" ELSE "c2s"

\* What the server does to the line by taking a message: it leaves its
\* connection, and the rest depends on the server.
LEMMA MessageLeaves ==
  ASSUME Base, NEW side \in Sides, ServerTakes(side), Head(wire[side]).op = "PUB"
  PROVE  LET q == ConnectionPlace(side)  w == Toward(side) IN
         /\ q \in Place /\ w \in Ways /\ Head(wire[side]).way = w
         /\ InboxPlace(w) = q - 2 /\ StreamPlace(w) = q - 1
         /\ Line[q] # <<>> /\ Head(Line[q]) = Head(wire[side]).msg /\ Line'[q] = Tail(Line[q])
         /\ \A r \in Place : r \notin {q - 2, q - 1, q} =>
               ((UNCHANGED received /\ \A x \in Ways : x # w => /\ inbox'[x] = inbox[x]
                    /\ stored'[x] = stored[x] /\ given'[x] = given[x] /\ trimmed'[x] = trimmed[x])
                  => Line'[r] = Line[r])
<1> DEFINE c == Head(wire[side])
<1>0. /\ Types /\ PlainWires /\ Directions /\ "echo" \in Sides /\ "client" \in Sides
      /\ "echo" # "client" /\ "c2s" \in Ways /\ "s2c" \in Ways
  BY DEF Base, Invariant, Sides, Ways
<1>1. /\ 1 \in Published(side) /\ c = wire[side][1]
      /\ \A s \in Sides : s # side => wire'[s] = wire[s]
  BY <1>0, TakenCommands
<1>2. c.way = Toward(side)
  BY <1>0, <1>1 DEF Directions, Toward, Sides
<1>3. wire'[side] = Tail(wire[side]) /\ wire[side] # <<>>
  BY <1>0 DEF ServerTakes, Types
<1>4. /\ Messages(wire[side]) # <<>> /\ Head(Messages(wire[side])) = c.msg
      /\ Messages(wire'[side]) = Tail(Messages(wire[side]))
  <2>1. Plain(wire[side])
    BY <1>0 DEF PlainWires
  <2> QED BY <1>3, <2>1, MessageTaken
<1>5. /\ Messages(wire["echo"])' = Messages(wire'["echo"])
      /\ Messages(wire["client"])' = Messages(wire'["client"])
  BY DEF Messages
<1>6. \A x \in Ways : (stored'[x] = stored[x] /\ given'[x] = given[x] /\ trimmed'[x] = trimmed[x])
                         => Undelivered(x)' = Undelivered(x)
  BY DEF Undelivered
<1> HIDE DEF c
<1>7. CASE side = "echo"
  <2>1. Messages(wire["client"])' = Messages(wire["client"])
    BY <1>0, <1>1, <1>5, <1>7
  <2>2. Line[4] # <<>> /\ Head(Line[4]) = c.msg /\ Line'[4] = Tail(Line[4])
    BY <1>4, <1>5, <1>7, Pieces, PiecesThen
  <2>3. \A r \in Place : r \notin {2, 3, 4} =>
          ((UNCHANGED received /\ \A x \in Ways : x # "s2c" => /\ inbox'[x] = inbox[x]
               /\ stored'[x] = stored[x] /\ given'[x] = given[x] /\ trimmed'[x] = trimmed[x])
             => Line'[r] = Line[r])
    BY <1>0, <1>6, <2>1, Pieces, PiecesThen, SevenPlaces
  <2> QED BY <1>0, <1>2, <1>7, <2>2, <2>3
          DEF ConnectionPlace, Toward, InboxPlace, StreamPlace, Place, c
<1>8. CASE side = "client"
  <2>1. Messages(wire["echo"])' = Messages(wire["echo"])
    BY <1>0, <1>1, <1>5, <1>8
  <2>2. Line[7] # <<>> /\ Head(Line[7]) = c.msg /\ Line'[7] = Tail(Line[7])
    BY <1>4, <1>5, <1>8, Pieces, PiecesThen
  <2>3. \A r \in Place : r \notin {5, 6, 7} =>
          ((UNCHANGED received /\ \A x \in Ways : x # "c2s" => /\ inbox'[x] = inbox[x]
               /\ stored'[x] = stored[x] /\ given'[x] = given[x] /\ trimmed'[x] = trimmed[x])
             => Line'[r] = Line[r])
    BY <1>0, <1>6, <2>1, Pieces, PiecesThen, SevenPlaces
  <2> QED BY <1>0, <1>2, <1>8, <2>2, <2>3
          DEF ConnectionPlace, Toward, InboxPlace, StreamPlace, Place, c
<1> QED BY <1>7, <1>8 DEF Sides

\* The first of a place is lost, and nothing else moves.
LEMMA FirstLost ==
  ASSUME NEW f \in Lines, NEW g \in Lines, NEW q \in Place, NEW lost, NEW n, Account(f, lost, n),
         f[q] # <<>>, g[q] = Tail(f[q]), Elsewhere(f, g, q)
  PROVE  Account(g, lost \cup {Head(f[q])}, n) /\ OnlyForward(f, g)
<1>1. /\ InLine(g) /\ OnTheLine(f) = OnTheLine(g) \cup {Head(f[q])}
      /\ OnTheLine(g) \cap {Head(f[q])} = {}
  BY HeadLost DEF Account
<1>2. Account(g, lost \cup {Head(f[q])}, n)
  BY <1>1, AccountLost
<1>3. ASSUME NEW r \in Place, NEW j \in DOMAIN g[r] PROVE \E k \in DOMAIN f[r] : f[r][k] = g[r][j]
  <2>1. CASE r # q
    BY <2>1 DEF Elsewhere
  <2>2. CASE r = q
    <3>1. f[q] \in Seq(Int)
      BY DEF Lines
    <3>2. \A i \in DOMAIN Tail(f[q]) : i + 1 \in DOMAIN f[q] /\ Tail(f[q])[i] = f[q][i + 1]
      BY <3>1, HeadTail
    <3> QED BY <2>2, <3>2
  <2> QED BY <2>1, <2>2
<1> QED BY <1>2, <1>3, ShortenedForward

LEMMA RestLost ==
  ASSUME NEW f \in Lines, NEW g \in Lines, NEW q \in Place, NEW lost, NEW n, Account(f, lost, n),
         NEW k \in 0 .. Len(f[q]), g[q] = SubSeq(f[q], 1, k), Elsewhere(f, g, q),
         NEW x, x = ToSet(SubSeq(f[q], k + 1, Len(f[q])))
  PROVE  Account(g, lost \cup x, n) /\ OnlyForward(f, g)
<1>1. InLine(g) /\ OnTheLine(f) = OnTheLine(g) \cup x /\ OnTheLine(g) \cap x = {}
  BY EndLost DEF Account
<1>2. Account(g, lost \cup x, n)
  BY <1>1, AccountLost
<1>3. ASSUME NEW r \in Place, NEW j \in DOMAIN g[r] PROVE \E l \in DOMAIN f[r] : f[r][l] = g[r][j]
  <2>1. CASE r # q
    BY <2>1 DEF Elsewhere
  <2>2. CASE r = q
    <3>1. f[q] \in Seq(Int)
      BY DEF Lines
    <3> QED BY <2>2, <3>1, PrefixElements
  <2> QED BY <2>1, <2>2
<1> QED BY <1>2, <1>3, ShortenedForward

\* The first j of a place are lost.
LEMMA FrontLost ==
  ASSUME NEW f \in Lines, NEW g \in Lines, NEW q \in Place, NEW lost, NEW n, Account(f, lost, n),
         NEW j \in 0 .. Len(f[q]), g[q] = SubSeq(f[q], j + 1, Len(f[q])), Elsewhere(f, g, q),
         NEW x, x = {f[q][i] : i \in 1 .. j}
  PROVE  Account(g, lost \cup x, n) /\ OnlyForward(f, g)
<1> DEFINE s == f[q]  t == g[q]
<1>0. InLine(f) /\ s \in Seq(Int) /\ j \in 0 .. Len(s) /\ t = SubSeq(s, j + 1, Len(s))
  BY DEF Account, Lines
<1> HIDE DEF s, t
<1>1. /\ \A i \in DOMAIN t : i \in Nat /\ i + j \in DOMAIN s /\ i + j > j /\ t[i] = s[i + j]
      /\ \A i \in DOMAIN s : i > j => i - j \in DOMAIN t /\ t[i - j] = s[i]
  BY ONLY <1>0, RestElements, SMTT(30)
<1>2. /\ \A i \in DOMAIN s : i \in Int /\ i >= 1 /\ s[i] \in Int
      /\ \A i \in 1 .. j : i \in DOMAIN s /\ i <= j
      /\ j \in Int
  BY <1>0
<1>3. \A r \in Place : r # q => g[r] = f[r]
  BY DEF Elsewhere
<1>4. \A r \in Place : \A i \in DOMAIN g[r] : \E k \in DOMAIN f[r] : g[r][i] = f[r][k]
  <2> SUFFICES ASSUME NEW r \in Place, NEW i \in DOMAIN g[r]
               PROVE  \E k \in DOMAIN f[r] : g[r][i] = f[r][k]
    OBVIOUS
  <2>1. CASE r # q
    BY <1>3, <2>1
  <2>2. CASE r = q
    BY <1>1, <2>2 DEF s, t
  <2> QED BY <2>1, <2>2
<1>5. \A r \in Place : \A i, k \in DOMAIN g[r] : i < k => g[r][i] < g[r][k]
  <2> SUFFICES ASSUME NEW r \in Place, NEW i \in DOMAIN g[r], NEW k \in DOMAIN g[r], i < k
               PROVE  g[r][i] < g[r][k]
    OBVIOUS
  <2>1. CASE r # q
    BY <1>0, <1>3, <2>1 DEF InLine
  <2>2. CASE r = q
    <3>1. /\ i + j \in DOMAIN s /\ k + j \in DOMAIN s /\ t[i] = s[i + j] /\ t[k] = s[k + j]
          /\ i \in Nat /\ k \in Nat
      BY <1>1, <2>2 DEF t
    <3>2. i + j < k + j
      BY <1>2, <3>1
    <3>3. s[i + j] < s[k + j]
      BY <1>0, <3>1, <3>2 DEF InLine, s
    <3> QED BY <2>2, <3>1, <3>3 DEF t
  <2> QED BY <2>1, <2>2
<1>6. InLine(g) /\ OnTheLine(g) \subseteq OnTheLine(f)
  BY <1>0, <1>4, <1>5, Shortened
<1>7. \A m : m \in x <=> \E i \in DOMAIN s : i <= j /\ s[i] = m
  <2>1. \A i \in DOMAIN s : i <= j => i \in 1 .. j
    BY <1>2
  <2> QED BY <1>2, <2>1 DEF s
<1>8. x \subseteq OnTheLine(f)
  BY <1>2, <1>7 DEF OnTheLine, s
<1>9. OnTheLine(f) \subseteq OnTheLine(g) \cup x
  <2> SUFFICES ASSUME NEW r \in Place, NEW i \in DOMAIN f[r], f[r][i] \notin x
               PROVE  \E k \in DOMAIN g[r] : g[r][k] = f[r][i]
    BY DEF OnTheLine
  <2>1. CASE r # q
    BY <1>3, <2>1
  <2>2. CASE r = q
    <3>1. i \in DOMAIN s /\ i > j
      BY <1>2, <1>7, <2>2 DEF s
    <3> QED BY <1>1, <2>2, <3>1 DEF s, t
  <2> QED BY <2>1, <2>2
<1>10. OnTheLine(g) \cap x = {}
  <2> SUFFICES ASSUME NEW m \in OnTheLine(g), m \in x PROVE FALSE
    OBVIOUS
  <2>3. PICK r \in Place : \E i \in DOMAIN g[r] : g[r][i] = m
    BY DEF OnTheLine
  <2>4. PICK i \in DOMAIN g[r] : g[r][i] = m
    BY <2>3
  <2>5. PICK k \in DOMAIN s : k <= j /\ s[k] = g[r][i]
    BY <1>7, <2>4
  <2>1. CASE r = q
    <3>1. i + j \in DOMAIN s /\ i + j > j /\ s[i + j] = s[k]
      BY <1>1, <2>1, <2>4, <2>5 DEF t
    <3>2. k < i + j
      BY <1>2, <2>5, <3>1
    <3>3. s[k] < s[i + j]
      BY <1>0, <3>1, <3>2 DEF InLine, s
    <3> QED BY <1>2, <3>1, <3>3
  <2>2. CASE r # q
    <3>1. i \in DOMAIN f[r] /\ f[r][i] = s[k]
      BY <1>3, <2>2, <2>4, <2>5
    <3>2. r < q \/ q < r
      BY <2>2 DEF Place
    <3>3. s[k] < s[k]
      BY <1>0, <3>1, <3>2 DEF InLine, s
    <3> QED BY <1>2, <3>3
  <2> QED BY <2>1, <2>2
<1>11. Account(g, lost \cup x, n)
  BY <1>6, <1>8, <1>9, <1>10, AccountLost
<1> QED BY <1>4, <1>11, ShortenedForward

\* A receiver that goes takes what it holds along.
LEMMA RecvFailsMoves ==
  ASSUME Base, Types', Complete, epc # "dead", RecvFails
  PROVE  Complete'
<1> DEFINE q == inbox["s2c"]
<1>0. Types /\ "c2s" \in Ways /\ "s2c" \in Ways /\ "c2s" # "s2c"
  BY DEF Base, Invariant, Ways
<1>1. /\ inbox' = [inbox EXCEPT !["s2c"] = <<>>]
      /\ overrun' = [overrun EXCEPT !["s2c"] = overrun["s2c"] \cup ToSet(q)]
      /\ UNCHANGED <<kind, wire, received, stored, trimmed, given, unheard, next, epc>>
  BY DEF RecvFails, server, echo, client
<1>2. /\ inbox'["s2c"] = <<>> /\ inbox'["c2s"] = inbox["c2s"] /\ q \in Seq(Numbers)
      /\ overrun'["s2c"] = overrun["s2c"] \cup ToSet(q) /\ overrun'["c2s"] = overrun["c2s"]
  BY <1>0, <1>1 DEF Types
<1>3. /\ Undelivered("s2c")' = Undelivered("s2c") /\ Undelivered("c2s")' = Undelivered("c2s")
      /\ Messages(wire["echo"])' = Messages(wire["echo"])
      /\ Messages(wire["client"])' = Messages(wire["client"])
  BY <1>1 DEF Undelivered
<1> DEFINE f == Line  g == Line'  x == ToSet(q)
<1>4. f \in Lines /\ g \in Lines /\ Account(f, Lost, next) /\ 2 \in Place /\ f[2] = q
  BY <1>0, LinesNow, Pieces DEF Complete, Place
<1>5. Elsewhere(f, g, 2)
  BY <1>1, <1>2, <1>3, Pieces, PiecesThen, SevenPlaces DEF Elsewhere
<1>6. 0 \in 0 .. Len(q) /\ g[2] = SubSeq(q, 1, 0) /\ x = ToSet(SubSeq(q, 0 + 1, Len(q)))
  <2>1. g[2] = <<>>
    BY <1>2, PiecesThen
  <2>2. SubSeq(q, 1, 0) = <<>> /\ SubSeq(q, 0 + 1, Len(q)) = q /\ 0 \in 0 .. Len(q)
    BY <1>2
  <2> QED BY <2>1, <2>2
<1> HIDE DEF f, g, q, x
<1>7. Account(g, Lost \cup x, next) /\ OnlyForward(f, g)
  BY ONLY <1>4, <1>5, <1>6, RestLost
<1>8. Lost' = Lost \cup x
  BY <1>1, <1>2 DEF Lost, Ways, x
<1>9. Account(Line, Lost, next)' /\ OnlyForward(Line, Line')
  BY <1>1, <1>7, <1>8 DEF f, g
<1>10. StreamsInOrder'
  BY <1>0, <1>1, <1>9, StreamsStay
<1>11. JetStream' => \A w \in Ways : Holds(w)'
  BY <1>1, <1>2 DEF Complete, JetStream, Holds, Ways
<1> QED BY <1>9, <1>10, <1>11 DEF Complete

\* A cut-off loses the end of what the subscriber holds and the front of what
\* the same side has sent.
LEMMA CutOffMoves ==
  ASSUME Base, Types', Complete, epc # "dead", NEW w \in Ways, CutOff(w)
  PROVE  Complete'
<1> DEFINE r == Reader(w)  v == Opposite(w)  s == inbox[w]  cs == wire[r]
           p == InboxPlace(w)  q == ConnectionPlace(r)  f == Line  g == Line'
<1>0. /\ Types /\ SubscribedOnce /\ ~JetStream /\ active[w]
      /\ UNCHANGED <<kind, received, stored, trimmed, given, unheard, next, epc>>
  BY DEF Base, Invariant, CutOff, echo, client, receiver
<1>1. PICK k \in 0 .. Len(s), j \in 0 .. Len(cs) :
          /\ inbox' = [inbox EXCEPT ![w] = SubSeq(s, 1, k)]
          /\ wire' = [wire EXCEPT ![r] = <<Sub(w)>> \o SubSeq(cs, j + 1, Len(cs))]
          /\ overrun' = [overrun EXCEPT ![w] = @ \cup ToSet(SubSeq(s, k + 1, Len(s))),
                                       ![v] = @ \cup {cs[i].msg : i \in 1 .. j}]
  BY DEF CutOff
<1>2. /\ r \in Sides /\ Incoming(r) = w /\ v \in Ways /\ v # w /\ Sub(w) \in Commands
      /\ Sub(w).op = "SUB" /\ \A x \in Ways : x \in {v, w}
      /\ inbox \in [Ways -> Seq(Numbers)] /\ wire \in [Sides -> Seq(Commands)]
      /\ overrun \in [Ways -> SUBSET Numbers] /\ cs \in Seq(Commands) /\ s \in Seq(Numbers)
  BY <1>0 DEF Types, Reader, Incoming, Opposite, Sides, Ways, Sub, Commands
<1> DEFINE x == ToSet(SubSeq(s, k + 1, Len(s)))  y == {cs[i].msg : i \in 1 .. j}
<1>3. /\ inbox'[w] = SubSeq(s, 1, k) /\ inbox'[v] = inbox[v]
      /\ wire'[r] = <<Sub(w)>> \o SubSeq(cs, j + 1, Len(cs))
      /\ \A z \in Sides : z # r => wire'[z] = wire[z]
      /\ overrun'[w] = overrun[w] \cup x /\ overrun'[v] = overrun[v] \cup y
  <2> HIDE DEF r, v, s, cs, x, y
  <2> QED BY <1>1, <1>2 DEF x, y
<1>4. \A i \in DOMAIN cs : cs[i].op # "SUB"
  BY <1>0, <1>2 DEF SubscribedOnce
<1> DEFINE ms == Messages(cs)
<1>5. /\ Messages(wire'[r]) = SubSeq(ms, j + 1, Len(ms)) /\ Len(ms) = Len(cs)
      /\ \A i \in 1 .. j : ms[i] = cs[i].msg
  <2>1. /\ cs \in Seq(Commands) /\ (\A i \in DOMAIN cs : cs[i].op # "SUB")
        /\ j \in 0 .. Len(cs) /\ Sub(w) \in Commands /\ Sub(w).op = "SUB"
    BY <1>1, <1>2, <1>4
  <2> HIDE DEF r, cs
  <2>2. /\ Messages(<<Sub(w)>> \o SubSeq(cs, j + 1, Len(cs))) = SubSeq(ms, j + 1, Len(ms))
        /\ Len(ms) = Len(cs) /\ \A i \in 1 .. j : ms[i] = cs[i].msg
    BY ONLY <2>1, MessagesCut
  <2> QED BY <1>3, <2>2
<1>6. /\ Messages(wire["echo"])' = Messages(wire'["echo"])
      /\ Messages(wire["client"])' = Messages(wire'["client"])
      /\ Undelivered("s2c")' = Undelivered("s2c") /\ Undelivered("c2s")' = Undelivered("c2s")
  BY <1>0 DEF Messages, Undelivered
<1>61. /\ f[1] = received /\ f[2] = inbox["s2c"] /\ f[3] = Undelivered("s2c")
       /\ f[4] = Messages(wire["echo"]) /\ f[5] = inbox["c2s"] /\ f[6] = Undelivered("c2s")
       /\ f[7] = Messages(wire["client"])
       /\ g[1] = received /\ g[2] = inbox'["s2c"] /\ g[3] = Undelivered("s2c")
       /\ g[4] = Messages(wire'["echo"]) /\ g[5] = inbox'["c2s"] /\ g[6] = Undelivered("c2s")
       /\ g[7] = Messages(wire'["client"])
  BY <1>0, <1>6, Pieces, PiecesThen
<1>7. /\ p \in Place /\ q \in Place /\ p # q
      /\ f[p] = s /\ g[p] = inbox'[w] /\ f[q] = ms /\ g[q] = Messages(wire'[r])
      /\ \A z \in Place : z # p /\ z # q => g[z] = f[z]
  <2> HIDE DEF f, g
  <2>1. CASE w = "s2c"
    <3>1. r = "client" /\ p = 2 /\ q = 7 /\ v = "c2s"
      BY <2>1 DEF Reader, InboxPlace, ConnectionPlace, Opposite
    <3>2. wire'["echo"] = wire["echo"]
      BY <1>3, <3>1 DEF Sides
    <3>3. \A z \in Place : z # p /\ z # q => g[z] = f[z]
      BY <1>3, <1>61, <3>1, <3>2, SevenPlaces
    <3>4. p \in Place /\ q \in Place /\ p # q
      BY <3>1 DEF Place
    <3> QED BY <1>61, <2>1, <3>1, <3>3, <3>4
  <2>2. CASE w = "c2s"
    <3>1. r = "echo" /\ p = 5 /\ q = 4 /\ v = "s2c"
      BY <2>2 DEF Reader, InboxPlace, ConnectionPlace, Opposite
    <3>2. wire'["client"] = wire["client"]
      BY <1>3, <3>1 DEF Sides
    <3>3. \A z \in Place : z # p /\ z # q => g[z] = f[z]
      BY <1>3, <1>61, <3>1, <3>2, SevenPlaces
    <3>4. p \in Place /\ q \in Place /\ p # q
      BY <3>1 DEF Place
    <3> QED BY <1>61, <2>2, <3>1, <3>3, <3>4
  <2> QED BY <2>1, <2>2 DEF Ways
<1>8. f \in Lines /\ g \in Lines /\ Account(f, Lost, next)
  BY <1>0, LinesNow DEF Complete
<1>9. Lost' = (Lost \cup x) \cup y
  <2>1. Lost = (unheard[w] \cup overrun[w]) \cup (unheard[v] \cup overrun[v])
    BY <1>2 DEF Lost
  <2>2. Lost' = (unheard'[w] \cup overrun'[w]) \cup (unheard'[v] \cup overrun'[v])
    BY <1>2 DEF Lost
  <2> HIDE DEF v, x, y
  <2> QED BY <1>0, <1>3, <2>1, <2>2
<1> HIDE DEF r, v, s, cs, p, q, f, g, x, y, ms
<1> DEFINE h == [f EXCEPT ![p] = g[p]]
<1>10. h \in Lines /\ h[p] = g[p] /\ \A z \in Place : z # p => h[z] = f[z]
  BY <1>7, <1>8 DEF Lines
<1> HIDE DEF h
<1>11. Account(h, Lost \cup x, next) /\ OnlyForward(f, h)
  <2>1. /\ k \in 0 .. Len(f[p]) /\ h[p] = SubSeq(f[p], 1, k) /\ Elsewhere(f, h, p)
        /\ x = ToSet(SubSeq(f[p], k + 1, Len(f[p])))
    BY <1>1, <1>3, <1>7, <1>10 DEF Elsewhere, x
  <2> QED BY ONLY <1>7, <1>8, <1>10, <2>1, RestLost
<1>12. Account(g, (Lost \cup x) \cup y, next) /\ OnlyForward(h, g)
  <2>1. /\ j \in 0 .. Len(h[q]) /\ g[q] = SubSeq(h[q], j + 1, Len(h[q])) /\ Elsewhere(h, g, q)
    BY <1>1, <1>5, <1>7, <1>10 DEF Elsewhere
  <2>2. y = {h[q][i] : i \in 1 .. j}
    <3>1. h[q] = ms
      BY <1>7, <1>10
    <3>2. y = {ms[i] : i \in 1 .. j}
      BY <1>5 DEF y
    <3> QED BY ONLY <3>1, <3>2
  <2> QED BY ONLY <1>7, <1>8, <1>10, <1>11, <2>1, <2>2, FrontLost
<1>13. OnlyForward(f, g)
  BY <1>11, <1>12, ForwardTwice
<1>14. Account(Line, Lost, next)' /\ OnlyForward(Line, Line')
  BY <1>0, <1>9, <1>12, <1>13 DEF f, g
<1>15. StreamsInOrder'
  BY <1>0, <1>14, StreamsStay
<1> QED BY <1>0, <1>14, <1>15 DEF Complete, JetStream

LEMMA UnheardMoves ==
  ASSUME Base, Types', Complete, epc # "dead", NEW side \in Sides, ServerTakes(side),
         Head(wire[side]).op = "PUB", UNCHANGED <<stored, trimmed, inbox, overrun>>,
         unheard' = [unheard EXCEPT ![Head(wire[side]).way] = @ \cup {Head(wire[side]).msg}]
  PROVE  Complete'
<1> DEFINE q == ConnectionPlace(side)
<1> DEFINE w == Toward(side)
<1>0. Types /\ UNCHANGED <<kind, given, received, next, epc>>
  BY DEF Base, Invariant, ServerTakes, echo, client, receiver
<1>1. /\ q \in Place /\ w \in Ways /\ Head(wire[side]).way = w
      /\ InboxPlace(w) = q - 2 /\ StreamPlace(w) = q - 1
      /\ Line[q] # <<>> /\ Head(Line[q]) = Head(wire[side]).msg /\ Line'[q] = Tail(Line[q])
      /\ \A r \in Place : r \notin {q - 2, q - 1, q} => Line'[r] = Line[r]
  BY <1>0, MessageLeaves
<1>2. /\ Line[q - 2] = inbox[w] /\ Line'[q - 2] = inbox'[w]
      /\ Line[q - 1] = Undelivered(w) /\ Line'[q - 1] = Undelivered(w)' /\ q \in Int
  <2>1. q \in Int /\ (q - 2) + 1 = q - 1
    BY <1>1 DEF Place
  <2> QED BY <1>1, <2>1, Places
<1>3. Undelivered(w)' = Undelivered(w)
  BY <1>0 DEF Undelivered
<1>4. Elsewhere(Line, Line', q)
  BY <1>1, <1>2, <1>3 DEF Elsewhere
<1>5. Line \in Lines /\ Line' \in Lines
  BY <1>0, LinesNow
<1>6. Account(Line, Lost, next)
  BY DEF Complete
<1>7. Account(Line', Lost \cup {Head(Line[q])}, next) /\ OnlyForward(Line, Line')
  <2> DEFINE f == Line  g == Line'
  <2>1. /\ f \in Lines /\ g \in Lines /\ Account(f, Lost, next) /\ q \in Place
        /\ f[q] # <<>> /\ g[q] = Tail(f[q]) /\ Elsewhere(f, g, q)
    BY <1>1, <1>4, <1>5, <1>6
  <2> HIDE DEF f, g, q
  <2>2. Account(g, Lost \cup {Head(f[q])}, next) /\ OnlyForward(f, g)
    BY <2>1, FirstLost
  <2> QED BY <2>2 DEF f, g
<1>8. Lost' = Lost \cup {Head(Line[q])}
  <2>1. \A x \in Ways : (unheard[x] \cup overrun[x])'
           = IF x = w THEN (unheard[x] \cup overrun[x]) \cup {Head(Line[q])}
                      ELSE unheard[x] \cup overrun[x]
    BY <1>0, <1>1 DEF Types
  <2> QED BY <1>1, <2>1 DEF Lost
<1>9. StreamsInOrder'
  BY <1>0, <1>7, StreamsStay
<1>10. JetStream' => \A x \in Ways : Holds(x)'
  BY <1>0 DEF Complete, JetStream, Holds
<1> QED BY <1>0, <1>7, <1>8, <1>9, <1>10 DEF Complete

LEMMA DeliverMoves ==
  ASSUME Base, Types', Complete, epc # "dead", NEW side \in Sides, ServerTakes(side),
         Head(wire[side]).op = "PUB", ~JetStream,
         Deliver(Head(wire[side]).way, Head(wire[side]).msg),
         UNCHANGED <<stored, trimmed, unheard>>
  PROVE  Complete'
<1> DEFINE q == ConnectionPlace(side)
<1> DEFINE w == Toward(side)
<1> DEFINE m == Head(wire[side]).msg
<1> DEFINE s == inbox[w]
<1> DEFINE f == Line
<1> DEFINE g == Line'
<1>0. Types /\ CoreStoresNothing /\ UNCHANGED <<kind, given, received, next, epc>>
  BY DEF Base, Invariant, ServerTakes, echo, client, receiver
<1>1. /\ q \in Place /\ w \in Ways /\ Head(wire[side]).way = w
      /\ InboxPlace(w) = q - 2 /\ StreamPlace(w) = q - 1
      /\ f[q] # <<>> /\ Head(f[q]) = m /\ g[q] = Tail(f[q])
  BY MessageLeaves
<1>2. /\ inbox \in [Ways -> Seq(Numbers)] /\ overrun \in [Ways -> SUBSET Numbers]
      /\ s \in Seq(Numbers)
  BY <1>0, <1>1 DEF Types
<1>3. \A x \in Ways : x # w => inbox'[x] = inbox[x]
  BY <1>1, <1>2 DEF Deliver
<1>4. \A r \in Place : r \notin {q - 2, q - 1, q} => g[r] = f[r]
  BY <1>0, <1>1, <1>3, MessageLeaves
<1>5. /\ q \in Int /\ q - 2 \in Place /\ q - 1 \in Place
      /\ f[q - 2] = s /\ g[q - 2] = inbox'[w]
      /\ f[q - 1] = Undelivered(w) /\ g[q - 1] = Undelivered(w)'
  <2>1. q \in Int /\ (q - 2) + 1 = q - 1
    BY <1>1 DEF Place
  <2> QED BY <1>1, <2>1, Places
<1>6. Undelivered(w)' = <<>> /\ Undelivered(w) = <<>>
  <2>1. stored[w] = <<>> /\ trimmed[w] = 0 /\ given[w] = 0
    BY <1>0, <1>1 DEF CoreStoresNothing
  <2>2. Undelivered(w) = SubSeq(<<>>, 0 + 1, 0)
    BY <2>1 DEF Undelivered, Later
  <2>3. SubSeq(<<>>, 0 + 1, 0) = <<>>
    OBVIOUS
  <2> QED BY <1>0, <2>2, <2>3 DEF Undelivered
<1>7. f \in Lines /\ g \in Lines /\ Account(f, Lost, next)
  BY <1>0, LinesNow DEF Complete
<1>8. CASE Len(s) < Pending
  <2>1. inbox' = [inbox EXCEPT ![w] = Append(s, m)] /\ overrun' = overrun
    BY <1>1, <1>8 DEF Deliver
  <2>2. inbox'[w] = Append(s, m)
    BY <1>1, <1>2, <2>1
  <2>3. g[q - 2] = Append(f[q - 2], Head(f[q]))
    BY <1>1, <1>5, <2>2
  <2>4. q - 2 < q /\ \A r \in Place : q - 2 < r /\ r < q => r = q - 1
    BY <1>5 DEF Place
  <2>5. \A r \in Place : r # q - 2 /\ r # q => g[r] = f[r]
    BY <1>4, <1>5, <1>6
  <2>6. \A r \in Place : q - 2 < r /\ r < q => f[r] = <<>>
    BY <1>5, <1>6, <2>4
  <2> HIDE DEF q
  <2>7. Account(Line, Lost, next)' /\ OnlyForward(Line, Line')
    BY <1>0, <1>1, <1>5, <2>1, <2>3, <2>4, <2>5, <2>6, MovesOn
  <2>8. StreamsInOrder'
    BY <1>0, <2>7, StreamsStay
  <2> QED BY <1>0, <2>7, <2>8 DEF Complete, JetStream
<1>9. CASE ~(Len(s) < Pending)
  <2>1. inbox' = inbox /\ overrun' = [overrun EXCEPT ![w] = overrun[w] \cup {m}]
    BY <1>1, <1>9 DEF Deliver
  <2>2. Elsewhere(f, g, q)
    <3>1. \A r \in Place : r = q \/ r = q - 1 \/ r = q - 2 \/ r \notin {q - 2, q - 1, q}
      OBVIOUS
    <3> QED BY <1>4, <1>5, <1>6, <2>1, <3>1 DEF Elsewhere
  <2>3. /\ f \in Lines /\ g \in Lines /\ q \in Place /\ Account(f, Lost, next)
        /\ f[q] # <<>> /\ g[q] = Tail(f[q])
    BY <1>1, <1>7
  <2>4. Lost' = Lost \cup {m}
    <3>1. \A x \in Ways : (unheard[x] \cup overrun[x])'
             = IF x = w THEN (unheard[x] \cup overrun[x]) \cup {m} ELSE unheard[x] \cup overrun[x]
      BY <1>0, <1>2, <2>1
    <3> QED BY <1>1, <3>1 DEF Lost
  <2> HIDE DEF f, g, q
  <2>5. Account(g, Lost \cup {m}, next) /\ OnlyForward(f, g)
    BY <1>1, <2>2, <2>3, FirstLost
  <2>6. Account(Line, Lost, next)' /\ OnlyForward(Line, Line')
    BY <1>0, <2>4, <2>5 DEF f, g
  <2>7. StreamsInOrder'
    BY <1>0, <2>6, StreamsStay
  <2> QED BY <1>0, <2>6, <2>7 DEF Complete, JetStream
<1> QED BY <1>8, <1>9

LEMMA StoreMoves ==
  ASSUME Base, Types', Complete, epc # "dead", NEW side \in Sides, ServerTakes(side),
         Head(wire[side]).op = "PUB", JetStream,
         Store(Head(wire[side]).way, Head(wire[side]).msg),
         UNCHANGED <<inbox, unheard>>
  PROVE  Complete'
<1> DEFINE q == ConnectionPlace(side)
<1> DEFINE w == Toward(side)
<1> DEFINE m == Head(wire[side]).msg
<1> DEFINE a == stored[w]
<1> DEFINE b == Append(a, m)
<1> DEFINE t == trimmed[w]
<1> DEFINE k == Later(given[w], t)
<1> DEFINE drop == Len(b) - t > StreamMax
<1> DEFINE f == Line
<1> DEFINE g == Line'
<1>0. /\ Types /\ UNCHANGED <<kind, given, received, next, epc>>
      /\ StreamMax \in Nat /\ StreamMax > 0
  BY NatsAssumption DEF Base, Invariant, ServerTakes, echo, client, receiver
<1>1. /\ q \in Place /\ w \in Ways /\ Head(wire[side]).way = w
      /\ InboxPlace(w) = q - 2 /\ StreamPlace(w) = q - 1
      /\ f[q] # <<>> /\ Head(f[q]) = m /\ g[q] = Tail(f[q])
  BY MessageLeaves
<1>2. /\ stored \in [Ways -> Seq(Numbers)] /\ overrun \in [Ways -> SUBSET Numbers]
      /\ trimmed \in [Ways -> Nat] /\ given[w] \in Nat /\ t \in Nat
      /\ given[w] <= Len(a) /\ t <= Len(a) /\ a \in Seq(Numbers)
  BY <1>0, <1>1 DEF Types
<1>3. /\ a \in Seq(Int) /\ m \in Int /\ \A i \in DOMAIN a : a[i] \in Int
  <2>1. a \in Seq(Int)
    BY <1>2, NumbersAreIntegers
  <2>2. f[q] \in Seq(Int)
    BY <1>0, <1>1, LinesNow DEF Lines
  <2> HIDE DEF f, a, m
  <2> QED BY <1>1, <2>1, <2>2, HeadTail
<1>4. /\ stored' = [stored EXCEPT ![w] = b]
      /\ trimmed' = [trimmed EXCEPT ![w] = IF drop THEN t + 1 ELSE t]
      /\ overrun' = [overrun EXCEPT ![w] = IF drop /\ given[w] <= t THEN overrun[w] \cup {b[t + 1]}
                                                                  ELSE overrun[w]]
  BY <1>1 DEF Store
<1>5. /\ stored'[w] = b /\ trimmed'[w] = (IF drop THEN t + 1 ELSE t)
      /\ overrun'[w] = (IF drop /\ given[w] <= t THEN overrun[w] \cup {b[t + 1]} ELSE overrun[w])
      /\ \A x \in Ways : x # w => /\ stored'[x] = stored[x] /\ trimmed'[x] = trimmed[x]
                                  /\ overrun'[x] = overrun[x]
  <2> HIDE DEF b, drop
  <2> QED BY <1>1, <1>2, <1>4
<1>6. \A r \in Place : r \notin {q - 2, q - 1, q} => g[r] = f[r]
  BY <1>0, <1>1, <1>5, MessageLeaves
<1>7. /\ q \in Int /\ q - 2 \in Place /\ q - 1 \in Place
      /\ f[q - 2] = inbox[w] /\ g[q - 2] = inbox'[w]
      /\ f[q - 1] = Undelivered(w) /\ g[q - 1] = Undelivered(w)'
  <2>1. q \in Int /\ (q - 2) + 1 = q - 1
    BY <1>1 DEF Place
  <2> QED BY <1>1, <2>1, Places
<1>8. k \in Nat /\ k <= Len(a) /\ k >= t /\ k >= given[w] /\ (k = t \/ k = given[w])
      /\ (given[w] <= t => k = t) /\ (given[w] > t => k = given[w])
  BY <1>2 DEF Later
<1>9. /\ b \in Seq(Int) /\ Len(b) = Len(a) + 1 /\ \A i \in DOMAIN a : i \in DOMAIN b /\ b[i] = a[i]
      /\ b[Len(a) + 1] = m /\ \A i \in DOMAIN b : i \in DOMAIN a \/ i = Len(a) + 1
      /\ Len(a) \in Nat /\ DOMAIN a = 1 .. Len(a)
  <2> HIDE DEF a, m
  <2> QED BY <1>3
<1>10. f[q - 1] = SubSeq(a, k + 1, Len(a))
  BY <1>7 DEF Undelivered
<1>11. SubSeq(b, k + 1, Len(b)) = Append(f[q - 1], Head(f[q]))
  <2> HIDE DEF k, a, m, f, q
  <2>1. SubSeq(b, k + 1, Len(b)) = Append(SubSeq(a, k + 1, Len(a)), m)
    BY <1>3, <1>8, BehindAdded
  <2> QED BY <1>1, <1>10, <2>1
<1>12. f \in Lines /\ g \in Lines /\ Account(f, Lost, next)
  BY <1>0, LinesNow DEF Complete
<1> DEFINE h == [f EXCEPT ![q - 1] = Append(f[q - 1], Head(f[q])), ![q] = Tail(f[q])]
<1>13. /\ h \in Lines /\ h[q - 1] = Append(f[q - 1], Head(f[q])) /\ h[q] = Tail(f[q])
       /\ \A r \in Place : r # q - 1 /\ r # q => h[r] = f[r]
  <2>1. f[q] \in Seq(Int) /\ f[q] # <<>> /\ f[q - 1] \in Seq(Int) /\ f \in [Place -> Seq(Int)]
    BY <1>1, <1>7, <1>12 DEF Lines
  <2>2. q # q - 1
    BY <1>7
  <2> HIDE DEF f, q
  <2>3. Tail(f[q]) \in Seq(Int) /\ Append(f[q - 1], Head(f[q])) \in Seq(Int)
    BY <2>1, HeadTail, LastAdded
  <2> QED BY <1>1, <1>7, <2>1, <2>2, <2>3 DEF Lines
<1> HIDE DEF h
<1>14. Account(h, Lost, next) /\ OnlyForward(f, h)
  <2>1. InLine(f) /\ q - 1 < q /\ \A r \in Place : q - 1 < r /\ r < q => f[r] = <<>>
    BY <1>7, <1>12 DEF Account, Place
  <2> HIDE DEF f, q
  <2>2. InLine(h) /\ OnTheLine(h) = OnTheLine(f)
    <3> DEFINE p == q - 1
    <3>1. /\ f \in Lines /\ h \in Lines /\ p \in Place /\ q \in Place /\ p < q
          /\ \A r \in Place : p < r /\ r < q => f[r] = <<>>
          /\ f[q] # <<>> /\ h[p] = Append(f[p], Head(f[q])) /\ h[q] = Tail(f[q])
          /\ \A r \in Place : r # p /\ r # q => h[r] = f[r]
          /\ InLine(f)
      BY <1>1, <1>7, <1>12, <1>13, <2>1
    <3> HIDE DEF p
    <3> QED BY ONLY <3>1, Advances
  <2>3. OnlyForward(f, h)
    BY <1>1, <1>7, <1>12, <1>13, <2>1, AdvancesForward
  <2> QED BY <1>12, <2>2, <2>3, AccountKept
<1>15. Account(g, Lost', next) /\ OnlyForward(f, g)
  <2>1. CASE drop /\ given[w] <= t
    <3>1. k < Len(b) /\ b \in Seq(Int) /\ k \in Nat /\ k = t
      BY <1>8, <1>9, <2>1
    <3>2. Undelivered(w)' = SubSeq(b, (k + 1) + 1, Len(b))
      <4>1. Later(given[w], t + 1) = k + 1
        BY <1>2, <2>1, <3>1 DEF Later
      <4>2. trimmed'[w] = t + 1 /\ stored'[w] = b /\ given'[w] = given[w]
        BY <1>0, <1>5, <2>1
      <4> HIDE DEF k, b, t
      <4> QED BY <4>1, <4>2 DEF Undelivered
    <3> HIDE DEF b, k, f, g, q, t
    <3>3. /\ SubSeq(b, k + 1, Len(b)) # <<>> /\ Head(SubSeq(b, k + 1, Len(b))) = b[k + 1]
          /\ SubSeq(b, (k + 1) + 1, Len(b)) = Tail(SubSeq(b, k + 1, Len(b)))
      BY <3>1, BehindNext
    <3>4. h[q - 1] # <<>> /\ Head(h[q - 1]) = b[t + 1] /\ g[q - 1] = Tail(h[q - 1])
      BY <1>7, <1>11, <1>13, <3>1, <3>2, <3>3
    <3>5. Elsewhere(h, g, q - 1)
      BY <1>0, <1>1, <1>6, <1>7, <1>13 DEF Elsewhere
    <3>6. Account(g, Lost \cup {b[t + 1]}, next) /\ OnlyForward(h, g)
      BY <1>7, <1>12, <1>13, <1>14, <3>4, <3>5, FirstLost
    <3>7. Lost' = Lost \cup {b[t + 1]}
      <4>1. \A x \in Ways : (unheard[x] \cup overrun[x])'
               = IF x = w THEN (unheard[x] \cup overrun[x]) \cup {b[t + 1]}
                          ELSE unheard[x] \cup overrun[x]
        BY <1>5, <2>1
      <4> QED BY <1>1, <4>1 DEF Lost
    <3> QED BY <1>14, <3>6, <3>7, ForwardTwice
  <2>2. CASE ~(drop /\ given[w] <= t)
    <3>1. Undelivered(w)' = SubSeq(b, k + 1, Len(b))
      <4>1. Later(given[w], IF drop THEN t + 1 ELSE t) = k
        BY <1>2, <1>8, <2>2 DEF Later
      <4>2. trimmed'[w] = (IF drop THEN t + 1 ELSE t) /\ stored'[w] = b /\ given'[w] = given[w]
        BY <1>0, <1>5
      <4> HIDE DEF k, b, drop, t
      <4> QED BY <4>1, <4>2 DEF Undelivered
    <3>2. \A r \in Place : g[r] = h[r]
      BY <1>0, <1>1, <1>6, <1>7, <1>11, <1>13, <3>1
    <3>3. g = h
      BY <1>12, <1>13, <3>2 DEF Lines
    <3>4. Lost' = Lost
      <4>1. \A x \in Ways : (unheard[x] \cup overrun[x])' = unheard[x] \cup overrun[x]
        BY <1>5, <2>2
      <4> QED BY <4>1 DEF Lost
    <3> QED BY <1>14, <3>3, <3>4
  <2> QED BY <2>1, <2>2
<1>16. StreamsInOrder'
  <2>1. ASSUME NEW x \in Ways PROVE Ascends(stored[x]) /\ Leads(stored[x], Line', StreamPlace(x), next)
    <3>1. Ascends(stored[x]) /\ Leads(stored[x], f, StreamPlace(x), next) /\ StreamPlace(x) \in Place
      BY DEF Complete, StreamsInOrder, StreamPlace, Place
    <3> HIDE DEF f, g
    <3>2. Leads(stored[x], g, StreamPlace(x), next)
      BY <1>12, <1>15, <3>1, LeadsKept
    <3> QED BY <3>1, <3>2 DEF g
  <2>2. Ascends(a) /\ Leads(a, f, q - 1, next) /\ Leads(a, g, q - 1, next)
    BY <1>1, <2>1 DEF Complete, StreamsInOrder
  <2>3. 1 \in DOMAIN f[q] /\ f[q][1] = m /\ f[q] \in Seq(Int) /\ q > q - 1
    <3>1. f[q] \in Seq(Int)
      BY <1>1, <1>12 DEF Lines
    <3> HIDE DEF f, q, m
    <3> QED BY <1>1, <1>7, <3>1, HeadTail
  <2> HIDE DEF f, g, q, a, b, m
  <2>4. \A i \in DOMAIN a : a[i] < m
    BY <1>1, <2>2, <2>3 DEF Leads
  <2>5. m < next /\ next \in Int
    <3>1. m \in OnTheLine(f)
      BY <1>1, <1>3, <2>3 DEF OnTheLine
    <3>2. m \in 0 .. next - 1
      BY <1>12, <3>1 DEF Account
    <3>3. next \in Int
      BY <1>0 DEF Types
    <3> QED BY <3>2, <3>3
  <2>6. ASSUME NEW r \in Place, r > q - 1, NEW j \in DOMAIN g[r] PROVE m < g[r][j]
    <3>1. InLine(f) /\ InLine(g)
      BY <1>12, <1>15 DEF Account
    <3>2. r \in Int
      BY DEF Place
    <3>3. CASE r = q
      <4>1. /\ j \in DOMAIN Tail(f[q]) /\ f[q] # <<>>
        BY <1>1, <2>6, <3>3
      <4>2. j + 1 \in DOMAIN f[q] /\ Tail(f[q])[j] = f[q][j + 1] /\ j \in Int
        BY <2>3, <4>1, HeadTail
      <4>3. j >= 1
        BY <2>3, <4>1
      <4>4. f[q][1] < f[q][j + 1]
        BY <1>1, <2>3, <3>1, <4>2, <4>3 DEF InLine
      <4> QED BY <1>1, <2>3, <3>3, <4>2, <4>4
    <3>4. CASE r # q
      <4>1. r > q /\ r \notin {q - 2, q - 1, q}
        BY <1>7, <2>6, <3>2, <3>4
      <4>2. g[r] = f[r]
        BY <1>6, <4>1
      <4>3. f[q][1] < f[r][j]
        BY <1>1, <2>3, <2>6, <3>1, <4>1, <4>2 DEF InLine
      <4> QED BY <2>3, <4>2, <4>3
    <3> QED BY <3>3, <3>4
  <2>7. Ascends(b)
    <3> SUFFICES ASSUME NEW i \in DOMAIN b, NEW j \in DOMAIN b, i < j PROVE b[i] < b[j]
      BY DEF Ascends
    <3>1. CASE j \in DOMAIN a
      <4>1. i \in DOMAIN a
        BY <1>9, <3>1
      <4> QED BY <1>9, <2>2, <3>1, <4>1 DEF Ascends
    <3>2. CASE j = Len(a) + 1
      <4>1. i \in DOMAIN a
        BY <1>9, <3>2
      <4> QED BY <1>9, <2>4, <3>2, <4>1
    <3> QED BY <1>9, <3>1, <3>2
  <2>8. Leads(b, g, q - 1, next)
    BY <1>9, <2>2, <2>5, <2>6 DEF Leads
  <2>9. ASSUME NEW x \in Ways
        PROVE  Ascends(stored'[x]) /\ Leads(stored'[x], Line', StreamPlace(x), next')
    <3>1. CASE x = w
      BY <1>0, <1>1, <1>5, <2>7, <2>8, <3>1 DEF g
    <3>2. CASE x # w
      BY <1>0, <1>5, <2>1, <3>2
    <3> QED BY <3>1, <3>2
  <2> QED BY <2>9 DEF StreamsInOrder
<1>17. JetStream' => \A x \in Ways : Holds(x)'
  <2> SUFFICES ASSUME NEW x \in Ways PROVE Holds(x)'
    OBVIOUS
  <2>1. Holds(x)
    BY DEF Complete
  <2>2. CASE x # w
    BY <1>0, <1>5, <2>1, <2>2 DEF Holds
  <2>3. CASE x = w
    <3>1. \A j \in 1 .. given[w] : b[j] = a[j]
      BY <1>2, <1>9
    <3>2. \A j \in 1 .. given[w] : j <= t => j <= trimmed'[w]
      BY <1>2, <1>5
    <3>3. stored'[w] = b /\ given'[w] = given[w] /\ inbox' = inbox
      BY <1>0, <1>5
    <3> HIDE DEF b, t, w
    <3> QED BY <2>1, <2>3, <3>1, <3>2, <3>3 DEF Holds, t
  <2> QED BY <2>2, <2>3
<1> QED BY <1>0, <1>15, <1>16, <1>17 DEF Complete

LEMMA ServerMoves ==
  ASSUME Base, Types', Complete, epc # "dead", NEW side \in Sides, ServerTakes(side)
  PROVE  Complete'
<1> DEFINE c == Head(wire[side])
<1>0. /\ Types /\ PlainWires /\ UNCHANGED <<kind, given, received, next, epc>>
      /\ "echo" \in Sides /\ "client" \in Sides
  BY DEF Base, Invariant, ServerTakes, echo, client, receiver, Sides
<1>1. CASE c.op = "SUB" /\ UNCHANGED <<stored, trimmed, unheard, inbox, overrun>>
  <2>1. wire[side] # <<>> /\ wire'[side] = Tail(wire[side])
        /\ \A s \in Sides : s # side => wire'[s] = wire[s]
    BY <1>0 DEF ServerTakes, Types
  <2>2. Messages(wire'[side]) = Messages(wire[side])
    BY <1>0, <1>1, <2>1, SubscriptionTaken DEF PlainWires
  <2>3. \A s \in Sides : Messages(wire'[s]) = Messages(wire[s])
    BY <2>1, <2>2
  <2>4. /\ Messages(wire["echo"])' = Messages(wire'["echo"])
        /\ Messages(wire["client"])' = Messages(wire'["client"])
    BY DEF Messages
  <2> QED BY <1>0, <1>1, <2>3, <2>4, NothingMoves
<1>2. CASE c.op = "PUB" /\ JetStream /\ Store(c.way, c.msg) /\ UNCHANGED <<active, unheard, inbox>>
  BY <1>2, StoreMoves
<1>3. CASE /\ c.op = "PUB" /\ ~JetStream /\ Deliver(c.way, c.msg)
           /\ UNCHANGED <<active, stored, trimmed, unheard>>
  BY <1>3, DeliverMoves
<1>4. CASE /\ c.op = "PUB" /\ unheard' = [unheard EXCEPT ![c.way] = @ \cup {c.msg}]
           /\ UNCHANGED <<active, stored, trimmed, inbox, overrun>>
  BY <1>4, UnheardMoves
<1>5. \/ c.op = "SUB" /\ UNCHANGED <<stored, trimmed, unheard, inbox, overrun>>
      \/ c.op = "PUB" /\ JetStream /\ Store(c.way, c.msg) /\ UNCHANGED <<active, unheard, inbox>>
      \/ /\ c.op = "PUB" /\ ~JetStream /\ Deliver(c.way, c.msg)
         /\ UNCHANGED <<active, stored, trimmed, unheard>>
      \/ /\ c.op = "PUB" /\ unheard' = [unheard EXCEPT ![c.way] = @ \cup {c.msg}]
         /\ UNCHANGED <<active, stored, trimmed, inbox, overrun>>
  <2> HIDE DEF c
  <2> QED BY DEF ServerTakes, c
<1> QED BY <1>1, <1>2, <1>3, <1>4, <1>5

LEMMA CompleteStep == Base /\ Types' /\ Complete /\ [Next]_vars => Complete'
<1> SUFFICES ASSUME Base, Types', Complete, [Next]_vars, epc' # "dead" PROVE Complete'
  BY DEF Complete
<1>0. /\ Invariant /\ Types /\ Startup /\ epc # "dead" /\ "echo" \in Sides /\ "client" \in Sides
      /\ "c2s" \in Ways /\ "s2c" \in Ways
  BY Frame DEF Base, Invariant, Sides, Ways
<1>1. ASSUME NEW side \in Sides, ServerTakes(side) PROVE Complete'
  BY <1>0, <1>1, ServerMoves
<1>2. ASSUME NEW w \in Ways, ConsumerDelivers(w) PROVE Complete'
  BY <1>0, <1>2, DeliveryMoves
<1>3. ASSUME NEW w \in Ways, ConsumerReset(w) PROVE Complete'
  BY <1>0, <1>3, ResetMoves
<1>4. CASE EchoSubscribes
  <2>1. Write("echo", Sub("c2s")) /\ wire["echo"] = <<>>
        /\ UNCHANGED <<kind, received, inbox, stored, trimmed, given, unheard, overrun, next>>
    BY <1>0, <1>4 DEF EchoSubscribes, Startup, server, client, receiver
  <2> QED BY <1>0, <2>1, Subscribes
<1>5. CASE EchoServe
  BY <1>0, <1>5, EchoServeMoves
<1>6. CASE ClientConnects
  <2>0. UNCHANGED <<kind, received, inbox, stored, trimmed, given, unheard, overrun, next>>
    BY <1>6 DEF ClientConnects
  <2>1. CASE ~JetStream
    <3>1. Write("client", Sub("s2c")) /\ wire["client"] = <<>>
      BY <1>0, <1>6, <2>1 DEF ClientConnects, Startup
    <3> QED BY <1>0, <2>0, <3>1, Subscribes
  <2>2. CASE JetStream
    <3>1. wire' = wire
      BY <1>6, <2>2 DEF ClientConnects
    <3>2. /\ Messages(wire["echo"])' = Messages(wire["echo"])
          /\ Messages(wire["client"])' = Messages(wire["client"])
      BY <3>1 DEF Messages
    <3> QED BY <1>0, <2>0, <3>2, NothingMoves
  <2> QED BY <2>1, <2>2
<1>7. CASE ClientSend
  BY <1>0, <1>7, ClientSendMoves
<1>8. CASE RecvMsg
  BY <1>0, <1>8, RecvMsgMoves
<1>9. CASE UNCHANGED <<kind, wire, received, inbox, stored, trimmed, given, unheard, overrun, next>>
  <2>1. /\ Messages(wire["echo"])' = Messages(wire["echo"])
        /\ Messages(wire["client"])' = Messages(wire["client"])
    BY <1>9 DEF Messages
  <2> QED BY <1>0, <1>9, <2>1, NothingMoves
<1>10. CASE EchoMakesIn \/ EchoMakesOut \/ EchoFails
  BY <1>0, <1>9, <1>10 DEF EchoMakesIn, EchoMakesOut, EchoFails, client, receiver
<1>11. CASE ClientStart \/ ClientFails
  BY <1>9, <1>11 DEF ClientStart, ClientFails, server, receiver
<1>12. CASE RecvTimedOut \/ Over \/ UNCHANGED vars
  BY <1>9, <1>12 DEF RecvTimedOut, Over, vars, server, client, receiver
<1>13. CASE RecvFails
  BY <1>0, <1>13, RecvFailsMoves
<1>14. ASSUME NEW w \in Ways, CutOff(w) PROVE Complete'
  BY <1>0, <1>14, CutOffMoves
<1> QED BY <1>1, <1>2, <1>3, <1>4, <1>5, <1>6, <1>7, <1>8, <1>10, <1>11, <1>12, <1>13, <1>14
        DEF Next, Echo, Client, Receiver, Server, Failure, Sides

LEMMA BaseInit == Init => Base /\ Complete
<1> SUFFICES ASSUME Init PROVE Base /\ Complete
  OBVIOUS
<1>1. Invariant
  BY InvariantInit
<1>2. /\ wire["echo"] = <<>> /\ wire["client"] = <<>> /\ received = <<>> /\ next = 0
      /\ \A w \in Ways : /\ inbox[w] = <<>> /\ stored[w] = <<>> /\ trimmed[w] = 0 /\ given[w] = 0
                         /\ unheard[w] = {} /\ overrun[w] = {}
  BY DEF Init
<1>0. Plain(<<>>)
  BY DEF Plain, Commands
<1>3. PlainWires
  BY <1>0, <1>2 DEF PlainWires, Sides
<1>4. CoreStoresNothing
  BY <1>2 DEF CoreStoresNothing
<1>5. Messages(<<>>) = <<>>
  BY DEF Messages
<1>6. \A w \in Ways : Undelivered(w) = <<>>
  BY <1>2 DEF Undelivered, Later
<1>7. \A r \in Place : Line[r] = <<>>
  BY <1>2, <1>5, <1>6, Pieces, SevenPlaces DEF Ways
<1>8. InLine(Line) /\ OnTheLine(Line) = {}
  BY <1>7 DEF InLine, OnTheLine
<1>9. Lost = {}
  BY <1>2 DEF Lost
<1>10. Account(Line, Lost, next)
  BY <1>2, <1>8, <1>9 DEF Account
<1>11. StreamsInOrder
  BY <1>2 DEF StreamsInOrder, Ascends, Leads
<1>12. \A w \in Ways : Holds(w)
  BY <1>2 DEF Holds
<1> QED BY <1>1, <1>3, <1>4, <1>10, <1>11, <1>12 DEF Base, Complete

LEMMA CompleteHolds == Spec => [](Base /\ Complete)
<1>1. Base /\ Complete /\ [Next]_vars => (Base /\ Complete)'
  <2> SUFFICES ASSUME Base, Complete, [Next]_vars PROVE (Base /\ Complete)'
    OBVIOUS
  <2>1. Invariant'
    BY InvariantStep DEF Base
  <2>2. PlainWires'
    BY PlainStep DEF Base
  <2>3. CoreStoresNothing'
    BY CoreStep DEF Base, Invariant
  <2>4. Complete'
    BY <2>1, CompleteStep DEF Invariant
  <2> QED BY <2>1, <2>2, <2>3, <2>4 DEF Base
<1> QED BY BaseInit, <1>1, PTL DEF Spec

\* While the echo process lives, every message sent has been received, is on its
\* way, in order and once, or was lost because nothing took it or because it was
\* discarded unread: whatever the order in which the server serves the two
\* connections, whomever it cuts off, whatever a stream trims and however often
\* an ordered consumer is recreated.
THEOREM NothingIsLost == Spec => []NothingVanishes
<1>1. Base /\ Complete => NothingVanishes
  <2> SUFFICES ASSUME Base, Complete PROVE NothingVanishes
    OBVIOUS
  <2>1. TypeOK /\ Line \in Lines
    BY TypesSuffice, LineType DEF Base, Invariant, LineTyped
  <2> DEFINE way == received \o Coming \o Going
  <2>2. way = (Line[1] \o ((Line[2] \o Line[3]) \o Line[4])) \o ((Line[5] \o Line[6]) \o Line[7])
    BY Pieces DEF Coming, Going
  <2>3. ASSUME epc # "dead"
        PROVE  /\ \A i, j \in DOMAIN way : i < j => way[i] < way[j]
               /\ ToSet(way) \cup Lost = 0 .. next - 1
               /\ ToSet(way) \cap Lost = {}
    <3>1. Account(Line, Lost, next)
      BY <2>3 DEF Complete
    <3>2. Ascends(way) /\ Values(way) = OnTheLine(Line)
      BY <2>1, <2>2, <3>1, WholeLine DEF Account
    <3> HIDE DEF way
    <3>3. ToSet(way) = Values(way)
      BY DEF ToSet, Values
    <3> QED BY <3>1, <3>2, <3>3 DEF Account, Ascends
  <2> QED BY <2>1, <2>3 DEF NothingVanishes, Lost
<1> QED BY CompleteHolds, <1>1, PTL

=============================================================================
