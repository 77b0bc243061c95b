----------------------------- MODULE RedisStream -----------------------------
(***************************************************************************)
(* The Redis backend (src/crates/backend-redis/src/lib.rs): one stream per *)
(* direction on the server, XADD with approximate trimming on the sending  *)
(* side, blocking XREAD from the last-seen id on the receiving side, and   *)
(* between them the echo process, which is a receiver of the one and a     *)
(* sender to the other.                                                    *)
(*                                                                         *)
(* One XREAD fetches everything newer than last_id; recv_any hands it out  *)
(* one entry at a time and only then moves last_id.  Entries are numbered  *)
(* by the server; an entry is [id, msg].                                   *)
(***************************************************************************)
EXTENDS Integers, Sequences, FiniteSets, SequencesExt

CONSTANTS
    Total,    \* messages of the run
    MaxLen    \* MAXLEN: the server may trim a stream down to this length

ASSUME RedisAssumption == {Total, MaxLen} \subseteq Nat \ {0}

Keys == {"c2s", "s2c"}

VARIABLES
    stream,     \* server: key -> the entries it retains
    added,      \* server: key -> entries ever added; the last id
    csent,      \* client: messages sent
    pending,    \* key -> its reader's fetched entries, newest first
    lastId,     \* key -> its reader's last_id
    hand,       \* echo: the message it has received and not sent back, or -1
    returned,   \* client: messages received, in order
    thread,     \* the receive thread: "recv", "done" or "quiet" (a timeout ended it)
    failed,     \* the parties that an error of the server's has ended
    overrun     \* history: messages trimmed before their reader fetched them

redisVars == <<stream, added, csent, pending, lastId, hand, returned, thread, failed, overrun>>

RedisInit ==
    /\ stream = [k \in Keys |-> <<>>]
    /\ added = [k \in Keys |-> 0]
    /\ csent = 0
    /\ pending = [k \in Keys |-> <<>>]
    /\ lastId = [k \in Keys |-> 0]
    /\ hand = -1
    /\ returned = <<>>
    /\ thread = "recv"
    /\ failed = {}
    /\ overrun = {}

-----------------------------------------------------------------------------
\* The last entries of a stream, those with an id above id: entries are in the
\* order of their ids.
Above(entries, id) ==
    LET n == CHOOSE n \in 0 .. Len(entries) :
                \A i \in DOMAIN entries : entries[i].id > id <=> i > n
    IN  SubSeq(entries, n + 1, Len(entries))

\* Mutant of Newer: the reader asks for one id too many.
NewerSkips(k, id) == Above(stream[k], id + 1)

\* The server: the entries XREAD returns for the id of a reader.
Newer(k, id) == Above(stream[k], id)

\* The highest id the reader of k has fetched.
Fetched(k) == IF pending[k] = <<>> THEN lastId[k] ELSE Head(pending[k]).id

\* The server: XADD key MAXLEN ~ MaxLen * d m.  Approximate trimming removes
\* some of the oldest entries, read or unread, never below MaxLen.
Xadd(k, m) ==
    LET longer == Append(stream[k], [id |-> added[k] + 1, msg |-> m])
    IN  /\ added' = [added EXCEPT ![k] = @ + 1]
        /\ \E cut \in {0} \cup {c \in 1 .. Len(longer) : Len(longer) - c >= MaxLen} :
              /\ stream' = [stream EXCEPT ![k] = SubSeq(longer, cut + 1, Len(longer))]
              /\ overrun' = overrun \cup
                    {longer[i].msg : i \in {j \in 1 .. cut : longer[j].id > Fetched(k)}}

\* Mutant of Handout: the reply is not reversed.
HandoutAsRead(entries) == entries

\* What recv_any keeps of a reply: oldest last, to be handed out from the back.
Handout(entries) == Reverse(entries)

\* recv_any: fetch if nothing is pending, then hand out one entry, m.  With
\* nothing newer on the server, XREAD blocks and in the end returns nothing.
RecvAny(k, m) ==
    LET batch == IF pending[k] = <<>> THEN Handout(Newer(k, lastId[k])) ELSE pending[k]
    IN  /\ batch # <<>>
        /\ pending' = [pending EXCEPT ![k] = Front(batch)]
        /\ lastId' = [lastId EXCEPT ![k] = Last(batch).id]
        /\ m = Last(batch).msg

-----------------------------------------------------------------------------
\* An XADD may be carried out, or not, and still end its sender with an error.
MayFail(party) == failed' \in {failed, failed \cup {party}}

ClientSend ==
    /\ "sender" \notin failed /\ csent < Total
    /\ Xadd("c2s", csent)
    /\ csent' = csent + 1
    /\ MayFail("sender")
    /\ UNCHANGED <<pending, lastId, hand, returned, thread>>

EchoRecv ==
    /\ "echo" \notin failed /\ hand = -1
    /\ \E m \in 0 .. Total - 1 : RecvAny("c2s", m) /\ hand' = m
    /\ UNCHANGED <<stream, added, csent, returned, thread, failed, overrun>>

EchoSend ==
    /\ "echo" \notin failed /\ hand # -1
    /\ Xadd("s2c", hand)
    /\ hand' = -1
    /\ MayFail("echo")
    /\ UNCHANGED <<csent, pending, lastId, returned, thread>>

Receiving == thread = "recv" /\ "receiver" \notin failed

ClientRecv ==
    /\ Receiving
    /\ \E m \in 0 .. Total - 1 :
          RecvAny("s2c", m) /\ returned' = Append(returned, m)
    /\ thread' = IF Len(returned') = Total THEN "done" ELSE "recv"
    /\ UNCHANGED <<stream, added, csent, hand, failed, overrun>>

\* BLOCK_MS have passed with nothing to fetch.  The receive thread reads on or,
\* once tx_done is set, takes the run to be over.  The flag is stored some time
\* after the last XADD, and not at all after a failed one.
ClientTimesOut ==
    /\ Receiving
    /\ pending["s2c"] = <<>> /\ Newer("s2c", lastId["s2c"]) = <<>>
    /\ csent = Total /\ "sender" \notin failed
    /\ thread' = "quiet"
    /\ UNCHANGED <<stream, added, csent, pending, lastId, hand, returned, failed, overrun>>

\* An XADD or XREAD that the server did not carry out ends its party.
Fails ==
    /\ \E party \in {"sender", "echo", "receiver"} \ failed :
          /\ party = "sender" => csent < Total
          /\ party = "echo" => hand # -1 \/ pending["c2s"] = <<>>
          /\ party = "receiver" => Receiving /\ pending["s2c"] = <<>>
          /\ failed' = failed \cup {party}
    /\ UNCHANGED <<stream, added, csent, pending, lastId, hand, returned, thread, overrun>>

RedisNext == ClientSend \/ EchoRecv \/ EchoSend \/ ClientRecv \/ ClientTimesOut \/ Fails

RedisSpec == RedisInit /\ [][RedisNext]_redisVars

\* Client, echo process and receive thread each keep going; no read has to time
\* out.
RedisFairSpec ==
    /\ RedisSpec
    /\ WF_redisVars(ClientSend) /\ WF_redisVars(ClientRecv)
    /\ WF_redisVars(EchoRecv \/ EchoSend)

-----------------------------------------------------------------------------
(* Properties                                                              *)

IsEntry(e) == e.id \in 1 .. Total /\ e.msg \in 0 .. Total - 1

RedisTypeOK ==
    /\ \A k \in Keys :
          /\ \A i \in DOMAIN stream[k]  : IsEntry(stream[k][i])
          /\ \A i \in DOMAIN pending[k] : IsEntry(pending[k][i])
          /\ added[k] \in 0 .. Total /\ lastId[k] \in 0 .. added[k]
    /\ csent \in 0 .. Total
    /\ hand \in -1 .. Total - 1
    /\ thread \in {"recv", "done", "quiet"} /\ failed \subseteq {"sender", "echo", "receiver"}
    /\ ToSet(returned) \cup overrun \subseteq 0 .. Total - 1

\* Everything on its way back, the receiver's end first.
Unread(k) ==
    LET entries == Reverse(pending[k]) \o Newer(k, Fetched(k))
    IN  [i \in DOMAIN entries |-> entries[i].msg]
OnTheWay == returned \o Unread("s2c") \o (IF hand = -1 THEN <<>> ELSE <<hand>>) \o Unread("c2s")

\* Every message sent has been received or is on its way (where a party has ended
\* it may stay there), in order and once, or was trimmed by a later XADD before
\* its reader fetched it.  (lib.rs:20-22 goes further: "drops through this backend
\* should be impossible"; they are, as long as no reader falls more than MAXLEN
\* entries behind and the last one not by BLOCK_MS.)
NothingVanishes ==
    /\ RedisTypeOK
    /\ \A i, j \in DOMAIN OnTheWay : i < j => OnTheWay[i] < OnTheWay[j]
    /\ ToSet(OnTheWay) \cup overrun = 0 .. csent - 1
    /\ ToSet(OnTheWay) \cap overrun = {}

\* Unless the server fails somebody, every message that is not trimmed unread
\* comes back, or the receive thread has met a whole BLOCK_MS of silence, never
\* before the last one was sent: what an echo process further behind than that
\* still has is given up (scenario.rs:109 has it "never coming").
AllButTrimmedReturn ==
    /\ [](thread = "quiet" => csent = Total)
    /\ <>[](failed # {} \/ thread = "quiet" \/ Len(returned) + Cardinality(overrun) = Total)
=============================================================================
