------------------------------- MODULE ShmRing -------------------------------
(***************************************************************************)
(* One direction of the shared-memory backend                              *)
(* (src/crates/backend-shm/src/lib.rs): a ring of Capacity slots in a      *)
(* mapped file, one producer process and one consumer process, no lock.    *)
(*                                                                         *)
(* Slot i holds a stamp and a payload.  The producer copies the payload,   *)
(* then stores seq+1 in the stamp; the consumer polls the stamp of the     *)
(* slot it expects next, copies the payload out, then stores its cursor.   *)
(* The producer reads that cursor only when its cached copy of it says the *)
(* ring is full.                                                           *)
(*                                                                         *)
(* The payload copies are plain memory copies, so here they go one word at *)
(* a time in any order, interleaved with the other process.  A word is     *)
(* represented by its provenance: the sequence number of the message that  *)
(* wrote it, -1 for the zeros of the fresh file.  The stamp and the cursor *)
(* are release/acquire atomics, which order the copies on both sides, so a *)
(* step of the model is one atomic access or one word of a copy.           *)
(***************************************************************************)
EXTENDS Integers, FiniteSets

CONSTANTS Capacity,   \* slots of the ring (CAPACITY, 65536 in the code)
          Words,      \* the words of one payload
          MaxMsgs     \* bound: sends started

ASSUME RingAssumption == /\ Capacity \in Nat \ {0}
                         /\ MaxMsgs \in Nat

VARIABLES
    stamp,    \* shared: slot -> stamp word
    cell,     \* shared: slot -> word -> message that wrote it
    cursor,   \* shared: next sequence number the consumer expects
    ppc,      \* producer: where it is in send()
    pseq,     \* producer: next_seq
    cached,   \* producer: cached_cursor
    ptodo,    \* producer: words of the payload still to copy in
    cpc,      \* consumer: where it is in recv()
    cseq,     \* consumer: next_seq
    ctodo,    \* consumer: words still to copy out
    buf,      \* consumer: the caller's buffer
    got       \* the buffer as the last successful recv() returned it

shared   == <<stamp, cell, cursor>>
producer == <<ppc, pseq, cached, ptodo>>
consumer == <<cpc, cseq, ctodo, buf, got>>
vars     == <<shared, producer, consumer>>

Slots == 0 .. Capacity - 1

Slot(n) == n % Capacity

\* Mutant of StampOf: a published flag that does not name the lap.
StampWithoutLap(n) == 1

\* What the producer publishes in, and the consumer expects from, the slot of
\* sequence number n.  It names the lap: 0 (fresh file) is never expected.
StampOf(n) == n + 1

\* Mutant of Full: one message too many is let in.
FullOffByOne(n, c) == n - c > Capacity

\* The producer's test of a sequence number against a cursor value.
Full(n, c) == n - c >= Capacity

Init ==
    /\ stamp = [i \in Slots |-> 0]
    /\ cell = [i \in Slots |-> [w \in Words |-> -1]]
    /\ cursor = 0
    /\ ppc = "idle" /\ pseq = 0 /\ cached = 0 /\ ptodo = {}
    /\ cpc = "idle" /\ cseq = 0 /\ ctodo = {}
    /\ buf = [w \in Words |-> -1]
    /\ got = [w \in Words |-> -1]

-----------------------------------------------------------------------------
(* RingProducer::send                                                      *)

\* Entry: the fast path when the cached cursor leaves room.
SendBegin ==
    /\ ppc = "idle"
    /\ pseq < MaxMsgs
    /\ IF Full(pseq, cached)
         THEN ppc' = "refresh" /\ ptodo' = ptodo
         ELSE ppc' = "copy" /\ ptodo' = Words
    /\ UNCHANGED <<pseq, cached, shared, consumer>>

\* The slow path: load the shared cursor and look again.
SendRefresh ==
    /\ ppc = "refresh"
    /\ cached' = cursor
    /\ IF Full(pseq, cached')
         THEN ppc' = "full" /\ ptodo' = ptodo
         ELSE ppc' = "copy" /\ ptodo' = Words
    /\ UNCHANGED <<pseq, shared, consumer>>

\* Still full, deadline not reached: spin.
SendSpin ==
    /\ ppc = "full"
    /\ ppc' = "refresh"
    /\ UNCHANGED <<pseq, cached, ptodo, shared, consumer>>

\* Mutant of SendTimedOut: the deadline is set again on every turn of the loop.
SendRearmsDeadline ==
    /\ ppc = "full"
    /\ ppc' = "refresh"
    /\ UNCHANGED <<pseq, cached, ptodo, shared, consumer>>

\* Still full and the FULL_TIMEOUT deadline passed: send() returns an error.
SendTimedOut ==
    /\ ppc = "full"
    /\ ppc' = "idle"
    /\ UNCHANGED <<pseq, cached, ptodo, shared, consumer>>

CopyIn(w) ==
    /\ ppc = "copy"
    /\ w \in ptodo
    /\ cell' = [cell EXCEPT ![Slot(pseq)][w] = pseq]
    /\ ptodo' = ptodo \ {w}
    /\ UNCHANGED <<stamp, cursor, ppc, pseq, cached, consumer>>

\* Mutant of Publish: the stamp is the sequence number itself.
PublishStampsSeq ==
    /\ ppc = "copy"
    /\ ptodo = {}
    /\ stamp' = [stamp EXCEPT ![Slot(pseq)] = pseq]
    /\ pseq' = pseq + 1
    /\ ppc' = "idle"
    /\ UNCHANGED <<cell, cursor, cached, ptodo, consumer>>

\* The release store of the stamp; send() returns Ok.
Publish ==
    /\ ppc = "copy"
    /\ ptodo = {}
    /\ stamp' = [stamp EXCEPT ![Slot(pseq)] = StampOf(pseq)]
    /\ pseq' = pseq + 1
    /\ ppc' = "idle"
    /\ UNCHANGED <<cell, cursor, cached, ptodo, consumer>>

-----------------------------------------------------------------------------
(* RingConsumer::recv                                                      *)

RecvBegin ==
    /\ cpc = "idle"
    /\ cpc' = "poll"
    /\ UNCHANGED <<cseq, ctodo, buf, got, shared, producer>>

\* Mutant of PollHit: the slot is given back before it has been copied out.
PollHitFreesEarly ==
    /\ cpc = "poll"
    /\ stamp[Slot(cseq)] = StampOf(cseq)
    /\ cpc' = "copy"
    /\ ctodo' = Words
    /\ cursor' = cseq + 1
    /\ UNCHANGED <<stamp, cell, cseq, buf, got, producer>>

PollHit ==
    /\ cpc = "poll"
    /\ stamp[Slot(cseq)] = StampOf(cseq)
    /\ cpc' = "copy"
    /\ ctodo' = Words
    /\ UNCHANGED <<cseq, buf, got, shared, producer>>

PollMiss ==
    /\ cpc = "poll"
    /\ stamp[Slot(cseq)] # StampOf(cseq)
    /\ cpc' = "missed"
    /\ UNCHANGED <<cseq, ctodo, buf, got, shared, producer>>

\* The clock was not consulted, or the deadline has not passed.
RecvSpin ==
    /\ cpc = "missed"
    /\ cpc' = "poll"
    /\ UNCHANGED <<cseq, ctodo, buf, got, shared, producer>>

\* The RECV_TIMEOUT deadline passed: recv() returns TimedOut.
RecvTimedOut ==
    /\ cpc = "missed"
    /\ cpc' = "idle"
    /\ UNCHANGED <<cseq, ctodo, buf, got, shared, producer>>

CopyOut(w) ==
    /\ cpc = "copy"
    /\ w \in ctodo
    /\ buf' = [buf EXCEPT ![w] = cell[Slot(cseq)][w]]
    /\ ctodo' = ctodo \ {w}
    /\ UNCHANGED <<cpc, cseq, got, shared, producer>>

\* The release store of the cursor; recv() returns Msg.
RecvDone ==
    /\ cpc = "copy"
    /\ ctodo = {}
    /\ cursor' = cseq + 1
    /\ cseq' = cseq + 1
    /\ got' = buf
    /\ cpc' = "idle"
    /\ UNCHANGED <<stamp, cell, ctodo, buf, producer>>

-----------------------------------------------------------------------------
SendStep == SendBegin \/ SendRefresh \/ SendSpin \/ SendTimedOut
              \/ (\E w \in Words : CopyIn(w)) \/ Publish

RecvStep == RecvBegin \/ PollHit \/ PollMiss \/ RecvSpin \/ RecvTimedOut
              \/ (\E w \in Words : CopyOut(w)) \/ RecvDone

Next == SendStep \/ RecvStep

Spec == Init /\ [][Next]_vars

\* The consumer's caller (run_rtt's receive thread, echo's loop) calls recv()
\* again until it has everything, and each process is eventually scheduled.
\* A clock read in the wait loop is eventually past the deadline.
ProducerFairness == WF_vars(SendStep) /\ SF_vars(SendTimedOut)
ConsumerFairness == WF_vars(RecvStep)

\* Only the producer is sure to run: the consumer process may stop anywhere.
FairSpec == Spec /\ ProducerFairness

-----------------------------------------------------------------------------
(* Properties                                                              *)

TypeOK ==
    /\ stamp \in [Slots -> Nat]
    /\ cell \in [Slots -> [Words -> Nat \cup {-1}]]
    /\ cursor \in Nat
    /\ ppc \in {"idle", "refresh", "full", "copy"}
    /\ pseq \in Nat
    /\ cached \in Nat
    /\ ptodo \in SUBSET Words
    /\ cpc \in {"idle", "poll", "missed", "copy"}
    /\ cseq \in Nat
    /\ ctodo \in SUBSET Words
    /\ buf \in [Words -> Nat \cup {-1}]
    /\ got \in [Words -> Nat \cup {-1}]

\* The buffer a successful recv() hands back holds every word of the message
\* that is next in order, and of no other: nothing torn by a concurrent copy,
\* no leftover of an earlier lap, nothing skipped or repeated.
NoTornDelivery == got = [w \in Words |-> cseq - 1]

\* The two processes never copy into and out of the same slot at once, the
\* condition under which the plain copies of send() and recv() are defined.
NoDataRace == ppc = "copy" /\ cpc = "copy" => Slot(pseq) # Slot(cseq)

\* The producer never overwrites a message the consumer has not finished
\* with, although it decides from a cursor value that may be long out of date.
NothingOverwritten ==
    \A n \in cseq .. pseq - 1 : cell[Slot(n)] = [w \in Words |-> n]

\* The inductive invariant behind all of these, part by part.
\* The cursors are ordered and at most a ring apart, and a producer that has
\* passed its fullness test is strictly less than a ring ahead.
CursorBounds ==
    /\ cursor = cseq
    /\ cached <= cseq /\ cseq <= pseq /\ pseq - cseq <= Capacity
    /\ ppc = "copy" => pseq - cached < Capacity

\* Every published, unread message still has its stamp and all its words.
PublishedIntact ==
    \A n \in cseq .. pseq - 1 : /\ stamp[Slot(n)] = StampOf(n)
                                /\ \A w \in Words : cell[Slot(n)][w] = n

\* No slot is stamped for a message that has not been published.
StampsFromPast == \A i \in Slots : stamp[i] <= pseq

\* A copy in progress has so far moved words of the right message.
CopyInProgress ==
    ppc = "copy" => \A w \in Words \ ptodo : cell[Slot(pseq)][w] = pseq
CopyOutProgress ==
    cpc = "copy" => /\ cseq < pseq
                    /\ \A w \in Words \ ctodo : buf[w] = cseq

\* Together with the last delivery being whole, these are inductive: a stale
\* cursor, a copy half done and a stamp of an earlier lap are all accounted for.
RingInvariant ==
    /\ CursorBounds
    /\ PublishedIntact
    /\ StampsFromPast
    /\ CopyInProgress
    /\ CopyOutProgress
    /\ NoTornDelivery

\* The ring implements a bounded FIFO that neither loses nor reorders.
Fifo == INSTANCE SpscFifo WITH sent <- pseq, taken <- cseq, out <- got
ImplementsFifo == Fifo!Spec

\* As long as the consumer process lives, every send() that returned Ok is
\* received, however the polls interleave.
EveryMessageDelivered ==
    ConsumerFairness => \A n \in 0 .. MaxMsgs - 1 : pseq > n ~> cseq > n

\* send() returns, with an error if need be, even when the consumer process
\* has stopped for good (lib.rs:46: a producer stuck this long on a full ring
\* means the peer is gone).
SendReturns == ppc # "idle" ~> ppc = "idle"
=============================================================================
