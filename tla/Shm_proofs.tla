------------------------------ MODULE Shm_proofs ------------------------------
(***************************************************************************)
(* Proofs about the two parts of the shared-memory backend: the ring       *)
(* itself (ShmRing), and how the two processes set it up (ShmSetup).       *)
(***************************************************************************)
EXTENDS ShmRing, ShmSetup, TLAPS

-----------------------------------------------------------------------------
(***************************************************************************)
(* Proofs about ShmRing for every Capacity, every set of Words and every   *)
(* MaxMsgs.  The argument: two sequence numbers less than Capacity apart   *)
(* never share a slot (SlotsDiffer); so a producer that has checked even a *)
(* stale cursor writes only into a slot no unread message occupies, and    *)
(* the stamps in the ring, none of them from the future, tell the consumer *)
(* exactly whether its next message is there.                              *)
(***************************************************************************)

(* Arithmetic of the slot index                                            *)

\* Division by Capacity: the slot of n and the lap of n determine n.
LEMMA SlotAndLap ==
  \A n \in Nat : /\ n = Capacity * (n \div Capacity) + (n % Capacity)
                 /\ n % Capacity \in Slots
                 /\ n \div Capacity \in Nat
  BY RingAssumption, SMTT(30) DEF Slots

\* A positive number of laps is at least one ring of messages.
LEMMA LapIsCapacity == \A q \in Int : q >= 1 => Capacity * q >= Capacity
  BY RingAssumption, SMTT(30)

\* Slot, seen by stamp() and payload_ptr(), is a slot of the ring.
LEMMA SlotInRing == \A n \in Nat : Slot(n) \in Slots
  BY SlotAndLap DEF Slot

\* Two different sequence numbers less than one ring apart use different
\* slots: the arithmetic on which the producer's fullness test relies.
LEMMA SlotsDiffer ==
  \A m, n \in Nat : m < n /\ n - m < Capacity => Slot(m) # Slot(n)
<1> SUFFICES ASSUME NEW m \in Nat, NEW n \in Nat,
                    m < n, n - m < Capacity, m % Capacity = n % Capacity
             PROVE  FALSE
  BY DEF Slot
<1> DEFINE q == n \div Capacity - m \div Capacity
<1>1. q \in Int /\ n - m = Capacity * q
  BY SlotAndLap, RingAssumption, SMTT(30)
<1>2. q >= 1
  <2> HIDE DEF q
  <2> QED BY <1>1, RingAssumption, SMTT(30)
<1> HIDE DEF q
<1> QED BY <1>1, <1>2, LapIsCapacity, RingAssumption

-----------------------------------------------------------------------------
(* Type correctness                                                        *)

\* Every variable of the ring keeps its type, for every capacity.
THEOREM TypeCorrect == Spec => []TypeOK
<1>1. Init => TypeOK
  BY DEF Init, TypeOK
<1>2. TypeOK /\ [Next]_vars => TypeOK'
  <2> SUFFICES ASSUME TypeOK, [Next]_vars PROVE TypeOK'
    OBVIOUS
  <2> USE DEF TypeOK, shared, producer, consumer
  <2>1. CASE SendBegin
    BY <2>1 DEF SendBegin
  <2>2. CASE SendRefresh
    BY <2>2 DEF SendRefresh
  <2>3. CASE SendSpin
    BY <2>3 DEF SendSpin
  <2>4. CASE SendTimedOut
    BY <2>4 DEF SendTimedOut
  <2>5. ASSUME NEW w \in Words, CopyIn(w) PROVE TypeOK'
    <3>1. Slot(pseq) \in Slots
      BY SlotInRing
    <3>2. cell' \in [Slots -> [Words -> Nat \cup {-1}]]
      BY <2>5, <3>1 DEF CopyIn
    <3> QED BY <2>5, <3>2 DEF CopyIn
  <2>6. CASE Publish
    <3>1. Slot(pseq) \in Slots
      BY SlotInRing
    <3> QED BY <2>6, <3>1 DEF Publish, StampOf
  <2>7. CASE RecvBegin
    BY <2>7 DEF RecvBegin
  <2>8. CASE PollHit
    BY <2>8 DEF PollHit
  <2>9. CASE PollMiss
    BY <2>9 DEF PollMiss
  <2>10. CASE RecvSpin
    BY <2>10 DEF RecvSpin
  <2>11. CASE RecvTimedOut
    BY <2>11 DEF RecvTimedOut
  <2>12. ASSUME NEW w \in Words, CopyOut(w) PROVE TypeOK'
    <3>1. Slot(cseq) \in Slots
      BY SlotInRing
    <3>2. buf' \in [Words -> Nat \cup {-1}]
      BY <2>12, <3>1 DEF CopyOut
    <3> QED BY <2>12, <3>2 DEF CopyOut
  <2>13. CASE RecvDone
    BY <2>13 DEF RecvDone
  <2>14. CASE UNCHANGED vars
    BY <2>14 DEF vars
  <2> QED
    BY <2>1, <2>2, <2>3, <2>4, <2>5, <2>6, <2>7, <2>8, <2>9, <2>10, <2>11,
       <2>12, <2>13, <2>14 DEF Next, SendStep, RecvStep
<1> QED BY <1>1, <1>2, PTL DEF Spec

-----------------------------------------------------------------------------
(* The ring invariant                                                      *)

\* What the producer may touch: while it copies, its slot is none of the slots
\* of published, unread messages.
LEMMA OwnSlot ==
  ASSUME TypeOK, CursorBounds, ppc = "copy"
  PROVE  \A n \in cseq .. pseq - 1 : Slot(n) # Slot(pseq)
<1> SUFFICES ASSUME NEW n \in cseq .. pseq - 1 PROVE Slot(n) # Slot(pseq)
  OBVIOUS
<1>1. n \in Nat /\ pseq \in Nat /\ n < pseq /\ pseq - n < Capacity
  BY RingAssumption DEF TypeOK, CursorBounds
<1> QED BY <1>1, SlotsDiffer

LEMMA RingInvariantInit == Init => RingInvariant
  BY RingAssumption DEF Init, RingInvariant, CursorBounds, PublishedIntact,
     StampsFromPast, CopyInProgress, CopyOutProgress, NoTornDelivery

LEMMA RingInvariantStep ==
  TypeOK /\ TypeOK' /\ RingInvariant /\ [Next]_vars => RingInvariant'
<1> SUFFICES ASSUME TypeOK, TypeOK', RingInvariant, [Next]_vars
             PROVE  RingInvariant'
  OBVIOUS
<1> USE DEF shared, producer, consumer
<1>0. Slot(pseq) \in Slots /\ Slot(cseq) \in Slots
  BY SlotInRing DEF TypeOK
<1>1. CASE SendBegin
  BY <1>1, RingAssumption DEF SendBegin, Full, TypeOK, RingInvariant, CursorBounds,
     PublishedIntact, StampsFromPast, CopyInProgress, CopyOutProgress,
     NoTornDelivery
<1>2. CASE SendRefresh
  BY <1>2, RingAssumption DEF SendRefresh, Full, TypeOK, RingInvariant, CursorBounds,
     PublishedIntact, StampsFromPast, CopyInProgress, CopyOutProgress,
     NoTornDelivery
<1>3. CASE SendSpin \/ SendTimedOut
  BY <1>3, ZenonT(30) DEF SendSpin, SendTimedOut, TypeOK, RingInvariant, CursorBounds,
     PublishedIntact, StampsFromPast, CopyInProgress, CopyOutProgress,
     NoTornDelivery
<1>4. ASSUME NEW w \in Words, CopyIn(w) PROVE RingInvariant'
  <2>1. \A n \in cseq .. pseq - 1 : Slot(n) # Slot(pseq) /\ Slot(n) \in Slots
    BY <1>4, OwnSlot, SlotInRing DEF CopyIn, RingInvariant, TypeOK
  <2>2. PublishedIntact'
    <3> SUFFICES ASSUME NEW n \in cseq .. pseq - 1
                 PROVE  /\ stamp[Slot(n)] = StampOf(n)
                        /\ \A v \in Words : cell'[Slot(n)][v] = n
      BY <1>4 DEF CopyIn, PublishedIntact, StampOf, Slot
    <3>1. cell'[Slot(n)] = cell[Slot(n)]
      BY <1>4, <2>1 DEF CopyIn, TypeOK
    <3> QED BY <3>1 DEF RingInvariant, PublishedIntact
  <2>3. CopyInProgress'
    <3>1. \A v \in Words : cell'[Slot(pseq)][v]
                          = IF v = w THEN pseq ELSE cell[Slot(pseq)][v]
      BY <1>4, <1>0 DEF CopyIn, TypeOK
    <3> QED BY <1>4, <3>1 DEF CopyIn, TypeOK, RingInvariant, CopyInProgress, Slot
  <2> QED BY <1>4, <2>2, <2>3 DEF CopyIn, TypeOK, RingInvariant, CursorBounds,
             StampsFromPast, CopyOutProgress, NoTornDelivery
<1>5. CASE Publish
  <2>1. \A n \in cseq .. pseq - 1 : Slot(n) # Slot(pseq) /\ Slot(n) \in Slots
    BY <1>5, OwnSlot, SlotInRing DEF Publish, RingInvariant, TypeOK
  <2>2. PublishedIntact'
    <3> SUFFICES ASSUME NEW n \in cseq .. pseq
                 PROVE  /\ stamp'[Slot(n)] = StampOf(n)
                        /\ \A v \in Words : cell[Slot(n)][v] = n
      BY <1>5 DEF Publish, PublishedIntact, StampOf, Slot, TypeOK
    <3>1. CASE n = pseq
      BY <1>5, <3>1, <1>0 DEF Publish, TypeOK, RingInvariant, CopyInProgress
    <3>2. CASE n # pseq
      <4>1. n \in cseq .. pseq - 1
        BY <3>2 DEF TypeOK
      <4> QED BY <1>5, <4>1, <2>1 DEF Publish, TypeOK, RingInvariant, PublishedIntact
    <3> QED BY <3>1, <3>2
  <2>3. StampsFromPast'
    BY <1>5, <1>0 DEF Publish, StampOf, TypeOK, RingInvariant, StampsFromPast
  <2>4. CursorBounds' /\ CopyInProgress' /\ CopyOutProgress' /\ NoTornDelivery'
    BY <1>5, RingAssumption DEF Publish, TypeOK, RingInvariant, CursorBounds, CopyInProgress,
       CopyOutProgress, NoTornDelivery
  <2> QED BY <2>2, <2>3, <2>4 DEF RingInvariant
<1>6. CASE RecvBegin \/ PollMiss \/ RecvSpin \/ RecvTimedOut
  BY <1>6, ZenonT(30) DEF RecvBegin, PollMiss, RecvSpin, RecvTimedOut, TypeOK,
     RingInvariant, CursorBounds, PublishedIntact, StampsFromPast,
     CopyInProgress, CopyOutProgress, NoTornDelivery
<1>7. CASE PollHit
  <2>1. cseq < pseq
    BY <1>7, <1>0 DEF PollHit, StampOf, TypeOK, RingInvariant, StampsFromPast
  <2> QED BY <1>7, <2>1 DEF PollHit, TypeOK, RingInvariant, CursorBounds,
             PublishedIntact, StampsFromPast, CopyInProgress, CopyOutProgress,
             NoTornDelivery
<1>8. ASSUME NEW w \in Words, CopyOut(w) PROVE RingInvariant'
  <2>1. cell[Slot(cseq)][w] = cseq
    BY <1>8 DEF CopyOut, TypeOK, RingInvariant, CopyOutProgress, PublishedIntact
  <2>2. CopyOutProgress'
    BY <1>8, <2>1 DEF CopyOut, TypeOK, RingInvariant, CopyOutProgress
  <2> QED BY <1>8, <2>2 DEF CopyOut, TypeOK, RingInvariant, CursorBounds,
             PublishedIntact, StampsFromPast, CopyInProgress, NoTornDelivery
<1>9. CASE RecvDone
  <2>1. NoTornDelivery'
    BY <1>9 DEF RecvDone, TypeOK, RingInvariant, CopyOutProgress, NoTornDelivery
  <2> QED BY <1>9, <2>1, RingAssumption DEF RecvDone, TypeOK, RingInvariant, CursorBounds,
             PublishedIntact, StampsFromPast, CopyInProgress, CopyOutProgress
<1>10. CASE UNCHANGED vars
  BY <1>10 DEF vars, RingInvariant, CursorBounds, PublishedIntact,
     StampsFromPast, CopyInProgress, CopyOutProgress, NoTornDelivery
<1> QED
  BY <1>1, <1>2, <1>3, <1>4, <1>5, <1>6, <1>7, <1>8, <1>9, <1>10
     DEF Next, SendStep, RecvStep

\* The ring invariant holds in every reachable state.
THEOREM RingInvariantHolds == Spec => []RingInvariant
<1>1. TypeOK /\ TypeOK' /\ RingInvariant /\ [Next]_vars => RingInvariant'
  BY RingInvariantStep
<1> QED BY <1>1, RingInvariantInit, TypeCorrect, PTL DEF Spec

-----------------------------------------------------------------------------
(* What follows from it                                                    *)

\* Every successful recv() returns exactly the next message, whole.
THEOREM DeliveriesWhole == Spec => []NoTornDelivery
<1>1. RingInvariant => NoTornDelivery
  BY DEF RingInvariant
<1> QED BY <1>1, RingInvariantHolds, PTL

\* send() and recv() never copy on the same slot at the same time.
THEOREM RaceFree == Spec => []NoDataRace
<1>1. TypeOK /\ RingInvariant => NoDataRace
  <2> SUFFICES ASSUME TypeOK, RingInvariant, ppc = "copy", cpc = "copy"
               PROVE  Slot(pseq) # Slot(cseq)
    BY DEF NoDataRace
  <2>1. cseq \in cseq .. pseq - 1
    BY DEF TypeOK, RingInvariant, CopyOutProgress
  <2> QED BY <2>1, OwnSlot DEF RingInvariant
<1> QED BY <1>1, TypeCorrect, RingInvariantHolds, PTL

\* No published, unread message is ever overwritten.
THEOREM UnreadIntact == Spec => []NothingOverwritten
<1>1. TypeOK /\ RingInvariant => NothingOverwritten
  <2> SUFFICES ASSUME TypeOK, RingInvariant, NEW n \in cseq .. pseq - 1
               PROVE  cell[Slot(n)] = [w \in Words |-> n]
    BY DEF NothingOverwritten
  <2>1. Slot(n) \in Slots
    BY SlotInRing DEF TypeOK
  <2>2. cell[Slot(n)] \in [Words -> Nat \cup {-1}]
    BY <2>1 DEF TypeOK
  <2> QED BY <2>2 DEF RingInvariant, PublishedIntact
<1> QED BY <1>1, TypeCorrect, RingInvariantHolds, PTL

\* The ring implements the bounded FIFO: publishing is the send, storing the
\* cursor is the receive, and every other step of either process is invisible.
THEOREM RingImplementsFifo == Spec => ImplementsFifo
<1>1. Init => Fifo!Init
  BY DEF Init, Fifo!Init
<1>2. TypeOK /\ RingInvariant /\ RingInvariant' /\ [Next]_vars
        => [Fifo!Next]_Fifo!fifoVars
  <2> SUFFICES ASSUME TypeOK, RingInvariant, RingInvariant', [Next]_vars
               PROVE  [Fifo!Next]_Fifo!fifoVars
    OBVIOUS
  <2> USE DEF shared, producer, consumer, Fifo!fifoVars
  <2>1. CASE Publish
    <3>1. Fifo!Send
      BY <2>1, RingAssumption DEF Publish, Fifo!Send, TypeOK, RingInvariant, CursorBounds
    <3> QED BY <3>1 DEF Fifo!Next
  <2>2. CASE RecvDone
    <3>1. Fifo!Receive
      BY <2>2 DEF RecvDone, Fifo!Receive, TypeOK, RingInvariant,
         CopyOutProgress, NoTornDelivery
    <3> QED BY <3>1 DEF Fifo!Next
  <2>3. CASE UNCHANGED <<pseq, cseq, got>>
    BY <2>3
  <2> QED
    BY <2>1, <2>2, <2>3 DEF Next, SendStep, RecvStep, SendBegin, SendRefresh,
       SendSpin, SendTimedOut, CopyIn, RecvBegin, PollHit, PollMiss, RecvSpin,
       RecvTimedOut, CopyOut, vars
<1>3. Fifo!Init /\ [][Fifo!Next]_Fifo!fifoVars => Fifo!Spec
  BY DEF Fifo!Spec
<1> QED
  BY <1>1, <1>2, TypeCorrect, RingInvariantHolds, PTL
     DEF Spec, ImplementsFifo, Fifo!Spec

-----------------------------------------------------------------------------
(***************************************************************************)
(* Proofs about ShmSetup for every number of pages and every set of sizes. *)
(* The argument: the magic of a ring is 0 until the echo process has done  *)
(* everything else to it (MagicIsLast), so a client that has accepted a    *)
(* ring has a complete one, which the echo touches no more; and nobody     *)
(* stores a message while the client still touches pages.  So a touch      *)
(* always writes back what is there.                                       *)
(***************************************************************************)

New(r) == <<r, "new">>

\* The echo process has finished ring r.
Done(r) == (r = "c2s" /\ ering = "s2c") \/ estep \in {"announce", "serve"}

\* The client has found ring r to be complete.
Accepted(r) == \/ cstep = "connected" \/ (r = "c2s" /\ cring = "s2c")
               \/ r = cring /\ cstep \in {"touch_read", "touch_write"}

\* What the echo process has done to the ring in hand so far.
EchoProgress ==
    /\ estep \in {"remove", "create", "set_len", "touch_read", "touch_write", "header",
                "capacity", "magic", "announce", "serve"}
    /\ estep \in {"announce", "serve"} => ering = "s2c"
    /\ estep \in {"set_len", "touch_read", "touch_write", "header", "capacity", "magic"} =>
          path[ering] = "new"
    /\ estep \in {"touch_read", "touch_write", "header", "capacity", "magic"} =>
          disk[EchoFile].len = Stride(esize)
    /\ estep \in {"capacity", "magic"} => disk[EchoFile].size = esize
    /\ estep = "magic" => disk[EchoFile].cap
    /\ ready => estep = "serve"

\* A ring has its magic when, and only when, all the rest has been done.
MagicIsLast ==
    \A r \in Rings : IF Done(r) THEN Complete(New(r), esize) /\ path[r] = "new"
                                ELSE disk[New(r)].word[0] = 0

\* What the client works on is the echo's own file, complete once accepted.
ClientProgress ==
    /\ cstep \in {"start", "open", "check_len", "check_header", "touch_read", "touch_write",
                "connected", "failed"}
    /\ cstep = "start" \/ early \/ ready
    /\ early => \A r \in Rings : path[r] # "old"
    /\ cstep \in {"check_len", "check_header"} => cmap[cring] = "new"
    /\ \A r \in Rings : Accepted(r) => cmap[r] = "new" /\ Done(r) /\ csize = esize

\* A page touch half done still holds the word it is about to write back.
TouchesHarmless ==
    /\ estep = "touch_write" => ereg = disk[EchoFile].word[epage]
    /\ cstep = "touch_write" => creg = disk[ClientFile].word[cpage]

\* The data words of the two rings are exactly the messages sent and echoed.
WordsAreMessages ==
    /\ csent > 0 => cstep = "connected"
    /\ \A p \in 1 .. Messages : /\ disk[New("c2s")].word[p] = 1 <=> p <= csent
                                /\ disk[New("s2c")].word[p] = 1 <=> p <= esent

SetupInvariant == EchoProgress /\ MagicIsLast /\ ClientProgress /\ TouchesHarmless
                    /\ WordsAreMessages /\ OnlyOwnEchoes

-----------------------------------------------------------------------------
(* Type correctness                                                        *)

\* A file's length in strides is a natural number.
LEMMA StrideIsNat == \A n \in Nat : Stride(n) \in Nat
  BY DEF Stride

\* Either generation of a ring is a file.
LEMMA RingFiles == \A r \in Rings : <<r, "old">> \in Files /\ <<r, "new">> \in Files
  BY DEF Files

FileType == [len : Nat, size : Nat, cap : BOOLEAN, word : [Pages -> {0, 1}]]

\* A store to one page of one file leaves the disk well-formed.
LEMMA WordStore ==
  ASSUME NEW d \in [Files -> FileType], NEW f \in Files, NEW p \in Pages, NEW v \in {0, 1}
  PROVE  [d EXCEPT ![f].word[p] = v] \in [Files -> FileType]
  BY DEF FileType

\* The file the client works on is there.
ClientHasFile ==
    cstep \in {"check_len", "check_header", "touch_read", "touch_write"} => cmap[cring] # "none"

\* Every variable keeps its type, for every number of pages and all sizes.
THEOREM SetupTypeCorrect == SetupSpec => [](SetupTypeOK /\ ClientHasFile)
<1>1. SetupInit => SetupTypeOK /\ ClientHasFile
  <2> SUFFICES ASSUME SetupInit PROVE SetupTypeOK /\ ClientHasFile
    OBVIOUS
  <2>1. disk \in [Files -> FileType]
    BY StrideIsNat, SetupAssumption DEF SetupInit, Blank, FileType
  <2>2. path \in [Rings -> {"none", "old", "new"}]
    BY DEF SetupInit
  <2>3. /\ ering \in Rings /\ cring \in Rings /\ epage \in Pages /\ cpage \in Pages
        /\ {esent, csent, crecv} \subseteq 0 .. Messages
    BY SetupAssumption DEF SetupInit, Rings, Pages
  <2>4. /\ early \in BOOLEAN /\ ready \in BOOLEAN /\ esize \in Sizes /\ csize \in Sizes
        /\ ereg \in {0, 1} /\ creg \in {0, 1}
        /\ cmap \in [Rings -> {"none", "old", "new"}] /\ ClientHasFile
    BY DEF SetupInit, ClientHasFile
  <2> QED BY <2>1, <2>2, <2>3, <2>4 DEF SetupTypeOK, FileType
<1>2. SetupTypeOK /\ ClientHasFile /\ [SetupNext]_setupVars => (SetupTypeOK /\ ClientHasFile)'
  <2> SUFFICES ASSUME SetupTypeOK, ClientHasFile, [SetupNext]_setupVars PROVE (SetupTypeOK /\ ClientHasFile)'
    OBVIOUS
  <2> USE SetupAssumption DEF SetupTypeOK, ClientHasFile, echoVars, clientVars
  <2>0. /\ disk \in [Files -> FileType]
        /\ EchoFile \in Files
        /\ cmap[cring] # "none" => ClientFile \in Files
        /\ "c2s" \in Rings /\ "s2c" \in Rings
    BY RingFiles DEF FileType, EchoFile, ClientFile, Rings
  <2>1. CASE EchoRemove \/ EchoCreate \/ EchoReady
    BY <2>1, <2>0 DEF EchoRemove, EchoCreate, EchoReady
  <2>2. CASE EchoSetLen
    <3>1. disk' \in [Files -> FileType]
      BY <2>2, <2>0, StrideIsNat DEF EchoSetLen, FileType
    <3> QED BY <2>2, <3>1, SMTT(30) DEF EchoSetLen, FileType, Pages
  <2>3. CASE EchoTouchRead
    BY <2>3, <2>0 DEF EchoTouchRead, FileType
  <2>4. CASE EchoTouchWrite
    <3>1. disk' \in [Files -> FileType]
      BY <2>4, <2>0, WordStore DEF EchoTouchWrite
    <3>2. epage' \in Pages
      BY <2>4 DEF EchoTouchWrite, Pages
    <3> QED BY <2>4, <3>1, <3>2 DEF EchoTouchWrite, FileType
  <2>5. CASE EchoWriteSize \/ EchoWriteCapacity
    <3> esize \in Nat
      OBVIOUS
    <3>1. disk' \in [Files -> FileType]
      <4>1. CASE EchoWriteSize
        BY <4>1, <2>0 DEF EchoWriteSize, FileType
      <4>2. CASE EchoWriteCapacity
        BY <4>2, <2>0 DEF EchoWriteCapacity, FileType
      <4> QED BY <2>5, <4>1, <4>2
    <3> QED BY <2>5, <3>1 DEF EchoWriteSize, EchoWriteCapacity, FileType
  <2>6. CASE EchoWriteMagic
    <3>1. disk' \in [Files -> FileType]
      <4>1. 0 \in Pages
        BY DEF Pages
      <4> QED BY <2>6, <2>0, <4>1, WordStore DEF EchoWriteMagic
    <3> QED BY <2>6, <2>0, <3>1 DEF EchoWriteMagic, FileType
  <2>7. CASE EchoServe
    <3>1. esent + 1 \in Pages
      BY <2>7 DEF EchoServe, Pages
    <3>2. disk' \in [Files -> FileType]
      BY <2>7, <2>0, <3>1, WordStore, RingFiles DEF EchoServe
    <3> QED BY <2>7, <3>2 DEF EchoServe, FileType
  <2>8. CASE ClientStart \/ ClientCheckLen
    BY <2>8 DEF ClientStart, ClientCheckLen
  <2>9. CASE ClientOpen
    BY <2>9 DEF ClientOpen
  <2>10. CASE ClientCheckHeader
    BY <2>10 DEF ClientCheckHeader, Pages
  <2>11. CASE ClientTouchRead
    BY <2>11, <2>0 DEF ClientTouchRead, FileType
  <2>12. CASE ClientTouchWrite
    <3>1. disk' \in [Files -> FileType]
      BY <2>12, <2>0, WordStore DEF ClientTouchWrite
    <3>2. cpage' \in Pages
      BY <2>12 DEF ClientTouchWrite, Pages
    <3> QED BY <2>12, <2>0, <3>1, <3>2 DEF ClientTouchWrite, FileType
  <2>13. CASE ClientSend
    <3>1. csent + 1 \in Pages /\ csent' \in 0 .. Messages
      BY <2>13 DEF ClientSend, Pages
    <3>2. disk' \in [Files -> FileType]
      <4>1. CASE <<"c2s", cmap["c2s"]>> \in Files
        BY <2>13, <2>0, <4>1, <3>1, WordStore DEF ClientSend
      <4>2. CASE <<"c2s", cmap["c2s"]>> \notin Files
        BY <2>13, <2>0, <4>2 DEF ClientSend
      <4> QED BY <4>1, <4>2
    <3> QED BY <2>13, <3>1, <3>2 DEF ClientSend, FileType
  <2>14. CASE ClientReceive
    BY <2>14 DEF ClientReceive
  <2>15. CASE UNCHANGED setupVars
    BY <2>15 DEF setupVars
  <2> QED
    BY <2>1, <2>2, <2>3, <2>4, <2>5, <2>6, <2>7, <2>8, <2>9, <2>10, <2>11, <2>12,
       <2>13, <2>14, <2>15 DEF SetupNext, Echo, Client
<1> QED BY <1>1, <1>2, PTL DEF SetupSpec

-----------------------------------------------------------------------------
(* The setup protocol                                                      *)

\* Writing back what is there changes nothing: the heart of "every touch
\* rewrites the value it just read".
LEMMA Rewrite ==
  ASSUME NEW d \in [Files -> FileType], NEW f \in Files, NEW p \in Pages
  PROVE  [d EXCEPT ![f].word[p] = d[f].word[p]] = d
  BY DEF FileType

\* The inductive invariant holds: the magic comes last, an accepted ring is done
\* with, and a touch never changes a word.
THEOREM SetupInvariantHolds == SetupSpec => []SetupInvariant
<1>1. SetupInit => SetupInvariant
  <2> SUFFICES ASSUME SetupInit PROVE SetupInvariant
    OBVIOUS
  <2>1. \A r \in Rings : disk[New(r)] = Blank
    BY RingFiles DEF SetupInit, New
  <2>2. EchoProgress /\ ClientProgress /\ TouchesHarmless
    BY DEF SetupInit, EchoProgress, ClientProgress, TouchesHarmless, Accepted
  <2>3. \A r \in Rings, p \in 0 .. Messages : disk[New(r)].word[p] = 0
    <3>1. \A p \in 0 .. Messages : Blank.word[p] = 0
      BY DEF Blank, Pages
    <3> QED BY <2>1, <3>1
  <2>4. MagicIsLast
    BY <2>3, SetupAssumption DEF SetupInit, MagicIsLast, Done
  <2>5. \A p \in 1 .. Messages : disk[New("c2s")].word[p] = 0 /\ disk[New("s2c")].word[p] = 0
    BY <2>3, SetupAssumption DEF Rings
  <2>6. WordsAreMessages /\ OnlyOwnEchoes
    BY <2>5, SetupAssumption DEF SetupInit, WordsAreMessages, OnlyOwnEchoes
  <2> QED BY <2>2, <2>4, <2>6 DEF SetupInvariant
<1>2. SetupTypeOK /\ ClientHasFile /\ SetupInvariant /\ [SetupNext]_setupVars => SetupInvariant'
  <2> SUFFICES ASSUME SetupTypeOK, ClientHasFile, SetupInvariant, [SetupNext]_setupVars
               PROVE  SetupInvariant'
    OBVIOUS
  <2> USE SetupAssumption DEF echoVars, clientVars, SetupInvariant
  <2>0. /\ disk \in [Files -> FileType]
        /\ EchoFile = New(ering) /\ EchoFile \in Files
        /\ cmap[cring] # "none" => ClientFile \in Files
        /\ ering \in Rings /\ cring \in Rings
    BY RingFiles DEF SetupTypeOK, FileType, EchoFile, ClientFile, New, Rings
  <2>1. CASE EchoRemove \/ EchoCreate \/ EchoReady \/ EchoTouchRead
    <3> USE <2>1 DEF EchoRemove, EchoCreate, EchoReady, EchoTouchRead, EchoFile, ClientFile
    <3>1. EchoProgress'
      BY <2>0 DEF EchoProgress, SetupTypeOK
    <3>2. MagicIsLast'
      BY DEF MagicIsLast, EchoProgress, Done, Complete, New, SetupTypeOK, Rings
    <3>3. ClientProgress'
      BY DEF ClientProgress, EchoProgress, Accepted, Done, SetupTypeOK, Rings
    <3>4. TouchesHarmless' /\ WordsAreMessages' /\ OnlyOwnEchoes'
      BY DEF TouchesHarmless, WordsAreMessages, OnlyOwnEchoes, New
    <3> QED BY <3>1, <3>2, <3>3, <3>4
  <2>2. CASE EchoSetLen \/ EchoWriteSize \/ EchoWriteCapacity
    <3> USE <2>2 DEF EchoSetLen, EchoWriteSize, EchoWriteCapacity
    <3>1. /\ \A f \in Files : disk'[f].word = disk[f].word
          /\ \A f \in Files : f # EchoFile => disk'[f] = disk[f]
      BY <2>0 DEF FileType
    <3>2. EchoProgress'
      <4>1. CASE EchoSetLen
        BY <2>0, <4>1 DEF EchoProgress, EchoFile, FileType
      <4>2. CASE EchoWriteSize
        BY <2>0, <4>2 DEF EchoProgress, EchoFile, FileType
      <4>3. CASE EchoWriteCapacity
        BY <2>0, <4>3 DEF EchoProgress, EchoFile, FileType
      <4> QED BY <2>2, <4>1, <4>2, <4>3
    <3>3. MagicIsLast'
      <4>1. ~Done(ering) /\ \A r \in Rings : Done(r)' <=> Done(r)
        BY DEF EchoProgress, Done
      <4>2. \A r \in Rings : Done(r) => disk'[New(r)] = disk[New(r)]
        BY <2>0, <3>1, <4>1, RingFiles DEF New
      <4>3. \A r \in Rings : disk'[New(r)].word = disk[New(r)].word
        BY <3>1, RingFiles DEF New
      <4> HIDE <2>2
      <4>4. path' = path /\ esize' = esize
        BY <2>2
      <4> QED BY <4>1, <4>2, <4>3, <4>4 DEF MagicIsLast, Complete, New
    <3>4. ClientProgress'
      BY DEF ClientProgress, EchoProgress, Accepted, Done
    <3>5. TouchesHarmless'
      BY <2>0, <3>1 DEF TouchesHarmless, ClientFile, EchoFile, ClientHasFile
    <3>6. WordsAreMessages' /\ OnlyOwnEchoes'
      BY <3>1, RingFiles DEF WordsAreMessages, OnlyOwnEchoes, New, Rings
    <3> QED BY <3>2, <3>3, <3>4, <3>5, <3>6
  <2>3. CASE EchoTouchWrite
    <3>1. disk' = disk
      BY <2>0, <2>3, Rewrite DEF EchoTouchWrite, TouchesHarmless, SetupTypeOK
    <3> USE <2>3, <3>1 DEF EchoTouchWrite, EchoFile, ClientFile
    <3>2. EchoProgress' /\ MagicIsLast'
      BY DEF EchoProgress, MagicIsLast, Done, Complete, New
    <3>3. ClientProgress'
      BY DEF ClientProgress, EchoProgress, Accepted, Done
    <3>4. TouchesHarmless' /\ WordsAreMessages' /\ OnlyOwnEchoes'
      BY DEF TouchesHarmless, WordsAreMessages, OnlyOwnEchoes, New
    <3> QED BY <3>2, <3>3, <3>4
  <2>4. CASE EchoWriteMagic
    <3> USE <2>4 DEF EchoWriteMagic
    <3>0. 0 \in Pages
      BY DEF Pages
    <3>1. /\ \A f \in Files : f # EchoFile => disk'[f] = disk[f]
          /\ disk'[EchoFile].len = disk[EchoFile].len
          /\ disk'[EchoFile].size = disk[EchoFile].size
          /\ disk'[EchoFile].cap = disk[EchoFile].cap
          /\ disk'[EchoFile].word[0] = 1
          /\ \A p \in 1 .. Messages : disk'[EchoFile].word[p] = disk[EchoFile].word[p]
      BY <2>0, <3>0 DEF FileType, Pages
    <3>2. EchoProgress'
      BY <2>0 DEF EchoProgress, Rings
    <3>3. path[ering] = "new"
      BY DEF EchoProgress
    <3>4. MagicIsLast'
      BY <2>0, <3>1, <3>3, RingFiles DEF MagicIsLast, EchoProgress, Done, Complete, New, Rings
    <3>5. ClientProgress'
      BY <2>0 DEF ClientProgress, EchoProgress, Accepted, Done, Rings
    <3>6. ~Done(ering)
      BY DEF EchoProgress, Done
    <3>7. TouchesHarmless'
      BY <2>0, <3>1, <3>6 DEF TouchesHarmless, ClientProgress, Accepted, ClientFile, ClientHasFile, New
    <3>8. WordsAreMessages' /\ OnlyOwnEchoes'
      BY <2>0, <3>1, RingFiles DEF WordsAreMessages, OnlyOwnEchoes, New, Rings
    <3> QED BY <3>2, <3>4, <3>5, <3>7, <3>8
  <2>5. CASE EchoServe
    <3> DEFINE q == esent + 1
    <3>0. q \in 1 .. Messages /\ q \in Pages /\ q # 0
      BY <2>5 DEF EchoServe, SetupTypeOK, Pages
    <3>1. disk[New("c2s")].word[q] = 1 /\ q <= csent /\ cstep = "connected"
      BY <2>5, <3>0 DEF EchoServe, WordsAreMessages, New, SetupTypeOK
    <3> HIDE DEF q
    <3>2. /\ disk' = [disk EXCEPT ![New("s2c")].word[q] = 1] /\ esent' = q
          /\ UNCHANGED <<path, early, ready, esize, estep, ering, epage, ereg, clientVars>>
      BY <2>5 DEF EchoServe, New, q
    <3>3. estep = "serve"
      BY <2>5 DEF EchoServe
    <3>4. /\ New("s2c") \in Files /\ New("c2s") \in Files /\ New("s2c") # New("c2s")
          /\ \A f \in Files : f # New("s2c") => disk'[f] = disk[f]
          /\ disk'[New("s2c")].len = disk[New("s2c")].len
          /\ disk'[New("s2c")].size = disk[New("s2c")].size
          /\ disk'[New("s2c")].cap = disk[New("s2c")].cap
          /\ \A p \in Pages : disk'[New("s2c")].word[p] =
                IF p = q THEN 1 ELSE disk[New("s2c")].word[p]
      BY <2>0, <3>0, <3>2, RingFiles DEF FileType, New, Rings
    <3>5. EchoProgress' /\ ClientProgress' /\ TouchesHarmless'
      BY <3>1, <3>2, <3>3 DEF EchoProgress, ClientProgress, TouchesHarmless, Accepted, Done
    <3>6. 0 \in Pages /\ 1 .. Messages \subseteq Pages
      BY DEF Pages
    <3>7. MagicIsLast'
      BY <3>0, <3>2, <3>3, <3>4, <3>6 DEF MagicIsLast, Complete, Done, Rings
    <3>8. esent \in Nat /\ csent \in Nat /\ crecv \in Nat /\ q = esent + 1
      BY DEF SetupTypeOK, q
    <3>9. csent' = csent /\ crecv' = crecv /\ cstep' = cstep
      BY <3>2
    <3>10. WordsAreMessages'
      BY <3>0, <3>2, <3>4, <3>6, <3>8, <3>9 DEF WordsAreMessages, New
    <3>11. OnlyOwnEchoes'
      BY <3>1, <3>2, <3>8, <3>9 DEF OnlyOwnEchoes
    <3> QED BY <3>5, <3>7, <3>10, <3>11
  <2>6. CASE ClientStart \/ ClientOpen \/ ClientCheckLen \/ ClientTouchRead
    <3> USE <2>6 DEF ClientStart, ClientOpen, ClientCheckLen, ClientTouchRead
    <3>1. EchoProgress' /\ MagicIsLast'
      BY DEF EchoProgress, MagicIsLast, Done, Complete, EchoFile
    <3>2. cstep = "open" => path[cring] # "old"
      BY <2>0 DEF ClientProgress, EchoProgress, MagicIsLast, Done
    <3>3. ClientProgress'
      BY <2>0, <3>2 DEF ClientProgress, Accepted, Done, SetupTypeOK
    <3>4. TouchesHarmless' /\ WordsAreMessages' /\ OnlyOwnEchoes'
      BY DEF TouchesHarmless, WordsAreMessages, OnlyOwnEchoes, EchoFile, ClientFile
    <3> QED BY <3>1, <3>3, <3>4
  <2>7. CASE ClientCheckHeader
    <3> USE <2>7 DEF ClientCheckHeader
    <3>1. EchoProgress' /\ MagicIsLast'
      BY DEF EchoProgress, MagicIsLast, Done, Complete, EchoFile
    <3>2. HeaderOk(disk[ClientFile]) => Done(cring) /\ csize = esize
      BY <2>0 DEF HeaderOk, ClientProgress, MagicIsLast, Complete, ClientFile, New
    <3>3. ClientProgress'
      BY <2>0, <3>2 DEF ClientProgress, Accepted, Done
    <3>4. TouchesHarmless' /\ WordsAreMessages' /\ OnlyOwnEchoes'
      BY DEF TouchesHarmless, WordsAreMessages, OnlyOwnEchoes, EchoFile
    <3> QED BY <3>1, <3>3, <3>4
  <2>8. CASE ClientTouchWrite
    <3>1. disk' = disk
      BY <2>0, <2>8, Rewrite DEF ClientTouchWrite, TouchesHarmless, SetupTypeOK, ClientHasFile
    <3> USE <2>8, <3>1 DEF ClientTouchWrite
    <3>2. EchoProgress' /\ MagicIsLast'
      BY DEF EchoProgress, MagicIsLast, Done, Complete, EchoFile
    <3>3. ClientProgress'
      BY <2>0 DEF ClientProgress, Accepted, Done, Rings
    <3>4. TouchesHarmless' /\ WordsAreMessages' /\ OnlyOwnEchoes'
      BY DEF TouchesHarmless, WordsAreMessages, OnlyOwnEchoes, EchoFile
    <3> QED BY <3>2, <3>3, <3>4
  <2>9. CASE ClientSend
    <3> DEFINE q == csent + 1
    <3>0. q \in 1 .. Messages /\ q \in Pages /\ q # 0 /\ cstep = "connected"
      BY <2>9 DEF ClientSend, MaySend, SetupTypeOK, Pages
    <3>1. \A r \in Rings : cmap[r] = "new" /\ Done(r)
      BY <3>0 DEF ClientProgress, Accepted
    <3>2. estep \in {"announce", "serve"}
      BY <3>1 DEF Done, Rings
    <3> HIDE DEF q
    <3>3. /\ disk' = [disk EXCEPT ![New("c2s")].word[q] = 1] /\ csent' = q
          /\ UNCHANGED <<path, early, ready, echoVars, csize, cstep, cring, cpage, creg, cmap, crecv>>
      BY <2>9, <3>1 DEF ClientSend, New, q, Rings
    <3>4. /\ New("s2c") \in Files /\ New("c2s") \in Files /\ New("s2c") # New("c2s")
          /\ \A f \in Files : f # New("c2s") => disk'[f] = disk[f]
          /\ disk'[New("c2s")].len = disk[New("c2s")].len
          /\ disk'[New("c2s")].size = disk[New("c2s")].size
          /\ disk'[New("c2s")].cap = disk[New("c2s")].cap
          /\ \A p \in Pages : disk'[New("c2s")].word[p] =
                IF p = q THEN 1 ELSE disk[New("c2s")].word[p]
      BY <2>0, <3>0, <3>3, RingFiles DEF FileType, New, Rings
    <3>5. EchoProgress' /\ ClientProgress' /\ TouchesHarmless'
      BY <3>0, <3>2, <3>3 DEF EchoProgress, ClientProgress, TouchesHarmless, Accepted, Done
    <3>6. 0 \in Pages /\ 1 .. Messages \subseteq Pages
      BY DEF Pages
    <3>7. MagicIsLast'
      BY <3>0, <3>2, <3>3, <3>4, <3>6 DEF MagicIsLast, Complete, Done, Rings
    <3>8. WordsAreMessages' /\ OnlyOwnEchoes'
      BY <3>0, <3>3, <3>4, <3>6 DEF WordsAreMessages, OnlyOwnEchoes, SetupTypeOK, q
    <3> QED BY <3>5, <3>7, <3>8
  <2>10. CASE ClientReceive
    <3> USE <2>10 DEF ClientReceive
    <3>1. EchoProgress' /\ MagicIsLast' /\ ClientProgress' /\ TouchesHarmless' /\ WordsAreMessages'
      BY DEF EchoProgress, MagicIsLast, ClientProgress, TouchesHarmless, WordsAreMessages,
             Accepted, Done, Complete, EchoFile, ClientFile
    <3>2. crecv + 1 \in 1 .. Messages /\ cmap["s2c"] = "new"
      BY DEF SetupTypeOK, ClientProgress, Accepted, Rings
    <3>3. OnlyOwnEchoes'
      BY <3>2 DEF OnlyOwnEchoes, WordsAreMessages, New, SetupTypeOK
    <3> QED BY <3>1, <3>3
  <2>11. CASE UNCHANGED setupVars
    BY <2>11 DEF setupVars, EchoProgress, MagicIsLast, ClientProgress, TouchesHarmless,
       WordsAreMessages, OnlyOwnEchoes, Accepted, Done, Complete, EchoFile, ClientFile
  <2> QED
    BY <2>1, <2>2, <2>3, <2>4, <2>5, <2>6, <2>7, <2>8, <2>9, <2>10, <2>11
       DEF SetupNext, Echo, Client
<1> QED BY <1>1, <1>2, SetupTypeCorrect, PTL DEF SetupSpec

\* A connected client uses the echo's own, complete rings of its own size.
THEOREM RingsAreComplete == SetupSpec => []NoHalfBuiltRing
<1>1. SetupInvariant => NoHalfBuiltRing
  BY DEF SetupInvariant, ClientProgress, MagicIsLast, Accepted, NoHalfBuiltRing, New
<1> QED BY <1>1, SetupInvariantHolds, PTL

\* No page touch of either process undoes a message.
THEOREM StoresSurvive == SetupSpec => []NoLostStore
<1>1. SetupTypeOK /\ SetupInvariant => NoLostStore
  <2> SUFFICES ASSUME SetupTypeOK, SetupInvariant PROVE NoLostStore
    OBVIOUS
  <2>1. csent \in 0 .. Messages /\ esent \in 0 .. Messages
    BY DEF SetupTypeOK
  <2>2. csent > 0 => cmap["c2s"] = "new"
    BY DEF SetupInvariant, WordsAreMessages, ClientProgress, Accepted, Rings
  <2> QED BY <2>1, <2>2, SetupAssumption DEF SetupInvariant, WordsAreMessages, NoLostStore, New
<1> QED BY <1>1, SetupTypeCorrect, SetupInvariantHolds, PTL

\* Every echo received was sent in this run.
THEOREM EchoesAreOwn == SetupSpec => []OnlyOwnEchoes
<1>1. SetupInvariant => OnlyOwnEchoes
  BY DEF SetupInvariant
<1> QED BY <1>1, SetupInvariantHolds, PTL
=============================================================================
