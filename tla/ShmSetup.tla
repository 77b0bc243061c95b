------------------------------ MODULE ShmSetup ------------------------------
(***************************************************************************)
(* How the two processes of the shared-memory backend come to share their  *)
(* two rings (src/crates/backend-shm/src/lib.rs: echo, connect,            *)
(* Ring::create, Ring::open_existing, prefault).                           *)
(*                                                                         *)
(* The echo process replaces whatever is at the two paths, and for each    *)
(* ring creates the file, sizes it, touches every page and writes the      *)
(* header, magic last; then it announces READY.  The client opens each     *)
(* file, checks length and header and touches every page too.  A touch is  *)
(* a read and a write of the page's first word, two steps: it could undo   *)
(* a store the other process makes in between.  That word is the magic on  *)
(* page 0 and, on the others, ring data: the stamp of slot 0 is the first  *)
(* word of page 1 (HEADER_BYTES is one page), and stands here for all of   *)
(* them.  Page p carries message p of each direction.                      *)
(***************************************************************************)
EXTENDS Integers

CONSTANTS
    Messages,   \* messages echoed, one per data page
    Sizes       \* the --size values either side may have been given

ASSUME SetupAssumption == Messages \in Nat \ {0} /\ Sizes \subseteq Nat \ {0}

Rings == {"c2s", "s2c"}
Pages == 0 .. Messages
Files == Rings \X {"old", "new"}     \* a left-over file, the echo's own

VARIABLES
    path,    \* ring -> what its path names: "none", "old" or "new"
    disk,    \* file -> [len, size, cap, word]
    early,   \* the client does not wait for READY
    ready,   \* READY was printed
    esize,   \* echo: msg_size
    estep, ering, epage, ereg, \* echo: step, ring, page, value read
    esent,   \* echo: messages echoed
    csize,   \* client: msg_size
    cstep, cring, cpage, creg, \* client: step, ring, page, value read
    cmap,    \* client: ring -> the file it mapped
    csent, crecv               \* client: messages sent, echoes received

echoVars   == <<esize, estep, ering, epage, ereg, esent>>
clientVars == <<csize, cstep, cring, cpage, creg, cmap, csent, crecv>>
setupVars  == <<path, disk, early, ready, echoVars, clientVars>>

\* Ring::layout: the slot stride, in cache lines, decides the file's length.
Stride(size) == (8 + size + 63) \div 64

\* The words of a fresh, zero-filled file; word[0] is the magic.
Blank == [len |-> 0, size |-> 0, cap |-> FALSE, word |-> [p \in Pages |-> 0]]

Complete(f, size) == /\ disk[f].len = Stride(size) /\ disk[f].size = size
                     /\ disk[f].cap /\ disk[f].word[0] = 1

SetupInit ==
    /\ esize \in Sizes /\ csize \in Sizes
    /\ early \in BOOLEAN
    \* An earlier run may have left complete, used rings at the same paths; a
    \* client that does not wait for READY is pointed at fresh paths.
    /\ \/ path = [r \in Rings |-> "none"]
       \/ path = [r \in Rings |-> "old"] /\ ~early
    /\ disk = [f \in Files |->
                 IF f[2] = "old"
                   THEN [len |-> Stride(csize), size |-> csize, cap |-> TRUE,
                         word |-> [p \in Pages |-> 1]]
                   ELSE Blank]
    /\ ready = FALSE
    /\ estep = "remove" /\ ering = "c2s" /\ epage = 0 /\ ereg = 0 /\ esent = 0
    /\ cstep = "start" /\ cring = "c2s" /\ cpage = 0 /\ creg = 0
    /\ cmap = [r \in Rings |-> "none"]
    /\ csent = 0 /\ crecv = 0

-----------------------------------------------------------------------------
(* The echo process: Ring::create for each ring, then READY, then echo      *)

EchoFile == <<ering, "new">>

EchoRemove ==
    /\ estep = "remove"
    /\ path' = [path EXCEPT ![ering] = "none"]
    /\ estep' = "create"
    /\ UNCHANGED <<disk, early, ready, esize, ering, epage, ereg, esent, clientVars>>

EchoCreate ==
    /\ estep = "create"
    /\ path' = [path EXCEPT ![ering] = "new"]
    /\ estep' = "set_len"
    /\ UNCHANGED <<disk, early, ready, esize, ering, epage, ereg, esent, clientVars>>

\* Mutant of EchoSetLen: the file is not zero-filled.
EchoSetLenDirty ==
    /\ estep = "set_len"
    /\ disk' = [disk EXCEPT ![EchoFile].len = Stride(esize),
                            ![EchoFile].word = [p \in Pages |-> 1]]
    /\ estep' = "touch_read" /\ epage' = 0
    /\ UNCHANGED <<path, early, ready, esize, ering, ereg, esent, clientVars>>

EchoSetLen ==
    /\ estep = "set_len"
    /\ disk' = [disk EXCEPT ![EchoFile].len = Stride(esize)]
    /\ estep' = "touch_read" /\ epage' = 0
    /\ UNCHANGED <<path, early, ready, esize, ering, ereg, esent, clientVars>>

EchoTouchRead ==
    /\ estep = "touch_read"
    /\ ereg' = disk[EchoFile].word[epage]
    /\ estep' = "touch_write"
    /\ UNCHANGED <<path, disk, early, ready, esize, ering, epage, esent, clientVars>>

EchoTouchWrite ==
    /\ estep = "touch_write"
    /\ disk' = [disk EXCEPT ![EchoFile].word[epage] = ereg]
    /\ IF epage < Messages THEN estep' = "touch_read" /\ epage' = epage + 1
                           ELSE estep' = "header" /\ epage' = epage
    /\ UNCHANGED <<path, early, ready, esize, ering, ereg, esent, clientVars>>

\* The three header stores, in program order.
EchoWriteSize ==
    /\ estep = "header"
    /\ disk' = [disk EXCEPT ![EchoFile].size = esize]
    /\ estep' = "capacity"
    /\ UNCHANGED <<path, early, ready, esize, ering, epage, ereg, esent, clientVars>>

EchoWriteCapacity ==
    /\ estep = "capacity"
    /\ disk' = [disk EXCEPT ![EchoFile].cap = TRUE]
    /\ estep' = "magic"
    /\ UNCHANGED <<path, early, ready, esize, ering, epage, ereg, esent, clientVars>>

EchoWriteMagic ==
    /\ estep = "magic"
    /\ disk' = [disk EXCEPT ![EchoFile].word[0] = 1]
    /\ IF ering = "c2s" THEN ering' = "s2c" /\ estep' = "remove"
                        ELSE ering' = ering /\ estep' = "announce"
    /\ UNCHANGED <<path, early, ready, esize, epage, ereg, esent, clientVars>>

EchoReady ==
    /\ estep = "announce"
    /\ ready' = TRUE
    /\ estep' = "serve"
    /\ UNCHANGED <<path, disk, early, esize, ering, epage, ereg, esent, clientVars>>

\* One turn of the echo loop: message esent+1 is there; send it back.
EchoServe ==
    /\ estep = "serve" /\ esent < Messages
    /\ disk[<<"c2s", "new">>].word[esent + 1] = 1
    /\ disk' = [disk EXCEPT ![<<"s2c", "new">>].word[esent + 1] = 1]
    /\ esent' = esent + 1
    /\ UNCHANGED <<path, early, ready, esize, estep, ering, epage, ereg, clientVars>>

-----------------------------------------------------------------------------
(* The client: Ring::open_existing for each ring, then send and receive     *)

ClientFile == <<cring, cmap[cring]>>

\* The orchestrator connects after the READY line; a user's own rtt may not.
ClientStart ==
    /\ cstep = "start"
    /\ ready \/ early
    /\ cstep' = "open"
    /\ UNCHANGED <<path, disk, early, ready, echoVars, csize, cring, cpage, creg, cmap, csent, crecv>>

ClientOpen ==
    /\ cstep = "open"
    /\ cmap' = [cmap EXCEPT ![cring] = path[cring]]
    /\ cstep' = IF path[cring] = "none" THEN "failed" ELSE "check_len"
    /\ UNCHANGED <<path, disk, early, ready, echoVars, csize, cring, cpage, creg, csent, crecv>>

ClientCheckLen ==
    /\ cstep = "check_len"
    /\ cstep' = IF disk[ClientFile].len = Stride(csize) THEN "check_header" ELSE "failed"
    /\ UNCHANGED <<path, disk, early, ready, echoVars, csize, cring, cpage, creg, cmap, csent, crecv>>

\* Mutant of HeaderOk: one header word is checked, not three.
HeaderSizeOnly(h) == h.size = csize

\* The header the client accepts.
HeaderOk(h) == h.word[0] = 1 /\ h.size = csize /\ h.cap

ClientCheckHeader ==
    /\ cstep = "check_header"
    /\ cstep' = IF HeaderOk(disk[ClientFile]) THEN "touch_read" ELSE "failed"
    /\ cpage' = 0
    /\ UNCHANGED <<path, disk, early, ready, echoVars, csize, cring, creg, cmap, csent, crecv>>

ClientTouchRead ==
    /\ cstep = "touch_read"
    /\ creg' = disk[ClientFile].word[cpage]
    /\ cstep' = "touch_write"
    /\ UNCHANGED <<path, disk, early, ready, echoVars, csize, cring, cpage, cmap, csent, crecv>>

ClientTouchWrite ==
    /\ cstep = "touch_write"
    /\ disk' = [disk EXCEPT ![ClientFile].word[cpage] = creg]
    /\ IF cpage < Messages
         THEN cstep' = "touch_read" /\ cpage' = cpage + 1 /\ cring' = cring
         ELSE IF cring = "c2s"
           THEN cstep' = "open" /\ cpage' = cpage /\ cring' = "s2c"
           ELSE cstep' = "connected" /\ cpage' = cpage /\ cring' = cring
    /\ UNCHANGED <<path, early, ready, echoVars, csize, creg, cmap, csent, crecv>>

\* Mutant of MaySend: sending may start while the second ring is being opened.
MaySendEarly == cstep = "connected" \/ cring = "s2c"

\* The scenario sends only on what connect() returned.
MaySend == cstep = "connected"

ClientSend ==
    /\ MaySend /\ csent < Messages
    /\ disk' = [disk EXCEPT ![<<"c2s", cmap["c2s"]>>].word[csent + 1] = 1]
    /\ csent' = csent + 1
    /\ UNCHANGED <<path, early, ready, echoVars, csize, cstep, cring, cpage, creg, cmap, crecv>>

ClientReceive ==
    /\ cstep = "connected" /\ crecv < Messages
    /\ disk[<<"s2c", cmap["s2c"]>>].word[crecv + 1] = 1
    /\ crecv' = crecv + 1
    /\ UNCHANGED <<path, disk, early, ready, echoVars, csize, cstep, cring, cpage, creg, cmap, csent>>

-----------------------------------------------------------------------------
Echo == EchoRemove \/ EchoCreate \/ EchoSetLen \/ EchoTouchRead \/ EchoTouchWrite
          \/ EchoWriteSize \/ EchoWriteCapacity \/ EchoWriteMagic \/ EchoReady
          \/ EchoServe

Client == ClientStart \/ ClientOpen \/ ClientCheckLen \/ ClientCheckHeader
            \/ ClientTouchRead \/ ClientTouchWrite \/ ClientSend \/ ClientReceive

SetupNext == Echo \/ Client

SetupSpec == SetupInit /\ [][SetupNext]_setupVars

-----------------------------------------------------------------------------
(* Properties                                                              *)

SetupTypeOK ==
    /\ path \in [Rings -> {"none", "old", "new"}]
    /\ disk \in [Files -> [len : Nat, size : Nat, cap : BOOLEAN, word : [Pages -> {0, 1}]]]
    /\ early \in BOOLEAN /\ ready \in BOOLEAN
    /\ esize \in Sizes /\ csize \in Sizes
    /\ ering \in Rings /\ cring \in Rings /\ epage \in Pages /\ cpage \in Pages
    /\ ereg \in {0, 1} /\ creg \in {0, 1}
    /\ cmap \in [Rings -> {"none", "old", "new"}]
    /\ {esent, csent, crecv} \subseteq 0 .. Messages

\* A client that gets past connect(), even one that did not wait for READY,
\* has mapped the echo's own two files, both complete and of its own message
\* size, also where another size gives files of the same length (lib.rs:17-19:
\* "the connecting side never observes a half-built ring").
NoHalfBuiltRing ==
    cstep = "connected" =>
        \A r \in Rings : cmap[r] = "new" /\ Complete(<<r, "new">>, csize)

\* No page touch of either side undoes a message the other has stored: what
\* was sent stays in the ring (lib.rs:160-161: "Safe to run concurrently with
\* a quiet peer").
NoLostStore ==
    /\ \A p \in 1 .. csent : disk[<<"c2s", cmap["c2s"]>>].word[p] = 1
    /\ \A p \in 1 .. esent : disk[<<"s2c", "new">>].word[p] = 1

\* No echo is received that the echo process did not send: the client never
\* takes a message of an earlier run for an echo of its own.
OnlyOwnEchoes == crecv <= esent /\ esent <= csent
=============================================================================
