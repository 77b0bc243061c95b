----------------------------- MODULE StreamEcho -----------------------------
(***************************************************************************)
(* The TCP and Unix-socket backends                                        *)
(* (src/crates/backend-sockets/src/stream.rs, tcp.rs, uds.rs): fixed-size  *)
(* messages over a byte stream, framed by length alone.                    *)
(*                                                                         *)
(* Four parties: the sending thread (write_all), the echo process          *)
(* (echo_loop), the receiving thread (StreamReceiver::recv with a read     *)
(* timeout) and, between them, two kernel buffers of bounded size.  A      *)
(* message is Chunks pieces; a read or write moves one piece, so every     *)
(* partial read and write is a state.  A piece is <<message, index>>.      *)
(***************************************************************************)
EXTENDS Integers, Sequences, SequencesExt

CONSTANTS
    Msgs,          \* messages of the run
    Chunks,        \* pieces of one message
    Buffer,        \* pieces a kernel buffer holds, per direction
    StallWindows,  \* bound: read timeouts the peer causes inside one message
    MayDie         \* may the echo process be killed?

ASSUME StreamAssumption ==
    /\ {Msgs, Chunks, Buffer} \subseteq Nat \ {0}
    /\ StallWindows \in Nat /\ MayDie \in BOOLEAN

VARIABLES
    c2s, s2c,      \* the kernel buffers
    dead,          \* the echo process is gone, its socket closed
    spc, sent, spart,       \* sender: "send", "done", "failed"; whole messages
                            \* written; pieces of the next one written
    epc, ebuf, eput,        \* echo: "read", "write", "gone"; its buffer;
                            \* pieces of it written back
    rpc, rbuf, rtimeouts,   \* receiver: "recv", "done", "quiet" (a timeout ended
                            \* it), "closed", "failed"; the pieces in hand;
                            \* timeouts_mid_message
    received, got           \* receiver: messages received, the last of them

buffers  == <<c2s, s2c, dead>>
sender   == <<spc, sent, spart>>
echo     == <<epc, ebuf, eput>>
receiver == <<rpc, rbuf, rtimeouts, received, got>>
vars     == <<buffers, sender, echo, receiver>>

Pieces == 1 .. Chunks

Init ==
    /\ c2s = <<>> /\ s2c = <<>> /\ dead = FALSE
    /\ spc = "send" /\ sent = 0 /\ spart = 0
    /\ epc = "read" /\ ebuf = <<>> /\ eput = 0
    /\ rpc = "recv" /\ rbuf = <<>> /\ rtimeouts = 0
    /\ received = 0 /\ got = [k \in Pieces |-> -1]

-----------------------------------------------------------------------------
(* StreamSender::send: write_all, no write timeout                          *)

\* One piece is written; the last piece of a message ends its send().
CountPiece ==
    IF spart + 1 < Chunks
      THEN spart' = spart + 1 /\ UNCHANGED <<spc, sent>>
      ELSE /\ spart' = 0 /\ sent' = sent + 1
           /\ spc' = IF sent' = Msgs THEN "done" ELSE "send"

SendPiece ==
    /\ spc = "send"
    /\ ~dead /\ Len(c2s) < Buffer
    /\ c2s' = Append(c2s, <<sent, spart + 1>>)
    /\ CountPiece
    /\ UNCHANGED <<s2c, dead, echo, receiver>>

\* The peer is gone: the kernel may still take the bytes, or report it.
SendToDead ==
    /\ spc = "send" /\ dead
    /\ \/ CountPiece
       \/ spc' = "failed" /\ UNCHANGED <<sent, spart>>
    /\ UNCHANGED <<buffers, echo, receiver>>

-----------------------------------------------------------------------------
(* echo_loop                                                                *)

EchoRead ==
    /\ epc = "read"
    /\ c2s # <<>>
    /\ ebuf' = Append(ebuf, Head(c2s))
    /\ c2s' = Tail(c2s)
    /\ epc' = IF Len(ebuf') = Chunks THEN "write" ELSE "read"
    /\ UNCHANGED <<s2c, dead, eput, sender, receiver>>

EchoWrite ==
    /\ epc = "write"
    /\ Len(s2c) < Buffer
    /\ s2c' = Append(s2c, ebuf[eput + 1])
    /\ IF eput + 1 < Chunks
         THEN eput' = eput + 1 /\ UNCHANGED <<epc, ebuf>>
         ELSE epc' = "read" /\ ebuf' = <<>> /\ eput' = 0
    /\ UNCHANGED <<c2s, dead, sender, receiver>>

\* Killed: what it had written may be lost from some point on (a reset).
EchoDies ==
    /\ MayDie /\ ~dead
    /\ dead' = TRUE
    /\ epc' = "gone"
    /\ c2s' = <<>>
    /\ \E n \in 0 .. Len(s2c) : s2c' = SubSeq(s2c, 1, n)
    /\ UNCHANGED <<ebuf, eput, sender, receiver>>

-----------------------------------------------------------------------------
(* StreamReceiver::recv, called until Msgs messages have been received      *)

RecvPiece ==
    /\ rpc = "recv"
    /\ s2c # <<>>
    /\ Len(rbuf) + 1 < Chunks
    /\ rbuf' = Append(rbuf, Head(s2c))
    /\ s2c' = Tail(s2c)
    /\ UNCHANGED <<c2s, dead, rpc, rtimeouts, received, got, sender, echo>>

\* The buffer is full: recv() returns Msg.
RecvMsg ==
    /\ rpc = "recv"
    /\ s2c # <<>>
    /\ Len(rbuf) + 1 = Chunks
    /\ LET whole == Append(rbuf, Head(s2c))
       IN  got' = [k \in Pieces |-> IF whole[k][2] = k THEN whole[k][1] ELSE -1]
    /\ s2c' = Tail(s2c)
    /\ rbuf' = <<>> /\ rtimeouts' = 0
    /\ received' = received + 1
    /\ rpc' = IF received' = Msgs THEN "done" ELSE "recv"
    /\ UNCHANGED <<c2s, dead, sender, echo>>

\* Mutant of RecvTimedOut: a quiet peer is taken for one that has closed.
RecvTimedOutCloses ==
    /\ rpc = "recv"
    /\ s2c = <<>> /\ ~dead
    /\ rbuf = <<>>
    /\ rpc' = "closed"
    /\ UNCHANGED <<buffers, rbuf, rtimeouts, received, got, sender, echo>>

\* A read timeout with nothing in hand: recv() returns TimedOut.  The receive
\* thread calls it again or, once tx_done is set, takes the run to be over.  The
\* flag is stored some time after the last piece was written.
RecvTimedOut ==
    /\ rpc = "recv"
    /\ s2c = <<>> /\ ~dead
    /\ rbuf = <<>>
    /\ rtimeouts' = 0
    /\ rpc' \in IF spc = "done" THEN {"recv", "quiet"} ELSE {"recv"}
    /\ UNCHANGED <<buffers, rbuf, received, got, sender, echo>>

\* Mutant of RecvStalled: any timeout returns TimedOut, half a message or not.
RecvStalledForgets ==
    /\ rpc = "recv"
    /\ s2c = <<>> /\ ~dead
    /\ rbuf # <<>>
    /\ rbuf' = <<>>
    /\ UNCHANGED <<buffers, rpc, rtimeouts, received, got, sender, echo>>

\* Mutant of RecvStalled: no second window.
RecvStalledStrict ==
    /\ rpc = "recv"
    /\ s2c = <<>> /\ ~dead
    /\ rbuf # <<>> /\ rtimeouts < StallWindows
    /\ rtimeouts' = rtimeouts + 1
    /\ rpc' = "failed"
    /\ UNCHANGED <<buffers, rbuf, received, got, sender, echo>>

\* A read timeout inside a message: the first is forgiven, the second is an
\* error.
RecvStalled ==
    /\ rpc = "recv"
    /\ s2c = <<>> /\ ~dead
    /\ rbuf # <<>> /\ rtimeouts < StallWindows
    /\ rtimeouts' = rtimeouts + 1
    /\ rpc' = IF rtimeouts' > 1 THEN "failed" ELSE "recv"
    /\ UNCHANGED <<buffers, rbuf, received, got, sender, echo>>

\* Mutant of RecvEof: Ok(0) is taken for a read that moved nothing.
RecvEofIgnored ==
    /\ rpc = "recv"
    /\ s2c = <<>> /\ dead
    /\ rtimeouts' = 0
    /\ UNCHANGED <<buffers, rpc, rbuf, received, got, sender, echo>>

\* End of file, or a reset: Closed between two messages, else an error.
RecvEof ==
    /\ rpc = "recv"
    /\ s2c = <<>> /\ dead
    /\ rpc' \in IF rbuf = <<>> THEN {"closed", "failed"} ELSE {"failed"}
    /\ UNCHANGED <<buffers, rbuf, rtimeouts, received, got, sender, echo>>

-----------------------------------------------------------------------------
Sender   == SendPiece \/ SendToDead
Echo     == EchoRead \/ EchoWrite
Receiver == RecvPiece \/ RecvMsg \/ RecvTimedOut \/ RecvStalled \/ RecvEof

\* The exchange is over when both threads are.
Over == spc # "send" /\ rpc # "recv" /\ UNCHANGED vars

Next == Sender \/ Echo \/ EchoDies \/ Receiver \/ Over

Spec == Init /\ [][Next]_vars

\* Threads and processes that can go on do; a receiver that can read reads.
FairSpec == /\ Spec
            /\ WF_vars(Sender) /\ WF_vars(Echo)
            /\ WF_vars(RecvPiece \/ RecvMsg \/ RecvEof)

-----------------------------------------------------------------------------
(* Properties                                                              *)

IsPiece(p) == p \in (0 .. Msgs - 1) \X Pieces

TypeOK ==
    /\ \A q \in {c2s, s2c} : Len(q) <= Buffer /\ \A i \in DOMAIN q : IsPiece(q[i])
    /\ dead \in BOOLEAN
    /\ spc \in {"send", "done", "failed"} /\ sent \in 0 .. Msgs /\ spart \in 0 .. Chunks - 1
    /\ epc \in {"read", "write", "gone"} /\ Len(ebuf) <= Chunks /\ eput \in 0 .. Chunks - 1
    /\ rpc \in {"recv", "done", "quiet", "closed", "failed"}
    /\ Len(rbuf) < Chunks /\ rtimeouts \in 0 .. StallWindows
    /\ received \in 0 .. Msgs
    /\ got \in [Pieces -> -1 .. Msgs - 1]

\* The run's nth piece, counted from 0 over all messages.
PieceAt(n) == <<n \div Chunks, (n % Chunks) + 1>>

\* Framing survives every partial read, partial write, timeout and death: what
\* has not been received lies in the two buffers and the two processes'
\* hands in order, without a gap, and starts where the receiver stands.
Ahead == rbuf \o s2c \o SubSeq(ebuf, eput + 1, Len(ebuf)) \o c2s
FramingIntact ==
    LET first == received * Chunks
    IN  /\ TypeOK
        /\ ~dead => /\ Len(Ahead) = sent * Chunks + spart - first
                    /\ \A i \in DOMAIN Ahead : Ahead[i] = PieceAt(first + i - 1)

\* To its two users the connection is a FIFO: every message received is whole,
\* in order, and was sent; nothing is received twice.
Fifo == INSTANCE SpscFifo WITH Capacity <- Msgs, Words <- Pieces,
                               taken <- received, out <- got
ImplementsFifo == Fifo!Spec

\* The receive thread always comes to an end: with all the messages, after a
\* silence that followed the last send or, when the peer is gone, with a close or
\* an error.
ReceiverEnds == <>(rpc # "recv")

\* With a peer that lives and stalls for at most one timeout window inside any
\* message, every message comes back, except where the peer is silent for a whole
\* timeout after the last send, between two messages: what is still on its way
\* is then given up (scenario.rs:109 has it "never coming").
AllReturned ==
    /\ [](rpc = "quiet" => spc = "done" /\ rbuf = <<>>)
    /\ <>(received = Msgs \/ dead \/ rtimeouts > 1 \/ rpc = "quiet")

\* The sender, whose write_all has no timeout, comes to its end as long as the
\* receive thread has not failed.  If it has, nobody reads the connection any
\* more, and echo and sender may block on full buffers for good (scenario.rs:7
\* goes further: "Sends are never gated on responses").
SenderEnds == <>(spc # "send" \/ rpc = "failed")
=============================================================================
