---------------------------- MODULE Streams_proofs ----------------------------
(***************************************************************************)
(* Proofs about the two backends that carry messages in streams: the       *)
(* framed byte stream of tcp and uds (StreamEcho), and the two Redis       *)
(* streams (RedisStream).                                                  *)
(***************************************************************************)
EXTENDS StreamEcho, RedisStream, SequenceTheorems, TLAPS

-----------------------------------------------------------------------------
(***************************************************************************)
(* Why framing survives and the connection is a FIFO, for every number of  *)
(* messages, pieces and stalls and every buffer.  The pieces ahead of the  *)
(* receiver are one line: in its own hand, in the kernel's buffer, in the  *)
(* echo's hand and in the other buffer.  A read or a write moves the first *)
(* piece of one part to the end of the part before it, and a piece's       *)
(* number in the run follows from its place in the line alone.  When the   *)
(* echo process dies the line breaks; what lies on the receiver's side of  *)
(* the break is still a beginning of it.                                   *)
(***************************************************************************)

(* Pieces and their numbers                                                *)

Number(m, k) == m * Chunks + k

LEMMA ChunksType == Msgs \in Nat /\ Msgs > 0 /\ Chunks \in Nat /\ Chunks > 0 /\ Buffer \in Nat
  BY StreamAssumption DEF StreamAssumption

\* Piece k + 1 of message m, by its number and back.
LEMMA PieceOf ==
  ASSUME NEW m \in Nat, NEW k \in 0 .. Chunks - 1
  PROVE  Number(m, k) \in Nat /\ PieceAt(Number(m, k)) = <<m, k + 1>>
<1>1. \A C \in Nat : C > 0 /\ k < C => (m * C + k) \div C = m /\ (m * C + k) % C = k
  OBVIOUS
<1>2. m * Chunks + k \in Nat
  BY ChunksType
<1> QED BY <1>1, <1>2, ChunksType DEF Number, PieceAt

LEMMA PieceType ==
  ASSUME NEW n \in Nat
  PROVE  /\ PieceAt(n) \in Nat \X Nat
         /\ \A m \in Nat : n < Number(m, 0) => PieceAt(n) \in (0 .. m - 1) \X Pieces
<1>1. \A C \in Nat : C > 0 => n \div C \in Nat /\ n % C \in 0 .. C - 1
  OBVIOUS
<1>2. \A C, m \in Nat : C > 0 /\ n < m * C => n \div C < m
  OBVIOUS
<1>3. n \div Chunks \in Nat /\ n % Chunks \in 0 .. Chunks - 1
  BY <1>1, ChunksType
<1>4. ASSUME NEW m \in Nat, n < Number(m, 0) PROVE n \div Chunks \in 0 .. m - 1
  <2>1. n < m * Chunks
    BY <1>4, ChunksType DEF Number
  <2>2. n \div Chunks < m
    BY <1>2, <2>1, ChunksType
  <2> QED BY <1>3, <2>2
<1>5. (n % Chunks) + 1 \in Pieces
  BY <1>3, ChunksType DEF Pieces
<1>6. PieceAt(n) \in Nat \X Nat
  BY <1>3, ChunksType DEF PieceAt
<1> QED BY <1>4, <1>5, <1>6 DEF PieceAt

\* Numbers count pieces: the last piece of a message is followed by the next
\* message's first, and whole messages are compared by their first pieces.
LEMMA NumberSteps ==
  ASSUME NEW m \in Nat, NEW k \in 0 .. Chunks - 1
  PROVE  /\ Number(m, k) \in Nat
         /\ Number(m, k) + 1 = Number(m, k + 1)
         /\ k + 1 = Chunks => Number(m, k) + 1 = Number(m + 1, 0)
         /\ Number(m, 0) + Chunks = Number(m + 1, 0)
         /\ Number(m, 0) + k = Number(m, k)
         /\ \A n \in Nat : Number(n, 0) + Chunks <= Number(m, k) => n < m
         /\ \A n \in Nat : m < n => Number(m, k) < Number(n, 0)
<1>1. \A C \in Nat : /\ m * C + k \in Nat
                     /\ (m * C + k) + 1 = m * C + (k + 1)
                     /\ k + 1 = C => (m * C + k) + 1 = (m + 1) * C + 0
                     /\ (m * C + 0) + C = (m + 1) * C + 0
                     /\ (m * C + 0) + k = m * C + k
  OBVIOUS
<1>2. \A C, n \in Nat : C > 0 /\ k < C /\ (n * C + 0) + C <= m * C + k => n < m
  OBVIOUS
<1>3. \A C, n \in Nat : C > 0 /\ k < C /\ m < n => m * C + k < n * C + 0
  OBVIOUS
<1> QED BY <1>1, <1>2, <1>3, ChunksType DEF Number

-----------------------------------------------------------------------------
(* Runs of consecutive pieces                                              *)

Parts == Seq(Nat \X Nat)

\* q is the pieces of the run from the nth on.
From(q, n) == \A i \in 1 .. Len(q) : q[i] = PieceAt(n + i - 1)

LEMMA FromTail ==
  ASSUME NEW q \in Parts, q # <<>>, NEW n \in Nat, From(q, n)
  PROVE  /\ Tail(q) \in Parts /\ Len(Tail(q)) = Len(q) - 1 /\ Len(q) \in Nat /\ Len(q) > 0
         /\ Head(q) \in Nat \X Nat /\ Head(q) = PieceAt(n)
         /\ From(Tail(q), n + 1)
<1>1. Tail(q) \in Parts /\ Len(Tail(q)) = Len(q) - 1 /\ Len(q) \in Nat /\ Len(q) > 0
        /\ Head(q) = q[1] /\ Head(q) \in Nat \X Nat
  BY DEF Parts
<1>2. ASSUME NEW i \in 1 .. Len(Tail(q)) PROVE Tail(q)[i] = PieceAt((n + 1) + i - 1)
  <2>1. Tail(q)[i] = q[i + 1] /\ i + 1 \in 1 .. Len(q)
    BY <1>1 DEF Parts
  <2>2. n + (i + 1) - 1 = (n + 1) + i - 1
    BY <1>1
  <2> QED BY <2>1, <2>2 DEF From
<1>3. q[1] = PieceAt(n)
  <2>1. 1 \in 1 .. Len(q) /\ n + 1 - 1 = n
    BY <1>1
  <2> QED BY <2>1 DEF From
<1> QED BY <1>1, <1>2, <1>3 DEF From

LEMMA FromAppend ==
  ASSUME NEW q \in Parts, NEW n \in Nat, From(q, n), NEW x \in Nat \X Nat,
         x = PieceAt(n + Len(q))
  PROVE  /\ Append(q, x) \in Parts /\ Len(Append(q, x)) = Len(q) + 1 /\ Len(q) \in Nat
         /\ From(Append(q, x), n)
<1>1. /\ Append(q, x) \in Parts /\ Len(Append(q, x)) = Len(q) + 1 /\ Len(q) \in Nat
      /\ \A i \in 1 .. Len(q) : Append(q, x)[i] = q[i]
      /\ Append(q, x)[Len(q) + 1] = x
  BY DEF Parts
<1>2. n + (Len(q) + 1) - 1 = n + Len(q)
  BY <1>1
<1>3. ASSUME NEW i \in 1 .. Len(q) + 1 PROVE Append(q, x)[i] = PieceAt(n + i - 1)
  <2>1. i \in 1 .. Len(q) \/ i = Len(q) + 1
    BY <1>1
  <2> QED BY <1>1, <1>2, <2>1 DEF From
<1> QED BY <1>1, <1>3 DEF From

LEMMA FromConcat ==
  ASSUME NEW a \in Parts, NEW b \in Parts, NEW n \in Nat, From(a, n), From(b, n + Len(a))
  PROVE  /\ a \o b \in Parts /\ Len(a \o b) = Len(a) + Len(b)
         /\ From(a \o b, n)
<1>1. /\ a \o b \in Parts /\ Len(a \o b) = Len(a) + Len(b) /\ Len(a) \in Nat /\ Len(b) \in Nat
      /\ \A i \in 1 .. Len(a) : (a \o b)[i] = a[i]
  BY DEF Parts
<1>2. ASSUME NEW i \in 1 .. Len(a \o b), i > Len(a)
      PROVE  (a \o b)[i] = PieceAt(n + i - 1)
  <2>1. i - Len(a) \in 1 .. Len(b) /\ (a \o b)[i] = b[i - Len(a)]
    BY <1>1, <1>2 DEF Parts
  <2>2. (n + Len(a)) + (i - Len(a)) - 1 = n + i - 1
    BY <1>1
  <2> QED BY <2>1, <2>2 DEF From
<1>3. ASSUME NEW i \in 1 .. Len(a \o b), ~(i > Len(a))
      PROVE  (a \o b)[i] = PieceAt(n + i - 1)
  <2>1. i \in 1 .. Len(a)
    BY <1>1, <1>3
  <2> QED BY <1>1, <2>1 DEF From
<1> QED BY <1>1, <1>2, <1>3 DEF From

LEMMA FromPrefix ==
  ASSUME NEW q \in Parts, NEW n \in Nat, From(q, n), NEW k \in 0 .. Len(q)
  PROVE  SubSeq(q, 1, k) \in Parts /\ Len(SubSeq(q, 1, k)) = k /\ From(SubSeq(q, 1, k), n)
<1>1. SubSeq(q, 1, k) \in Parts /\ Len(SubSeq(q, 1, k)) = k
        /\ \A i \in 1 .. k : SubSeq(q, 1, k)[i] = q[i] /\ i \in 1 .. Len(q)
  BY DEF Parts
<1> QED BY <1>1 DEF From

-----------------------------------------------------------------------------
(* The line                                                                *)

\* The receiver's hand r and the buffer b before it, from the receiver's next
\* message on; n is the number of the first piece not yet written.
Beginning(r, b, first, n) ==
    /\ From(r, first) /\ From(b, first + Len(r))
    /\ first + Len(r) + Len(b) <= n

\* The same two, the echo's hand e and the buffer c, without a gap.
Line(r, b, e, c, first, n) ==
    /\ From(r, first) /\ From(b, first + Len(r))
    /\ From(e, first + Len(r) + Len(b)) /\ From(c, first + Len(r) + Len(b) + Len(e))
    /\ first + Len(r) + Len(b) + Len(e) + Len(c) = n

LEMMA LineBegins ==
  ASSUME NEW r \in Parts, NEW b \in Parts, NEW e \in Parts, NEW c \in Parts,
         NEW first \in Nat, NEW n \in Nat, Line(r, b, e, c, first, n)
  PROVE  Beginning(r, b, first, n)
<1>1. Len(r) \in Nat /\ Len(b) \in Nat /\ Len(e) \in Nat /\ Len(c) \in Nat
  BY DEF Parts
<1> QED BY <1>1 DEF Line, Beginning

\* A piece is written to the line's end, ...
LEMMA Written ==
  ASSUME NEW r \in Parts, NEW b \in Parts, NEW e \in Parts, NEW c \in Parts,
         NEW first \in Nat, NEW n \in Nat, Line(r, b, e, c, first, n)
  PROVE  Line(r, b, e, Append(c, PieceAt(n)), first, n + 1)
<1> DEFINE k == first + Len(r) + Len(b) + Len(e)
<1>1. Len(r) \in Nat /\ Len(b) \in Nat /\ Len(e) \in Nat /\ Len(c) \in Nat /\ k \in Nat
  BY DEF Parts
<1>2. k + Len(c) = n /\ From(c, k)
  BY DEF Line
<1>3. PieceAt(n) \in Nat \X Nat
  BY PieceType
<1> HIDE DEF k
<1>4. Len(Append(c, PieceAt(n))) = Len(c) + 1 /\ From(Append(c, PieceAt(n)), k)
  BY <1>1, <1>2, <1>3, FromAppend
<1>5. k + (Len(c) + 1) = n + 1
  BY <1>1, <1>2
<1> QED BY <1>4, <1>5 DEF Line, k

\* ... read by the echo, ...
LEMMA ReadByEcho ==
  ASSUME NEW r \in Parts, NEW b \in Parts, NEW e \in Parts, NEW c \in Parts, c # <<>>,
         NEW first \in Nat, NEW n \in Nat, Line(r, b, e, c, first, n)
  PROVE  Line(r, b, Append(e, Head(c)), Tail(c), first, n)
<1> DEFINE j == first + Len(r) + Len(b)
<1>1. Len(r) \in Nat /\ Len(b) \in Nat /\ Len(e) \in Nat /\ Len(c) \in Nat /\ j \in Nat
  BY DEF Parts
<1>2. From(e, j) /\ From(c, j + Len(e)) /\ j + Len(e) + Len(c) = n
  BY DEF Line
<1> HIDE DEF j
<1>3. /\ Tail(c) \in Parts /\ Len(Tail(c)) = Len(c) - 1 /\ Head(c) \in Nat \X Nat
      /\ Head(c) = PieceAt(j + Len(e)) /\ From(Tail(c), (j + Len(e)) + 1)
  BY <1>1, <1>2, FromTail
<1>4. Len(Append(e, Head(c))) = Len(e) + 1 /\ From(Append(e, Head(c)), j)
  BY <1>1, <1>2, <1>3, FromAppend
<1>5. j + (Len(e) + 1) = (j + Len(e)) + 1 /\ j + (Len(e) + 1) + (Len(c) - 1) = n
  BY <1>1, <1>2
<1> QED BY <1>3, <1>4, <1>5 DEF Line, j

\* ... written back, ...
LEMMA WrittenBack ==
  ASSUME NEW r \in Parts, NEW b \in Parts, NEW e \in Parts, NEW c \in Parts, e # <<>>,
         NEW first \in Nat, NEW n \in Nat, Line(r, b, e, c, first, n)
  PROVE  Line(r, Append(b, Head(e)), Tail(e), c, first, n)
<1> DEFINE i == first + Len(r)
<1>1. Len(r) \in Nat /\ Len(b) \in Nat /\ Len(e) \in Nat /\ Len(c) \in Nat /\ i \in Nat
  BY DEF Parts
<1>2. From(b, i) /\ From(e, i + Len(b)) /\ From(c, i + Len(b) + Len(e))
        /\ i + Len(b) + Len(e) + Len(c) = n
  BY DEF Line
<1> HIDE DEF i
<1>3. /\ Tail(e) \in Parts /\ Len(Tail(e)) = Len(e) - 1 /\ Head(e) \in Nat \X Nat
      /\ Head(e) = PieceAt(i + Len(b)) /\ From(Tail(e), (i + Len(b)) + 1)
  BY <1>1, <1>2, FromTail
<1>4. Len(Append(b, Head(e))) = Len(b) + 1 /\ From(Append(b, Head(e)), i)
  BY <1>1, <1>2, <1>3, FromAppend
<1>5. /\ i + (Len(b) + 1) = (i + Len(b)) + 1
      /\ i + (Len(b) + 1) + (Len(e) - 1) = i + Len(b) + Len(e)
  BY <1>1, <1>2
<1> QED BY <1>2, <1>3, <1>4, <1>5 DEF Line, i

\* ... and read by the receiver, dead echo or not.
LEMMA ReadByReceiver ==
  ASSUME NEW r \in Parts, NEW b \in Parts, b # <<>>, NEW first \in Nat, NEW n \in Nat,
         Beginning(r, b, first, n)
  PROVE  /\ Beginning(Append(r, Head(b)), Tail(b), first, n)
         /\ \A e, c \in Parts : Line(r, b, e, c, first, n)
                                  => Line(Append(r, Head(b)), Tail(b), e, c, first, n)
<1>1. Len(r) \in Nat /\ Len(b) \in Nat
  BY DEF Parts
<1>2. From(r, first) /\ From(b, first + Len(r)) /\ first + Len(r) + Len(b) <= n
  BY DEF Beginning
<1>3. /\ Tail(b) \in Parts /\ Len(Tail(b)) = Len(b) - 1 /\ Head(b) \in Nat \X Nat
      /\ Head(b) = PieceAt(first + Len(r)) /\ From(Tail(b), (first + Len(r)) + 1)
  BY <1>1, <1>2, FromTail
<1>4. Len(Append(r, Head(b))) = Len(r) + 1 /\ From(Append(r, Head(b)), first)
  BY <1>2, <1>3, FromAppend
<1>5. /\ first + (Len(r) + 1) = (first + Len(r)) + 1
      /\ first + (Len(r) + 1) + (Len(b) - 1) = first + Len(r) + Len(b)
  BY <1>1
<1>6. Beginning(Append(r, Head(b)), Tail(b), first, n)
  BY <1>2, <1>3, <1>4, <1>5 DEF Beginning
<1>7. ASSUME NEW e \in Parts, NEW c \in Parts, Line(r, b, e, c, first, n)
      PROVE  Line(Append(r, Head(b)), Tail(b), e, c, first, n)
  BY <1>3, <1>4, <1>5, <1>7 DEF Line
<1> QED BY <1>6, <1>7

\* The receiver hands a whole message out: the line begins behind it.
LEMMA HandedOut ==
  ASSUME NEW r \in Parts, NEW b \in Parts, NEW first \in Nat, NEW n \in Nat
  PROVE  /\ Beginning(r, b, first, n) => Beginning(<<>>, b, first + Len(r), n)
         /\ \A e, c \in Parts : Line(r, b, e, c, first, n)
                                  => Line(<<>>, b, e, c, first + Len(r), n)
<1>1. Len(r) \in Nat /\ Len(b) \in Nat /\ Len(<<>>) = 0 /\ (first + Len(r)) + 0 = first + Len(r)
  BY DEF Parts
<1>2. \A k : From(<<>>, k)
  BY DEF From
<1> QED BY <1>1, <1>2 DEF Beginning, Line

-----------------------------------------------------------------------------
(* The inductive invariant                                                 *)

Typed ==
    /\ c2s \in Parts /\ s2c \in Parts /\ ebuf \in Parts /\ rbuf \in Parts
    /\ Len(c2s) <= Buffer /\ Len(s2c) <= Buffer
    /\ dead \in BOOLEAN
    /\ spc \in {"send", "done", "failed"}
    /\ sent \in 0 .. Msgs /\ spart \in 0 .. Chunks - 1
    /\ epc \in {"read", "write", "gone"}
    /\ Len(ebuf) <= Chunks /\ eput \in 0 .. Chunks - 1
    /\ rpc \in {"recv", "done", "quiet", "closed", "failed"}
    /\ Len(rbuf) < Chunks /\ rtimeouts \in 0 .. StallWindows
    /\ received \in 0 .. Msgs
    /\ got = [k \in Pieces |-> received - 1]

\* Who is where: a thread that goes on has messages left; the echo process
\* reads until its buffer is full, and writes a full one.
Stages ==
    /\ spc = "send" => sent < Msgs
    /\ sent = Msgs => spart = 0
    /\ rpc = "recv" => received < Msgs
    /\ dead <=> epc = "gone"
    /\ dead => c2s = <<>>
    /\ epc = "read" => Len(ebuf) < Chunks /\ eput = 0
    /\ epc = "write" => Len(ebuf) = Chunks

\* What the echo has read and not written back.
InHand == SubSeq(ebuf, eput + 1, Len(ebuf))

InOrder ==
    /\ Beginning(rbuf, s2c, Number(received, 0), Number(sent, spart))
    /\ ~dead => Line(rbuf, s2c, InHand, c2s, Number(received, 0), Number(sent, spart))

Invariant == Typed /\ Stages /\ InOrder

LEMMA InvariantInit == Init => Invariant
<1> SUFFICES ASSUME Init PROVE Invariant
  OBVIOUS
<1>1. Msgs \in Nat /\ Msgs > 0 /\ Chunks \in Nat /\ Chunks > 0 /\ Buffer \in Nat /\ StallWindows \in Nat
  BY StreamAssumption DEF StreamAssumption
<1>2. <<>> \in Parts /\ Len(<<>>) = 0 /\ SubSeq(<<>>, 1, 0) = <<>>
  BY DEF Parts
<1>3. Typed
  <2>1. 0 \in 0 .. Msgs /\ 0 \in 0 .. Chunks - 1 /\ 0 \in 0 .. StallWindows /\ 0 <= Buffer
           /\ 0 <= Chunks /\ 0 < Chunks
    BY <1>1
  <2>2. received = 0 /\ got = [k \in Pieces |-> -1] /\ 0 - 1 = -1
    BY DEF Init
  <2>3. got = [k \in Pieces |-> received - 1]
    BY <2>2
  <2> QED BY <1>2, <2>1, <2>3 DEF Init, Typed
<1>4. Stages
  BY <1>1, <1>2 DEF Init, Stages
<1>5. \A n : From(<<>>, n)
  BY <1>2 DEF From
<1>6. Number(0, 0) = 0
  BY <1>1 DEF Number
<1>7. InHand = <<>>
  BY <1>2 DEF Init, InHand
<1>8. Beginning(<<>>, <<>>, 0, 0) /\ Line(<<>>, <<>>, <<>>, <<>>, 0, 0)
  BY <1>2, <1>5 DEF Beginning, Line
<1>9. InOrder
  BY <1>6, <1>7, <1>8 DEF Init, InOrder
<1> QED BY <1>3, <1>4, <1>9 DEF Invariant

\* The echo's hand grows with what it reads and shrinks with what it writes.
LEMMA HandGrows ==
  ASSUME Typed, Stages, epc = "read", NEW x \in Nat \X Nat
  PROVE  InHand = ebuf /\ SubSeq(Append(ebuf, x), 1, Len(Append(ebuf, x))) = Append(ebuf, x)
<1>1. eput = 0 /\ ebuf \in Parts
  BY DEF Typed, Stages
<1>2. \A q \in Parts : SubSeq(q, 1, Len(q)) = q
  BY DEF Parts
<1>3. Append(ebuf, x) \in Parts
  BY <1>1 DEF Parts
<1> QED BY <1>1, <1>2, <1>3 DEF InHand

LEMMA RestFirst ==
  ASSUME NEW S, NEW s \in Seq(S), NEW p \in Nat, p < Len(s)
  PROVE  /\ s[p + 1] \in S
         /\ SubSeq(s, (p + 1) + 1, Len(s)) \in Seq(S)
         /\ SubSeq(s, p + 1, Len(s)) = <<s[p + 1]>> \o SubSeq(s, (p + 1) + 1, Len(s))
<1>1. p + 1 \in 1 .. Len(s) /\ Len(s) \in p + 1 .. Len(s)
  OBVIOUS
<1> QED BY <1>1, SubSeqRecursiveFirst

LEMMA HandShrinks ==
  ASSUME Typed, Stages, epc = "write"
  PROVE  /\ InHand \in Parts /\ InHand # <<>> /\ Head(InHand) = ebuf[eput + 1]
         /\ ebuf[eput + 1] \in Nat \X Nat
         /\ Tail(InHand) = SubSeq(ebuf, (eput + 1) + 1, Len(ebuf))
         /\ eput + 1 = Chunks => Tail(InHand) = <<>>
<1>1. /\ ebuf \in Seq(Nat \X Nat) /\ Len(ebuf) = Chunks /\ eput \in 0 .. Chunks - 1
      /\ Chunks \in Nat
  BY ChunksType DEF Typed, Stages, Parts
<1> DEFINE s == ebuf  e == eput
<1>2. InHand = SubSeq(s, e + 1, Len(s))
  BY DEF InHand
<1>3. s \in Seq(Nat \X Nat) /\ e \in Nat /\ e < Len(s) /\ Len(s) = Chunks
  BY <1>1
<1> HIDE DEF s, e
<1>4. /\ s[e + 1] \in Nat \X Nat
      /\ SubSeq(s, (e + 1) + 1, Len(s)) \in Seq(Nat \X Nat)
      /\ SubSeq(s, e + 1, Len(s)) = <<s[e + 1]>> \o SubSeq(s, (e + 1) + 1, Len(s))
  BY <1>3, RestFirst
<1>5. \A x \in Nat \X Nat, q \in Seq(Nat \X Nat) :
         /\ <<x>> \o q \in Seq(Nat \X Nat) /\ <<x>> \o q # <<>>
         /\ Head(<<x>> \o q) = x /\ Tail(<<x>> \o q) = q
  OBVIOUS
<1>6. ASSUME e + 1 = Chunks PROVE SubSeq(s, (e + 1) + 1, Len(s)) = <<>>
  BY <1>3, <1>6
<1>7. PICK rest \in Seq(Nat \X Nat) : rest = SubSeq(s, (e + 1) + 1, Len(s))
  BY <1>4
<1>8. PICK x \in Nat \X Nat : x = s[e + 1]
  BY <1>4
<1>9. InHand = <<x>> \o rest
  BY <1>2, <1>4, <1>7, <1>8
<1>10. /\ InHand \in Seq(Nat \X Nat) /\ InHand # <<>>
       /\ Head(InHand) = x /\ Tail(InHand) = rest
  BY <1>5, <1>9
<1> QED BY <1>6, <1>7, <1>8, <1>10 DEF s, e, Parts

\* What counting a piece does to the sender.
LEMMA Counted ==
  ASSUME Typed, Stages, spc = "send", CountPiece
  PROVE  /\ sent' \in 0 .. Msgs /\ spart' \in 0 .. Chunks - 1 /\ spc' \in {"send", "done"}
         /\ spc' = "send" => sent' < Msgs
         /\ sent' = Msgs => spart' = 0
         /\ Number(sent, spart) \in Nat
         /\ Number(sent', spart') = Number(sent, spart) + 1
<1>1. sent \in Nat /\ spart \in 0 .. Chunks - 1 /\ sent < Msgs /\ sent \in 0 .. Msgs
  BY ChunksType DEF Typed, Stages
<1>2. /\ Number(sent, spart) \in Nat /\ Number(sent, spart) + 1 = Number(sent, spart + 1)
      /\ spart + 1 = Chunks => Number(sent, spart) + 1 = Number(sent + 1, 0)
  BY <1>1, NumberSteps
<1>3. CASE spart + 1 < Chunks
  BY <1>1, <1>2, <1>3, ChunksType DEF CountPiece
<1>4. CASE ~(spart + 1 < Chunks)
  <2>1. spart + 1 = Chunks
    BY <1>1, <1>4, ChunksType
  <2>2. spart' = 0 /\ sent' = sent + 1 /\ spc' = IF sent' = Msgs THEN "done" ELSE "send"
    BY <1>4 DEF CountPiece
  <2> QED BY <1>1, <1>2, <2>1, <2>2, ChunksType
<1> QED BY <1>3, <1>4

LEMMA Numbers ==
  ASSUME Typed
  PROVE  Number(received, 0) \in Nat /\ Number(sent, spart) \in Nat
<1>1. received \in Nat /\ sent \in Nat /\ spart \in 0 .. Chunks - 1 /\ 0 \in 0 .. Chunks - 1
  BY ChunksType DEF Typed
<1> QED BY <1>1, NumberSteps

LEMMA HandType == Typed => InHand \in Parts
<1> SUFFICES ASSUME Typed PROVE InHand \in Parts
  OBVIOUS
<1>1. ebuf \in Seq(Nat \X Nat) /\ eput \in Nat
  BY ChunksType DEF Typed, Parts
<1> QED BY <1>1 DEF InHand, Parts

LEMMA SendPieceStep == Invariant /\ SendPiece => Invariant'
<1> SUFFICES ASSUME Invariant, SendPiece PROVE Invariant'
  OBVIOUS
<1>1. Typed /\ Stages /\ InOrder /\ spc = "send" /\ ~dead /\ CountPiece
  BY DEF Invariant, SendPiece
<1> DEFINE x == <<sent, spart + 1>>
<1>2. x = PieceAt(Number(sent, spart)) /\ x \in Nat \X Nat
  <2>1. sent \in Nat /\ spart \in 0 .. Chunks - 1
    BY <1>1, ChunksType DEF Typed
  <2>2. PieceAt(Number(sent, spart)) = x
    BY <2>1, PieceOf
  <2>3. x \in Nat \X Nat
    BY <2>1, ChunksType
  <2> QED BY <2>2, <2>3
<1>3. c2s' = Append(c2s, x) /\ UNCHANGED <<s2c, dead, echo, receiver>>
  BY DEF SendPiece
<1> HIDE DEF x
<1>4. c2s' \in Parts /\ Len(c2s') <= Buffer
  <2>1. c2s \in Seq(Nat \X Nat) /\ Len(c2s) < Buffer
    BY <1>1 DEF Typed, SendPiece, Parts
  <2> QED BY <1>2, <1>3, <2>1, ChunksType DEF Parts
<1>5. Typed'
  BY <1>1, <1>3, <1>4, Counted DEF Typed, echo, receiver
<1>6. Stages'
  BY <1>1, <1>3, Counted DEF Stages, echo, receiver
<1>7. Number(sent', spart') = Number(sent, spart) + 1
  BY <1>1, Counted
<1>8. InHand' = InHand /\ Number(received', 0) = Number(received, 0) /\ rbuf' = rbuf
  BY <1>3 DEF InHand, echo, receiver
<1> DEFINE f == Number(received, 0)  n == Number(sent, spart)  h == InHand
<1>9. f \in Nat /\ n \in Nat /\ h \in Parts /\ rbuf \in Parts /\ s2c \in Parts /\ c2s \in Parts
  BY <1>1, Numbers, HandType DEF Typed
<1>10. Line(rbuf, s2c, h, c2s, f, n)
  BY <1>1 DEF InOrder
<1> HIDE DEF f, n, h
<1>11. Line(rbuf, s2c, h, Append(c2s, PieceAt(n)), f, n + 1)
  BY <1>9, <1>10, Written
<1>12. Line(rbuf, s2c, h, c2s', f, n + 1) /\ n + 1 \in Nat /\ c2s' \in Parts
  BY <1>2, <1>3, <1>4, <1>9, <1>11 DEF n
<1>13. Beginning(rbuf, s2c, f, n + 1)
  BY <1>9, <1>12, LineBegins
<1>14. InOrder'
  BY <1>3, <1>7, <1>8, <1>12, <1>13 DEF InOrder, f, n, h
<1> QED BY <1>5, <1>6, <1>14 DEF Invariant

LEMMA SendToDeadStep == Invariant /\ SendToDead => Invariant'
<1> SUFFICES ASSUME Invariant, SendToDead PROVE Invariant'
  OBVIOUS
<1>1. /\ Typed /\ Stages /\ InOrder /\ spc = "send" /\ dead
      /\ UNCHANGED <<buffers, echo, receiver>>
  BY DEF Invariant, SendToDead
<1>2. CASE CountPiece
  <2>1. Typed'
    BY <1>1, <1>2, Counted DEF Typed, buffers, echo, receiver
  <2>2. Stages'
    BY <1>1, <1>2, Counted DEF Stages, buffers, echo, receiver
  <2> DEFINE f == Number(received, 0)  n == Number(sent, spart)
  <2>3. Number(sent', spart') = n + 1 /\ n \in Nat /\ f \in Nat
    BY <1>1, <1>2, Counted, Numbers
  <2>4. Number(received', 0) = f /\ rbuf' = rbuf /\ s2c' = s2c /\ dead'
    BY <1>1 DEF buffers, receiver
  <2>5. Beginning(rbuf, s2c, f, n)
    BY <1>1 DEF InOrder
  <2> HIDE DEF f, n
  <2>6. Beginning(rbuf, s2c, f, n + 1)
    <3>1. Len(rbuf) \in Nat /\ Len(s2c) \in Nat
      BY <1>1 DEF Typed, Parts
    <3> QED BY <2>3, <2>5, <3>1 DEF Beginning
  <2>7. InOrder'
    BY <2>3, <2>4, <2>6 DEF InOrder
  <2> QED BY <2>1, <2>2, <2>7 DEF Invariant
<1>3. CASE spc' = "failed" /\ UNCHANGED <<sent, spart>>
  <2>1. Typed' /\ Stages'
    BY <1>1, <1>3 DEF Typed, Stages, buffers, echo, receiver
  <2>2. InOrder'
    BY <1>1, <1>3 DEF InOrder, InHand, buffers, echo, receiver
  <2> QED BY <2>1, <2>2 DEF Invariant
<1> QED BY <1>2, <1>3 DEF SendToDead

LEMMA EchoReadStep == Invariant /\ EchoRead => Invariant'
<1> SUFFICES ASSUME Invariant, EchoRead PROVE Invariant'
  OBVIOUS
<1>1. /\ Typed /\ Stages /\ InOrder /\ epc = "read" /\ c2s # <<>> /\ ~dead
      /\ UNCHANGED <<s2c, dead, eput, sender, receiver>>
  BY DEF Invariant, Stages, EchoRead
<1> DEFINE x == Head(c2s)  f == Number(received, 0)  n == Number(sent, spart)
<1>2. ebuf' = Append(ebuf, x) /\ c2s' = Tail(c2s)
        /\ epc' = IF Len(ebuf') = Chunks THEN "write" ELSE "read"
  BY DEF EchoRead
<1>3. x \in Nat \X Nat /\ c2s' \in Parts /\ Len(c2s') <= Buffer
  <2>1. c2s \in Seq(Nat \X Nat) /\ Len(c2s) <= Buffer
    BY <1>1 DEF Typed, Parts
  <2> QED BY <1>1, <1>2, <2>1, ChunksType DEF Parts
<1>4. ebuf' \in Parts /\ Len(ebuf') = Len(ebuf) + 1 /\ Len(ebuf) \in Nat /\ Len(ebuf) < Chunks
  <2>1. ebuf \in Seq(Nat \X Nat) /\ Len(ebuf) < Chunks
    BY <1>1 DEF Typed, Stages, Parts
  <2> QED BY <1>2, <1>3, <2>1 DEF Parts
<1>5. Typed'
  BY <1>1, <1>2, <1>3, <1>4, ChunksType DEF Typed, sender, receiver
<1>6. Stages'
  BY <1>1, <1>2, <1>4, ChunksType DEF Stages, sender, receiver
<1>7. InHand = ebuf /\ InHand' = ebuf'
  <2>1. InHand = ebuf /\ SubSeq(ebuf', 1, Len(ebuf')) = ebuf'
    BY <1>1, <1>2, <1>3, HandGrows
  <2>2. eput' = 0 /\ 0 + 1 = 1
    BY <1>1 DEF Stages
  <2> QED BY <2>1, <2>2 DEF InHand
<1>8. /\ f \in Nat /\ n \in Nat /\ rbuf \in Parts /\ s2c \in Parts
      /\ ebuf \in Parts /\ c2s \in Parts
  BY <1>1, Numbers DEF Typed
<1>9. Line(rbuf, s2c, ebuf, c2s, f, n)
  BY <1>1, <1>7 DEF InOrder
<1>10. UNCHANGED <<rbuf, s2c, dead>> /\ Number(received', 0) = f /\ Number(sent', spart') = n
  BY <1>1 DEF sender, receiver
<1> HIDE DEF f, n
<1>11. Line(rbuf, s2c, Append(ebuf, Head(c2s)), Tail(c2s), f, n)
  BY <1>1, <1>8, <1>9, ReadByEcho
<1>12. Line(rbuf, s2c, ebuf', c2s', f, n)
  BY <1>2, <1>11
<1>13. Beginning(rbuf, s2c, f, n)
  BY <1>3, <1>4, <1>8, <1>12, LineBegins
<1>14. InOrder'
  BY <1>7, <1>10, <1>12, <1>13 DEF InOrder
<1> QED BY <1>5, <1>6, <1>14 DEF Invariant

LEMMA EchoWriteStep == Invariant /\ EchoWrite => Invariant'
<1> SUFFICES ASSUME Invariant, EchoWrite PROVE Invariant'
  OBVIOUS
<1>1. /\ Typed /\ Stages /\ InOrder /\ epc = "write" /\ ~dead
      /\ UNCHANGED <<c2s, dead, sender, receiver>>
  BY DEF Invariant, Stages, EchoWrite
<1> DEFINE f == Number(received, 0)  n == Number(sent, spart)  h == InHand
<1>2. /\ h \in Parts /\ h # <<>> /\ Head(h) \in Nat \X Nat
      /\ s2c' = Append(s2c, Head(h)) /\ Len(s2c) < Buffer
  BY <1>1, HandShrinks DEF EchoWrite
<1>3. s2c' \in Parts /\ Len(s2c') <= Buffer
  <2>1. s2c \in Seq(Nat \X Nat)
    BY <1>1 DEF Typed, Parts
  <2> HIDE DEF h
  <2> QED BY <1>2, <2>1, ChunksType DEF Parts
<1>4. /\ ebuf \in Parts /\ Len(ebuf) = Chunks /\ eput \in 0 .. Chunks - 1
      /\ <<>> \in Parts /\ Len(<<>>) = 0
  BY <1>1 DEF Typed, Stages, Parts
<1>5. ASSUME eput + 1 < Chunks PROVE Typed' /\ Stages' /\ InHand' = Tail(h)
  <2>1. eput' = eput + 1 /\ UNCHANGED <<epc, ebuf>>
    BY <1>5 DEF EchoWrite
  <2>2. Typed'
    BY <1>1, <1>3, <1>4, <1>5, <2>1, ChunksType DEF Typed, sender, receiver
  <2>3. Stages'
    BY <1>1, <2>1 DEF Stages, sender, receiver
  <2>4. InHand' = Tail(h)
    BY <1>1, <2>1, HandShrinks DEF InHand
  <2> QED BY <2>2, <2>3, <2>4
<1>6. ASSUME ~(eput + 1 < Chunks) PROVE Typed' /\ Stages' /\ InHand' = Tail(h)
  <2>1. epc' = "read" /\ ebuf' = <<>> /\ eput' = 0 /\ eput + 1 = Chunks
    BY <1>4, <1>6, ChunksType DEF EchoWrite
  <2>2. Typed'
    BY <1>1, <1>3, <1>4, <2>1, ChunksType DEF Typed, sender, receiver
  <2>3. Stages'
    BY <1>1, <1>4, <2>1, ChunksType DEF Stages, sender, receiver
  <2>4. InHand' = Tail(h)
    <3>1. SubSeq(<<>>, 0 + 1, 0) = <<>>
      OBVIOUS
    <3>2. Tail(h) = <<>>
      BY <1>1, <2>1, HandShrinks
    <3> QED BY <1>4, <2>1, <3>1, <3>2 DEF InHand
  <2> QED BY <2>2, <2>3, <2>4
<1>7. Typed' /\ Stages' /\ InHand' = Tail(h)
  BY <1>5, <1>6
<1>8. f \in Nat /\ n \in Nat /\ rbuf \in Parts /\ s2c \in Parts /\ c2s \in Parts
  BY <1>1, Numbers DEF Typed
<1>9. Line(rbuf, s2c, h, c2s, f, n)
  BY <1>1 DEF InOrder
<1>10. UNCHANGED <<rbuf, c2s, dead>> /\ Number(received', 0) = f /\ Number(sent', spart') = n
  BY <1>1 DEF sender, receiver
<1>11. Tail(h) \in Parts
  <2>1. (Typed => InHand \in Parts)'
    BY HandType, PTL
  <2> QED BY <1>7, <2>1
<1> HIDE DEF f, n, h
<1>12. Line(rbuf, Append(s2c, Head(h)), Tail(h), c2s, f, n)
  BY <1>2, <1>8, <1>9, WrittenBack
<1>13. Line(rbuf, s2c', Tail(h), c2s, f, n)
  BY <1>2, <1>12
<1>14. Beginning(rbuf, s2c', f, n)
  BY <1>3, <1>8, <1>11, <1>13, LineBegins
<1>15. InOrder'
  BY <1>7, <1>10, <1>13, <1>14 DEF InOrder
<1> QED BY <1>7, <1>15 DEF Invariant

LEMMA EchoDiesStep == Invariant /\ EchoDies => Invariant'
<1> SUFFICES ASSUME Invariant, EchoDies PROVE Invariant'
  OBVIOUS
<1>1. /\ Typed /\ Stages /\ InOrder /\ dead' /\ dead' = TRUE /\ epc' = "gone" /\ c2s' = <<>>
      /\ UNCHANGED <<ebuf, eput, sender, receiver>>
  BY DEF Invariant, EchoDies
<1>2. PICK k \in 0 .. Len(s2c) : s2c' = SubSeq(s2c, 1, k)
  BY DEF EchoDies
<1> DEFINE f == Number(received, 0)  n == Number(sent, spart)
<1>3. /\ f \in Nat /\ n \in Nat /\ rbuf \in Parts /\ s2c \in Parts
      /\ Len(rbuf) \in Nat /\ Len(s2c) \in Nat /\ Len(s2c) <= Buffer
  BY <1>1, Numbers DEF Typed, Parts
<1>4. From(rbuf, f) /\ From(s2c, f + Len(rbuf)) /\ f + Len(rbuf) + Len(s2c) <= n
  BY <1>1 DEF InOrder, Beginning
<1>5. Number(received', 0) = f /\ Number(sent', spart') = n /\ rbuf' = rbuf
  BY <1>1 DEF sender, receiver
<1> HIDE DEF f, n
<1>6. s2c' \in Parts /\ Len(s2c') = k /\ From(s2c', f + Len(rbuf))
  <2>1. f + Len(rbuf) \in Nat
    BY <1>3
  <2> QED BY <1>2, <1>3, <1>4, <2>1, FromPrefix
<1>7. k <= Buffer /\ f + Len(rbuf) + k <= n
  BY <1>2, <1>3, <1>4, ChunksType
<1>8. Typed'
  <2>1. <<>> \in Parts /\ Len(<<>>) = 0
    BY DEF Parts
  <2> QED BY <1>1, <1>6, <1>7, <2>1, ChunksType DEF Typed, sender, receiver
<1>9. Stages'
  BY <1>1 DEF Stages, sender, receiver
<1>10. InOrder'
  BY <1>1, <1>4, <1>5, <1>6, <1>7 DEF InOrder, Beginning
<1> QED BY <1>8, <1>9, <1>10 DEF Invariant

\* A piece is in hand: the next one of the message being received.
LEMMA Received ==
  ASSUME Invariant, rpc = "recv", s2c # <<>>
  PROVE  /\ Head(s2c) \in Nat \X Nat /\ Tail(s2c) \in Parts /\ Len(Tail(s2c)) <= Buffer
         /\ Append(rbuf, Head(s2c)) \in Parts
         /\ Len(Append(rbuf, Head(s2c))) = Len(rbuf) + 1 /\ Len(rbuf) \in Nat
         /\ Beginning(Append(rbuf, Head(s2c)), Tail(s2c), Number(received, 0), Number(sent, spart))
         /\ ~dead => Line(Append(rbuf, Head(s2c)), Tail(s2c), InHand, c2s,
                          Number(received, 0), Number(sent, spart))
<1> DEFINE f == Number(received, 0)  n == Number(sent, spart)  h == InHand
<1>1. Typed /\ InOrder
  BY DEF Invariant
<1>2. /\ f \in Nat /\ n \in Nat /\ h \in Parts
      /\ rbuf \in Parts /\ s2c \in Parts /\ c2s \in Parts
  BY <1>1, Numbers, HandType DEF Typed
<1>3. Beginning(rbuf, s2c, f, n) /\ (~dead => Line(rbuf, s2c, h, c2s, f, n))
  BY <1>1 DEF InOrder
<1> HIDE DEF f, n, h
<1>4. /\ Beginning(Append(rbuf, Head(s2c)), Tail(s2c), f, n)
      /\ ~dead => Line(Append(rbuf, Head(s2c)), Tail(s2c), h, c2s, f, n)
  BY <1>2, <1>3, ReadByReceiver
<1>5. /\ rbuf \in Seq(Nat \X Nat) /\ s2c \in Seq(Nat \X Nat) /\ Len(s2c) <= Buffer
      /\ Buffer \in Nat
  BY <1>1, ChunksType DEF Typed, Parts
<1>6. /\ Head(s2c) \in Nat \X Nat /\ Tail(s2c) \in Parts /\ Len(Tail(s2c)) <= Buffer
      /\ Append(rbuf, Head(s2c)) \in Parts
      /\ Len(Append(rbuf, Head(s2c))) = Len(rbuf) + 1 /\ Len(rbuf) \in Nat
  BY <1>5 DEF Parts
<1> QED BY <1>4, <1>6 DEF f, n, h

LEMMA RecvPieceStep == Invariant /\ RecvPiece => Invariant'
<1> SUFFICES ASSUME Invariant, RecvPiece PROVE Invariant'
  OBVIOUS
<1>1. /\ Typed /\ Stages /\ rpc = "recv" /\ s2c # <<>> /\ Len(rbuf) + 1 < Chunks
      /\ rbuf' = Append(rbuf, Head(s2c)) /\ s2c' = Tail(s2c)
      /\ UNCHANGED <<c2s, dead, rpc, rtimeouts, received, got, sender, echo>>
  BY DEF Invariant, RecvPiece
<1>2. Typed'
  BY <1>1, Received DEF Typed, sender, echo
<1>3. Stages'
  BY <1>1 DEF Stages, sender, echo
<1>4. InHand' = InHand /\ UNCHANGED <<received, sent, spart>>
  BY <1>1 DEF InHand, sender, echo
<1>5. InOrder'
  BY <1>1, <1>4, Received DEF InOrder
<1> QED BY <1>2, <1>3, <1>5 DEF Invariant

\* The whole message in hand is the next one, every piece in its place, and it
\* has been sent.
LEMMA Whole ==
  ASSUME Invariant, rpc = "recv", s2c # <<>>, Len(rbuf) + 1 = Chunks
  PROVE  /\ received < sent
         /\ \A k \in Pieces : Append(rbuf, Head(s2c))[k] = <<received, k>>
<1> DEFINE w == Append(rbuf, Head(s2c))  f == Number(received, 0)  n == Number(sent, spart)
<1>1. /\ Len(w) = Chunks /\ w \in Parts /\ Beginning(w, Tail(s2c), f, n)
      /\ Tail(s2c) \in Parts
  BY Received
<1>2. received \in Nat /\ sent \in Nat /\ spart \in 0 .. Chunks - 1 /\ f \in Nat /\ n \in Nat
  BY ChunksType, Numbers DEF Invariant, Typed
<1> HIDE DEF w
<1>3. From(w, f) /\ f + Chunks <= n
  <2>1. Len(Tail(s2c)) \in Nat
    BY <1>1 DEF Parts
  <2>2. From(w, f) /\ f + Chunks + Len(Tail(s2c)) <= n
    BY <1>1 DEF Beginning
  <2> HIDE DEF f, n
  <2> QED BY <1>2, <2>1, <2>2, ChunksType
<1>4. received < sent
  BY <1>2, <1>3, NumberSteps
<1>5. ASSUME NEW k \in Pieces PROVE w[k] = <<received, k>>
  <2>1. k \in Nat /\ k \in 1 .. Len(w) /\ k - 1 \in 0 .. Chunks - 1 /\ (k - 1) + 1 = k
    BY <1>1, ChunksType DEF Pieces
  <2>2. w[k] = PieceAt(f + k - 1)
    BY <1>3, <2>1 DEF From
  <2>3. f + (k - 1) = Number(received, k - 1)
    BY <1>2, <2>1, NumberSteps
  <2>4. f + k - 1 = f + (k - 1)
    BY <1>2, <2>1
  <2>5. PieceAt(Number(received, k - 1)) = <<received, (k - 1) + 1>>
    BY <1>2, <2>1, PieceOf
  <2> QED BY <2>1, <2>2, <2>3, <2>4, <2>5
<1> QED BY <1>4, <1>5 DEF w

LEMMA RecvMsgStep ==
  ASSUME Invariant, RecvMsg
  PROVE  /\ Invariant'
         /\ received < sent /\ received' = received + 1
         /\ got' = [k \in Pieces |-> received]
<1>1. /\ Typed /\ Stages /\ rpc = "recv" /\ s2c # <<>> /\ Len(rbuf) + 1 = Chunks
      /\ s2c' = Tail(s2c) /\ rbuf' = <<>> /\ rtimeouts' = 0 /\ received' = received + 1
      /\ rpc' = IF received' = Msgs THEN "done" ELSE "recv"
      /\ UNCHANGED <<c2s, dead, sender, echo>>
  BY DEF Invariant, RecvMsg
<1> DEFINE w == Append(rbuf, Head(s2c))  f == Number(received, 0)  n == Number(sent, spart)
           h == InHand
<1>2. got' = [k \in Pieces |-> IF w[k][2] = k THEN w[k][1] ELSE -1]
  BY DEF RecvMsg
<1>3. got' = [k \in Pieces |-> received]
  <2>1. \A k \in Pieces : w[k] = <<received, k>>
    BY <1>1, Whole
  <2> HIDE DEF w
  <2> QED BY <1>2, <2>1
<1>4. received < sent /\ received \in Nat /\ sent \in 0 .. Msgs /\ received < Msgs
  BY <1>1, Whole, ChunksType DEF Typed, Stages
<1>5. Typed'
  <2>1. <<>> \in Parts /\ Len(<<>>) = 0
    BY DEF Parts
  <2>2. got' = [k \in Pieces |-> received' - 1]
    BY <1>1, <1>3, <1>4
  <2>3. received' \in 0 .. Msgs /\ 0 \in 0 .. StallWindows /\ 0 < Chunks
    BY <1>1, <1>4, ChunksType, StreamAssumption DEF StreamAssumption
  <2> QED BY <1>1, <2>1, <2>2, <2>3, Received DEF Typed, sender, echo
<1>6. Stages'
  BY <1>1, <1>4, ChunksType DEF Stages, sender, echo
<1>7. /\ w \in Parts /\ Len(w) = Chunks /\ Tail(s2c) \in Parts /\ h \in Parts /\ c2s \in Parts
      /\ f \in Nat /\ n \in Nat
      /\ Beginning(w, Tail(s2c), f, n) /\ (~dead => Line(w, Tail(s2c), h, c2s, f, n))
  BY <1>1, Received, Numbers, HandType DEF Typed
<1>8. Number(received', 0) = f + Chunks
  BY <1>1, <1>4, NumberSteps, ChunksType
<1>9. InHand' = h /\ UNCHANGED <<sent, spart>>
  BY <1>1 DEF InHand, sender, echo
<1> HIDE DEF w, f, h
<1>10. InOrder'
  <2>1. /\ Beginning(<<>>, Tail(s2c), f + Len(w), n)
        /\ ~dead => Line(<<>>, Tail(s2c), h, c2s, f + Len(w), n)
    BY <1>7, HandedOut
  <2> QED BY <1>1, <1>7, <1>8, <1>9, <2>1 DEF InOrder
<1> QED BY <1>1, <1>3, <1>4, <1>5, <1>6, <1>10 DEF Invariant

LEMMA RecvNothingStep ==
  Invariant /\ (RecvTimedOut \/ RecvStalled \/ RecvEof) => Invariant'
<1> SUFFICES ASSUME Invariant, RecvTimedOut \/ RecvStalled \/ RecvEof PROVE Invariant'
  OBVIOUS
<1>1. /\ Typed /\ Stages /\ InOrder
      /\ rpc' \in {"recv", "quiet", "closed", "failed"} /\ (rpc' = "recv" => rpc = "recv")
      /\ rtimeouts' \in 0 .. StallWindows
      /\ UNCHANGED <<buffers, rbuf, received, got, sender, echo>>
  <2>1. CASE RecvTimedOut
    BY <2>1, StreamAssumption DEF StreamAssumption, Invariant, Typed, RecvTimedOut
  <2>2. CASE RecvStalled
    BY <2>2, StreamAssumption DEF StreamAssumption, Invariant, Typed, RecvStalled
  <2>3. CASE RecvEof
    BY <2>3, StreamAssumption DEF StreamAssumption, Invariant, Typed, RecvEof
  <2> QED BY <2>1, <2>2, <2>3
<1>2. Typed' /\ Stages'
  BY <1>1 DEF Typed, Stages, buffers, sender, echo
<1>3. InOrder'
  BY <1>1 DEF InOrder, InHand, buffers, sender, echo
<1> QED BY <1>2, <1>3 DEF Invariant

LEMMA InvariantStep == Invariant /\ [Next]_vars => Invariant'
<1> SUFFICES ASSUME Invariant, [Next]_vars PROVE Invariant'
  OBVIOUS
<1>1. CASE Over \/ UNCHANGED vars
  BY <1>1 DEF Invariant, Typed, Stages, InOrder, InHand, Over,
              vars, buffers, sender, echo, receiver
<1> QED BY <1>1, SendPieceStep, SendToDeadStep, EchoReadStep, EchoWriteStep, EchoDiesStep,
           RecvPieceStep, RecvMsgStep, RecvNothingStep DEF Next, Sender, Echo, Receiver

LEMMA InvariantHolds == Spec => []Invariant
  BY InvariantInit, InvariantStep, PTL DEF Spec

-----------------------------------------------------------------------------
(* The theorems                                                            *)

\* Every piece of a part of the line is one of the run's.
LEMMA PartOfRun ==
  ASSUME NEW q \in Parts, NEW n \in Nat, From(q, n), n + Len(q) <= Number(Msgs, 0)
  PROVE  \A i \in DOMAIN q : IsPiece(q[i])
<1>1. Len(q) \in Nat /\ DOMAIN q = 1 .. Len(q) /\ Msgs \in Nat /\ Number(Msgs, 0) \in Nat
  BY ChunksType DEF Parts, Number
<1>2. ASSUME NEW i \in 1 .. Len(q) PROVE IsPiece(q[i])
  <2>1. n + i - 1 \in Nat /\ n + i - 1 < Number(Msgs, 0)
    BY <1>1
  <2>2. PieceAt(n + i - 1) \in (0 .. Msgs - 1) \X Pieces
    BY <1>1, <2>1, PieceType
  <2> QED BY <2>2 DEF From, IsPiece
<1> QED BY <1>1, <1>2

LEMMA TypeCorrect == Invariant => TypeOK
<1> SUFFICES ASSUME Invariant PROVE TypeOK
  OBVIOUS
<1>1. Typed /\ Stages /\ InOrder
  BY DEF Invariant
<1> DEFINE f == Number(received, 0)  n == Number(sent, spart)  h == InHand
           all == Number(Msgs, 0)
<1>2. f \in Nat /\ n \in Nat /\ all \in Nat /\ n <= all
  <2>1. sent \in Nat /\ spart \in 0 .. Chunks - 1 /\ sent <= Msgs /\ Msgs \in Nat
           /\ 0 \in 0 .. Chunks - 1
    BY <1>1, ChunksType DEF Typed
  <2>2. n \in Nat /\ all \in Nat
    BY <2>1, NumberSteps
  <2>3. ASSUME sent < Msgs PROVE n <= all
    BY <2>1, <2>2, <2>3, NumberSteps
  <2>4. ASSUME sent = Msgs PROVE n <= all
    BY <1>1, <2>1, <2>2, <2>4 DEF Stages
  <2> QED BY <1>1, <2>1, <2>2, <2>3, <2>4, Numbers
<1>3. /\ s2c \in Parts /\ rbuf \in Parts /\ c2s \in Parts /\ h \in Parts
      /\ Len(s2c) \in Nat /\ Len(rbuf) \in Nat /\ Len(c2s) \in Nat /\ Len(h) \in Nat
  BY <1>1, HandType DEF Typed, Parts
<1>4. Beginning(rbuf, s2c, f, n) /\ (~dead => Line(rbuf, s2c, h, c2s, f, n))
  BY <1>1 DEF InOrder
<1> HIDE DEF f, n, h, all
<1>5. \A i \in DOMAIN s2c : IsPiece(s2c[i])
  <2>1. From(s2c, f + Len(rbuf)) /\ f + Len(rbuf) \in Nat /\ (f + Len(rbuf)) + Len(s2c) <= all
    BY <1>2, <1>3, <1>4 DEF Beginning
  <2> QED BY <1>3, <2>1, PartOfRun DEF all
<1>6. \A i \in DOMAIN c2s : IsPiece(c2s[i])
  <2>1. CASE ~dead
    <3> DEFINE k == f + Len(rbuf) + Len(s2c) + Len(h)
    <3>1. From(c2s, k) /\ k \in Nat /\ k + Len(c2s) <= all
      BY <1>2, <1>3, <1>4, <2>1 DEF Line
    <3> HIDE DEF k
    <3> QED BY <1>3, <3>1, PartOfRun DEF all
  <2>2. CASE dead
    BY <1>1, <2>2 DEF Stages
  <2> QED BY <1>1, <2>1, <2>2 DEF Typed
<1>7. got \in [Pieces -> -1 .. Msgs - 1]
  <2>1. received - 1 \in -1 .. Msgs - 1
    BY <1>1, ChunksType DEF Typed
  <2> QED BY <1>1, <2>1 DEF Typed
<1> QED BY <1>1, <1>5, <1>6, <1>7 DEF TypeOK, Typed

\* No partial read or write, no timeout and no stall makes the framing slip: as
\* long as the echo process lives, the pieces between receiver and sender are
\* those the receiver still misses, every one of them, once and in order, so a
\* message's first byte is where the next recv() starts to fill its buffer
\* (stream.rs:19-63).
THEOREM FramingHolds == Spec => []FramingIntact
<1>1. ASSUME Invariant PROVE FramingIntact
  <2> DEFINE f == Number(received, 0)  n == Number(sent, spart)  h == InHand
             a == rbuf \o s2c  b == a \o h
  <2>1. TypeOK
    BY <1>1, TypeCorrect
  <2>2. f = received * Chunks /\ n = sent * Chunks + spart /\ f \in Nat /\ n \in Nat
    BY <1>1, ChunksType, Numbers DEF Invariant, Typed, Number
  <2>3. ASSUME ~dead
        PROVE  Len(b \o c2s) = n - f /\ \A i \in DOMAIN (b \o c2s) : (b \o c2s)[i] = PieceAt(f + i - 1)
    <3>1. /\ rbuf \in Parts /\ s2c \in Parts /\ h \in Parts /\ c2s \in Parts
          /\ Len(rbuf) \in Nat /\ Len(s2c) \in Nat /\ Len(h) \in Nat /\ Len(c2s) \in Nat
      BY <1>1, HandType DEF Invariant, Typed, Parts
    <3>2. Line(rbuf, s2c, h, c2s, f, n)
      BY <1>1, <2>3 DEF Invariant, InOrder
    <3> HIDE DEF f, n, h
    <3>3. /\ From(rbuf, f) /\ From(s2c, f + Len(rbuf)) /\ From(h, f + Len(rbuf) + Len(s2c))
          /\ From(c2s, f + Len(rbuf) + Len(s2c) + Len(h))
          /\ f + Len(rbuf) + Len(s2c) + Len(h) + Len(c2s) = n
      BY <3>2 DEF Line
    <3>4. a \in Parts /\ Len(a) = Len(rbuf) + Len(s2c) /\ From(a, f)
      BY <2>2, <3>1, <3>3, FromConcat
    <3>5. f + Len(a) = f + Len(rbuf) + Len(s2c)
      BY <2>2, <3>1, <3>4
    <3> HIDE DEF a
    <3>6. b \in Parts /\ Len(b) = Len(a) + Len(h) /\ From(b, f)
      BY <2>2, <3>1, <3>3, <3>4, <3>5, FromConcat
    <3>7. f + Len(b) = f + Len(rbuf) + Len(s2c) + Len(h)
      BY <2>2, <3>1, <3>4, <3>6
    <3> HIDE DEF b
    <3>8. b \o c2s \in Parts /\ Len(b \o c2s) = Len(b) + Len(c2s) /\ From(b \o c2s, f)
      BY <2>2, <3>1, <3>3, <3>6, <3>7, FromConcat
    <3>9. Len(b \o c2s) = n - f
      BY ONLY <2>2, <3>1, <3>3, <3>4, <3>6, <3>8, SMTT(30)
    <3>10. DOMAIN (b \o c2s) = 1 .. Len(b \o c2s)
      BY <3>8 DEF Parts
    <3> QED BY <3>8, <3>9, <3>10 DEF From
  <2>4. Ahead = b \o c2s
    BY DEF Ahead, InHand
  <2> HIDE DEF b, f, n
  <2>5. ~dead => /\ Len(Ahead) = sent * Chunks + spart - received * Chunks
                 /\ \A i \in DOMAIN Ahead : Ahead[i] = PieceAt(received * Chunks + i - 1)
    <3>1. ~dead => /\ Len(Ahead) = n - f
                   /\ \A i \in DOMAIN Ahead : Ahead[i] = PieceAt(f + i - 1)
      BY <2>3, <2>4
    <3>2. n - f = sent * Chunks + spart - received * Chunks
      <4>1. sent \in Nat /\ spart \in Nat /\ received \in Nat /\ Chunks \in Nat
        BY <1>1, ChunksType DEF Invariant, Typed
      <4> QED BY <2>2, <4>1
    <3> QED BY <2>2, <3>1, <3>2, Zenon
  <2> QED BY <2>1, <2>5 DEF FramingIntact
<1> QED BY <1>1, InvariantHolds, PTL

\* To its two users the connection is SpscFifo with room for the whole run: the
\* receive thread gets every message whole, in the order of the sends, once and
\* not before it was sent, even if the echo process is killed at any byte.
THEOREM StreamImplementsFifo == Spec => ImplementsFifo
<1>1. Init => Fifo!Init
  BY DEF Init, Fifo!Init
<1>2. Invariant /\ [Next]_vars => [Fifo!Next]_Fifo!fifoVars
  <2> SUFFICES ASSUME Invariant, [Next]_vars PROVE [Fifo!Next]_Fifo!fifoVars
    OBVIOUS
  <2> USE DEF Fifo!fifoVars
  <2>1. ASSUME spc = "send", CountPiece, UNCHANGED <<received, got>>
        PROVE  [Fifo!Next]_Fifo!fifoVars
    <3>1. received \in Nat /\ sent \in Nat /\ sent < Msgs /\ Msgs \in Nat
      BY <2>1, ChunksType DEF Invariant, Typed, Stages
    <3>2. CASE sent' = sent
      BY <2>1, <3>2
    <3>3. CASE sent' = sent + 1
      <4>1. Fifo!Send
        BY <2>1, <3>1, <3>3 DEF Fifo!Send
      <4> QED BY <4>1 DEF Fifo!Next
    <3> QED BY <2>1, <3>2, <3>3 DEF CountPiece
  <2>2. CASE SendPiece \/ SendToDead
    BY <2>1, <2>2 DEF SendPiece, SendToDead, receiver
  <2>3. CASE RecvMsg
    <3>1. Fifo!Receive
      BY <2>3, RecvMsgStep DEF RecvMsg, sender, Fifo!Receive
    <3> QED BY <3>1 DEF Fifo!Next
  <2>4. CASE UNCHANGED <<sent, received, got>>
    BY <2>4
  <2> QED
    BY <2>2, <2>3, <2>4 DEF Next, Sender, Echo, Receiver, EchoRead, EchoWrite, EchoDies,
       RecvPiece, RecvTimedOut, RecvStalled, RecvEof, Over, vars, sender, receiver
<1> QED
  BY <1>1, <1>2, InvariantHolds, PTL DEF Spec, ImplementsFifo, Fifo!Spec

-----------------------------------------------------------------------------
(***************************************************************************)
(* Why no message vanishes between two Redis streams, for every number of  *)
(* messages and every trimming.  The server numbers the entries of a       *)
(* stream without a gap, and trims the oldest; a reader's reply is handed  *)
(* out from the back, so the entries it still holds are numbered without a *)
(* gap too.  Which entries are waiting for a reader is therefore a set in  *)
(* the order of the ids, and each step takes the first out of it, adds one *)
(* at its end, or trims some.                                              *)
(***************************************************************************)

Named == 0 .. Total - 1
Entry == [id : Nat, msg : Named]
Stored == Seq(Entry)

LEMMA RedisConstants == Total \in Nat /\ Total > 0 /\ MaxLen \in Nat /\ MaxLen > 0
  BY RedisAssumption DEF RedisAssumption

-----------------------------------------------------------------------------
(* Streams and replies                                                     *)

\* The ids of q go up, or down, by one; n is the id before the first, or of it.
Up(q, n)   == \A i \in 1 .. Len(q) : q[i].id = n + i
Down(q, n) == \A i \in 1 .. Len(q) : q[i].id = n - i + 1

LEMMA AboveIs ==
  ASSUME NEW q \in Stored, NEW n \in Nat, Up(q, n), NEW id \in Nat
  PROVE  \E k \in 0 .. Len(q) :
            /\ Above(q, id) = SubSeq(q, k + 1, Len(q))
            /\ \A i \in 1 .. Len(q) : q[i].id > id <=> i > k
            /\ \A i \in 1 .. Len(q) : n + i > id <=> i > k
<1> DEFINE P(k) == \A i \in DOMAIN q : q[i].id > id <=> i > k
<1>1. Len(q) \in Nat /\ DOMAIN q = 1 .. Len(q)
  BY DEF Stored
<1>2. \E k \in 0 .. Len(q) : \A i \in 1 .. Len(q) : n + i > id <=> i > k
  <2>1. CASE id <= n
    BY <1>1, <2>1
  <2>2. CASE id > n /\ id - n <= Len(q)
    <3>1. id - n \in 0 .. Len(q) /\ \A i \in 1 .. Len(q) : n + i > id <=> i > id - n
      BY <1>1, <2>2
    <3> QED BY <3>1
  <2>3. CASE id - n > Len(q)
    <3>1. Len(q) \in 0 .. Len(q) /\ \A i \in 1 .. Len(q) : n + i > id <=> i > Len(q)
      BY <1>1, <2>3
    <3> QED BY <3>1
  <2> QED BY <1>1, <2>1, <2>2, <2>3
<1>3. \E k \in 0 .. Len(q) : P(k)
  BY <1>1, <1>2 DEF Up
<1> DEFINE k == CHOOSE k \in 0 .. Len(q) : P(k)
<1>4. k \in 0 .. Len(q) /\ P(k)
  BY <1>3
<1>5. Above(q, id) = SubSeq(q, k + 1, Len(q))
  BY DEF Above
<1>6. \A i \in 1 .. Len(q) : n + i > id <=> i > k
  BY <1>1, <1>4 DEF Up
<1> HIDE DEF k
<1> QED BY <1>1, <1>4, <1>5, <1>6

\* What is above an id: entries without a gap, exactly those with a higher id.
LEMMA AboveShape ==
  ASSUME NEW q \in Stored, NEW n \in Nat, Up(q, n), NEW id \in Nat
  PROVE  /\ Above(q, id) \in Stored
         /\ ToSet(Above(q, id)) = {e \in ToSet(q) : e.id > id}
         /\ \E m \in Nat : /\ Up(Above(q, id), m) /\ m >= id
                           /\ Above(q, id) # <<>> => m + Len(Above(q, id)) = n + Len(q)
<1>1. PICK k \in 0 .. Len(q) : /\ Above(q, id) = SubSeq(q, k + 1, Len(q))
                               /\ \A i \in 1 .. Len(q) : q[i].id > id <=> i > k
                               /\ \A i \in 1 .. Len(q) : n + i > id <=> i > k
  BY AboveIs
<1>2. PICK a : a = SubSeq(q, k + 1, Len(q))
  OBVIOUS
<1>3. /\ a \in Stored /\ Len(a) = Len(q) - k /\ Len(q) \in Nat
      /\ DOMAIN q = 1 .. Len(q) /\ DOMAIN a = 1 .. Len(a)
      /\ \A i \in 1 .. Len(a) : a[i] = q[k + i]
  BY <1>1, <1>2 DEF Stored
<1>4. ASSUME NEW i \in 1 .. Len(a)
      PROVE  a[i] \in {e \in ToSet(q) : e.id > id} /\ a[i].id = (n + k) + i
  <2>1. k + i \in 1 .. Len(q) /\ k + i > k
    BY <1>1, <1>3
  <2>2. q[k + i].id = n + (k + i)
    BY <2>1 DEF Up
  <2>3. a[i] = q[k + i] /\ (n + k) + i = n + (k + i)
    BY <1>3
  <2>4. q[k + i] \in ToSet(q)
    BY <1>3, <2>1 DEF ToSet
  <2>5. q[k + i].id > id
    BY <1>1, <2>1
  <2> QED BY <2>2, <2>3, <2>4, <2>5
<1>5. ASSUME NEW e \in ToSet(q), e.id > id PROVE e \in ToSet(a)
  <2>1. PICK i \in 1 .. Len(q) : e = q[i]
    BY <1>3, <1>5 DEF ToSet
  <2>2. i - k \in 1 .. Len(a) /\ k + (i - k) = i
    BY <1>1, <1>3, <1>5, <2>1
  <2> QED BY <1>3, <2>1, <2>2 DEF ToSet
<1>6. ToSet(a) = {e \in ToSet(q) : e.id > id}
  BY <1>3, <1>4, <1>5 DEF ToSet
<1>7. CASE a = <<>>
  <2>1. Up(a, id)
    BY <1>7 DEF Up
  <2>2. Above(q, id) = a /\ id >= id
    BY <1>1, <1>2
  <2> QED BY <1>3, <1>6, <1>7, <2>1, <2>2
<1>8. CASE a # <<>>
  <2>1. Len(a) > 0
    BY <1>3, <1>8 DEF Stored
  <2>2. k + 1 \in 1 .. Len(q) /\ n + (k + 1) > id
    BY <1>1, <1>3, <2>1
  <2>3. n + k >= id /\ n + k \in Nat /\ (n + k) + Len(a) = n + Len(q)
    BY <1>1, <1>3, <2>2
  <2>4. Up(a, n + k)
    BY <1>4 DEF Up
  <2> QED BY <1>1, <1>2, <1>3, <1>6, <2>3, <2>4
<1> QED BY <1>7, <1>8

LEMMA ReverseShape ==
  ASSUME NEW q \in Stored
  PROVE  /\ Reverse(q) \in Stored /\ Len(Reverse(q)) = Len(q) /\ ToSet(Reverse(q)) = ToSet(q)
         /\ \A n \in Nat : Up(q, n) => Down(Reverse(q), n + Len(q))
         /\ \A n \in Nat : Down(q, n + Len(q)) => Up(Reverse(q), n)
<1> DEFINE r == Reverse(q)
<1>1. Len(q) \in Nat /\ \A i \in 1 .. Len(q) : q[i] \in Entry /\ (Len(q) - i) + 1 \in 1 .. Len(q)
  BY DEF Stored
<1>2. r = [i \in 1 .. Len(q) |-> q[(Len(q) - i) + 1]]
  BY DEF Reverse
<1> HIDE DEF r
<1>3. r \in Seq(Entry) /\ Len(r) = Len(q) /\ \A i \in 1 .. Len(q) : r[i] = q[(Len(q) - i) + 1]
  BY <1>1, <1>2
<1>4. DOMAIN r = 1 .. Len(q) /\ DOMAIN q = 1 .. Len(q)
  BY <1>2 DEF Stored
<1>5. ASSUME NEW i \in 1 .. Len(q) PROVE q[i] = r[(Len(q) - i) + 1]
  <2>1. (Len(q) - ((Len(q) - i) + 1)) + 1 = i
    BY <1>1
  <2> QED BY <1>1, <1>3, <2>1
<1>6. ToSet(r) = ToSet(q)
  <2>1. ASSUME NEW i \in 1 .. Len(q) PROVE r[i] \in ToSet(q) /\ q[i] \in ToSet(r)
    <3>1. r[i] = q[(Len(q) - i) + 1] /\ q[i] = r[(Len(q) - i) + 1]
             /\ (Len(q) - i) + 1 \in 1 .. Len(q)
      BY <1>1, <1>3, <1>5
    <3> QED BY <1>4, <3>1 DEF ToSet
  <2> QED BY <1>4, <2>1 DEF ToSet
<1>7. ASSUME NEW n \in Nat, Up(q, n) PROVE Down(r, n + Len(q))
  <2>1. ASSUME NEW i \in 1 .. Len(q) PROVE r[i].id = (n + Len(q)) - i + 1
    <3>1. q[(Len(q) - i) + 1].id = n + ((Len(q) - i) + 1)
      BY <1>1, <1>7 DEF Up
    <3>2. n + ((Len(q) - i) + 1) = (n + Len(q)) - i + 1
      BY <1>1
    <3> QED BY <1>3, <3>1, <3>2
  <2> QED BY <1>3, <2>1 DEF Down
<1>8. ASSUME NEW n \in Nat, Down(q, n + Len(q)) PROVE Up(r, n)
  <2>1. ASSUME NEW i \in 1 .. Len(q) PROVE r[i].id = n + i
    <3>1. q[(Len(q) - i) + 1].id = (n + Len(q)) - ((Len(q) - i) + 1) + 1
      BY <1>1, <1>8 DEF Down
    <3>2. (n + Len(q)) - ((Len(q) - i) + 1) + 1 = n + i
      BY <1>1
    <3> QED BY <1>3, <3>1, <3>2
  <2> QED BY <1>3, <2>1 DEF Up
<1> QED BY <1>3, <1>6, <1>7, <1>8 DEF r, Stored

\* What recv_any does to the batch it hands out from.
LEMMA BatchShape ==
  ASSUME NEW b \in Stored, b # <<>>, NEW n \in Nat, Down(b, n + Len(b))
  PROVE  /\ Front(b) \in Stored /\ Len(Front(b)) = Len(b) - 1 /\ Len(b) \in Nat /\ Len(b) > 0
         /\ Last(b) \in Entry /\ Last(b).id = n + 1
         /\ Down(Front(b), (n + 1) + Len(Front(b)))
         /\ ToSet(b) = ToSet(Front(b)) \cup {Last(b)}
         /\ \A e \in ToSet(Front(b)) : e.id > n + 1
<1> DEFINE f == Front(b)
<1>1. Len(b) \in Nat /\ Len(b) > 0 /\ DOMAIN b = 1 .. Len(b)
        /\ \A i \in 1 .. Len(b) : b[i] \in Entry /\ b[i].id = (n + Len(b)) - i + 1
  BY DEF Stored, Down
<1>2. f \in Stored /\ Len(f) = Len(b) - 1 /\ \A i \in 1 .. Len(b) - 1 : f[i] = b[i]
  BY <1>1 DEF Front, Stored
<1>3. DOMAIN f = 1 .. Len(b) - 1
  BY <1>2 DEF Stored
<1> HIDE DEF f
<1>4. Last(b) = b[Len(b)] /\ Len(b) \in 1 .. Len(b) /\ (n + Len(b)) - Len(b) + 1 = n + 1
  BY <1>1 DEF Last
<1>5. Last(b) \in Entry /\ Last(b).id = n + 1
  BY <1>1, <1>4
<1>6. (n + 1) + Len(f) = n + Len(b)
  BY <1>1, <1>2
<1>7. \A i \in 1 .. Len(b) - 1 : i \in 1 .. Len(b) /\ (n + Len(b)) - i + 1 > n + 1
  <2>1. \A m \in Nat : \A i \in 1 .. m - 1 : i \in 1 .. m /\ (n + m) - i + 1 > n + 1
    OBVIOUS
  <2> QED BY <1>1, <2>1
<1>8. Down(f, (n + 1) + Len(f))
  BY <1>1, <1>2, <1>6, <1>7 DEF Down
<1>9. \A i \in 1 .. Len(b) : i = Len(b) \/ i \in 1 .. Len(b) - 1
  <2>1. \A m \in Nat : \A i \in 1 .. m : i = m \/ i \in 1 .. m - 1
    OBVIOUS
  <2> QED BY <1>1, <2>1
<1>10. ToSet(b) = ToSet(f) \cup {Last(b)}
  <2>1. \A i \in 1 .. Len(b) : b[i] \in ToSet(f) \cup {Last(b)}
    BY <1>2, <1>3, <1>4, <1>9 DEF ToSet
  <2>2. \A i \in 1 .. Len(b) - 1 : f[i] \in ToSet(b)
    BY <1>1, <1>2, <1>7 DEF ToSet
  <2>3. Last(b) \in ToSet(b)
    BY <1>1, <1>4 DEF ToSet
  <2> QED BY <1>1, <1>3, <2>1, <2>2, <2>3 DEF ToSet
<1>11. \A e \in ToSet(f) : e.id > n + 1
  BY <1>1, <1>2, <1>3, <1>7 DEF ToSet
<1> QED BY <1>1, <1>2, <1>5, <1>8, <1>10, <1>11 DEF f

-----------------------------------------------------------------------------
(* The inductive invariant                                                 *)

RedisTyped ==
    /\ stream \in [Keys -> Stored] /\ pending \in [Keys -> Stored]
    /\ added \in [Keys -> Nat] /\ lastId \in [Keys -> Nat]
    /\ csent \in 0 .. Total
    /\ hand \in Named \cup {-1}
    /\ returned \in Seq(Named)

\* Ids are without a gap, on the server up to the last one added and in a
\* reader's hands from the one after last_id.
Numbered ==
    \A k \in Keys :
        /\ Len(stream[k]) <= added[k] /\ Up(stream[k], added[k] - Len(stream[k]))
        /\ Down(pending[k], lastId[k] + Len(pending[k]))
        /\ lastId[k] + Len(pending[k]) <= added[k]

\* The echo sends back at most what it has received.
Bounded ==
    /\ added["c2s"] = csent
    /\ added["s2c"] + (IF hand = -1 THEN 0 ELSE 1) <= lastId["c2s"]

\* The entries of k that its reader has not handed out.
Waiting(k) == ToSet(pending[k]) \cup {e \in ToSet(stream[k]) : e.id > Fetched(k)}
Messages(entries) == {e.msg : e \in entries}

\* Messages that were received, are on their way back, in the echo's hand and on
\* their way out.
Got    == ToSet(returned)
Back   == Messages(Waiting("s2c"))
AtEcho == {hand} \ {-1}
Out    == Messages(Waiting("c2s"))

Below(A, B) == \A a \in A, b \in B : a < b
Increasing(s) == \A i, j \in DOMAIN s : i < j => s[i] < s[j]
ById(entries) == \A e, f \in entries : e.id < f.id => e.msg < f.msg

Ordered ==
    /\ Increasing(returned) /\ ById(Waiting("s2c")) /\ ById(Waiting("c2s"))
    /\ Below(Got, Back) /\ Below(Got, AtEcho) /\ Below(Got, Out)
    /\ Below(Back, AtEcho) /\ Below(Back, Out) /\ Below(AtEcho, Out)

Accounted ==
    /\ Got \cup Back \cup AtEcho \cup Out \cup overrun = 0 .. csent - 1
    /\ (Got \cup Back \cup AtEcho \cup Out) \cap overrun = {}

RedisInvariant == RedisTyped /\ Numbered /\ Bounded /\ Ordered /\ Accounted

LEMMA KeysAre == "c2s" \in Keys /\ "s2c" \in Keys /\ \A k \in Keys : k = "c2s" \/ k = "s2c"
  BY DEF Keys

LEMMA FetchedIs ==
  ASSUME RedisTyped, Numbered, NEW k \in Keys
  PROVE  Fetched(k) = lastId[k] + Len(pending[k]) /\ Fetched(k) \in Nat /\ Fetched(k) <= added[k]
<1> DEFINE p == pending[k]
<1>1. p \in Seq(Entry) /\ lastId[k] \in Nat /\ Down(p, lastId[k] + Len(p))
        /\ lastId[k] + Len(p) <= added[k] /\ added[k] \in Nat
  BY DEF RedisTyped, Numbered, Stored
<1>2. Fetched(k) = IF p = <<>> THEN lastId[k] ELSE Head(p).id
  BY DEF Fetched
<1> HIDE DEF p
<1>3. CASE p = <<>>
  BY <1>1, <1>2, <1>3 DEF p
<1>4. CASE p # <<>>
  <2>1. Head(p) = p[1] /\ 1 \in 1 .. Len(p) /\ Len(p) \in Nat
    BY <1>1, <1>4
  <2>2. p[1].id = (lastId[k] + Len(p)) - 1 + 1
    BY <1>1, <2>1 DEF Down
  <2>3. (lastId[k] + Len(p)) - 1 + 1 = lastId[k] + Len(p)
    BY <1>1, <2>1
  <2> QED BY <1>1, <1>2, <1>4, <2>1, <2>2, <2>3 DEF p
<1> QED BY <1>3, <1>4

\* Waiting entries are of the stream, and their ids tell them apart.
LEMMA WaitingIs ==
  ASSUME RedisTyped, Numbered, NEW k \in Keys
  PROVE  /\ Waiting(k) \subseteq Entry
         /\ \A e \in Waiting(k) : e.id \in Nat /\ e.msg \in Named /\ e.id <= added[k]
         /\ \A e, f \in Waiting(k) : e.id = f.id => e = f
<1> DEFINE p == pending[k]  s == stream[k]  l == lastId[k] + Len(p)  n == added[k] - Len(s)
<1>0. /\ p \in Seq(Entry) /\ s \in Seq(Entry) /\ added[k] \in Nat /\ lastId[k] \in Nat
      /\ Len(s) <= added[k] /\ l <= added[k]
      /\ \A i \in 1 .. Len(p) : p[i].id = l - i + 1
      /\ \A i \in 1 .. Len(s) : s[i].id = n + i
  BY DEF RedisTyped, Numbered, Stored, Up, Down
<1>1. /\ p \in Seq(Entry) /\ s \in Seq(Entry) /\ Len(p) \in Nat /\ Len(s) \in Nat
      /\ DOMAIN p = 1 .. Len(p) /\ DOMAIN s = 1 .. Len(s)
      /\ l \in Nat /\ n \in Nat /\ l <= added[k] /\ n + Len(s) = added[k]
      /\ \A i \in 1 .. Len(p) : p[i].id = l - i + 1
      /\ \A i \in 1 .. Len(s) : s[i].id = n + i
      /\ added[k] \in Nat
  <2> HIDE DEF p, s
  <2> QED BY <1>0
<1>2. Waiting(k) = ToSet(p) \cup {e \in ToSet(s) : e.id > l}
  BY FetchedIs DEF Waiting
<1> HIDE DEF p, s, l, n
<1>3. ASSUME NEW e \in ToSet(p)
      PROVE  \E i \in 1 .. Len(p) : e = p[i] /\ e \in Entry /\ e.id = l - i + 1
  BY <1>1 DEF ToSet
<1>4. ASSUME NEW e \in ToSet(s)
      PROVE  \E i \in 1 .. Len(s) : e = s[i] /\ e \in Entry /\ e.id = n + i
  BY <1>1 DEF ToSet
<1>5. ASSUME NEW e \in Waiting(k)
      PROVE  e \in Entry /\ e.id \in Nat /\ e.msg \in Named /\ e.id <= added[k]
  BY <1>1, <1>2, <1>3, <1>4 DEF Entry
<1>6. ASSUME NEW e \in Waiting(k), NEW f \in Waiting(k), e.id = f.id PROVE e = f
  <2>1. CASE e \in ToSet(p) /\ f \in ToSet(p)
    BY <1>1, <1>3, <1>6, <2>1
  <2>2. CASE e \in ToSet(s) /\ f \in ToSet(s)
    BY <1>1, <1>4, <1>6, <2>2
  <2>3. \A x \in ToSet(p) : ~(x.id > l)
    BY <1>1, <1>3
  <2> QED BY <1>2, <1>6, <2>1, <2>2, <2>3
<1> QED BY <1>5, <1>6

LEMMA RedisInvariantInit == RedisInit => RedisInvariant
<1> SUFFICES ASSUME RedisInit PROVE RedisInvariant
  OBVIOUS
<1>1. <<>> \in Stored /\ <<>> \in Seq(Named) /\ Len(<<>>) = 0 /\ ToSet(<<>>) = {}
  BY DEF Stored, ToSet
<1>2. \A n : Up(<<>>, n) /\ Down(<<>>, n)
  BY <1>1 DEF Up, Down
<1>3. RedisTyped
  BY <1>1, RedisConstants DEF RedisInit, RedisTyped
<1>4. Numbered /\ Bounded
  BY <1>1, <1>2, KeysAre DEF RedisInit, Numbered, Bounded
<1>5. Got = {} /\ AtEcho = {} /\ \A k \in Keys : Waiting(k) = {}
  BY <1>1 DEF RedisInit, Got, AtEcho, Waiting
<1>6. Back = {} /\ Out = {}
  BY <1>5, KeysAre DEF Back, Out, Messages
<1>7. Ordered
  BY <1>1, <1>5, <1>6, KeysAre DEF RedisInit, Ordered, Increasing, ById, Below
<1>8. Accounted
  BY <1>5, <1>6 DEF RedisInit, Accounted
<1> QED BY <1>3, <1>4, <1>7, <1>8 DEF RedisInvariant

-----------------------------------------------------------------------------
(* One step of one stream                                                  *)

\* The batch recv_any hands out from: the first entries of those waiting.
LEMMA BatchIs ==
  ASSUME RedisTyped, Numbered, NEW k \in Keys,
         NEW b, b = IF pending[k] = <<>> THEN Handout(Newer(k, lastId[k])) ELSE pending[k],
         b # <<>>
  PROVE  \E n \in Nat :
            /\ b \in Stored /\ Down(b, n + Len(b)) /\ n >= lastId[k] /\ n + Len(b) <= added[k]
            /\ Waiting(k) = ToSet(b) \cup {e \in ToSet(stream[k]) : e.id > n + Len(b)}
<1>1. /\ pending[k] \in Stored /\ stream[k] \in Stored /\ added[k] \in Nat /\ lastId[k] \in Nat
      /\ Len(stream[k]) \in Nat /\ Len(stream[k]) <= added[k]
      /\ Up(stream[k], added[k] - Len(stream[k])) /\ added[k] - Len(stream[k]) \in Nat
      /\ Down(pending[k], lastId[k] + Len(pending[k]))
      /\ lastId[k] + Len(pending[k]) <= added[k]
  BY DEF RedisTyped, Numbered, Stored
<1>2. Waiting(k) = ToSet(pending[k])
                     \cup {e \in ToSet(stream[k]) : e.id > lastId[k] + Len(pending[k])}
  BY FetchedIs DEF Waiting
<1>3. CASE pending[k] # <<>>
  <2>1. b = pending[k]
    BY <1>3
  <2> QED BY <1>1, <1>2, <2>1
<1>4. CASE pending[k] = <<>>
  <2> DEFINE s == stream[k]  l == lastId[k]  n == added[k] - Len(s)
  <2>1. PICK N : N = Above(s, l)
    OBVIOUS
  <2>2. s \in Stored /\ l \in Nat /\ n \in Nat /\ Up(s, n) /\ n + Len(s) = added[k]
    BY <1>1
  <2>3. b = Reverse(N)
    BY <1>4, <2>1 DEF Handout, Newer
  <2>4. Waiting(k) = {e \in ToSet(s) : e.id > l}
    <3>1. ToSet(<<>>) = {} /\ Len(<<>>) = 0 /\ lastId[k] + 0 = lastId[k]
      BY <1>1 DEF ToSet
    <3> QED BY <1>2, <1>4, <3>1
  <2> HIDE DEF s, l, n
  <2>5. N \in Stored /\ ToSet(N) = {e \in ToSet(s) : e.id > l}
    BY <2>1, <2>2, AboveShape
  <2>6. PICK m \in Nat : Up(N, m) /\ m >= l /\ (N # <<>> => m + Len(N) = n + Len(s))
    BY <2>1, <2>2, AboveShape
  <2>7. b \in Stored /\ Len(b) = Len(N) /\ ToSet(b) = ToSet(N) /\ Down(b, m + Len(N))
    BY <2>3, <2>5, <2>6, ReverseShape
  <2>8. N # <<>>
    <3>1. b \in Seq(Entry) /\ N \in Seq(Entry) /\ Len(b) # 0
      BY <2>5, <2>7 DEF Stored
    <3> QED BY <2>7, <3>1
  <2>9. m + Len(b) = added[k]
    BY <2>2, <2>6, <2>7, <2>8
  <2>10. \A e \in ToSet(s) : ~(e.id > added[k])
    <3>1. ASSUME NEW e \in ToSet(s) PROVE \E i \in 1 .. Len(s) : e = s[i]
      <4>1. DOMAIN s = 1 .. Len(s)
        BY <2>2 DEF Stored
      <4> QED BY <3>1, <4>1 DEF ToSet
    <3>2. Len(s) \in Nat
      BY <2>2 DEF Stored
    <3>3. \A i \in 1 .. Len(s) : s[i].id = n + i
      BY <2>2 DEF Up
    <3>4. \A i \in 1 .. Len(s) : n + i <= added[k]
      BY ONLY <2>2, <3>2
    <3>5. added[k] \in Nat /\ \A i \in 1 .. Len(s) : n + i \in Nat
      BY ONLY <1>1, <2>2, <3>2
    <3>6. \A i \in 1 .. Len(s) : ~(s[i].id > added[k])
      BY ONLY <3>3, <3>4, <3>5
    <3> QED BY <3>1, <3>6
  <2>11. Waiting(k) = ToSet(b) \cup {e \in ToSet(s) : e.id > m + Len(b)}
    BY <2>4, <2>5, <2>7, <2>9, <2>10
  <2>12. m + Len(b) <= added[k]
    BY <1>1, <2>9
  <2> QED BY <2>6, <2>7, <2>11, <2>12 DEF s, l
<1> QED BY <1>3, <1>4

\* recv_any takes the first of the waiting entries.
LEMMA RecvAnyTakes ==
  ASSUME RedisTyped, Numbered, NEW k \in Keys, NEW m, RecvAny(k, m), UNCHANGED <<stream, added>>
  PROVE  /\ pending' \in [Keys -> Stored] /\ lastId' \in [Keys -> Nat] /\ m \in Named
         /\ Numbered'
         /\ lastId[k] < lastId'[k]
         /\ \A j \in Keys \ {k} : Waiting(j)' = Waiting(j) /\ lastId'[j] = lastId[j]
         /\ \E e \in Entry : /\ m = e.msg
                              /\ Waiting(k) = Waiting(k)' \cup {e}
                              /\ \A f \in Waiting(k)' : e.id < f.id
<1> DEFINE b == IF pending[k] = <<>> THEN Handout(Newer(k, lastId[k])) ELSE pending[k]
<1>1. /\ b # <<>> /\ pending' = [pending EXCEPT ![k] = Front(b)]
      /\ lastId' = [lastId EXCEPT ![k] = Last(b).id] /\ m = Last(b).msg
  BY DEF RecvAny
<1>2. PICK n \in Nat :
            /\ b \in Stored /\ Down(b, n + Len(b)) /\ n >= lastId[k] /\ n + Len(b) <= added[k]
            /\ Waiting(k) = ToSet(b) \cup {e \in ToSet(stream[k]) : e.id > n + Len(b)}
  BY <1>1, BatchIs
<1> HIDE DEF b
<1>3. /\ Front(b) \in Stored /\ Len(Front(b)) = Len(b) - 1 /\ Len(b) \in Nat /\ Len(b) > 0
      /\ Last(b) \in Entry /\ Last(b).id = n + 1
      /\ Down(Front(b), (n + 1) + Len(Front(b)))
      /\ ToSet(b) = ToSet(Front(b)) \cup {Last(b)}
      /\ \A e \in ToSet(Front(b)) : e.id > n + 1
  BY <1>1, <1>2, BatchShape
<1>4. /\ pending \in [Keys -> Stored] /\ lastId \in [Keys -> Nat] /\ stream \in [Keys -> Stored]
      /\ added \in [Keys -> Nat]
  BY DEF RedisTyped
<1>5. /\ pending' \in [Keys -> Stored] /\ lastId' \in [Keys -> Nat] /\ m \in Named
      /\ pending'[k] = Front(b) /\ lastId'[k] = n + 1
      /\ \A j \in Keys \ {k} : pending'[j] = pending[j] /\ lastId'[j] = lastId[j]
  BY <1>1, <1>3, <1>4 DEF Entry
<1>6. (n + 1) + Len(Front(b)) = n + Len(b) /\ lastId[k] < n + 1
  BY <1>2, <1>3, <1>4
<1>7. Numbered'
  <2>1. /\ Down(pending'[k], lastId'[k] + Len(pending'[k]))
        /\ lastId'[k] + Len(pending'[k]) <= added[k]
    BY <1>2, <1>3, <1>5, <1>6
  <2>2. \A j \in Keys \ {k} : /\ Down(pending'[j], lastId'[j] + Len(pending'[j]))
                              /\ lastId'[j] + Len(pending'[j]) <= added[j]
    BY <1>5 DEF Numbered
  <2> QED BY <2>1, <2>2 DEF Numbered
<1>8. Fetched(k)' = n + Len(b)
  <2>2. Fetched(k)' = IF Front(b) = <<>> THEN n + 1 ELSE Head(Front(b)).id
    BY <1>5 DEF Fetched
  <2>3. CASE Front(b) = <<>>
    BY <1>6, <2>2, <2>3
  <2>4. CASE Front(b) # <<>>
    <3>1. PICK f \in Seq(Entry) : f = Front(b)
      BY <1>3 DEF Stored
    <3>2. 1 \in 1 .. Len(f) /\ Head(f) = f[1] /\ Len(f) \in Nat
      BY <2>4, <3>1
    <3>3. f[1].id = (n + Len(b)) - 1 + 1
      BY <1>3, <1>6, <3>1, <3>2 DEF Down
    <3>4. (n + Len(b)) - 1 + 1 = n + Len(b)
      BY <1>2, <1>3
    <3> QED BY <2>2, <2>4, <3>1, <3>2, <3>3, <3>4
  <2> QED BY <2>3, <2>4
<1>9. Waiting(k)' = ToSet(Front(b)) \cup {e \in ToSet(stream[k]) : e.id > n + Len(b)}
  BY <1>5, <1>8 DEF Waiting
<1>10. \A j \in Keys \ {k} : Waiting(j)' = Waiting(j)
  BY <1>5 DEF Waiting, Fetched
<1>11. Waiting(k) = Waiting(k)' \cup {Last(b)}
  BY <1>2, <1>3, <1>9
<1>12. \A f \in Waiting(k)' : n + 1 < f.id
  <2>1. ASSUME NEW f \in ToSet(stream[k]), f.id > n + Len(b) PROVE n + 1 < f.id
    <3>1. f \in Entry
      <4>1. \A s \in Seq(Entry) : ToSet(s) \subseteq Entry
        BY DEF ToSet
      <4> QED BY <1>4, <2>1, <4>1 DEF Stored
    <3> QED BY <1>3, <2>1, <3>1 DEF Entry
  <2>2. ASSUME NEW f \in ToSet(Front(b)) PROVE n + 1 < f.id
    <3>1. f.id > n + 1 /\ f \in Entry
      <4>1. \A s \in Seq(Entry) : ToSet(s) \subseteq Entry
        BY DEF ToSet
      <4> QED BY <1>3, <2>2, <4>1 DEF Stored
    <3> QED BY <3>1 DEF Entry
  <2> QED BY <1>9, <2>1, <2>2
<1>13. \E e \in Entry : /\ m = e.msg
                        /\ Waiting(k) = Waiting(k)' \cup {e}
                        /\ \A f \in Waiting(k)' : e.id < f.id
  BY <1>1, <1>3, <1>11, <1>12
<1> QED BY <1>5, <1>6, <1>7, <1>10, <1>13

\* What a trimming leaves of a stream, and what it takes.
Kept(q, cut) == SubSeq(q, cut + 1, Len(q))
Cut(q, cut)  == {q[i] : i \in 1 .. cut}

\* What is left of a sequence without its first elements.
LEMMA WithoutFirst ==
  ASSUME NEW S, NEW q \in Seq(S), NEW cut \in 0 .. Len(q)
  PROVE  /\ SubSeq(q, cut + 1, Len(q)) \in Seq(S)
         /\ Len(SubSeq(q, cut + 1, Len(q))) = Len(q) - cut
         /\ DOMAIN SubSeq(q, cut + 1, Len(q)) = 1 .. Len(SubSeq(q, cut + 1, Len(q)))
         /\ \A i \in 1 .. Len(SubSeq(q, cut + 1, Len(q))) :
               SubSeq(q, cut + 1, Len(q))[i] = q[cut + i]
<1>1. PICK a : a = SubSeq(q, cut + 1, Len(q))
  OBVIOUS
<1>2. cut + 1 \in Int /\ Len(q) \in Int /\ \A i \in cut + 1 .. Len(q) : q[i] \in S
  OBVIOUS
<1>3. /\ a \in Seq(S) /\ Len(a) = IF cut + 1 <= Len(q) THEN Len(q) - (cut + 1) + 1 ELSE 0
      /\ \A i \in 1 .. Len(q) - (cut + 1) + 1 : a[i] = q[(cut + 1) + i - 1]
  BY <1>1, <1>2, SubSeqProperties
<1>4. Len(a) = Len(q) - cut /\ Len(q) \in Nat /\ cut \in Nat
  BY <1>3
<1>5. \A i \in 1 .. Len(a) : /\ i \in 1 .. Len(q) - (cut + 1) + 1
                             /\ (cut + 1) + i - 1 = cut + i
  BY ONLY <1>4
<1>6. DOMAIN a = 1 .. Len(a)
  BY <1>3
<1> QED BY ONLY <1>1, <1>3, <1>4, <1>5, <1>6

LEMMA CutShape ==
  ASSUME NEW q \in Stored, NEW n \in Nat, Up(q, n), NEW cut \in 0 .. Len(q)
  PROVE  /\ Kept(q, cut) \in Stored /\ Len(Kept(q, cut)) = Len(q) - cut /\ Up(Kept(q, cut), n + cut)
         /\ ToSet(q) = ToSet(Kept(q, cut)) \cup Cut(q, cut) /\ Cut(q, cut) \subseteq Entry
         /\ \A e \in ToSet(Kept(q, cut)) : e \in Entry /\ e.id > n + cut
         /\ \A d \in Cut(q, cut) : d.id <= n + cut
<1> DEFINE s == Kept(q, cut)  D == Cut(q, cut)
<1>1. /\ s \in Stored /\ Len(s) = Len(q) - cut /\ Len(q) \in Nat /\ cut \in Nat /\ cut <= Len(q)
      /\ DOMAIN q = 1 .. Len(q) /\ DOMAIN s = 1 .. Len(s)
      /\ \A i \in 1 .. Len(s) : s[i] = q[cut + i] /\ cut + i \in 1 .. Len(q)
      /\ \A i \in 1 .. Len(q) : q[i] \in Entry /\ q[i].id = n + i
  <2>1. q \in Seq(Entry) /\ n \in Nat /\ cut \in 0 .. Len(q) /\ Len(q) \in Nat /\ DOMAIN q = 1 .. Len(q)
    BY DEF Stored
  <2>2. \A i \in 1 .. Len(q) : q[i] \in Entry /\ q[i].id = n + i
    BY <2>1 DEF Up
  <2>3. cut \in Nat /\ cut <= Len(q)
    BY ONLY <2>1
  <2>4. /\ s \in Seq(Entry) /\ Len(s) = Len(q) - cut /\ DOMAIN s = 1 .. Len(s)
        /\ \A i \in 1 .. Len(s) : s[i] = q[cut + i]
    BY <2>1, WithoutFirst DEF Kept
  <2> HIDE DEF s
  <2>5. \A i \in 1 .. Len(s) : cut + i \in 1 .. Len(q)
    BY ONLY <2>1, <2>3, <2>4
  <2> QED BY <2>1, <2>2, <2>3, <2>4, <2>5 DEF Stored
<1>0. \A d : d \in D <=> \E i \in 1 .. cut : d = q[i]
  BY DEF Cut
<1> HIDE DEF s, D
<1>2. Up(s, n + cut) /\ \A i \in 1 .. Len(s) : s[i] \in Entry /\ s[i].id > n + cut
  <2>1. ASSUME NEW i \in 1 .. Len(s)
        PROVE  s[i] \in Entry /\ s[i].id = (n + cut) + i /\ (n + cut) + i > n + cut
    <3>1. s[i] = q[cut + i] /\ cut + i \in 1 .. Len(q)
      BY ONLY <1>1, <2>1
    <3>2. q[cut + i] \in Entry /\ q[cut + i].id = n + (cut + i)
      BY <1>1, <3>1
    <3>3. n + (cut + i) = (n + cut) + i /\ (n + cut) + i > n + cut
      BY <1>1, <2>1
    <3> QED BY <3>1, <3>2, <3>3
  <2> QED BY <2>1 DEF Up
<1>3. \A e \in ToSet(s) : e \in Entry /\ e.id > n + cut /\ e \in ToSet(q)
  <2>1. \A i \in 1 .. Len(s) : s[i] \in ToSet(q)
    BY <1>1 DEF ToSet
  <2> QED BY <1>1, <1>2, <2>1 DEF ToSet
<1>4. \A i \in 1 .. cut : i \in 1 .. Len(q) /\ n + i <= n + cut
  <2>1. \A c, L \in Nat : c <= L => \A i \in 1 .. c : i \in 1 .. L /\ n + i <= n + c
    OBVIOUS
  <2> QED BY <1>1, <2>1
<1>5. D \subseteq Entry /\ D \subseteq ToSet(q) /\ \A d \in D : d.id <= n + cut
  <2>1. \A i \in 1 .. cut : q[i].id <= n + cut /\ q[i] \in Entry
    BY <1>1, <1>4
  <2>2. \A i \in 1 .. cut : q[i] \in ToSet(q)
    BY <1>1, <1>4 DEF ToSet
  <2> QED BY <1>0, <2>1, <2>2
<1>6. ASSUME NEW e \in ToSet(q) PROVE e \in ToSet(s) \cup D
  <2>1. PICK i \in 1 .. Len(q) : e = q[i]
    BY <1>1 DEF ToSet
  <2>2. CASE i <= cut
    <3>1. i \in 1 .. cut
      BY <1>1, <2>1, <2>2
    <3> QED BY <1>0, <2>1, <3>1
  <2>3. CASE i > cut
    <3>1. i - cut \in 1 .. Len(s) /\ cut + (i - cut) = i
      BY <1>1, <2>1, <2>3
    <3>2. s[i - cut] = e
      BY <1>1, <2>1, <3>1
    <3> QED BY <1>1, <3>1, <3>2 DEF ToSet
  <2>4. i <= cut \/ i > cut
    BY <1>1, <2>1
  <2> QED BY <2>2, <2>3, <2>4
<1> QED BY <1>1, <1>2, <1>3, <1>5, <1>6 DEF s, D

\* XADD adds an entry after all that wait, and trims some of them.
LEMMA XaddAdds ==
  ASSUME RedisTyped, Numbered, NEW k \in Keys, NEW m \in Named, Xadd(k, m),
         UNCHANGED <<pending, lastId>>,
         NEW e, e = [id |-> added[k] + 1, msg |-> m]
  PROVE  /\ stream' \in [Keys -> Stored] /\ added' = [added EXCEPT ![k] = @ + 1]
         /\ added' \in [Keys -> Nat]
         /\ Numbered'
         /\ \A j \in Keys \ {k} : Waiting(j)' = Waiting(j)
         /\ \A f \in Waiting(k) : f.id < e.id
         /\ \E D \in SUBSET Entry :
               /\ Waiting(k)' \cup D = Waiting(k) \cup {e}
               /\ \A d \in D, f \in Waiting(k)' : d # f
               /\ overrun' = overrun \cup Messages(D)
<1> DEFINE longer == Append(stream[k], [id |-> added[k] + 1, msg |-> m])
           F == Fetched(k)
           n == added[k] - Len(stream[k])
<1>1. /\ stream \in [Keys -> Stored] /\ added \in [Keys -> Nat] /\ lastId \in [Keys -> Nat]
      /\ pending \in [Keys -> Stored]
  BY DEF RedisTyped
<1>2. /\ F \in Nat /\ F <= added[k] /\ F = lastId[k] + Len(pending[k])
  BY FetchedIs
<1>3. e \in Entry /\ e.id = added[k] + 1 /\ e.msg = m
  BY <1>1 DEF Entry
<1>4. /\ stream[k] \in Seq(Entry) /\ Len(stream[k]) \in Nat /\ added[k] \in Nat
      /\ n \in Nat /\ n + Len(stream[k]) = added[k]
      /\ \A i \in 1 .. Len(stream[k]) : stream[k][i].id = n + i
  BY <1>1 DEF Numbered, Up, Stored
<1>5. /\ longer \in Stored /\ Len(longer) = Len(stream[k]) + 1
      /\ longer[Len(longer)] = e
      /\ \A i \in 1 .. Len(stream[k]) : longer[i] = stream[k][i]
      /\ DOMAIN longer = 1 .. Len(longer) /\ DOMAIN stream[k] = 1 .. Len(stream[k])
  BY <1>3, <1>4 DEF Stored
<1>6. PICK cut \in {0} \cup {c \in 1 .. Len(longer) : Len(longer) - c >= MaxLen} :
         /\ stream' = [stream EXCEPT ![k] = SubSeq(longer, cut + 1, Len(longer))]
         /\ overrun' = overrun \cup
               {longer[i].msg : i \in {j \in 1 .. cut : longer[j].id > F}}
  BY DEF Xadd
<1>7. added' = [added EXCEPT ![k] = @ + 1]
  BY DEF Xadd
<1> HIDE DEF longer, F, n
<1>8. cut \in 0 .. Len(longer)
  BY <1>4, <1>5, <1>6
<1>9. \A i \in 1 .. Len(longer) : i = Len(longer) \/ i \in 1 .. Len(stream[k])
  BY <1>4, <1>5
<1>10. Up(longer, n)
  <2>1. e.id = n + Len(longer)
    BY <1>3, <1>4, <1>5
  <2> QED BY <1>4, <1>5, <1>9, <2>1 DEF Up
<1>11. ToSet(longer) = ToSet(stream[k]) \cup {e}
  <2>1. \A i \in 1 .. Len(longer) : longer[i] \in ToSet(stream[k]) \cup {e}
    BY <1>5, <1>9 DEF ToSet
  <2>2. Len(longer) \in 1 .. Len(longer) /\ \A i \in 1 .. Len(stream[k]) : i \in 1 .. Len(longer)
    BY <1>4, <1>5
  <2>3. e \in ToSet(longer) /\ \A i \in 1 .. Len(stream[k]) : stream[k][i] \in ToSet(longer)
    BY <1>5, <2>2 DEF ToSet
  <2> QED BY <1>5, <2>1, <2>3 DEF ToSet
<1> DEFINE s == Kept(longer, cut)  C == Cut(longer, cut)
<1>12. /\ s \in Stored /\ Len(s) = Len(longer) - cut /\ Up(s, n + cut)
       /\ ToSet(longer) = ToSet(s) \cup C /\ C \subseteq Entry
       /\ \A x \in ToSet(s) : x \in Entry /\ x.id > n + cut
       /\ \A d \in C : d.id <= n + cut
  BY <1>4, <1>5, <1>8, <1>10, CutShape
<1> DEFINE D == {d \in C : d.id > F}
<1>13. overrun' = overrun \cup Messages(D)
  <2>1. Messages(D) = {longer[i].msg : i \in {j \in 1 .. cut : longer[j].id > F}}
    BY DEF Messages, Cut
  <2> QED BY <1>6, <2>1
<1>14. /\ stream' \in [Keys -> Stored] /\ stream'[k] = s
       /\ added' \in [Keys -> Nat] /\ added'[k] = added[k] + 1
       /\ \A j \in Keys \ {k} : stream'[j] = stream[j] /\ added'[j] = added[j]
  <2>1. s \in Stored /\ stream' = [stream EXCEPT ![k] = s]
    BY <1>6, <1>12 DEF Kept
  <2>2. stream \in [Keys -> Stored] /\ added \in [Keys -> Nat] /\ k \in Keys /\ added[k] + 1 \in Nat
    BY <1>1, <1>4
  <2> HIDE DEF s
  <2> QED BY ONLY <1>7, <2>1, <2>2, SMTT(30)
<1> HIDE DEF s, C
<1>15. Numbered'
  <2>1. /\ Len(s) <= added[k] + 1 /\ (added[k] + 1) - Len(s) = n + cut
        /\ lastId[k] + Len(pending[k]) <= added[k] + 1
    BY <1>2, <1>4, <1>5, <1>8, <1>12
  <2>2. /\ Len(stream'[k]) <= added'[k] /\ Up(stream'[k], added'[k] - Len(stream'[k]))
        /\ lastId[k] + Len(pending[k]) <= added'[k]
    BY <1>12, <1>14, <2>1
  <2> QED BY <1>14, <2>2 DEF Numbered
<1>16. \A j \in Keys : Fetched(j)' = Fetched(j)
  BY DEF Fetched
<1>17. \A j \in Keys \ {k} : Waiting(j)' = Waiting(j)
  BY <1>14, <1>16 DEF Waiting
<1>18. /\ Waiting(k) = ToSet(pending[k]) \cup {x \in ToSet(stream[k]) : x.id > F}
       /\ Waiting(k)' = ToSet(pending[k]) \cup {x \in ToSet(s) : x.id > F}
  BY <1>14, <1>16 DEF Waiting, F
<1>19. \A f \in Waiting(k) : f.id < e.id
  <2>1. \A f \in Waiting(k) : f.id \in Nat /\ f.id <= added[k]
    BY WaitingIs
  <2> QED BY <1>3, <1>4, <2>1
<1>20. Waiting(k)' \cup D = Waiting(k) \cup {e}
  <2>1. e.id > F
    BY <1>2, <1>3, <1>4
  <2> QED BY <1>11, <1>12, <1>18, <2>1
<1>21. \A f \in ToSet(pending[k]) : f.id \in Nat /\ f.id <= F
  <2>1. /\ DOMAIN pending[k] = 1 .. Len(pending[k]) /\ Len(pending[k]) \in Nat
        /\ lastId[k] \in Nat /\ Down(pending[k], lastId[k] + Len(pending[k]))
    BY <1>1 DEF Stored, Numbered
  <2>2. \A i \in 1 .. Len(pending[k]) : /\ pending[k][i].id = F - i + 1
                                        /\ F - i + 1 \in Nat /\ F - i + 1 <= F
    BY <1>2, <2>1 DEF Down
  <2> QED BY <2>1, <2>2 DEF ToSet
<1>22. \A d \in D, f \in Waiting(k)' : d # f
  <2>1. ASSUME NEW d \in D, NEW f \in Waiting(k)' PROVE d # f
    <3>1. d.id \in Nat /\ d.id > F /\ d.id <= n + cut
      BY <1>12, <2>1 DEF Entry
    <3>2. CASE f \in ToSet(pending[k])
      BY <1>2, <1>21, <3>1, <3>2
    <3>3. CASE f \in ToSet(s)
      <4>1. f.id \in Nat /\ f.id > n + cut
        BY <1>12, <3>3 DEF Entry
      <4>2. n + cut \in Nat
        BY <1>4, <1>5, <1>8
      <4> QED BY <3>1, <4>1, <4>2
    <3> QED BY <1>18, <2>1, <3>2, <3>3
  <2> QED BY <2>1
<1>23. D \in SUBSET Entry
  BY <1>12
<1> HIDE DEF D
<1> QED BY <1>7, <1>13, <1>14, <1>15, <1>17, <1>19, <1>20, <1>22, <1>23

\* What that does to the messages.
LEMMA FirstTaken ==
  ASSUME NEW W, NEW V, NEW e \in Entry, W = V \cup {e}, W \subseteq Entry, ById(W),
         \A f \in V : e.id < f.id
  PROVE  /\ Messages(W) = Messages(V) \cup {e.msg}
         /\ Below({e.msg}, Messages(V))
         /\ ById(V)
<1>1. Messages(W) = Messages(V) \cup {e.msg}
  BY DEF Messages
<1>2. \A f \in V : e.msg < f.msg
  BY DEF ById
<1>3. Below({e.msg}, Messages(V))
  BY <1>2 DEF Below, Messages
<1>4. ById(V)
  BY DEF ById
<1> QED BY <1>1, <1>3, <1>4

LEMMA LastAdded ==
  ASSUME NEW W, NEW V, NEW D, NEW e \in Entry, W \subseteq Entry, D \subseteq Entry,
         V \cup D = W \cup {e}, \A d \in D, f \in V : d # f, ById(W),
         \A f, g \in W : f.id = g.id => f = g,
         \A f \in W : f.id < e.id, Below(Messages(W), {e.msg})
  PROVE  /\ ById(V)
         /\ Messages(V) \cup Messages(D) = Messages(W) \cup {e.msg}
         /\ Messages(V) \cap Messages(D) = {}
<1> DEFINE A == W \cup {e}
<1>1. \A f \in A : f.id \in Nat /\ f.msg \in Int
  BY DEF Entry, Named
<1>2. \A f \in W : f.msg < e.msg
  BY DEF Below, Messages
<1>3. \A f, g \in A : f.id < g.id => f.msg < g.msg
  BY <1>1, <1>2 DEF ById
<1>4. \A f, g \in A : f # g => f.id # g.id
  BY <1>1
<1>5. \A f, g \in A : f # g => f.msg # g.msg
  BY <1>1, <1>3, <1>4
<1>6. V \subseteq A /\ D \subseteq A
  OBVIOUS
<1> HIDE DEF A
<1>7. ById(V)
  BY <1>3, <1>6 DEF ById
<1>8. Messages(V) \cup Messages(D) = Messages(W) \cup {e.msg}
  BY DEF Messages
<1>9. Messages(V) \cap Messages(D) = {}
  BY <1>5, <1>6 DEF Messages
<1> QED BY <1>7, <1>8, <1>9

-----------------------------------------------------------------------------
(* Every step preserves the invariant                                      *)

LEMMA RegionsAre ==
  ASSUME RedisInvariant
  PROVE  /\ Got \subseteq 0 .. csent - 1 /\ Back \subseteq 0 .. csent - 1
         /\ AtEcho \subseteq 0 .. csent - 1 /\ Out \subseteq 0 .. csent - 1
         /\ overrun \subseteq 0 .. csent - 1
         /\ csent \in 0 .. Total /\ Total \in Nat
  BY RedisConstants DEF RedisInvariant, RedisTyped, Accounted

LEMMA ClientSendStep ==
  ASSUME RedisInvariant, ClientSend
  PROVE  RedisInvariant'
<1>1. /\ RedisTyped /\ Numbered /\ Bounded /\ Ordered /\ Accounted /\ csent < Total
      /\ Xadd("c2s", csent) /\ csent' = csent + 1
      /\ UNCHANGED <<pending, lastId, hand, returned>>
  BY DEF RedisInvariant, ClientSend
<1>2. csent \in Named /\ csent \in Nat /\ added["c2s"] \in Nat
  BY <1>1, RegionsAre, KeysAre DEF Named, RedisTyped
<1>0. PICK e : e = [id |-> added["c2s"] + 1, msg |-> csent]
  OBVIOUS
<1>3. /\ stream' \in [Keys -> Stored] /\ added' = [added EXCEPT !["c2s"] = @ + 1]
      /\ added' \in [Keys -> Nat]
      /\ Numbered'
      /\ \A j \in Keys \ {"c2s"} : Waiting(j)' = Waiting(j)
      /\ \A f \in Waiting("c2s") : f.id < e.id
      /\ \E D \in SUBSET Entry :
            /\ Waiting("c2s")' \cup D = Waiting("c2s") \cup {e}
            /\ \A d \in D, f \in Waiting("c2s")' : d # f
            /\ overrun' = overrun \cup Messages(D)
  BY ONLY <1>0, <1>1, <1>2, KeysAre, XaddAdds, SMTT(30)
<1>4. PICK D \in SUBSET Entry :
            /\ Waiting("c2s")' \cup D = Waiting("c2s") \cup {e}
            /\ \A d \in D, f \in Waiting("c2s")' : d # f
            /\ overrun' = overrun \cup Messages(D)
  BY <1>3
<1>5. e \in Entry /\ e.msg = csent
  BY <1>0, <1>2 DEF Entry
<1>6. Back' = Back /\ Got' = Got /\ AtEcho' = AtEcho
  BY <1>1, <1>3, KeysAre DEF Back, Got, AtEcho
<1>7. PICK W, V : W = Waiting("c2s") /\ V = Waiting("c2s")'
  OBVIOUS
<1>8. Out = Messages(W) /\ Out' = Messages(V)
  BY <1>7 DEF Out, Messages
<1>9. W \subseteq Entry /\ (\A f, g \in W : f.id = g.id => f = g)
  BY <1>1, <1>7, WaitingIs, KeysAre
<1>10. Below(Messages(W), {e.msg})
  BY <1>2, <1>5, <1>8, RegionsAre DEF Below
<1>11. /\ ById(V) /\ Messages(V) \cup Messages(D) = Messages(W) \cup {e.msg}
       /\ Messages(V) \cap Messages(D) = {}
  <2>1. ById(W) /\ D \subseteq Entry /\ V \cup D = W \cup {e}
           /\ (\A d \in D, f \in V : d # f) /\ \A f \in W : f.id < e.id
    BY <1>1, <1>3, <1>4, <1>7 DEF Ordered
  <2>2. PICK x \in Entry : x = e
    BY <1>5
  <2>3. ById(W) /\ D \subseteq Entry /\ V \cup D = W \cup {x}
           /\ (\A d \in D, f \in V : d # f) /\ (\A f \in W : f.id < x.id)
           /\ Below(Messages(W), {x.msg})
    BY <1>10, <2>1, <2>2
  <2>4. /\ ById(V) /\ Messages(V) \cup Messages(D) = Messages(W) \cup {x.msg}
        /\ Messages(V) \cap Messages(D) = {}
    BY ONLY <1>9, <2>2, <2>3, LastAdded, SMTT(30)
  <2> QED BY <2>2, <2>4
<1>12. /\ Out' \cup Messages(D) = Out \cup {csent} /\ Out' \cap Messages(D) = {}
       /\ overrun' = overrun \cup Messages(D)
  BY <1>4, <1>5, <1>8, <1>11
<1>13. RedisTyped'
  BY <1>1, <1>2, <1>3, RegionsAre DEF RedisTyped
<1>14. Bounded'
  BY <1>1, <1>2, <1>3, KeysAre DEF Bounded, RedisTyped
<1>15. Ordered'
  <2>1. Increasing(returned)' /\ ById(Waiting("s2c"))' /\ ById(Waiting("c2s"))'
    <3>1. Waiting("s2c")' = Waiting("s2c")
      BY <1>3, KeysAre
    <3>2. Waiting("c2s")' = V
      BY <1>7
    <3> QED BY <1>1, <1>11, <3>1, <3>2 DEF Ordered, Increasing, ById
  <2>2. Below(Got, Out)' /\ Below(Back, Out)' /\ Below(AtEcho, Out)'
    <3>1. Out' \subseteq Out \cup {csent}
      BY <1>12
    <3>2. \A x \in Got \cup Back \cup AtEcho : x < csent
      BY <1>2, RegionsAre
    <3> QED BY <1>1, <1>6, <3>1, <3>2 DEF Ordered, Below
  <2>3. Below(Got, Back)' /\ Below(Got, AtEcho)' /\ Below(Back, AtEcho)'
    BY <1>1, <1>6 DEF Ordered, Below
  <2> QED BY <2>1, <2>2, <2>3 DEF Ordered
<1>16. Accounted'
  <2> DEFINE A == Got \cup Back \cup AtEcho
  <2>1. A \cup Out \cup overrun = 0 .. csent - 1 /\ (A \cup Out) \cap overrun = {}
    BY <1>1 DEF Accounted
  <2>2. A \cap Out = {}
    <3>1. \A x \in A, y \in Out : x < y /\ x \in Int /\ y \in Int
      BY <1>1, RegionsAre DEF Ordered, Below
    <3>2. \A x \in Int : ~(x < x)
      OBVIOUS
    <3> QED BY <3>1, <3>2
  <2>3. ~(csent \in A \cup Out \cup overrun) /\ 0 .. csent' - 1 = (0 .. csent - 1) \cup {csent}
    BY <1>1, <1>2, <2>1
  <2>4. A' = A
    BY <1>6
  <2> HIDE DEF A
  <2>5. /\ A \cup Out' \cup overrun' = (0 .. csent - 1) \cup {csent}
        /\ (A \cup Out') \cap overrun' = {}
    BY <1>12, <2>1, <2>2, <2>3
  <2> USE DEF A
  <2> QED BY <1>6, <2>3, <2>5 DEF Accounted
<1> QED BY <1>3, <1>13, <1>14, <1>15, <1>16 DEF RedisInvariant

LEMMA EchoRecvStep ==
  ASSUME RedisInvariant, EchoRecv
  PROVE  RedisInvariant'
<1>1. /\ RedisTyped /\ Numbered /\ Bounded /\ Ordered /\ Accounted /\ hand = -1
      /\ UNCHANGED <<stream, added, csent, returned, overrun>>
  BY DEF RedisInvariant, EchoRecv
<1>2. PICK m \in 0 .. Total - 1 : RecvAny("c2s", m) /\ hand' = m
  BY DEF EchoRecv
<1>3. /\ pending' \in [Keys -> Stored] /\ lastId' \in [Keys -> Nat] /\ m \in Named
      /\ Numbered' /\ lastId["c2s"] < lastId'["c2s"]
      /\ \A j \in Keys \ {"c2s"} : Waiting(j)' = Waiting(j) /\ lastId'[j] = lastId[j]
      /\ \E e \in Entry : /\ m = e.msg
                           /\ Waiting("c2s") = Waiting("c2s")' \cup {e}
                           /\ \A f \in Waiting("c2s")' : e.id < f.id
  BY ONLY <1>1, <1>2, KeysAre, RecvAnyTakes, SMTT(30)
<1>4. RedisTyped'
  BY <1>1, <1>2, <1>3 DEF RedisTyped
<1>5. m # -1 /\ m \in Nat
  BY <1>3, RedisConstants DEF Named
<1>6. Bounded'
  <2>1. /\ added["s2c"] \in Nat /\ lastId["c2s"] \in Nat /\ lastId'["c2s"] \in Nat
        /\ added["s2c"] + 0 <= lastId["c2s"]
    BY <1>1, <1>3, KeysAre DEF RedisTyped, Bounded
  <2>2. added["s2c"] + 1 <= lastId'["c2s"]
    BY <1>3, <2>1
  <2> QED BY <1>1, <1>2, <1>5, <2>2 DEF Bounded
<1>7. PICK e \in Entry : /\ m = e.msg
                         /\ Waiting("c2s") = Waiting("c2s")' \cup {e}
                         /\ \A f \in Waiting("c2s")' : e.id < f.id
  BY <1>3
<1>8. PICK W, V : W = Waiting("c2s") /\ V = Waiting("c2s")'
  OBVIOUS
<1>9. Out = Messages(W) /\ Out' = Messages(V)
  BY <1>8 DEF Out, Messages
<1>10. Messages(W) = Messages(V) \cup {e.msg} /\ Below({e.msg}, Messages(V)) /\ ById(V)
  <2>1. W \subseteq Entry /\ ById(W) /\ W = V \cup {e} /\ \A f \in V : e.id < f.id
    BY <1>1, <1>7, <1>8, WaitingIs, KeysAre DEF Ordered
  <2> QED BY ONLY <1>7, <2>1, FirstTaken
<1>11. /\ Got' = Got /\ Back' = Back /\ AtEcho = {} /\ AtEcho' = {m}
       /\ Out = Out' \cup {m} /\ Below({m}, Out')
  BY <1>1, <1>2, <1>3, <1>5, <1>7, <1>9, <1>10, KeysAre DEF Got, Back, AtEcho
<1>12. Ordered'
  <2>1. Increasing(returned)' /\ ById(Waiting("s2c"))' /\ ById(Waiting("c2s"))'
    <3>1. Waiting("s2c")' = Waiting("s2c")
      BY <1>3, KeysAre
    <3>2. Waiting("c2s")' = V
      BY <1>8
    <3> QED BY <1>1, <1>10, <3>1, <3>2 DEF Ordered, Increasing, ById
  <2>2. /\ Below(Got, Back)' /\ Below(Got, AtEcho)' /\ Below(Got, Out)'
        /\ Below(Back, AtEcho)' /\ Below(Back, Out)' /\ Below(AtEcho, Out)'
    BY <1>1, <1>11 DEF Ordered, Below
  <2> QED BY <2>1, <2>2 DEF Ordered
<1>13. Accounted'
  BY <1>1, <1>11 DEF Accounted
<1> QED BY <1>3, <1>4, <1>6, <1>12, <1>13 DEF RedisInvariant

LEMMA EchoSendStep ==
  ASSUME RedisInvariant, EchoSend
  PROVE  RedisInvariant'
<1>1. /\ RedisTyped /\ Numbered /\ Bounded /\ Ordered /\ Accounted /\ hand # -1
      /\ Xadd("s2c", hand) /\ hand' = -1
      /\ UNCHANGED <<csent, pending, lastId, returned>>
  BY DEF RedisInvariant, EchoSend
<1>2. hand \in Named /\ hand \in Nat /\ added["s2c"] \in Nat
  BY <1>1, RegionsAre, KeysAre DEF Named, RedisTyped
<1>0. PICK e : e = [id |-> added["s2c"] + 1, msg |-> hand]
  OBVIOUS
<1>3. /\ stream' \in [Keys -> Stored] /\ added' = [added EXCEPT !["s2c"] = @ + 1]
      /\ added' \in [Keys -> Nat]
      /\ Numbered'
      /\ \A j \in Keys \ {"s2c"} : Waiting(j)' = Waiting(j)
      /\ \A f \in Waiting("s2c") : f.id < e.id
      /\ \E D \in SUBSET Entry :
            /\ Waiting("s2c")' \cup D = Waiting("s2c") \cup {e}
            /\ \A d \in D, f \in Waiting("s2c")' : d # f
            /\ overrun' = overrun \cup Messages(D)
  BY ONLY <1>0, <1>1, <1>2, KeysAre, XaddAdds, SMTT(30)
<1>4. PICK D \in SUBSET Entry :
            /\ Waiting("s2c")' \cup D = Waiting("s2c") \cup {e}
            /\ \A d \in D, f \in Waiting("s2c")' : d # f
            /\ overrun' = overrun \cup Messages(D)
  BY <1>3
<1>5. e \in Entry /\ e.msg = hand
  BY <1>0, <1>2 DEF Entry
<1>6. Out' = Out /\ Got' = Got /\ AtEcho' = {} /\ AtEcho = {hand}
  BY <1>1, <1>3, KeysAre DEF Out, Got, AtEcho
<1>7. PICK W, V : W = Waiting("s2c") /\ V = Waiting("s2c")'
  OBVIOUS
<1>8. Back = Messages(W) /\ Back' = Messages(V)
  BY <1>7 DEF Back, Messages
<1>9. W \subseteq Entry /\ (\A f, g \in W : f.id = g.id => f = g)
  BY <1>1, <1>7, WaitingIs, KeysAre
<1>10. Below(Messages(W), {e.msg})
  BY <1>1, <1>5, <1>6, <1>8 DEF Below, Ordered
<1>11. /\ ById(V) /\ Messages(V) \cup Messages(D) = Messages(W) \cup {e.msg}
       /\ Messages(V) \cap Messages(D) = {}
  <2>1. ById(W) /\ D \subseteq Entry /\ V \cup D = W \cup {e}
           /\ (\A d \in D, f \in V : d # f) /\ \A f \in W : f.id < e.id
    BY <1>1, <1>3, <1>4, <1>7 DEF Ordered
  <2>2. PICK x \in Entry : x = e
    BY <1>5
  <2>3. ById(W) /\ D \subseteq Entry /\ V \cup D = W \cup {x}
           /\ (\A d \in D, f \in V : d # f) /\ (\A f \in W : f.id < x.id)
           /\ Below(Messages(W), {x.msg})
    BY <1>10, <2>1, <2>2
  <2>4. /\ ById(V) /\ Messages(V) \cup Messages(D) = Messages(W) \cup {x.msg}
        /\ Messages(V) \cap Messages(D) = {}
    BY ONLY <1>9, <2>2, <2>3, LastAdded, SMTT(30)
  <2> QED BY <2>2, <2>4
<1>12. /\ Back' \cup Messages(D) = Back \cup {hand} /\ Back' \cap Messages(D) = {}
       /\ overrun' = overrun \cup Messages(D)
  BY <1>4, <1>5, <1>8, <1>11
<1>13. RedisTyped'
  BY <1>1, <1>2, <1>3 DEF RedisTyped
<1>14. Bounded'
  BY <1>1, <1>2, <1>3, KeysAre DEF Bounded, RedisTyped
<1>15. Ordered'
  <2>1. Increasing(returned)' /\ ById(Waiting("s2c"))' /\ ById(Waiting("c2s"))'
    <3>1. Waiting("c2s")' = Waiting("c2s")
      BY <1>3, KeysAre
    <3>2. Waiting("s2c")' = V
      BY <1>7
    <3> QED BY <1>1, <1>11, <3>1, <3>2 DEF Ordered, Increasing, ById
  <2>2. Back' \subseteq Back \cup {hand}
    BY <1>12
  <2>3. /\ Below(Got, Back)' /\ Below(Got, AtEcho)' /\ Below(Got, Out)'
        /\ Below(Back, AtEcho)' /\ Below(Back, Out)' /\ Below(AtEcho, Out)'
    BY <1>1, <1>6, <2>2 DEF Ordered, Below
  <2> QED BY <2>1, <2>3 DEF Ordered
<1>16. Accounted'
  <2> DEFINE A == Got \cup Out
  <2>1. /\ A \cup Back \cup {hand} \cup overrun = 0 .. csent - 1
        /\ (A \cup Back \cup {hand}) \cap overrun = {}
    BY <1>1, <1>6 DEF Accounted
  <2>2. A \cap (Back \cup {hand}) = {}
    <3>1. \A x \in Got, y \in Back \cup {hand} : x < y /\ x \in Int /\ y \in Int
      BY <1>1, <1>2, <1>6, RegionsAre DEF Ordered, Below
    <3>2. \A x \in Back \cup {hand}, y \in Out : x < y /\ x \in Int /\ y \in Int
      BY <1>1, <1>2, <1>6, RegionsAre DEF Ordered, Below
    <3>3. \A x \in Int : ~(x < x)
      OBVIOUS
    <3> QED BY <3>1, <3>2, <3>3
  <2>3. A' = A
    BY <1>6
  <2> HIDE DEF A
  <2>4. A \cup Back' \cup overrun' = 0 .. csent - 1 /\ (A \cup Back') \cap overrun' = {}
    BY <1>12, <2>1, <2>2
  <2> USE DEF A
  <2> QED BY <1>1, <1>6, <2>4 DEF Accounted
<1> QED BY <1>3, <1>13, <1>14, <1>15, <1>16 DEF RedisInvariant

LEMMA ClientRecvStep ==
  ASSUME RedisInvariant, ClientRecv
  PROVE  RedisInvariant'
<1>1. /\ RedisTyped /\ Numbered /\ Bounded /\ Ordered /\ Accounted
      /\ UNCHANGED <<stream, added, csent, hand, overrun>>
  BY DEF RedisInvariant, ClientRecv
<1>2. PICK m \in 0 .. Total - 1 : RecvAny("s2c", m) /\ returned' = Append(returned, m)
  BY DEF ClientRecv
<1>3. /\ pending' \in [Keys -> Stored] /\ lastId' \in [Keys -> Nat] /\ m \in Named
      /\ Numbered' /\ lastId["s2c"] < lastId'["s2c"]
      /\ \A j \in Keys \ {"s2c"} : Waiting(j)' = Waiting(j) /\ lastId'[j] = lastId[j]
      /\ \E e \in Entry : /\ m = e.msg
                           /\ Waiting("s2c") = Waiting("s2c")' \cup {e}
                           /\ \A f \in Waiting("s2c")' : e.id < f.id
  BY ONLY <1>1, <1>2, KeysAre, RecvAnyTakes, SMTT(30)
<1>4. RedisTyped'
  BY <1>1, <1>2, <1>3 DEF RedisTyped
<1>5. Bounded'
  BY <1>1, <1>3, KeysAre DEF Bounded
<1>6. PICK e \in Entry : /\ m = e.msg
                         /\ Waiting("s2c") = Waiting("s2c")' \cup {e}
                         /\ \A f \in Waiting("s2c")' : e.id < f.id
  BY <1>3
<1>7. PICK W, V : W = Waiting("s2c") /\ V = Waiting("s2c")'
  OBVIOUS
<1>8. Back = Messages(W) /\ Back' = Messages(V)
  BY <1>7 DEF Back, Messages
<1>9. Messages(W) = Messages(V) \cup {e.msg} /\ Below({e.msg}, Messages(V)) /\ ById(V)
  <2>1. W \subseteq Entry /\ ById(W) /\ W = V \cup {e} /\ \A f \in V : e.id < f.id
    BY <1>1, <1>6, <1>7, WaitingIs, KeysAre DEF Ordered
  <2> QED BY ONLY <1>6, <2>1, FirstTaken
<1>10. PICK r \in Seq(Named) : r = returned
  BY <1>1 DEF RedisTyped
<1>11. /\ Len(r) \in Nat /\ Len(Append(r, m)) = Len(r) + 1
       /\ DOMAIN r = 1 .. Len(r) /\ DOMAIN Append(r, m) = 1 .. Len(r) + 1
       /\ \A i \in 1 .. Len(r) : Append(r, m)[i] = r[i]
       /\ Append(r, m)[Len(r) + 1] = m
  BY <1>10
<1>12. Got' = Got \cup {m}
  <2>1. \A i \in 1 .. Len(r) + 1 : i = Len(r) + 1 \/ i \in 1 .. Len(r)
    BY <1>11
  <2>2. Len(r) + 1 \in 1 .. Len(r) + 1 /\ \A i \in 1 .. Len(r) : i \in 1 .. Len(r) + 1
    BY <1>11
  <2> QED BY <1>2, <1>10, <1>11, <2>1, <2>2 DEF Got, ToSet
<1>13. /\ AtEcho' = AtEcho /\ Out' = Out
       /\ Back = Back' \cup {m} /\ Below({m}, Back')
  BY <1>1, <1>3, <1>6, <1>8, <1>9, KeysAre DEF AtEcho, Out
<1>14. Increasing(returned)'
  <2>1. \A i \in 1 .. Len(r) : r[i] < m
    <3>1. \A i \in 1 .. Len(r) : r[i] \in Got
      BY <1>10, <1>11 DEF Got, ToSet
    <3> QED BY <1>1, <1>13, <3>1 DEF Ordered, Below
  <2>2. ASSUME NEW i \in 1 .. Len(r) + 1, NEW j \in 1 .. Len(r) + 1, i < j
        PROVE  Append(r, m)[i] < Append(r, m)[j]
    <3>1. i \in 1 .. Len(r) /\ (j = Len(r) + 1 \/ j \in 1 .. Len(r))
      BY <1>11, <2>2
    <3> QED BY <1>1, <1>10, <1>11, <2>1, <2>2, <3>1 DEF Ordered, Increasing
  <2> QED BY <1>2, <1>10, <1>11, <2>2 DEF Increasing
<1>15. Ordered'
  <2>1. ById(Waiting("s2c"))' /\ ById(Waiting("c2s"))'
    <3>1. Waiting("c2s")' = Waiting("c2s")
      BY <1>3, KeysAre
    <3>2. Waiting("s2c")' = V
      BY <1>7
    <3> QED BY <1>1, <1>9, <3>1, <3>2 DEF Ordered, ById
  <2>2. /\ Below(Got, Back)' /\ Below(Got, AtEcho)' /\ Below(Got, Out)'
        /\ Below(Back, AtEcho)' /\ Below(Back, Out)' /\ Below(AtEcho, Out)'
    BY <1>1, <1>12, <1>13 DEF Ordered, Below
  <2> QED BY <1>14, <2>1, <2>2 DEF Ordered
<1>16. Accounted'
  BY <1>1, <1>12, <1>13 DEF Accounted
<1> QED BY <1>3, <1>4, <1>5, <1>15, <1>16 DEF RedisInvariant

LEMMA RedisInvariantStep == RedisInvariant /\ [RedisNext]_redisVars => RedisInvariant'
<1> SUFFICES ASSUME RedisInvariant, [RedisNext]_redisVars PROVE RedisInvariant'
  OBVIOUS
<1>1. CASE ClientSend
  BY <1>1, ClientSendStep
<1>2. CASE EchoRecv
  BY <1>2, EchoRecvStep
<1>3. CASE EchoSend
  BY <1>3, EchoSendStep
<1>4. CASE ClientRecv
  BY <1>4, ClientRecvStep
<1>5. CASE ClientTimesOut \/ Fails \/ UNCHANGED redisVars
  <2>1. UNCHANGED <<stream, added, csent, pending, lastId, hand, returned, overrun>>
    BY <1>5 DEF redisVars, ClientTimesOut, Fails
  <2> QED
    BY <2>1 DEF RedisInvariant, RedisTyped, Numbered, Bounded, Ordered, Accounted, Got, Back,
                AtEcho, Out, Waiting, Fetched, ById, Increasing, Below
<1> QED BY <1>1, <1>2, <1>3, <1>4, <1>5 DEF RedisNext

\* The receive thread and the parties that have failed.
Statuses ==
    thread \in {"recv", "done", "quiet"} /\ failed \subseteq {"sender", "echo", "receiver"}

LEMMA StatusesHold == RedisSpec => []Statuses
<1>1. RedisInit => Statuses
  BY DEF RedisInit, Statuses
<1>2. Statuses /\ [RedisNext]_redisVars => Statuses'
  BY DEF Statuses, RedisNext, ClientSend, EchoRecv, EchoSend, ClientRecv, ClientTimesOut,
         Fails, MayFail, redisVars
<1> QED BY <1>1, <1>2, PTL DEF RedisSpec

THEOREM RedisInvariantHolds == RedisSpec => []RedisInvariant
<1>1. RedisInit => RedisInvariant
  BY RedisInvariantInit
<1>2. RedisInvariant /\ [RedisNext]_redisVars => RedisInvariant'
  BY RedisInvariantStep
<1> QED BY <1>1, <1>2, PTL DEF RedisSpec

-----------------------------------------------------------------------------
(* What the invariant says of the sequence on the way                      *)

LEMMA ConcatShape ==
  ASSUME NEW S, NEW s \in Seq(S), NEW t \in Seq(S)
  PROVE  /\ s \o t \in Seq(S) /\ Len(s \o t) = Len(s) + Len(t)
         /\ ToSet(s \o t) = ToSet(s) \cup ToSet(t)
         /\ \A i \in 1 .. Len(s \o t) :
               \/ i \in 1 .. Len(s) /\ (s \o t)[i] = s[i]
               \/ i - Len(s) \in 1 .. Len(t) /\ (s \o t)[i] = t[i - Len(s)]
<1> DEFINE x == s \o t
<1>1. /\ x \in Seq(S) /\ Len(x) = Len(s) + Len(t) /\ Len(s) \in Nat /\ Len(t) \in Nat
      /\ DOMAIN s = 1 .. Len(s) /\ DOMAIN t = 1 .. Len(t) /\ DOMAIN x = 1 .. Len(x)
      /\ \A i \in 1 .. Len(x) : x[i] = IF i <= Len(s) THEN s[i] ELSE t[i - Len(s)]
  OBVIOUS
<1> HIDE DEF x
<1>2. ASSUME NEW i \in 1 .. Len(x)
      PROVE  \/ i \in 1 .. Len(s) /\ x[i] = s[i]
             \/ i - Len(s) \in 1 .. Len(t) /\ x[i] = t[i - Len(s)]
  <2>1. i \in 1 .. Len(s) \/ (i - Len(s) \in 1 .. Len(t) /\ ~(i <= Len(s)))
    BY ONLY <1>1, <1>2
  <2>2. i \in 1 .. Len(s) => i <= Len(s)
    BY <1>1
  <2> QED BY <1>1, <1>2, <2>1, <2>2
<1>3. \A i \in 1 .. Len(s) : i \in 1 .. Len(x) /\ x[i] = s[i]
  BY <1>1
<1>4. \A i \in 1 .. Len(t) : Len(s) + i \in 1 .. Len(x) /\ x[Len(s) + i] = t[i]
  <2>1. ASSUME NEW i \in 1 .. Len(t)
        PROVE  Len(s) + i \in 1 .. Len(x) /\ ~(Len(s) + i <= Len(s)) /\ (Len(s) + i) - Len(s) = i
    BY ONLY <1>1, <2>1
  <2> QED BY <1>1, <2>1
<1>5. ToSet(x) = ToSet(s) \cup ToSet(t)
  <2>1. \A i \in 1 .. Len(x) : x[i] \in ToSet(s) \cup ToSet(t)
    BY <1>1, <1>2 DEF ToSet
  <2>2. /\ \A i \in 1 .. Len(s) : s[i] \in ToSet(x)
        /\ \A i \in 1 .. Len(t) : t[i] \in ToSet(x)
    BY <1>1, <1>3, <1>4 DEF ToSet
  <2> QED BY <1>1, <2>1, <2>2 DEF ToSet
<1> QED BY <1>1, <1>2, <1>5 DEF x

LEMMA IncreasingConcat ==
  ASSUME NEW s \in Seq(Named), NEW t \in Seq(Named), Increasing(s), Increasing(t),
         Below(ToSet(s), ToSet(t))
  PROVE  Increasing(s \o t)
<1> DEFINE x == s \o t
<1>1. /\ x \in Seq(Named) /\ Len(x) = Len(s) + Len(t)
      /\ \A i \in 1 .. Len(x) :
             \/ i \in 1 .. Len(s) /\ x[i] = s[i]
             \/ i - Len(s) \in 1 .. Len(t) /\ x[i] = t[i - Len(s)]
  BY ConcatShape
<1> HIDE DEF x
<1>2. /\ Len(s) \in Nat /\ Len(t) \in Nat /\ DOMAIN s = 1 .. Len(s) /\ DOMAIN t = 1 .. Len(t)
      /\ DOMAIN x = 1 .. Len(x)
  BY <1>1
<1>3. \A i \in 1 .. Len(s), j \in 1 .. Len(t) : s[i] < t[j]
  BY <1>2 DEF Below, ToSet
<1>4. ASSUME NEW i \in 1 .. Len(x), NEW j \in 1 .. Len(x), i < j PROVE x[i] < x[j]
  <2>1. CASE i \in 1 .. Len(s) /\ j \in 1 .. Len(s) /\ x[i] = s[i] /\ x[j] = s[j]
    BY <1>2, <1>4, <2>1 DEF Increasing
  <2>2. CASE i \in 1 .. Len(s) /\ j - Len(s) \in 1 .. Len(t) /\ x[i] = s[i] /\ x[j] = t[j - Len(s)]
    BY <1>3, <2>2
  <2>3. CASE /\ i - Len(s) \in 1 .. Len(t) /\ j - Len(s) \in 1 .. Len(t)
             /\ x[i] = t[i - Len(s)] /\ x[j] = t[j - Len(s)]
    <3>1. i - Len(s) < j - Len(s)
      BY ONLY <1>1, <1>2, <1>4
    <3> QED BY <1>2, <2>3, <3>1 DEF Increasing
  <2>4. CASE i - Len(s) \in 1 .. Len(t) /\ j \in 1 .. Len(s)
    <3>1. FALSE
      BY ONLY <1>1, <1>2, <1>4, <2>4
    <3> QED BY <3>1
  <2> QED BY <1>1, <1>4, <2>1, <2>2, <2>3, <2>4
<1> QED BY <1>2, <1>4 DEF Increasing, x

LEMMA UnreadShape ==
  ASSUME RedisInvariant, NEW k \in Keys
  PROVE  /\ Unread(k) \in Seq(Named) /\ Increasing(Unread(k))
         /\ ToSet(Unread(k)) = Messages(Waiting(k))
<1> DEFINE R == Reverse(pending[k])  F == Fetched(k)  A == Above(stream[k], F)  x == R \o A
<1>1. RedisTyped /\ Numbered /\ Ordered
  BY DEF RedisInvariant
<1>2. /\ F \in Nat /\ F <= added[k] /\ F = lastId[k] + Len(pending[k])
  BY <1>1, FetchedIs
<1>3. /\ pending[k] \in Stored /\ stream[k] \in Stored /\ lastId[k] \in Nat /\ added[k] \in Nat
      /\ Len(stream[k]) \in Nat /\ Len(stream[k]) <= added[k]
      /\ Up(stream[k], added[k] - Len(stream[k])) /\ added[k] - Len(stream[k]) \in Nat
      /\ Down(pending[k], lastId[k] + Len(pending[k]))
  BY <1>1 DEF RedisTyped, Numbered, Stored
<1>4. Waiting(k) = ToSet(pending[k]) \cup {e \in ToSet(stream[k]) : e.id > F}
  BY DEF Waiting
<1>5. Unread(k) = [i \in DOMAIN x |-> x[i].msg]
  BY DEF Unread, Newer
<1> HIDE DEF F
<1>6. /\ R \in Stored /\ Len(R) = Len(pending[k]) /\ ToSet(R) = ToSet(pending[k]) /\ Up(R, lastId[k])
  BY <1>3, ReverseShape
<1>7. A \in Stored /\ ToSet(A) = {e \in ToSet(stream[k]) : e.id > F}
  BY <1>2, <1>3, AboveShape
<1>8. PICK m \in Nat : Up(A, m) /\ m >= F
  BY <1>2, <1>3, AboveShape
<1> HIDE DEF R, A
<1>9. /\ x \in Seq(Entry) /\ Len(x) = Len(R) + Len(A) /\ ToSet(x) = Waiting(k)
      /\ \A i \in 1 .. Len(x) :
             \/ i \in 1 .. Len(R) /\ x[i] = R[i]
             \/ i - Len(R) \in 1 .. Len(A) /\ x[i] = A[i - Len(R)]
  <2>1. R \in Seq(Entry) /\ A \in Seq(Entry) /\ Waiting(k) = ToSet(R) \cup ToSet(A)
    BY <1>4, <1>6, <1>7 DEF Stored
  <2> QED BY ONLY <2>1, ConcatShape
<1> HIDE DEF x
<1>10. DOMAIN x = 1 .. Len(x) /\ Len(x) \in Nat /\ Len(R) \in Nat /\ Len(A) \in Nat
  BY <1>6, <1>7, <1>9 DEF Stored
<1>11. ASSUME NEW i \in 1 .. Len(x)
       PROVE  \/ i \in 1 .. Len(R) /\ x[i].id = lastId[k] + i
              \/ i - Len(R) \in 1 .. Len(A) /\ x[i].id = m + (i - Len(R))
  BY <1>6, <1>8, <1>9, <1>11 DEF Up
<1>12. ASSUME NEW i \in 1 .. Len(x), NEW j \in 1 .. Len(x), i < j PROVE x[i].id < x[j].id
  <2>1. F = lastId[k] + Len(R)
    BY <1>2, <1>6
  <2>2. PICK a, b : a = x[i].id /\ b = x[j].id
    OBVIOUS
  <2>3. /\ \/ i \in 1 .. Len(R) /\ a = lastId[k] + i
           \/ i - Len(R) \in 1 .. Len(A) /\ a = m + (i - Len(R))
        /\ \/ j \in 1 .. Len(R) /\ b = lastId[k] + j
           \/ j - Len(R) \in 1 .. Len(A) /\ b = m + (j - Len(R))
    BY <1>11, <2>2
  <2>4. PICK p, n, l, f \in Nat : p = Len(R) /\ n = Len(A) /\ l = lastId[k] /\ f = F
    BY <1>2, <1>3, <1>10
  <2>5. a < b
    BY ONLY <1>8, <1>10, <1>12, <2>1, <2>3, <2>4, SMTT(30)
  <2> QED BY <2>2, <2>5
<1>13. \A i \in 1 .. Len(x) : x[i] \in Waiting(k) /\ x[i].msg \in Named
  <2>1. \A i \in 1 .. Len(x) : x[i] \in ToSet(x) /\ x[i] \in Entry
    BY <1>9, <1>10 DEF ToSet
  <2> QED BY <1>9, <2>1 DEF Entry
<1> DEFINE u == Unread(k)
<1>14. u = [i \in 1 .. Len(x) |-> x[i].msg]
  BY <1>5, <1>10
<1> HIDE DEF u
<1>15. /\ u \in Seq(Named) /\ Len(u) = Len(x) /\ DOMAIN u = 1 .. Len(x)
       /\ \A i \in 1 .. Len(x) : u[i] = x[i].msg
  BY <1>10, <1>13, <1>14
<1>16. Increasing(u)
  <2>1. ById(Waiting(k))
    BY <1>1, KeysAre DEF Ordered
  <2> QED BY <1>12, <1>13, <1>15, <2>1 DEF Increasing, ById
<1>17. ToSet(u) = Messages(Waiting(k))
  <2>1. \A e \in Waiting(k) : \E i \in 1 .. Len(x) : e = x[i]
    BY <1>9, <1>10 DEF ToSet
  <2> QED BY <1>13, <1>15, <2>1 DEF ToSet, Messages
<1> QED BY <1>15, <1>16, <1>17 DEF u

LEMMA OnTheWayShape ==
  ASSUME RedisInvariant
  PROVE  Increasing(OnTheWay) /\ ToSet(OnTheWay) = Got \cup Back \cup AtEcho \cup Out
<1> DEFINE h == IF hand = -1 THEN <<>> ELSE <<hand>>
           b == Unread("s2c")  o == Unread("c2s")
<1>1. RedisTyped /\ Ordered
  BY DEF RedisInvariant
<1>2. returned \in Seq(Named) /\ hand \in Named \cup {-1}
  BY <1>1 DEF RedisTyped
<1>3. /\ b \in Seq(Named) /\ Increasing(b) /\ ToSet(b) = Back
      /\ o \in Seq(Named) /\ Increasing(o) /\ ToSet(o) = Out
  BY UnreadShape, KeysAre DEF Back, Out
<1>4. h \in Seq(Named) /\ Increasing(h) /\ ToSet(h) = AtEcho
  <2>1. CASE hand = -1
    <3>1. h = <<>> /\ DOMAIN <<>> = {} /\ AtEcho = {}
      BY <2>1 DEF AtEcho
    <3> HIDE DEF h
    <3> QED BY <3>1 DEF Increasing, ToSet
  <2>2. CASE hand # -1
    <3>1. h = <<hand>> /\ DOMAIN <<hand>> = {1} /\ <<hand>>[1] = hand /\ AtEcho = {hand}
      BY <2>2 DEF AtEcho
    <3>2. hand \in Named
      BY <1>2, <2>2
    <3> HIDE DEF h
    <3>3. h \in Seq(Named) /\ DOMAIN h = {1} /\ h[1] = hand
      BY <3>1, <3>2
    <3> QED BY <3>1, <3>3 DEF Increasing, ToSet
  <2> QED BY <2>1, <2>2
<1>5. OnTheWay = ((returned \o b) \o h) \o o
  BY DEF OnTheWay
<1> HIDE DEF h, b, o
<1> DEFINE x == returned \o b  y == x \o h  z == y \o o
<1>6. x \in Seq(Named) /\ Increasing(x) /\ ToSet(x) = Got \cup Back
  BY <1>1, <1>2, <1>3, ConcatShape, IncreasingConcat DEF Ordered, Got
<1> HIDE DEF x
<1>7. Below(ToSet(x), ToSet(h)) /\ Below(Got \cup Back \cup AtEcho, ToSet(o))
  BY <1>1, <1>3, <1>4, <1>6 DEF Ordered, Below
<1>8. y \in Seq(Named) /\ Increasing(y) /\ ToSet(y) = Got \cup Back \cup AtEcho
  <2>1. y \in Seq(Named) /\ ToSet(y) = ToSet(x) \cup ToSet(h)
    BY ONLY <1>4, <1>6, ConcatShape
  <2>2. Increasing(y)
    BY ONLY <1>4, <1>6, <1>7, IncreasingConcat
  <2> QED BY <1>4, <1>6, <2>1, <2>2
<1> HIDE DEF y
<1>9. Increasing(z) /\ ToSet(z) = Got \cup Back \cup AtEcho \cup Out
  <2>1. ToSet(z) = ToSet(y) \cup ToSet(o)
    BY ONLY <1>3, <1>8, ConcatShape
  <2>2. Increasing(z)
    <3>1. Below(ToSet(y), ToSet(o))
      BY <1>7, <1>8
    <3> QED BY ONLY <1>3, <1>8, <3>1, IncreasingConcat
  <2> QED BY <1>3, <1>8, <2>1, <2>2
<1> QED BY <1>5, <1>9 DEF x, y

LEMMA RedisTypeCorrect == RedisInvariant /\ Statuses => RedisTypeOK
<1> SUFFICES ASSUME RedisInvariant, Statuses PROVE RedisTypeOK
  OBVIOUS
<1>1. RedisTyped /\ Numbered /\ Bounded /\ Accounted
  BY DEF RedisInvariant
<1>2. csent \in 0 .. Total /\ Total \in Nat /\ overrun \subseteq 0 .. csent - 1
  BY RegionsAre
<1>3. \A k \in Keys : /\ added[k] \in Nat /\ lastId[k] \in Nat /\ lastId[k] <= added[k]
                      /\ lastId[k] + Len(pending[k]) <= added[k] /\ Len(pending[k]) \in Nat
                      /\ Len(stream[k]) \in Nat /\ Len(stream[k]) <= added[k]
  <2>1. ASSUME NEW k \in Keys
        PROVE  /\ added[k] \in Nat /\ lastId[k] \in Nat /\ Len(pending[k]) \in Nat
               /\ lastId[k] + Len(pending[k]) <= added[k]
               /\ Len(stream[k]) \in Nat /\ Len(stream[k]) <= added[k]
    BY <1>1, <2>1 DEF RedisTyped, Numbered, Stored
  <2> QED BY <2>1
<1>4. \A k \in Keys : added[k] <= Total
  <2>1. added["c2s"] <= Total
    BY <1>1, <1>2 DEF Bounded
  <2>2. added["s2c"] <= lastId["c2s"] /\ lastId["c2s"] <= added["c2s"]
    <3>1. added["s2c"] + (IF hand = -1 THEN 0 ELSE 1) <= lastId["c2s"]
      BY <1>1 DEF Bounded
    <3> QED BY <1>3, <3>1, KeysAre
  <2>3. added["s2c"] <= Total
    BY <1>2, <1>3, <2>1, <2>2, KeysAre
  <2> QED BY <2>1, <2>3, KeysAre
<1>5. ASSUME NEW k \in Keys
      PROVE  /\ \A i \in DOMAIN stream[k]  : IsEntry(stream[k][i])
             /\ \A i \in DOMAIN pending[k] : IsEntry(pending[k][i])
             /\ added[k] \in 0 .. Total /\ lastId[k] \in 0 .. added[k]
  <2> DEFINE p == pending[k]  s == stream[k]
  <2>1. /\ p \in Seq(Entry) /\ s \in Seq(Entry)
        /\ Up(s, added[k] - Len(s)) /\ Down(p, lastId[k] + Len(p))
    BY <1>1, <1>5 DEF RedisTyped, Numbered, Stored
  <2>2. /\ added[k] \in Nat /\ lastId[k] \in Nat /\ lastId[k] <= added[k]
        /\ lastId[k] + Len(p) <= added[k] /\ Len(p) \in Nat
        /\ Len(s) \in Nat /\ Len(s) <= added[k] /\ added[k] <= Total
    BY <1>3, <1>4, <1>5
  <2> HIDE DEF p, s
  <2>3. DOMAIN p = 1 .. Len(p) /\ DOMAIN s = 1 .. Len(s)
    BY <2>1
  <2>4. ASSUME NEW i \in 1 .. Len(s) PROVE IsEntry(s[i])
    <3>1. s[i] \in Entry /\ s[i].id = (added[k] - Len(s)) + i
      BY <2>1, <2>3, <2>4 DEF Up
    <3>2. (added[k] - Len(s)) + i \in 1 .. Total
      BY ONLY <1>2, <2>2, <2>4
    <3> QED BY <3>1, <3>2 DEF IsEntry, Entry, Named
  <2>5. ASSUME NEW i \in 1 .. Len(p) PROVE IsEntry(p[i])
    <3>1. p[i] \in Entry /\ p[i].id = (lastId[k] + Len(p)) - i + 1
      BY <2>1, <2>3, <2>5 DEF Down
    <3>2. (lastId[k] + Len(p)) - i + 1 \in 1 .. Total
      BY ONLY <1>2, <2>2, <2>5
    <3> QED BY <3>1, <3>2 DEF IsEntry, Entry, Named
  <2>6. added[k] \in 0 .. Total /\ lastId[k] \in 0 .. added[k]
    BY <1>2, <2>2
  <2> QED BY <2>3, <2>4, <2>5, <2>6 DEF p, s
<1>6. hand \in -1 .. Total - 1 /\ ToSet(returned) \cup overrun \subseteq 0 .. Total - 1
  <2>1. ToSet(returned) \subseteq 0 .. csent - 1
    BY RegionsAre DEF Got
  <2>2. hand \in -1 .. Total - 1
    BY <1>1, RedisConstants DEF RedisTyped, Named
  <2>3. 0 .. csent - 1 \subseteq 0 .. Total - 1
    BY ONLY <1>2
  <2> QED BY <1>2, <2>1, <2>2, <2>3
<1> QED BY <1>2, <1>5, <1>6 DEF RedisTypeOK, Statuses

(***************************************************************************)
(* Every message sent has been received or is on its way, in order and     *)
(* once, or was trimmed by a later XADD before its reader fetched it: for  *)
(* every number of messages and every MAXLEN, however the server trims.    *)
(***************************************************************************)
THEOREM NothingVanishesHolds == RedisSpec => []NothingVanishes
<1>1. RedisInvariant /\ Statuses => NothingVanishes
  <2> SUFFICES ASSUME RedisInvariant, Statuses PROVE NothingVanishes
    OBVIOUS
  <2>1. RedisTypeOK
    BY RedisTypeCorrect
  <2>2. Increasing(OnTheWay) /\ ToSet(OnTheWay) = Got \cup Back \cup AtEcho \cup Out
    BY OnTheWayShape
  <2>3. Accounted
    BY DEF RedisInvariant
  <2> QED BY <2>1, <2>2, <2>3 DEF NothingVanishes, Increasing, Accounted
<1> QED BY <1>1, RedisInvariantHolds, StatusesHold, PTL
=============================================================================
