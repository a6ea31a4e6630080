---------------------------- MODULE ClientProofs -----------------------------
(***************************************************************************)
(* Proofs about Client, for any exchanges: of the response, whatever it is *)
(* and however it is cut and offered, of the attempts, and of the request. *)
(***************************************************************************)
EXTENDS Client, SequenceFacts

-----------------------------------------------------------------------------
(* What a response is as octets.                                           *)

Octet == (Names \cup {"octet", "CR", "LF", "status", "length", "coding", "size"}) \X Int

Blank == <<CR, LF>>

LEMMA LineIs ==
    ASSUME NEW o \in Octet
    PROVE  /\ Line(o) \in Seq(Octet) /\ Len(Line(o)) = 3
           /\ Line(o)[1] = o /\ Line(o)[2] = CR /\ Line(o)[3] = LF
<1>1. CR \in Octet /\ LF \in Octet
  BY DEF Octet, CR, LF
<1> QED
  BY <1>1 DEF Line

LEMMA BlankIs == Blank \in Seq(Octet) /\ Len(Blank) = 2 /\ Blank[1] = CR /\ Blank[2] = LF /\ CR # LF
<1>1. CR \in Octet /\ LF \in Octet /\ CR # LF
  BY DEF Octet, CR, LF
<1> QED
  BY <1>1 DEF Blank

LEMMA LinesAre ==
    ASSUME NEW ls \in Seq(Octet)
    PROVE  /\ Lines(ls) \in Seq(Octet) /\ Len(Lines(ls)) = 3 * Len(ls)
           /\ \A i \in 1 .. Len(ls) : IsPiece(Line(ls[i]), Lines(ls), 3 * (i - 1))
<1> DEFINE N == Len(ls)
           ss == [i \in DOMAIN ls |-> Line(ls[i])]
<1>1. N \in Nat /\ DOMAIN ls = 1 .. N /\ \A i \in 1 .. N : ls[i] \in Octet
  BY LenProperties, ElementOfSeq
<1>2. ss \in Seq(Seq(Octet)) /\ Len(ss) = N /\ \A i \in 1 .. N : ss[i] = Line(ls[i])
  <2>1. ss = [i \in 1 .. N |-> Line(ls[i])]
    BY <1>1
  <2>2. \A i \in 1 .. N : Line(ls[i]) \in Seq(Octet)
    BY <1>1, LineIs
  <2> HIDE DEF N
  <2> QED
    BY <1>1, <2>1, <2>2
<1>3. Lines(ls) = FlattenSeq(ss)
  BY DEF Lines
<1> HIDE DEF N, ss
<1>4. /\ FlattenSeq(ss) \in Seq(Octet)
      /\ \A i \in 0 .. N : Upto(ss, i) \in Seq(Octet)
      /\ Upto(ss, 0) = <<>> /\ Upto(ss, N) = FlattenSeq(ss)
      /\ \A i \in 1 .. N : Upto(ss, i) = Upto(ss, i - 1) \o ss[i]
      /\ \A i \in 1 .. N : IsPiece(ss[i], FlattenSeq(ss), Len(Upto(ss, i - 1)))
  BY <1>2, Pieces
<1>5. \A i \in 0 .. N : Len(Upto(ss, i)) = 3 * i
  <2> DEFINE T == {i \in 0 .. N : Len(Upto(ss, i)) # 3 * i}
  <2> SUFFICES ASSUME T # {} PROVE FALSE
    OBVIOUS
  <2>1. PICK m \in T : \A k \in T : m <= k
    <3>1. T \in SUBSET Nat
      BY <1>1
    <3> HIDE DEF T
    <3> QED
      BY <3>1, LeastNat
  <2>2. m # 0
    BY <1>4, <2>1
  <2>3. m \in 1 .. N /\ m - 1 \in 0 .. N /\ ~(m <= m - 1)
    BY <1>1, <2>1, <2>2
  <2>4. Len(Upto(ss, m - 1)) = 3 * (m - 1)
    BY <2>1, <2>3
  <2>5. Upto(ss, m) = Upto(ss, m - 1) \o ss[m] /\ Upto(ss, m - 1) \in Seq(Octet)
    BY <1>4, <2>3
  <2>a. ss[m] = Line(ls[m]) /\ ls[m] \in Octet
    BY <1>1, <1>2, <2>3
  <2>b. ss[m] \in Seq(Octet) /\ Len(ss[m]) = 3
    BY <2>a, LineIs
  <2>6. Len(Upto(ss, m)) = Len(Upto(ss, m - 1)) + 3
    BY <2>5, <2>b, Together
  <2>7. Len(Upto(ss, m)) = 3 * m
    BY <1>1, <2>3, <2>4, <2>6
  <2> QED
    BY <2>1, <2>7
<1>6. ASSUME NEW i \in 1 .. N PROVE IsPiece(Line(ls[i]), Lines(ls), 3 * (i - 1))
  <2>1. i - 1 \in 0 .. N
    BY <1>1
  <2> QED
    BY <1>2, <1>3, <1>4, <1>5, <2>1
<1>7. Len(Lines(ls)) = 3 * N
  BY <1>1, <1>3, <1>4, <1>5
<1> QED
  BY <1>3, <1>4, <1>6, <1>7 DEF N

\* The lines of the header, that of the framing last.
Framed(r) == IF r.framing = "none" THEN <<>>
             ELSE <<IF r.framing = "length" THEN <<"length", Len(Body(r))>>
                    ELSE <<"coding", IF r.framing = "chunked" THEN 1 ELSE 0>>>>
Top(r) == r.fields \o Framed(r)

Begins(r) == 3 + 3 * Len(Top(r)) + 2

Chunks(r) == [i \in DOMAIN r.chunks |-> Chunk(r.chunks[i])]

LEMMA ResponseIs ==
    ASSUME NEW r \in Response
    PROVE  /\ r.fields \in Seq(Octet) /\ r.trailer \in Seq(Octet) /\ r.chunks \in Seq(Seq(Octet))
           /\ r.fields \in Seq(Names \X Int) /\ r.trailer \in Seq(Names \X Int)
           /\ r.framing \in {"length", "chunked", "othercoding", "none"}
           /\ Body(r) \in Seq(Octet)
<1>1. /\ r.fields \in Seq(Names \X Int) /\ r.trailer \in Seq(Names \X Int)
      /\ r.chunks \in Seq(Seq({"octet", "CR", "LF"} \X Int))
      /\ r.framing \in {"length", "chunked", "othercoding", "none"}
  BY DEF Response
<1>2. Names \X Int \subseteq Octet /\ {"octet", "CR", "LF"} \X Int \subseteq Octet
  BY DEF Octet
<1>3. r.fields \in Seq(Octet) /\ r.trailer \in Seq(Octet)
  BY <1>1, <1>2, SeqMonotonic, Zenon
<1>4. r.chunks \in Seq(Seq(Octet))
  <2>1. Seq({"octet", "CR", "LF"} \X Int) \subseteq Seq(Octet)
    BY <1>2, SeqMonotonic, Zenon
  <2> QED
    BY <1>1, <2>1, SeqMonotonic, Zenon
<1>5. Body(r) \in Seq(Octet)
  BY <1>4, Pieces DEF Body
<1> QED
  BY <1>1, <1>3, <1>4, <1>5

LEMMA TopIs ==
    ASSUME NEW r \in Response
    PROVE  /\ Framed(r) \in Seq(Octet) /\ Top(r) \in Seq(Octet)
           /\ Len(r.fields) \in Nat
           /\ \A i \in 1 .. Len(r.fields) : Top(r)[i] = r.fields[i]
           /\ r.framing = "none" => Len(Top(r)) = Len(r.fields)
           /\ r.framing # "none" => Len(Top(r)) = Len(r.fields) + 1
           /\ r.framing = "length" => Top(r)[Len(r.fields) + 1] = <<"length", Len(Body(r))>>
           /\ r.framing = "chunked" => Top(r)[Len(r.fields) + 1] = <<"coding", 1>>
           /\ r.framing = "othercoding" => Top(r)[Len(r.fields) + 1] = <<"coding", 0>>
<1> DEFINE N == Len(r.fields)
<1>1. /\ r.fields \in Seq(Octet) /\ N \in Nat /\ Len(Body(r)) \in Nat
      /\ r.framing \in {"length", "chunked", "othercoding", "none"}
  <2>1. r.fields \in Seq(Octet) /\ Body(r) \in Seq(Octet)
        /\ r.framing \in {"length", "chunked", "othercoding", "none"}
    BY ResponseIs
  <2>2. Len(r.fields) \in Nat /\ Len(Body(r)) \in Nat
    BY <2>1, LenProperties
  <2> QED
    BY <2>1, <2>2, Zenon
<1> DEFINE line == IF r.framing = "length" THEN <<"length", Len(Body(r))>>
                   ELSE <<"coding", IF r.framing = "chunked" THEN 1 ELSE 0>>
<1>2. line \in Octet
  <2>1. \A n \in Nat : <<"length", n>> \in Octet /\ <<"coding", n>> \in Octet
    BY DEF Octet
  <2>2. 0 \in Nat /\ 1 \in Nat
    OBVIOUS
  <2> QED
    BY <1>1, <2>1, <2>2, Zenon
<1>3. Framed(r) = IF r.framing = "none" THEN <<>> ELSE <<line>>
  BY DEF Framed
<1>4. /\ r.framing = "length" => line = <<"length", Len(Body(r))>>
      /\ r.framing = "chunked" => line = <<"coding", 1>>
      /\ r.framing = "othercoding" => line = <<"coding", 0>>
  OBVIOUS
<1> HIDE DEF line
<1>5. /\ Framed(r) \in Seq(Octet)
      /\ r.framing = "none" => Len(Framed(r)) = 0
      /\ r.framing # "none" => Len(Framed(r)) = 1 /\ Framed(r)[1] = line
  BY <1>2, <1>3
<1>6. /\ Top(r) \in Seq(Octet) /\ Len(Top(r)) = N + Len(Framed(r))
      /\ IsPiece(r.fields, Top(r), 0) /\ IsPiece(Framed(r), Top(r), N)
  BY <1>1, <1>5, Together DEF Top
<1> HIDE DEF N
<1>7. \A i \in 1 .. N : Top(r)[i] = r.fields[i]
  <2>1. \A i \in 1 .. Len(r.fields) : r.fields[i] = Top(r)[i]
    BY <1>6, FirstPiece
  <2> QED
    BY <2>1 DEF N
<1>8. r.framing # "none" => Top(r)[N + 1] = line
  <2>1. \A i \in 1 .. Len(Framed(r)) : Framed(r)[i] = Top(r)[N + i]
    BY <1>6 DEF IsPiece
  <2> QED
    BY <1>5, <2>1
<1>9. r.framing = "none" => Len(Top(r)) = N
  BY <1>1, <1>5, <1>6
<1>10. r.framing # "none" => Len(Top(r)) = N + 1
  BY <1>1, <1>5, <1>6
<1> QED
  BY <1>1, <1>4, <1>5, <1>6, <1>7, <1>8, <1>9, <1>10 DEF N

\* What comes after the header.
Rest(r) == IF r.framing = "chunked"
           THEN FlattenSeq(Chunks(r)) \o Line(<<"size", 0>>) \o Lines(r.trailer) \o <<CR, LF>>
           ELSE Body(r)

LEMMA FramingIs ==
    ASSUME NEW r \in Response
    PROVE  Framing(r) \in Seq(Octet) /\ Framing(r) = IF r.framing = "none" THEN <<>> ELSE Line(Framed(r)[1])
<1>1. r.framing \in {"length", "chunked", "othercoding", "none"} /\ Framed(r) \in Seq(Octet)
  BY ResponseIs, TopIs
<1>2. Framing(r) = IF r.framing = "none" THEN <<>> ELSE Line(Framed(r)[1])
  BY <1>1 DEF Framing, Framed
<1>3. r.framing # "none" => Framed(r)[1] \in Octet
  <2>1. r.framing # "none" => Len(Framed(r)) = 1 /\ 1 \in 1 .. 1
    BY DEF Framed
  <2> QED
    BY <1>1, <2>1, ElementOfSeq
<1> QED
  BY <1>2, <1>3, LineIs

LEMMA StreamIs ==
    ASSUME NEW r \in Response, Rest(r) \in Seq(Octet)
    PROVE  /\ Stream(r) \in Seq(Octet) /\ Begins(r) \in Nat
           /\ Len(Stream(r)) = Begins(r) + Len(Rest(r))
           /\ IsPiece(Line(<<"status", 200>>), Stream(r), 0)
           /\ \A i \in 1 .. Len(Top(r)) : IsPiece(Line(Top(r)[i]), Stream(r), 3 * i)
           /\ IsPiece(Blank, Stream(r), 3 + 3 * Len(Top(r)))
           /\ IsPiece(Rest(r), Stream(r), Begins(r))
<1> DEFINE N == Len(r.fields)
           M == Len(Top(r))
           one == Line(<<"status", 200>>)
           two == one \o Lines(r.fields)
           three == two \o Framing(r)
           four == three \o Blank
           whole == four \o Rest(r)
<1>1. Stream(r) = whole
  BY DEF Stream, Rest, Chunks, Blank
<1>2. one \in Seq(Octet) /\ Len(one) = 3
  <2>1. <<"status", 200>> \in Octet
    BY DEF Octet
  <2> QED
    BY <2>1, LineIs
<1>3. /\ r.fields \in Seq(Octet) /\ Lines(r.fields) \in Seq(Octet) /\ Len(Lines(r.fields)) = 3 * N
      /\ \A i \in 1 .. N : IsPiece(Line(r.fields[i]), Lines(r.fields), 3 * (i - 1)) /\ r.fields[i] \in Octet
  <2>1. r.fields \in Seq(Octet)
    BY ResponseIs
  <2>2. \A i \in 1 .. N : r.fields[i] \in Octet
    BY <2>1, ElementOfSeq
  <2> QED
    BY <2>1, <2>2, LinesAre
<1>4. /\ N \in Nat /\ M \in Nat /\ Top(r) \in Seq(Octet)
      /\ \A i \in 1 .. N : Top(r)[i] = r.fields[i]
      /\ r.framing = "none" => M = N
      /\ r.framing # "none" => M = N + 1
  <2>1. Top(r) \in Seq(Octet)
    BY TopIs
  <2>2. M \in Nat
    BY <2>1, LenProperties
  <2> QED
    BY <2>1, <2>2, TopIs
<1>5. /\ Framing(r) \in Seq(Octet)
      /\ r.framing = "none" => Framing(r) = <<>>
      /\ r.framing # "none" => Framing(r) = Line(Top(r)[M]) /\ Top(r)[M] \in Octet
  <2>1. Framing(r) \in Seq(Octet) /\ Framing(r) = IF r.framing = "none" THEN <<>> ELSE Line(Framed(r)[1])
    BY FramingIs
  <2>2. ASSUME r.framing # "none" PROVE Top(r)[M] = Framed(r)[1] /\ Top(r)[M] \in Octet
    <3>1. Len(Framed(r)) = 1
      BY <2>2 DEF Framed
    <3>2. IsPiece(Framed(r), Top(r), N)
      BY <1>3, TopIs, Together DEF Top
    <3>3. Framed(r)[1] = Top(r)[N + 1]
      BY <3>1, <3>2 DEF IsPiece
    <3>4. M \in 1 .. M /\ M = N + 1
      BY <1>4, <2>2
    <3>5. Top(r)[M] \in Octet
      BY <1>4, <3>4, ElementOfSeq
    <3> QED
      BY <3>3, <3>4, <3>5
  <2> QED
    BY <2>1, <2>2
<1> HIDE DEF N, M, one, two, three, four, whole
<1>6. /\ two \in Seq(Octet) /\ Len(two) = 3 + 3 * N
      /\ IsPiece(one, two, 0) /\ IsPiece(Lines(r.fields), two, 3)
  BY <1>2, <1>3, Together DEF two
<1>7. /\ three \in Seq(Octet) /\ Len(three) = 3 + 3 * N + Len(Framing(r))
      /\ IsPiece(two, three, 0) /\ IsPiece(Framing(r), three, 3 + 3 * N)
  <2>1. two \in Seq(Octet) /\ Framing(r) \in Seq(Octet) /\ three = two \o Framing(r)
    BY <1>5, <1>6 DEF three
  <2>2. /\ three \in Seq(Octet) /\ Len(three) = Len(two) + Len(Framing(r))
        /\ IsPiece(two, three, 0) /\ IsPiece(Framing(r), three, Len(two))
    BY <2>1, Together
  <2> QED
    BY <1>6, <2>2
<1>8. Len(three) = 3 + 3 * M
  <2>1. CASE r.framing = "none"
    <3>1. Len(Framing(r)) = 0 /\ M = N
      BY <1>4, <1>5, <2>1
    <3> QED
      BY <1>4, <1>7, <3>1
  <2>2. CASE r.framing # "none"
    <3>1. Len(Framing(r)) = 3 /\ M = N + 1
      BY <1>4, <1>5, <2>2, LineIs
    <3> QED
      BY <1>4, <1>7, <3>1
  <2> QED
    BY <2>1, <2>2
<1>9. /\ four \in Seq(Octet) /\ Len(four) = Begins(r)
      /\ IsPiece(three, four, 0) /\ IsPiece(Blank, four, 3 + 3 * M)
  <2>1. /\ four \in Seq(Octet) /\ Len(four) = Len(three) + Len(Blank)
        /\ IsPiece(three, four, 0) /\ IsPiece(Blank, four, Len(three))
    BY <1>7, BlankIs, Together DEF four
  <2> QED
    BY <1>8, <2>1, BlankIs DEF Begins, M
<1>10. /\ whole \in Seq(Octet) /\ Len(whole) = Begins(r) + Len(Rest(r))
       /\ IsPiece(four, whole, 0) /\ IsPiece(Rest(r), whole, Begins(r))
  <2>1. Rest(r) \in Seq(Octet) /\ four \in Seq(Octet)
    BY <1>9
  <2>2. /\ whole \in Seq(Octet) /\ Len(whole) = Len(four) + Len(Rest(r))
        /\ IsPiece(four, whole, 0) /\ IsPiece(Rest(r), whole, Len(four))
    BY <2>1, Together DEF whole
  <2> QED
    BY <1>9, <2>2
<1>11. ASSUME NEW piece \in Seq(Octet), NEW p \in Nat, IsPiece(piece, four, p) PROVE IsPiece(piece, whole, p)
  <2>1. IsPiece(piece, whole, 0 + p)
    BY <1>9, <1>10, <1>11, PieceOfPiece
  <2> QED
    BY <2>1
<1>12. ASSUME NEW piece \in Seq(Octet), NEW p \in Nat, IsPiece(piece, three, p) PROVE IsPiece(piece, whole, p)
  <2>1. IsPiece(piece, four, 0 + p)
    BY <1>7, <1>9, <1>12, PieceOfPiece
  <2> QED
    BY <1>11, <2>1
<1>13. ASSUME NEW piece \in Seq(Octet), NEW p \in Nat, IsPiece(piece, two, p) PROVE IsPiece(piece, whole, p)
  <2>1. IsPiece(piece, three, 0 + p)
    BY <1>6, <1>7, <1>13, PieceOfPiece
  <2> QED
    BY <1>12, <2>1
<1>14. IsPiece(one, whole, 0)
  BY <1>2, <1>6, <1>13
<1>15. ASSUME NEW i \in 1 .. M PROVE IsPiece(Line(Top(r)[i]), whole, 3 * i)
  <2>1. CASE i <= N
    <3>1. i \in 1 .. N /\ 3 + 3 * (i - 1) = 3 * i /\ 3 * i \in Nat
      BY <1>4, <2>1
    <3>2. IsPiece(Line(r.fields[i]), Lines(r.fields), 3 * (i - 1)) /\ Line(r.fields[i]) \in Seq(Octet)
      BY <1>3, <3>1, LineIs
    <3>3. IsPiece(Line(r.fields[i]), two, 3 + 3 * (i - 1))
      BY <1>3, <1>6, <3>2, PieceOfPiece
    <3> QED
      BY <1>4, <1>13, <3>1, <3>2, <3>3
  <2>2. CASE ~(i <= N)
    <3>1. i = M /\ r.framing # "none" /\ 3 + 3 * N = 3 * i /\ 3 * i \in Nat
      BY <1>4, <2>2
    <3>2. Framing(r) = Line(Top(r)[i]) /\ Framing(r) \in Seq(Octet)
      BY <1>5, <3>1
    <3> QED
      BY <1>7, <1>12, <3>1, <3>2
  <2> QED
    BY <2>1, <2>2
<1>16. IsPiece(Blank, whole, 3 + 3 * M)
  <2>1. 3 + 3 * M \in Nat
    BY <1>4
  <2> QED
    BY <1>9, <1>11, <2>1, BlankIs
<1>17. Begins(r) \in Nat
  BY <1>9, LenProperties
<1> QED
  BY <1>1, <1>10, <1>14, <1>15, <1>16, <1>17 DEF M, one

LEMMA ChunkIs ==
    ASSUME NEW o \in Seq(Octet)
    PROVE  /\ Chunk(o) \in Seq(Octet) /\ Len(Chunk(o)) = Len(o) + 5 /\ Len(o) \in Nat
           /\ <<"size", Len(o)>> \in Octet
           /\ IsPiece(Line(<<"size", Len(o)>>), Chunk(o), 0)
           /\ IsPiece(o, Chunk(o), 3) /\ IsPiece(Blank, Chunk(o), 3 + Len(o))
<1> DEFINE one == Line(<<"size", Len(o)>>)
           two == one \o o
           whole == two \o Blank
<1>1. Chunk(o) = whole
  BY DEF Chunk, Blank
<1>2. Len(o) \in Nat
  BY LenProperties
<1>3. <<"size", Len(o)>> \in Octet
  BY <1>2 DEF Octet
<1>4. one \in Seq(Octet) /\ Len(one) = 3
  BY <1>3, LineIs
<1> HIDE DEF one, two, whole
<1>5. two \in Seq(Octet) /\ Len(two) = 3 + Len(o) /\ IsPiece(one, two, 0) /\ IsPiece(o, two, 3)
  BY <1>4, Together DEF two
<1>6. /\ whole \in Seq(Octet) /\ Len(whole) = 3 + Len(o) + 2
      /\ IsPiece(two, whole, 0) /\ IsPiece(Blank, whole, 3 + Len(o))
  <2>1. two \in Seq(Octet) /\ Blank \in Seq(Octet) /\ whole = two \o Blank
    BY <1>5, BlankIs DEF whole
  <2>2. /\ whole \in Seq(Octet) /\ Len(whole) = Len(two) + Len(Blank)
        /\ IsPiece(two, whole, 0) /\ IsPiece(Blank, whole, Len(two))
    BY <2>1, Together
  <2> QED
    BY <1>5, <2>2, BlankIs
<1>7. IsPiece(one, whole, 0 + 0) /\ IsPiece(o, whole, 0 + 3)
  BY <1>4, <1>5, <1>6, PieceOfPiece
<1> QED
  BY <1>1, <1>2, <1>3, <1>6, <1>7 DEF one

\* Where the chunks begin.
At(r, j) == Begins(r) + Len(Upto(Chunks(r), j))

LEMMA ChunksAre ==
    ASSUME NEW r \in Response
    PROVE  /\ Chunks(r) \in Seq(Seq(Octet)) /\ Len(Chunks(r)) = Len(r.chunks) /\ Len(r.chunks) \in Nat
           /\ \A j \in 1 .. Len(r.chunks) : Chunks(r)[j] = Chunk(r.chunks[j]) /\ r.chunks[j] \in Seq(Octet)
           /\ FlattenSeq(Chunks(r)) \in Seq(Octet)
<1> DEFINE C == Len(r.chunks)
<1>1. r.chunks \in Seq(Seq(Octet))
  BY ResponseIs
<1>2. C \in Nat /\ DOMAIN r.chunks = 1 .. C /\ \A j \in 1 .. C : r.chunks[j] \in Seq(Octet)
  BY <1>1, LenProperties, ElementOfSeq
<1>3. \A j \in 1 .. C : Chunk(r.chunks[j]) \in Seq(Octet)
  BY <1>2, ChunkIs
<1>4. Chunks(r) = [j \in 1 .. C |-> Chunk(r.chunks[j])]
  BY <1>2 DEF Chunks
<1> HIDE DEF C
<1>5. Chunks(r) \in Seq(Seq(Octet)) /\ Len(Chunks(r)) = C
  BY <1>2, <1>3, <1>4
<1>6. \A j \in 1 .. C : Chunks(r)[j] = Chunk(r.chunks[j])
  BY <1>4
<1> QED
  BY <1>2, <1>5, <1>6, Pieces DEF C

LEMMA RestIs == ASSUME NEW r \in Response PROVE Rest(r) \in Seq(Octet)
<1>1. CASE r.framing = "chunked"
  <2>1. <<"size", 0>> \in Octet
    BY DEF Octet
  <2>2. Line(<<"size", 0>>) \in Seq(Octet) /\ Lines(r.trailer) \in Seq(Octet)
    BY <2>1, LineIs, LinesAre, ResponseIs
  <2>3. FlattenSeq(Chunks(r)) \in Seq(Octet) /\ Blank \in Seq(Octet)
    BY ChunksAre, BlankIs
  <2>4. FlattenSeq(Chunks(r)) \o Line(<<"size", 0>>) \in Seq(Octet)
    BY <2>2, <2>3, Together
  <2>5. FlattenSeq(Chunks(r)) \o Line(<<"size", 0>>) \o Lines(r.trailer) \in Seq(Octet)
    BY <2>2, <2>4, Together
  <2>6. FlattenSeq(Chunks(r)) \o Line(<<"size", 0>>) \o Lines(r.trailer) \o Blank \in Seq(Octet)
    BY <2>3, <2>5, Together
  <2> QED
    BY <1>1, <2>6 DEF Rest, Blank
<1>2. CASE r.framing # "chunked"
  BY <1>2, ResponseIs DEF Rest
<1> QED
  BY <1>1, <1>2

LEMMA ChunkedIs ==
    ASSUME NEW r \in Response, r.framing = "chunked"
    PROVE  /\ At(r, 0) = Begins(r)
           /\ \A j \in 0 .. Len(r.chunks) : At(r, j) \in Nat
           /\ \A j \in 1 .. Len(r.chunks) :
                 /\ At(r, j) = At(r, j - 1) + Len(r.chunks[j]) + 5
                 /\ <<"size", Len(r.chunks[j])>> \in Octet /\ r.chunks[j] \in Seq(Octet)
                 /\ IsPiece(Line(<<"size", Len(r.chunks[j])>>), Stream(r), At(r, j - 1))
                 /\ IsPiece(r.chunks[j], Stream(r), At(r, j - 1) + 3)
                 /\ IsPiece(Blank, Stream(r), At(r, j - 1) + 3 + Len(r.chunks[j]))
           /\ <<"size", 0>> \in Octet
           /\ IsPiece(Line(<<"size", 0>>), Stream(r), At(r, Len(r.chunks)))
           /\ \A i \in 1 .. Len(r.trailer) : IsPiece(Line(r.trailer[i]), Stream(r), At(r, Len(r.chunks)) + 3 * i)
           /\ IsPiece(Blank, Stream(r), At(r, Len(r.chunks)) + 3 + 3 * Len(r.trailer))
           /\ Len(Stream(r)) = At(r, Len(r.chunks)) + 3 + 3 * Len(r.trailer) + 2
<1> DEFINE C == Len(r.chunks)
           T == Len(r.trailer)
           B == Begins(r)
           ss == Chunks(r)
           all == FlattenSeq(ss)
           zero == Line(<<"size", 0>>)
           one == all \o zero
           two == one \o Lines(r.trailer)
           three == two \o Blank
           whole == Stream(r)
<1>1. /\ ss \in Seq(Seq(Octet)) /\ Len(ss) = C /\ C \in Nat
      /\ \A j \in 1 .. C : ss[j] = Chunk(r.chunks[j]) /\ r.chunks[j] \in Seq(Octet)
  BY ChunksAre
<1>2. /\ whole \in Seq(Octet) /\ B \in Nat /\ Len(whole) = B + Len(Rest(r))
      /\ IsPiece(Rest(r), whole, B) /\ Rest(r) \in Seq(Octet)
  BY RestIs, StreamIs
<1>3. Rest(r) = three
  BY DEF Rest, Blank
<1>4. zero \in Seq(Octet) /\ Len(zero) = 3 /\ <<"size", 0>> \in Octet
  <2>1. <<"size", 0>> \in Octet
    BY DEF Octet
  <2> QED
    BY <2>1, LineIs
<1>5. /\ r.trailer \in Seq(Octet) /\ T \in Nat
      /\ Lines(r.trailer) \in Seq(Octet) /\ Len(Lines(r.trailer)) = 3 * T
      /\ \A i \in 1 .. T : IsPiece(Line(r.trailer[i]), Lines(r.trailer), 3 * (i - 1))
                          /\ Line(r.trailer[i]) \in Seq(Octet)
  <2>1. r.trailer \in Seq(Octet)
    BY ResponseIs
  <2>2. \A i \in 1 .. T : Line(r.trailer[i]) \in Seq(Octet)
    BY <2>1, ElementOfSeq, LineIs
  <2> QED
    BY <2>1, <2>2, LenProperties, LinesAre
<1> HIDE DEF C, T, B, ss, all, zero, one, two, three, whole
<1>6. /\ all \in Seq(Octet) /\ Len(all) \in Nat
      /\ \A j \in 0 .. C : Upto(ss, j) \in Seq(Octet)
      /\ Upto(ss, 0) = <<>> /\ Upto(ss, C) = all
      /\ \A j \in 1 .. C : /\ Upto(ss, j) = Upto(ss, j - 1) \o ss[j]
                           /\ IsPiece(ss[j], all, Len(Upto(ss, j - 1)))
  <2>1. all \in Seq(Octet)
    BY <1>1, Pieces DEF all
  <2> QED
    BY <1>1, <2>1, Pieces, LenProperties DEF all
<1>7. \A j \in 0 .. C : At(r, j) = B + Len(Upto(ss, j)) /\ Len(Upto(ss, j)) \in Nat
  BY <1>6, LenProperties DEF At, B, ss
<1>8. /\ one \in Seq(Octet) /\ Len(one) = Len(all) + 3
      /\ IsPiece(all, one, 0) /\ IsPiece(zero, one, Len(all))
  <2>1. all \in Seq(Octet) /\ zero \in Seq(Octet) /\ Len(zero) = 3
    BY <1>4, <1>6
  <2>2. /\ one \in Seq(Octet) /\ Len(one) = Len(all) + Len(zero)
        /\ IsPiece(all, one, 0) /\ IsPiece(zero, one, Len(all))
    BY <2>1, Together DEF one
  <2> QED
    BY <2>1, <2>2
<1>9. /\ two \in Seq(Octet) /\ Len(two) = Len(all) + 3 + 3 * T
      /\ IsPiece(one, two, 0) /\ IsPiece(Lines(r.trailer), two, Len(all) + 3)
  BY <1>5, <1>8, Together DEF two
<1>10. /\ three \in Seq(Octet) /\ Len(three) = Len(all) + 3 + 3 * T + 2
       /\ IsPiece(two, three, 0) /\ IsPiece(Blank, three, Len(all) + 3 + 3 * T)
  BY <1>9, BlankIs, Together DEF three
<1>11. ASSUME NEW piece \in Seq(Octet), NEW p \in Nat, IsPiece(piece, three, p) PROVE IsPiece(piece, whole, B + p)
  BY <1>2, <1>3, <1>10, <1>11, PieceOfPiece
<1>12. ASSUME NEW piece \in Seq(Octet), NEW p \in Nat, IsPiece(piece, two, p) PROVE IsPiece(piece, whole, B + p)
  <2>1. IsPiece(piece, three, 0 + p)
    BY <1>9, <1>10, <1>12, PieceOfPiece
  <2> QED
    BY <1>11, <2>1
<1>13. ASSUME NEW piece \in Seq(Octet), NEW p \in Nat, IsPiece(piece, one, p) PROVE IsPiece(piece, whole, B + p)
  <2>1. IsPiece(piece, two, 0 + p)
    BY <1>8, <1>9, <1>13, PieceOfPiece
  <2> QED
    BY <1>12, <2>1
<1>14. ASSUME NEW piece \in Seq(Octet), NEW p \in Nat, IsPiece(piece, all, p) PROVE IsPiece(piece, whole, B + p)
  <2>1. IsPiece(piece, one, 0 + p)
    BY <1>6, <1>8, <1>14, PieceOfPiece
  <2> QED
    BY <1>13, <2>1
<1>15. ASSUME NEW j \in 1 .. C
       PROVE  /\ At(r, j) = At(r, j - 1) + Len(r.chunks[j]) + 5
              /\ <<"size", Len(r.chunks[j])>> \in Octet /\ r.chunks[j] \in Seq(Octet)
              /\ IsPiece(Line(<<"size", Len(r.chunks[j])>>), whole, At(r, j - 1))
              /\ IsPiece(r.chunks[j], whole, At(r, j - 1) + 3)
              /\ IsPiece(Blank, whole, At(r, j - 1) + 3 + Len(r.chunks[j]))
  <2> DEFINE o == r.chunks[j]
             a == Len(Upto(ss, j - 1))
  <2>1. j - 1 \in 0 .. C /\ j \in 0 .. C
    BY <1>1
  <2>2. o \in Seq(Octet) /\ ss[j] = Chunk(o)
    BY <1>1
  <2>3. a \in Nat /\ At(r, j - 1) = B + a /\ At(r, j) = B + Len(Upto(ss, j))
    BY <1>7, <2>1
  <2>4. /\ Upto(ss, j) = Upto(ss, j - 1) \o ss[j] /\ IsPiece(ss[j], all, a)
        /\ Upto(ss, j - 1) \in Seq(Octet)
    BY <1>6, <2>1
  <2> HIDE DEF o, a
  <2>5. /\ Chunk(o) \in Seq(Octet) /\ Len(Chunk(o)) = Len(o) + 5 /\ Len(o) \in Nat
        /\ <<"size", Len(o)>> \in Octet
        /\ IsPiece(Line(<<"size", Len(o)>>), Chunk(o), 0)
        /\ IsPiece(o, Chunk(o), 3) /\ IsPiece(Blank, Chunk(o), 3 + Len(o))
    BY <2>2, ChunkIs
  <2>6. Len(Upto(ss, j)) = a + Len(Chunk(o))
    <3>1. Upto(ss, j) = Upto(ss, j - 1) \o Chunk(o)
      BY <2>2, <2>4, Zenon
    <3>2. Upto(ss, j - 1) \in Seq(Octet) /\ Chunk(o) \in Seq(Octet)
      BY <2>4, <2>5
    <3> QED
      BY <3>1, <3>2, Together DEF a
  <2>7. At(r, j) = At(r, j - 1) + Len(o) + 5
    BY <1>2, <2>3, <2>5, <2>6
  <2>8. ASSUME NEW piece \in Seq(Octet), NEW p \in Nat, IsPiece(piece, Chunk(o), p)
        PROVE  IsPiece(piece, whole, B + a + p)
    <3>1. IsPiece(piece, all, a + p)
      BY <1>6, <2>2, <2>4, <2>5, <2>8, PieceOfPiece
    <3>2. a + p \in Nat /\ B + (a + p) = B + a + p
      BY <1>2, <2>3
    <3>3. IsPiece(piece, whole, B + (a + p))
      BY <1>14, <3>1, <3>2
    <3> QED
      BY <3>2, <3>3
  <2>9. IsPiece(Line(<<"size", Len(o)>>), whole, B + a + 0)
    BY <2>5, <2>8, LineIs
  <2>10. IsPiece(o, whole, B + a + 3)
    BY <2>2, <2>5, <2>8
  <2>11. IsPiece(Blank, whole, B + a + (3 + Len(o)))
    <3>1. 3 + Len(o) \in Nat
      BY <2>5
    <3> QED
      BY <2>5, <2>8, <3>1, BlankIs
  <2>12. B + a + 0 = At(r, j - 1) /\ B + a + (3 + Len(o)) = At(r, j - 1) + 3 + Len(o)
    BY <1>2, <2>3, <2>5
  <2>13. IsPiece(Line(<<"size", Len(o)>>), whole, At(r, j - 1)) /\ IsPiece(Blank, whole, At(r, j - 1) + 3 + Len(o))
    BY <2>9, <2>11, <2>12
  <2> QED
    BY <2>2, <2>3, <2>5, <2>7, <2>10, <2>13 DEF o
<1>16. At(r, C) = B + Len(all) /\ At(r, 0) = B
  <2>1. C \in 0 .. C /\ 0 \in 0 .. C
    BY <1>1
  <2>2. Len(Upto(ss, 0)) = 0 /\ Len(Upto(ss, C)) = Len(all)
    BY <1>6
  <2>3. At(r, C) = B + Len(Upto(ss, C)) /\ At(r, 0) = B + Len(Upto(ss, 0))
    BY <1>7, <2>1, Zenon
  <2> QED
    BY <1>2, <2>2, <2>3
<1>17. IsPiece(zero, whole, At(r, C))
  BY <1>4, <1>6, <1>8, <1>13, <1>16
<1>18. ASSUME NEW i \in 1 .. T PROVE IsPiece(Line(r.trailer[i]), whole, At(r, C) + 3 * i)
  <2>1. Len(all) + 3 + 3 * (i - 1) \in Nat /\ B + (Len(all) + 3 + 3 * (i - 1)) = At(r, C) + 3 * i
    BY <1>2, <1>5, <1>6, <1>16
  <2>2. IsPiece(Line(r.trailer[i]), two, Len(all) + 3 + 3 * (i - 1))
    <3>1. /\ two \in Seq(Octet) /\ Lines(r.trailer) \in Seq(Octet) /\ Line(r.trailer[i]) \in Seq(Octet)
          /\ IsPiece(Lines(r.trailer), two, Len(all) + 3)
          /\ IsPiece(Line(r.trailer[i]), Lines(r.trailer), 3 * (i - 1))
      BY <1>5, <1>9, Zenon
    <3>2. PICK p \in Nat, q \in Nat : p = Len(all) + 3 /\ q = 3 * (i - 1)
      BY <1>5, <1>6
    <3>3. /\ two \in Seq(Octet) /\ Lines(r.trailer) \in Seq(Octet) /\ Line(r.trailer[i]) \in Seq(Octet)
          /\ IsPiece(Lines(r.trailer), two, p) /\ IsPiece(Line(r.trailer[i]), Lines(r.trailer), q)
      BY <3>1, <3>2, Zenon
    <3>4. IsPiece(Line(r.trailer[i]), two, p + q)
      BY <3>3, PieceOfPiece
    <3> QED
      BY <3>2, <3>4
  <2> QED
    BY <1>5, <1>12, <2>1, <2>2
<1>19. IsPiece(Blank, whole, At(r, C) + 3 + 3 * T)
  <2>1. Len(all) + 3 + 3 * T \in Nat /\ B + (Len(all) + 3 + 3 * T) = At(r, C) + 3 + 3 * T
    BY <1>2, <1>5, <1>6, <1>16
  <2> QED
    BY <1>10, <1>11, <2>1, BlankIs
<1>20. Len(whole) = At(r, C) + 3 + 3 * T + 2
  BY <1>2, <1>3, <1>5, <1>6, <1>10, <1>16
<1>21. \A j \in 0 .. C : At(r, j) \in Nat
  BY <1>2, <1>7
<1> QED
  BY <1>4, <1>15, <1>16, <1>17, <1>18, <1>19, <1>20, <1>21 DEF C, T, B, whole, zero

-----------------------------------------------------------------------------
(* Where process() is in the response.                                     *)

whole == Stream(response)

\* What of the response is used, where data begins, and what is or will be reported of it.
used == Len(whole) - Len(sent) - Len(buffer)
pos == used + offered - Len(data)
here == used + read

Windows ==
    /\ response \in Responses
    /\ sent \in Seq(Octet) /\ buffer \in Seq(Octet) /\ data \in Seq(Octet)
    /\ IsPiece(buffer, whole, used) /\ IsPiece(sent, whole, used + Len(buffer))
    /\ offered \in 0 .. Len(buffer) /\ declined \in 0 .. Len(buffer)
    /\ Len(data) <= offered /\ IsPiece(data, whole, pos)
    /\ read \in Nat /\ chunk \in Nat /\ read <= offered - Len(data) /\ chunk <= offered

\* What is taken from data is reported, but for the last chunk.
Places ==
    /\ pc \in PCs
    /\ pc = "idle" => offered = 0 /\ read = 0 /\ chunk = 0
    /\ pc \in {"status", "header", "type", "body", "chunks"} => chunk = 0 /\ read = offered - Len(data)
    /\ pc = "trailer" => read + chunk = offered - Len(data)

\* The lines in the order they come.
All(r) == Top(r) \o r.trailer

\* The fields are those of the first n lines; one that a later line will replace may be an older one,
\* from an earlier reading of the trailer.
Told(n) ==
    /\ header = [f \in DOMAIN header |-> header[f]]
    /\ \A f \in DOMAIN header : \E i \in 1 .. Len(All(response)) : All(response)[i][1] = f
    /\ \A i \in 1 .. n :
          /\ All(response)[i][1] \in DOMAIN header
          /\ (\A k \in i + 1 .. Len(All(response)) : All(response)[k][1] # All(response)[i][1])
                => header[All(response)[i][1]] = All(response)[i][2]

\* No body yet.
Bodiless == ~chunked /\ remaining = -1 /\ body = <<>> /\ ~complete

AtStatus == /\ pc \in {"idle", "status", "return"}
            /\ statusCode = -1 /\ ~headerRead /\ Bodiless
            /\ here = 0 /\ Told(0)

InHeader == /\ pc \in {"idle", "header", "return"}
            /\ statusCode = 200 /\ ~headerRead /\ Bodiless
            /\ \E k \in 0 .. Len(Top(response)) : here = 3 + 3 * k /\ Told(k)

AfterHeader == statusCode = 200 /\ headerRead /\ Told(Len(Top(response)))

Undecided == /\ pc \in {"idle", "type", "return"}
             /\ AfterHeader /\ Bodiless
             /\ here = Begins(response)

ByLength == /\ pc \in {"idle", "type", "body", "return"}
            /\ AfterHeader /\ ~chunked
            /\ response.framing \in {"length", "none"}
            /\ remaining = (IF response.framing = "length" THEN Len(Body(response)) ELSE 0) - Len(body)
            /\ remaining \in Nat
            /\ here = Begins(response) + Len(body)
            /\ complete => remaining = 0 /\ pc \in {"idle", "return"}

InChunks == /\ pc \in {"idle", "type", "chunks", "return"}
            /\ AfterHeader /\ ~complete
            /\ response.framing = "chunked" /\ chunked /\ remaining = -1
            /\ \E j \in 0 .. Len(response.chunks) :
                  here = At(response, j) /\ body = Upto(response.chunks, j)

InTrailer == /\ pc = "trailer"
             /\ statusCode = 200 /\ ~headerRead /\ ~complete
             /\ response.framing = "chunked" /\ chunked /\ remaining = -1
             /\ here = At(response, Len(response.chunks)) /\ body = Body(response)
             /\ \E k \in 0 .. Len(response.trailer) :
                   chunk = 3 + 3 * k /\ Told(Len(Top(response)) + k)

AllRead == /\ pc \in {"idle", "return"}
           /\ statusCode = 200 /\ headerRead /\ complete
           /\ response.framing = "chunked" /\ chunked /\ remaining = -1
           /\ here = Len(whole) /\ body = Body(response)
           /\ Told(Len(All(response)))

Stuck == pc = "spinning" /\ ~complete

Stage == \/ AtStatus \/ InHeader \/ Undecided \/ ByLength \/ InChunks \/ InTrailer \/ AllRead \/ Stuck

\* The rest of the types.
Parts == /\ statusCode \in {-1, 200}
         /\ headerRead \in BOOLEAN /\ chunked \in BOOLEAN /\ complete \in BOOLEAN
         /\ remaining \in -1 .. SizeMax
         /\ DOMAIN header \subseteq Names \cup {"length", "coding"}
         /\ body \in Seq(Octet) /\ IsPiece(body, Body(response), 0)

MessageInv == Windows /\ Places /\ Stage /\ Parts

-----------------------------------------------------------------------------
(* What process() finds in data.                                           *)

LEMMA MinIs == ASSUME NEW T \in SUBSET Nat, NEW m \in T, \A k \in T : m <= k PROVE Min(T) = m
<1>1. \E x \in T : \A y \in T : x <= y
  OBVIOUS
<1>2. Min(T) \in T /\ \A y \in T : Min(T) <= y
  BY <1>1 DEF Min
<1>3. Min(T) \in Nat /\ m \in Nat /\ Min(T) <= m /\ m <= Min(T)
  BY <1>2
<1> QED
  BY <1>3

\* A line that is there is found as it was sent.
LEMMA LineRead ==
    ASSUME NEW w \in Seq(Octet), NEW d \in Seq(Octet), NEW p, NEW o \in Octet,
           IsPiece(d, w, p), IsPiece(Line(o), w, p), LineEnds(d) # {}
    PROVE  Len(d) \in Nat /\ Len(d) >= 3 /\ Min(LineEnds(d)) - 1 = 1 /\ d[1] = o
<1>1. /\ Len(Line(o)) = 3 /\ Line(o)[1] = o /\ Line(o)[2] = CR /\ Line(o)[3] = LF
      /\ CR # LF /\ Len(d) \in Nat /\ p \in Nat
  BY LineIs, BlankIs, LenProperties DEF IsPiece
<1>2. w[p + 1] = o /\ w[p + 2] = CR /\ w[p + 3] = LF
  BY <1>1 DEF IsPiece
<1>3. \A i \in 1 .. Len(d) : d[i] = w[p + i]
  BY DEF IsPiece
<1>4. LineEnds(d) \in SUBSET Nat /\ \A i \in LineEnds(d) : i + 1 \in 1 .. Len(d) /\ i \in 1 .. Len(d) /\ d[i + 1] = LF
  BY <1>1 DEF LineEnds
<1>5. 1 \notin LineEnds(d)
  <2> SUFFICES ASSUME 1 \in LineEnds(d) PROVE FALSE
    OBVIOUS
  <2>1. 1 + 1 \in 1 .. Len(d) /\ d[1 + 1] = LF
    BY <1>4
  <2>2. d[1 + 1] = w[p + 2]
    BY <1>3, <2>1
  <2> QED
    BY <1>1, <1>2, <2>1, <2>2
<1>6. Len(d) >= 3
  <2>1. PICK i \in LineEnds(d) : TRUE
    OBVIOUS
  <2> QED
    BY <1>1, <1>4, <1>5, <2>1
<1>7. 2 \in LineEnds(d)
  <2>1. 2 \in 1 .. Len(d) - 1 /\ 2 + 1 = 3 /\ 2 \in 1 .. Len(d) /\ 3 \in 1 .. Len(d)
    BY <1>1, <1>6
  <2>2. d[2] = CR /\ d[3] = LF
    BY <1>2, <1>3, <2>1
  <2> QED
    BY <2>1, <2>2 DEF LineEnds
<1>8. Min(LineEnds(d)) = 2
  <2>1. \A k \in LineEnds(d) : 2 <= k
    BY <1>4, <1>5
  <2> QED
    BY <1>4, <1>7, <2>1, MinIs
<1>9. d[1] = o
  BY <1>1, <1>2, <1>3, <1>6
<1> QED
  BY <1>1, <1>6, <1>8, <1>9

LEMMA BlankRead ==
    ASSUME NEW w \in Seq(Octet), NEW d \in Seq(Octet), NEW p,
           IsPiece(d, w, p), IsPiece(Blank, w, p), LineEnds(d) # {}
    PROVE  Len(d) \in Nat /\ Len(d) >= 2 /\ Min(LineEnds(d)) - 1 = 0
<1>1. Len(Blank) = 2 /\ Blank[1] = CR /\ Blank[2] = LF /\ Len(d) \in Nat /\ p \in Nat
  BY BlankIs, LenProperties DEF IsPiece
<1>2. w[p + 1] = CR /\ w[p + 2] = LF
  BY <1>1 DEF IsPiece
<1>3. \A i \in 1 .. Len(d) : d[i] = w[p + i]
  BY DEF IsPiece
<1>4. LineEnds(d) \in SUBSET Nat /\ \A i \in LineEnds(d) : i + 1 \in 1 .. Len(d) /\ i \in 1 .. Len(d)
  BY <1>1 DEF LineEnds
<1>5. Len(d) >= 2
  <2>1. PICK i \in LineEnds(d) : TRUE
    OBVIOUS
  <2> QED
    BY <1>1, <1>4, <2>1
<1>6. 1 \in LineEnds(d)
  <2>1. 1 \in 1 .. Len(d) - 1 /\ 1 + 1 = 2 /\ 1 \in 1 .. Len(d) /\ 2 \in 1 .. Len(d)
    BY <1>1, <1>5
  <2>2. d[1] = CR /\ d[2] = LF
    BY <1>2, <1>3, <2>1
  <2> QED
    BY <2>1, <2>2 DEF LineEnds
<1>7. Min(LineEnds(d)) = 1
  <2>1. \A k \in LineEnds(d) : 1 <= k
    BY <1>1 DEF LineEnds
  <2> QED
    BY <1>4, <1>6, <2>1, MinIs
<1> QED
  BY <1>1, <1>5, <1>7

\* What is left of a piece after its first n.
LEMMA Left ==
    ASSUME NEW w \in Seq(Octet), NEW d \in Seq(Octet), NEW p \in Nat, NEW n \in Nat, n <= Len(d), IsPiece(d, w, p)
    PROVE  /\ SubSeq(d, n + 1, Len(d)) \in Seq(Octet) /\ Len(SubSeq(d, n + 1, Len(d))) = Len(d) - n
           /\ IsPiece(SubSeq(d, n + 1, Len(d)), w, p + n)
<1> DEFINE kept == SubSeq(d, n + 1, Len(d))
<1>1. Len(d) \in Nat
  BY LenProperties
<1>2. kept \in Seq(Octet) /\ Len(kept) = Len(d) - n /\ IsPiece(kept, d, n)
  BY <1>1, Cut
<1> HIDE DEF kept
<1>3. IsPiece(kept, w, p + n)
  BY <1>2, PieceOfPiece
<1> QED
  BY <1>2, <1>3 DEF kept

\* The first n of a piece.
LEMMA Foremost ==
    ASSUME NEW w \in Seq(Octet), NEW d \in Seq(Octet), NEW p \in Nat, NEW n \in Nat, n <= Len(d), IsPiece(d, w, p)
    PROVE  /\ SubSeq(d, 1, n) \in Seq(Octet) /\ Len(SubSeq(d, 1, n)) = n
           /\ IsPiece(SubSeq(d, 1, n), w, p)
<1> DEFINE front == SubSeq(d, 1, n)
<1>1. Len(d) \in Nat /\ 0 + 1 = 1 /\ n - 0 = n /\ 0 \in Nat /\ 0 <= n
  BY LenProperties
<1>2. SubSeq(d, 0 + 1, n) \in Seq(Octet) /\ Len(SubSeq(d, 0 + 1, n)) = n - 0 /\ IsPiece(SubSeq(d, 0 + 1, n), d, 0)
  BY <1>1, Cut
<1>3. front \in Seq(Octet) /\ Len(front) = n /\ IsPiece(front, d, 0)
  BY <1>1, <1>2
<1> HIDE DEF front
<1>4. IsPiece(front, w, p + 0) /\ p + 0 = p
  BY <1>3, PieceOfPiece
<1>5. front \in Seq(Octet) /\ Len(front) = n /\ IsPiece(front, w, p)
  BY <1>3, <1>4
<1> QED
  BY <1>5 DEF front

-----------------------------------------------------------------------------
(* The fields.                                                             *)

LEMMA AllIs ==
    ASSUME NEW r \in Response
    PROVE  /\ Len(Top(r)) \in Nat /\ Len(r.trailer) \in Nat
           /\ All(r) \in Seq(Octet) /\ Len(All(r)) = Len(Top(r)) + Len(r.trailer)
           /\ \A i \in 1 .. Len(Top(r)) : All(r)[i] = Top(r)[i]
           /\ \A i \in 1 .. Len(r.trailer) : All(r)[Len(Top(r)) + i] = r.trailer[i]
<1>1. Top(r) \in Seq(Octet) /\ r.trailer \in Seq(Octet)
  BY TopIs, ResponseIs
<1>2. Len(Top(r)) \in Nat /\ Len(r.trailer) \in Nat
  BY <1>1, LenProperties
<1>3. /\ All(r) \in Seq(Octet) /\ Len(All(r)) = Len(Top(r)) + Len(r.trailer)
      /\ IsPiece(Top(r), All(r), 0) /\ IsPiece(r.trailer, All(r), Len(Top(r)))
  BY <1>1, Together DEF All
<1>4. \A i \in 1 .. Len(Top(r)) : Top(r)[i] = All(r)[i]
  BY <1>3, FirstPiece
<1>5. \A i \in 1 .. Len(r.trailer) : r.trailer[i] = All(r)[Len(Top(r)) + i]
  BY <1>3 DEF IsPiece
<1> QED
  BY <1>2, <1>3, <1>4, <1>5

\* A line more.
LEMMA Tells ==
    ASSUME NEW n \in Nat, n + 1 <= Len(All(response)), Len(All(response)) \in Nat,
           Told(n), UNCHANGED response, HasLine, TheLine = All(response)[n + 1], Field
    PROVE  Told(n + 1)'
<1> DEFINE all == All(response)
           N == Len(All(response))
<1>1. PICK m \in Nat : m = n + 1
  OBVIOUS
<1>2. header' = [f \in DOMAIN header \cup {all[m][1]} |-> IF f = all[m][1] THEN all[m][2] ELSE header[f]]
  BY <1>1 DEF Field
<1>3. m \in 1 .. N
  BY <1>1
<1>4. all' = all /\ N' = N
  OBVIOUS
<1>5. /\ \A f \in DOMAIN header : \E i \in 1 .. N : all[i][1] = f
      /\ \A i \in 1 .. n :
            /\ all[i][1] \in DOMAIN header
            /\ (\A k \in i + 1 .. N : all[k][1] # all[i][1]) => header[all[i][1]] = all[i][2]
  BY DEF Told
<1> HIDE DEF all, N
<1>6. DOMAIN header' = DOMAIN header \cup {all[m][1]} /\ header' = [f \in DOMAIN header' |-> header'[f]]
  BY <1>2
<1>7. \A f \in DOMAIN header' : \E i \in 1 .. N : all[i][1] = f
  BY <1>3, <1>5, <1>6
<1>8. ASSUME NEW i \in 1 .. m
      PROVE  /\ all[i][1] \in DOMAIN header'
             /\ (\A k \in i + 1 .. N : all[k][1] # all[i][1]) => header'[all[i][1]] = all[i][2]
  <2>1. CASE i = m
    BY <1>2, <1>6, <2>1
  <2>2. CASE i # m
    <3>1. i \in 1 .. n /\ m \in i + 1 .. N
      BY <1>1, <1>3, <2>2
    <3>2. ASSUME \A k \in i + 1 .. N : all[k][1] # all[i][1] PROVE header'[all[i][1]] = all[i][2]
      <4>1. all[m][1] # all[i][1]
        BY <3>1, <3>2
      <4>2. header[all[i][1]] = all[i][2] /\ all[i][1] \in DOMAIN header
        BY <1>5, <3>1, <3>2
      <4> QED
        BY <1>2, <4>1, <4>2
    <3> QED
      BY <1>5, <1>6, <3>1, <3>2
  <2> QED
    BY <2>1, <2>2
<1>9. Told(m)'
  BY <1>4, <1>6, <1>7, <1>8 DEF Told, all, N
<1> QED
  BY <1>1, <1>9

LEMMA Retold ==
    ASSUME NEW n \in Nat, NEW m \in Nat, m <= n, Told(n)
    PROVE  Told(m)
<1>1. \A i \in 1 .. m : i \in 1 .. n
  OBVIOUS
<1> QED
  BY <1>1 DEF Told

\* Which line has which name: f are fields, the line m is that of the framing, if there is one, and t
\* are of the trailer.
Named(r, f, m, t) ==
    /\ f \in Nat /\ m \in Nat /\ t \in Nat /\ Len(All(r)) = m + t
    /\ m = f \/ m = f + 1
    /\ \A i \in 1 .. f : All(r)[i] = r.fields[i] /\ All(r)[i][1] \in Names
    /\ \A i \in 1 .. t : All(r)[m + i] = r.trailer[i] /\ All(r)[m + i][1] \in Names

LEMMA NamesAre ==
    ASSUME NEW r \in Response
    PROVE  /\ Named(r, Len(r.fields), Len(Top(r)), Len(r.trailer))
           /\ r.framing = "none" <=> Len(Top(r)) = Len(r.fields)
<1> DEFINE F == Len(r.fields)
           M == Len(Top(r))
           T == Len(r.trailer)
           framing == r.framing
<1>1. r.fields \in Seq(Names \X Int) /\ r.trailer \in Seq(Names \X Int)
  BY ResponseIs
<1>2. /\ \A i \in 1 .. F : r.fields[i] \in Names \X Int
      /\ \A i \in 1 .. T : r.trailer[i] \in Names \X Int
  BY <1>1, ElementOfSeq
<1>3. /\ \A i \in 1 .. M : All(r)[i] = Top(r)[i]
      /\ \A i \in 1 .. T : All(r)[M + i] = r.trailer[i]
      /\ \A i \in 1 .. F : Top(r)[i] = r.fields[i]
  BY AllIs, TopIs
<1>4. /\ F \in Nat /\ M \in Nat /\ T \in Nat /\ Len(All(r)) = M + T
      /\ framing = "none" => M = F
      /\ framing # "none" => M = F + 1
  BY <1>1, LenProperties, AllIs, TopIs, Zenon
<1> HIDE DEF F, M, T, framing
<1>5. (framing = "none" <=> M = F) /\ (M = F \/ M = F + 1)
  BY <1>4
<1>6. ASSUME NEW i \in 1 .. F PROVE All(r)[i] = r.fields[i] /\ All(r)[i][1] \in Names
  <2>1. i \in 1 .. M
    BY <1>4, <1>5
  <2>2. All(r)[i] = r.fields[i]
    BY <1>3, <2>1, Zenon
  <2>3. r.fields[i] \in Names \X Int
    BY <1>2
  <2> QED
    BY <2>2, <2>3
<1>7. ASSUME NEW i \in 1 .. T PROVE All(r)[M + i] = r.trailer[i] /\ All(r)[M + i][1] \in Names
  <2>1. All(r)[M + i] = r.trailer[i] /\ r.trailer[i] \in Names \X Int
    BY <1>2, <1>3, Zenon
  <2> QED
    BY <2>1
<1>8. Named(r, F, M, T)
  BY <1>4, <1>5, <1>6, <1>7 DEF Named
<1> QED
  BY <1>5, <1>8 DEF F, M, T, framing

\* The line of the framing.
LEMMA FramingLine ==
    ASSUME NEW r \in Response
    PROVE  /\ r.framing = "length" => All(r)[Len(Top(r))] = <<"length", Len(Body(r))>>
           /\ r.framing = "chunked" => All(r)[Len(Top(r))] = <<"coding", 1>>
           /\ r.framing = "othercoding" => All(r)[Len(Top(r))] = <<"coding", 0>>
           /\ r.framing \in {"length", "chunked", "othercoding", "none"}
<1> DEFINE F == Len(r.fields)
           M == Len(Top(r))
           framing == r.framing
<1>1. framing \in {"length", "chunked", "othercoding", "none"}
  BY ResponseIs
<1>2. \A i \in 1 .. M : All(r)[i] = Top(r)[i]
  BY AllIs, Zenon
<1>a. F \in Nat /\ M \in Nat
  BY AllIs, TopIs, Zenon
<1>b. framing # "none" => M = F + 1
  BY TopIs, Zenon
<1>3. /\ framing = "length" => Top(r)[F + 1] = <<"length", Len(Body(r))>>
      /\ framing = "chunked" => Top(r)[F + 1] = <<"coding", 1>>
      /\ framing = "othercoding" => Top(r)[F + 1] = <<"coding", 0>>
  BY TopIs, Zenon
<1> HIDE DEF F, M, framing
<1>4. ASSUME framing # "none" PROVE All(r)[M] = Top(r)[F + 1]
  <2>1. F \in Nat /\ M \in Nat /\ M = F + 1
    BY <1>4, <1>a, <1>b
  <2>2. M \in 1 .. M
    BY <2>1
  <2> QED
    BY <1>2, <2>1, <2>2, Zenon
<1>5. /\ framing = "length" => All(r)[M] = <<"length", Len(Body(r))>>
      /\ framing = "chunked" => All(r)[M] = <<"coding", 1>>
      /\ framing = "othercoding" => All(r)[M] = <<"coding", 0>>
  <2>1. "length" # "none" /\ "chunked" # "none" /\ "othercoding" # "none"
    OBVIOUS
  <2> QED
    BY <1>3, <1>4, <2>1, Zenon
<1> QED
  BY <1>1, <1>5 DEF M, framing

\* A line that is none of the fields and none of the trailer is that of the framing.
LEMMA NameIs ==
    ASSUME NEW r, NEW f, NEW m, NEW t, Named(r, f, m, t), NEW i \in 1 .. Len(All(r))
    PROVE  All(r)[i][1] \in Names \/ (i = m /\ m # f)
<1>1. /\ f \in Nat /\ m \in Nat /\ t \in Nat /\ Len(All(r)) = m + t /\ (m = f \/ m = f + 1)
      /\ \A k \in 1 .. f : All(r)[k][1] \in Names
      /\ \A k \in 1 .. t : All(r)[m + k][1] \in Names
  BY DEF Named
<1>2. i \in Nat /\ 1 <= i /\ i <= m + t
  BY <1>1
<1>3. CASE i <= f
  <2>1. i \in 1 .. f
    BY <1>1, <1>2, <1>3
  <2> QED
    BY <1>1, <2>1
<1>4. CASE i > m
  <2>1. i - m \in 1 .. t /\ m + (i - m) = i
    BY <1>1, <1>2, <1>4
  <2>2. All(r)[m + (i - m)][1] \in Names
    BY <1>1, <2>1
  <2> QED
    BY <2>1, <2>2
<1>5. CASE i > f /\ i <= m
  BY <1>1, <1>2, <1>5
<1> QED
  BY <1>1, <1>2, <1>3, <1>4, <1>5

LEMMA FramingKnown ==
    ASSUME response \in Responses, Told(Len(Top(response)))
    PROVE  /\ "coding" \in DOMAIN header <=> response.framing \in {"chunked", "othercoding"}
           /\ response.framing = "chunked" => header["coding"] = 1
           /\ response.framing = "othercoding" => header["coding"] = 0
           /\ "length" \in DOMAIN header <=> response.framing = "length"
           /\ response.framing = "length" => header["length"] = Len(Body(response))
<1> DEFINE F == Len(response.fields)
           M == Len(Top(response))
           T == Len(response.trailer)
           all == All(response)
           framing == response.framing
<1>1. response \in Response /\ "length" \notin Names /\ "coding" \notin Names
  BY MessageAssumption
<1>2. /\ Named(response, F, M, T)
      /\ framing = "none" <=> M = F
      /\ framing \in {"length", "chunked", "othercoding", "none"}
  BY <1>1, NamesAre, FramingLine, Zenon
<1>3. /\ \A f \in DOMAIN header : \E i \in 1 .. Len(all) : all[i][1] = f
      /\ \A i \in 1 .. M :
            /\ all[i][1] \in DOMAIN header
            /\ (\A k \in i + 1 .. Len(all) : all[k][1] # all[i][1]) => header[all[i][1]] = all[i][2]
  BY DEF Told
<1>4. /\ framing = "length" => all[M] = <<"length", Len(Body(response))>>
      /\ framing = "chunked" => all[M] = <<"coding", 1>>
      /\ framing = "othercoding" => all[M] = <<"coding", 0>>
  BY <1>1, FramingLine, Zenon
<1>5. M \in Nat /\ F \in Nat /\ T \in Nat /\ Len(all) = M + T /\ (M = F \/ M = F + 1)
  BY <1>2 DEF Named
<1>6. \A i \in 1 .. Len(all) : all[i][1] \in Names \/ (i = M /\ framing # "none")
  BY <1>2, NameIs
<1> HIDE DEF F, M, T, all, framing
<1>7. /\ framing = "length" => all[M][1] = "length" /\ all[M][2] = Len(Body(response))
      /\ framing = "chunked" => all[M][1] = "coding" /\ all[M][2] = 1
      /\ framing = "othercoding" => all[M][1] = "coding" /\ all[M][2] = 0
  BY <1>4
<1>8. ASSUME NEW f \in DOMAIN header, f \notin Names PROVE framing # "none" /\ all[M][1] = f
  <2>1. PICK i \in 1 .. Len(all) : all[i][1] = f
    BY <1>3
  <2> QED
    BY <1>6, <1>8, <2>1, Zenon
<1>9. ASSUME framing # "none" PROVE all[M][1] \in DOMAIN header /\ header[all[M][1]] = all[M][2]
  <2>1. M \in 1 .. M
    BY <1>2, <1>5, <1>9
  <2>2. all[M][1] \notin Names
    BY <1>1, <1>2, <1>7, <1>9, Zenon
  <2>3. ASSUME NEW k \in M + 1 .. Len(all) PROVE all[k][1] # all[M][1]
    <3>1. k \in 1 .. Len(all) /\ k # M
      BY <1>5
    <3>2. all[k][1] \in Names
      BY <1>6, <3>1, Zenon
    <3> QED
      BY <2>2, <3>2, Zenon
  <2> QED
    BY <1>3, <2>1, <2>3, Zenon
<1>10. "length" \in DOMAIN header => framing # "none" /\ all[M][1] = "length"
  BY <1>1, <1>8, Zenon
<1>11. "coding" \in DOMAIN header => framing # "none" /\ all[M][1] = "coding"
  BY <1>1, <1>8, Zenon
<1>12. framing = "none" \/ framing = "length" \/ framing = "chunked" \/ framing = "othercoding"
  BY <1>2
<1>13. CASE framing = "none"
  <2>1. "length" \notin DOMAIN header /\ "coding" \notin DOMAIN header
    BY <1>10, <1>11, <1>13, Zenon
  <2> QED
    BY <1>13, <2>1 DEF framing
<1>14. CASE framing = "length"
  <2>1. all[M][1] = "length" /\ all[M][2] = Len(Body(response)) /\ framing # "none" /\ "length" # "coding"
    BY <1>7, <1>14
  <2>2. "length" \in DOMAIN header /\ header["length"] = Len(Body(response)) /\ "coding" \notin DOMAIN header
    BY <1>9, <1>11, <2>1, Zenon
  <2> QED
    BY <1>14, <2>2 DEF framing
<1>15. CASE framing = "chunked"
  <2>1. all[M][1] = "coding" /\ all[M][2] = 1 /\ framing # "none" /\ "length" # "coding"
    BY <1>7, <1>15
  <2>2. "coding" \in DOMAIN header /\ header["coding"] = 1 /\ "length" \notin DOMAIN header
    BY <1>9, <1>10, <2>1, Zenon
  <2> QED
    BY <1>15, <2>2 DEF framing
<1>16. CASE framing = "othercoding"
  <2>1. all[M][1] = "coding" /\ all[M][2] = 0 /\ framing # "none" /\ "length" # "coding"
    BY <1>7, <1>16
  <2>2. "coding" \in DOMAIN header /\ header["coding"] = 0 /\ "length" \notin DOMAIN header
    BY <1>9, <1>10, <2>1, Zenon
  <2> QED
    BY <1>16, <2>2 DEF framing
<1> QED
  BY <1>12, <1>13, <1>14, <1>15, <1>16, Zenon

LEMMA HeaderIs ==
    ASSUME response \in Responses, Told(Len(All(response)))
    PROVE  header = Header(response)
<1> DEFINE F == Len(response.fields)
           M == Len(Top(response))
           T == Len(response.trailer)
           all == All(response)
           framing == response.framing
           line == response.fields \o response.trailer
           names == {line[i][1] : i \in DOMAIN line}
           of(f) == {i \in DOMAIN line : line[i][1] = f}
<1>1. response \in Response /\ "length" \notin Names /\ "coding" \notin Names
  BY MessageAssumption
<1>2. /\ F \in Nat /\ M \in Nat /\ T \in Nat /\ Len(all) = M + T
      /\ \A i \in 1 .. F : all[i] = response.fields[i] /\ all[i][1] \in Names
      /\ \A i \in 1 .. T : all[M + i] = response.trailer[i] /\ all[M + i][1] \in Names
      /\ M = F \/ M = F + 1
      /\ framing = "none" <=> M = F
      /\ framing \in {"length", "chunked", "othercoding", "none"}
  <2>1. Named(response, F, M, T) /\ (framing = "none" <=> M = F)
    BY <1>1, NamesAre, Zenon
  <2>2. framing \in {"length", "chunked", "othercoding", "none"}
    BY <1>1, FramingLine, Zenon
  <2> QED
    BY <2>1, <2>2, Zenon DEF Named
<1>a. /\ framing = "length" => all[M] = <<"length", Len(Body(response))>>
      /\ framing = "chunked" => all[M] = <<"coding", 1>>
      /\ framing = "othercoding" => all[M] = <<"coding", 0>>
  BY <1>1, FramingLine, Zenon
<1>3. /\ line \in Seq(Octet) /\ Len(line) = F + T
      /\ \A i \in 1 .. F : line[i] = response.fields[i]
      /\ \A i \in 1 .. T : line[F + i] = response.trailer[i]
  <2>1. response.fields \in Seq(Octet) /\ response.trailer \in Seq(Octet)
    BY <1>1, ResponseIs
  <2>2. /\ line \in Seq(Octet) /\ Len(line) = F + T
        /\ IsPiece(response.fields, line, 0) /\ IsPiece(response.trailer, line, F)
    BY <2>1, Together
  <2>3. \A i \in 1 .. F : response.fields[i] = line[i]
    BY <2>2, FirstPiece
  <2>4. \A i \in 1 .. T : response.trailer[i] = line[F + i]
    BY <2>2 DEF IsPiece
  <2> QED
    BY <2>2, <2>3, <2>4
<1>4. /\ header = [f \in DOMAIN header |-> header[f]]
      /\ \A f \in DOMAIN header : \E i \in 1 .. Len(all) : all[i][1] = f
      /\ \A i \in 1 .. Len(all) :
            /\ all[i][1] \in DOMAIN header
            /\ (\A k \in i + 1 .. Len(all) : all[k][1] # all[i][1]) => header[all[i][1]] = all[i][2]
  BY DEF Told
<1>5. /\ "coding" \in DOMAIN header <=> framing \in {"chunked", "othercoding"}
      /\ framing = "chunked" => header["coding"] = 1
      /\ framing = "othercoding" => header["coding"] = 0
      /\ "length" \in DOMAIN header <=> framing = "length"
      /\ framing = "length" => header["length"] = Len(Body(response))
  <2>1. Told(M)
    <3>1. M <= M + T
      BY <1>2
    <3> QED
      BY <1>2, <3>1, Retold
  <2> QED
    BY <2>1, FramingKnown
<1>6. /\ DOMAIN line = 1 .. F + T
      /\ \A i \in 1 .. F : line[i] = all[i] /\ line[i][1] \in Names
      /\ \A i \in 1 .. T : line[F + i] = all[M + i] /\ line[F + i][1] \in Names
  <2>1. \A i \in 1 .. F : line[i] = all[i] /\ line[i][1] \in Names
    <3> TAKE i \in 1 .. F
    <3>1. all[i] = response.fields[i] /\ all[i][1] \in Names /\ line[i] = response.fields[i]
      BY <1>2, <1>3, Zenon
    <3> QED
      BY <3>1, Zenon
  <2>2. \A i \in 1 .. T : line[F + i] = all[M + i] /\ line[F + i][1] \in Names
    <3> TAKE i \in 1 .. T
    <3>1. all[M + i] = response.trailer[i] /\ all[M + i][1] \in Names /\ line[F + i] = response.trailer[i]
      BY <1>2, <1>3, Zenon
    <3> QED
      BY <3>1, Zenon
  <2> HIDE DEF F, M, T, all, framing, line
  <2> QED
    BY <1>2, <1>3, <2>1, <2>2
<1> HIDE DEF F, M, T, all, framing, line
<1>7. \A f \in names : f \in Names
  <2> TAKE f \in names
  <2>1. PICK i \in 1 .. F + T : line[i][1] = f
    BY <1>6
  <2>2. CASE i <= F
    BY <1>2, <1>6, <2>1, <2>2
  <2>3. CASE i > F
    <3>1. i - F \in 1 .. T /\ F + (i - F) = i
      BY <1>2, <2>3
    <3> QED
      BY <1>6, <2>1, <3>1
  <2> QED
    BY <1>2, <2>2, <2>3
<1>8. ASSUME NEW f \in names
      PROVE  f \in DOMAIN header /\ header[f] = line[Max(of(f))][2]
  <2> DEFINE m == Max(of(f))
  <2>1. m \in 1 .. F + T /\ line[m][1] = f /\ \A k \in 1 .. F + T : line[k][1] = f => k <= m
    <3>1. of(f) \in SUBSET (1 .. F + T) /\ of(f) # {} /\ F + T \in Nat
      BY <1>2, <1>6
    <3>2. Max(of(f)) \in of(f) /\ \A k \in of(f) : k <= Max(of(f))
      <4>1. of(f) \in SUBSET (0 .. F + T)
        BY <3>1
      <4> HIDE DEF of
      <4> QED
        BY <3>1, <4>1, MaxIs
    <3> QED
      BY <1>6, <3>2
  <2> HIDE DEF m
  <2>2. PICK g \in 1 .. M + T : all[g] = line[m] /\ g = IF m <= F THEN m ELSE M + (m - F)
    <3>1. CASE m <= F
      <4>1. m \in 1 .. F /\ m \in 1 .. M + T
        BY <1>2, <2>1, <3>1
      <4> QED
        BY <1>6, <3>1, <4>1
    <3>2. CASE m > F
      <4>1. m - F \in 1 .. T /\ F + (m - F) = m /\ M + (m - F) \in 1 .. M + T /\ ~(m <= F)
        BY <1>2, <2>1, <3>2
      <4> QED
        BY <1>6, <4>1
    <3> QED
      BY <1>2, <2>1, <3>1, <3>2
  <2>3. ASSUME NEW k \in g + 1 .. Len(all), all[k][1] = f PROVE FALSE
    <3>1. k \in 1 .. M + T /\ k > g
      BY <1>2
    <3>2. CASE k <= F
      <4>1. k \in 1 .. F /\ k \in 1 .. F + T /\ k > m
        BY <1>2, <2>1, <2>2, <3>1, <3>2
      <4> QED
        BY <1>6, <2>1, <2>3, <4>1
    <3>3. CASE k > M
      <4>1. k - M \in 1 .. T /\ M + (k - M) = k /\ F + (k - M) \in 1 .. F + T /\ F + (k - M) > m
        BY <1>2, <2>1, <2>2, <3>1, <3>3
      <4>2. line[F + (k - M)][1] = f
        BY <1>6, <2>3, <4>1
      <4> QED
        BY <2>1, <4>1, <4>2
    <3>4. CASE k > F /\ k <= M
      <4>1. k = M /\ framing # "none"
        BY <1>2, <3>1, <3>4
      <4>2. all[k][1] \in {"length", "coding"}
        BY <1>2, <1>a, <4>1
      <4>3. f \notin Names
        BY <1>1, <2>3, <4>2
      <4> QED
        BY <1>7, <4>3
    <3> QED
      BY <1>2, <3>1, <3>2, <3>3, <3>4
  <2>4. all[g][1] = f /\ g \in 1 .. Len(all)
    BY <1>2, <2>1, <2>2
  <2>5. f \in DOMAIN header /\ header[f] = all[g][2]
    BY <1>4, <2>3, <2>4
  <2> QED
    BY <2>2, <2>5 DEF m
<1>9. ASSUME NEW f \in DOMAIN header, f \notin {"length", "coding"} PROVE f \in names
  <2>1. PICK i \in 1 .. M + T : all[i][1] = f
    BY <1>2, <1>4
  <2>2. CASE i <= F
    <3>1. i \in 1 .. F + T /\ line[i][1] = f
      BY <1>2, <1>6, <2>1, <2>2
    <3> QED
      BY <1>6, <3>1
  <2>3. CASE i > M
    <3>1. i - M \in 1 .. T /\ M + (i - M) = i /\ F + (i - M) \in 1 .. F + T
      BY <1>2, <2>3
    <3>2. line[F + (i - M)][1] = f
      BY <1>6, <2>1, <3>1
    <3> QED
      BY <1>6, <3>1, <3>2
  <2>4. CASE i > F /\ i <= M
    <3>1. i = M /\ framing # "none"
      BY <1>2, <2>1, <2>4
    <3>2. all[i][1] \in {"length", "coding"}
      BY <1>2, <1>a, <3>1
    <3> QED
      BY <1>9, <2>1, <3>2
  <2> QED
    BY <1>2, <2>1, <2>2, <2>3, <2>4
<1> HIDE DEF names, of
<1> DEFINE given == names \cup (IF framing = "length" THEN {"length"} ELSE {})
                          \cup (IF Coding(response) THEN {"coding"} ELSE {})
           says(f) == CASE f = "length" -> Len(Body(response))
                        [] f = "coding" -> IF framing = "chunked" THEN 1 ELSE 0
                        [] OTHER -> line[Max(of(f))][2]
<1>10. Header(response) = [f \in given |-> says(f)]
  BY DEF Header, names, of, line, framing
<1>11. Coding(response) <=> framing \in {"chunked", "othercoding"}
  BY DEF Coding, framing
<1>12. DOMAIN header = given
  BY <1>5, <1>8, <1>9, <1>11
<1>13. ASSUME NEW f \in given PROVE header[f] = says(f)
  <2>1. CASE f \in names
    <3>1. f # "length" /\ f # "coding"
      BY <1>1, <1>7, <2>1
    <3> QED
      BY <1>8, <2>1, <3>1
  <2>2. CASE f = "length"
    BY <1>5, <1>12, <2>2
  <2>3. CASE f = "coding"
    BY <1>5, <1>12, <2>3
  <2> QED
    BY <2>1, <2>2, <2>3
<1> HIDE DEF given, says
<1> QED
  BY <1>4, <1>10, <1>12, <1>13

-----------------------------------------------------------------------------
(* The session's part.                                                     *)

\* What is always so of the octets.
LEMMA Octets ==
    ASSUME Windows
    PROVE  /\ response \in Response /\ Proper(response) /\ Len(Body(response)) \in Nat
           /\ Len(Body(response)) <= SizeMax /\ SizeMax \in Nat
           /\ whole \in Seq(Octet) /\ Len(whole) \in Nat
           /\ Len(sent) \in Nat /\ Len(buffer) \in Nat /\ Len(data) \in Nat
           /\ used \in Nat /\ pos \in Nat /\ here \in Nat /\ here <= pos
           /\ used + Len(buffer) + Len(sent) = Len(whole)
           /\ pos + Len(data) <= used + Len(buffer)
           /\ Len(Top(response)) \in Nat /\ Len(response.trailer) \in Nat /\ Len(response.chunks) \in Nat
<1>1. /\ response \in Response /\ Proper(response) /\ Len(Body(response)) <= SizeMax /\ SizeMax \in Nat
  BY MessageAssumption DEF Windows
<1>2. whole \in Seq(Octet) /\ Len(whole) \in Nat
  BY <1>1, RestIs, StreamIs, LenProperties DEF whole
<1>3. Len(sent) \in Nat /\ Len(buffer) \in Nat /\ Len(data) \in Nat
  BY LenProperties DEF Windows
<1>4. used \in Nat /\ pos \in Nat
  BY DEF Windows, IsPiece
<1>5. offered \in Nat /\ offered <= Len(buffer) /\ Len(data) <= offered /\ read \in Nat /\ read <= offered - Len(data)
  BY <1>3 DEF Windows
<1>6. used + Len(buffer) + Len(sent) = Len(whole)
  BY <1>2, <1>3 DEF used
<1>7. here \in Nat /\ here <= pos /\ pos + Len(data) <= used + Len(buffer)
  BY <1>3, <1>4, <1>5 DEF here, pos
<1>8. Len(Top(response)) \in Nat /\ Len(response.trailer) \in Nat /\ Len(response.chunks) \in Nat
  BY <1>1, AllIs, ChunksAre
<1>9. Len(Body(response)) \in Nat
  BY <1>1, ResponseIs, LenProperties
<1> QED
  BY <1>1, <1>2, <1>3, <1>4, <1>6, <1>7, <1>8, <1>9

\* process() goes on to what is left of data, of which n are taken.
LEMMA Takes ==
    ASSUME Windows, UNCHANGED <<stream, offer>>, NEW n \in Nat, n <= Len(data),
           data' \in Seq(Octet), Len(data') = Len(data) - n, IsPiece(data', whole, pos + n),
           read' \in Nat, chunk' \in Nat, read' <= offered - Len(data'), chunk' <= offered
    PROVE  Windows' /\ here' = used + read' /\ pos' = pos + n /\ whole' = whole
<1>1. /\ UNCHANGED <<response, sent, buffer, declined, offered>>
  BY DEF stream, offer
<1>2. used' = used /\ whole' = whole
  BY <1>1 DEF used, whole
<1>3. here' = used + read'
  BY <1>2 DEF here
<1>4. Len(data) \in Nat /\ used \in Nat /\ offered \in Nat /\ offered <= Len(buffer)
  BY Octets DEF Windows
<1>5. pos' = pos + n
  BY <1>1, <1>2, <1>4 DEF pos
<1>6. IsPiece(data', whole', pos')
  BY <1>2, <1>5
<1>7. IsPiece(buffer', whole', used') /\ IsPiece(sent', whole', (used + Len(buffer))')
  BY <1>1, <1>2 DEF Windows
<1>8. Len(data') <= offered'
  BY <1>1, <1>4 DEF Windows
<1> QED
  BY <1>1, <1>2, <1>3, <1>5, <1>6, <1>7, <1>8 DEF Windows

\* process() returns, or is yet to be called, with the message as it was.
LEMMA StageSame ==
    ASSUME Stage, Parts, pc \notin {"trailer", "spinning"}, UNCHANGED <<response, message>>, here' = here,
           pc' \in {"idle", "return"}
    PROVE  Stage' /\ Parts'
<1>1. UNCHANGED <<statusCode, header, headerRead, chunked, remaining, body, complete, response>>
  BY DEF message
<1>2. whole' = whole /\ Bodiless' = Bodiless /\ \A n : Told(n)' = Told(n)
  BY <1>1 DEF whole, Bodiless, Told
<1>3. AfterHeader' = AfterHeader
  BY <1>1, <1>2 DEF AfterHeader, Told
<1>4. AtStatus \/ InHeader \/ Undecided \/ ByLength \/ InChunks \/ AllRead
  BY DEF Stage, InTrailer, Stuck
<1>5. AtStatus => AtStatus'
  BY <1>1, <1>2 DEF AtStatus, Told
<1>6. InHeader => InHeader'
  BY <1>1, <1>2 DEF InHeader, Told
<1>7. Undecided => Undecided'
  BY <1>1, <1>2, <1>3 DEF Undecided
<1>8. ByLength => ByLength'
  BY <1>1, <1>2, <1>3 DEF ByLength
<1>9. InChunks => InChunks'
  BY <1>1, <1>2, <1>3 DEF InChunks
<1>10. AllRead => AllRead'
  BY <1>1, <1>2 DEF AllRead, Told
<1>11. Parts'
  BY <1>1 DEF Parts
<1> QED
  BY <1>4, <1>5, <1>6, <1>7, <1>8, <1>9, <1>10, <1>11 DEF Stage

LEMMA ArriveKeeps == ASSUME MessageInv, NEW n \in 1 .. Len(sent), Arrive(n) PROVE MessageInv'
<1>1. Windows /\ Places /\ Stage /\ Parts /\ pc = "idle" /\ pc' = "idle"
  BY DEF MessageInv, Arrive
<1>2. /\ UNCHANGED <<response, declined, offered, data, read, chunk>> /\ UNCHANGED <<response, message>>
      /\ buffer' = buffer \o SubSeq(sent, 1, n) /\ sent' = SubSeq(sent, n + 1, Len(sent))
  BY DEF Arrive, view
<1>3. /\ whole \in Seq(Octet) /\ buffer \in Seq(Octet) /\ sent \in Seq(Octet)
      /\ Len(sent) \in Nat /\ Len(buffer) \in Nat /\ used \in Nat /\ Len(data) \in Nat
      /\ IsPiece(buffer, whole, used) /\ IsPiece(sent, whole, used + Len(buffer)) /\ n \in Nat /\ n <= Len(sent)
      /\ Len(whole) \in Nat
  BY <1>1, Octets DEF Windows
<1>4. /\ SubSeq(sent, 1, n) \in Seq(Octet) /\ Len(SubSeq(sent, 1, n)) = n
      /\ IsPiece(SubSeq(sent, 1, n), whole, used + Len(buffer))
  BY <1>3, Foremost
<1>5. /\ sent' \in Seq(Octet) /\ Len(sent') = Len(sent) - n
      /\ IsPiece(sent', whole, used + Len(buffer) + n)
  BY <1>2, <1>3, Left
<1>6. buffer' \in Seq(Octet) /\ Len(buffer') = Len(buffer) + n /\ IsPiece(buffer', whole, used)
  BY <1>2, <1>3, <1>4, Together, Adjoin
<1>7. whole' = whole
  BY <1>2 DEF whole
<1>8. used' = used
  BY <1>3, <1>5, <1>6, <1>7 DEF used
<1>9. pos' = pos /\ here' = here
  BY <1>2, <1>8 DEF pos, here
<1>10. used' + Len(buffer') = used + Len(buffer) + n
  BY <1>3, <1>6, <1>8
<1>11. offered \in 0 .. Len(buffer') /\ declined \in 0 .. Len(buffer')
  BY <1>1, <1>3, <1>6 DEF Windows
<1>12. Windows'
  BY <1>1, <1>2, <1>5, <1>6, <1>7, <1>8, <1>9, <1>10, <1>11 DEF Windows
<1>13. Places'
  BY <1>1, <1>2 DEF Places
<1> QED
  BY <1>1, <1>2, <1>9, <1>12, <1>13, StageSame DEF MessageInv

LEMMA ReturnKeeps == ASSUME MessageInv, Return PROVE MessageInv'
<1>1. Windows /\ Places /\ Stage /\ Parts /\ pc = "return" /\ pc' = "idle"
  BY DEF MessageInv, Return
<1>2. /\ UNCHANGED <<response, sent>> /\ UNCHANGED <<response, message>>
      /\ buffer' = SubSeq(buffer, read + 1, Len(buffer)) /\ declined' = (IF read = 0 THEN offered ELSE 0)
      /\ offered' = 0 /\ data' = <<>> /\ read' = 0 /\ chunk' = 0
  BY DEF Return, stream
<1>3. /\ whole \in Seq(Octet) /\ buffer \in Seq(Octet) /\ sent \in Seq(Octet) /\ Len(whole) \in Nat
      /\ Len(sent) \in Nat /\ Len(buffer) \in Nat /\ used \in Nat /\ Len(data) \in Nat
      /\ IsPiece(buffer, whole, used) /\ IsPiece(sent, whole, used + Len(buffer))
      /\ read \in Nat /\ offered \in Nat /\ offered <= Len(buffer) /\ read <= Len(buffer)
      /\ used + Len(buffer) + Len(sent) = Len(whole)
  <2>1. offered \in Nat /\ offered <= Len(buffer) /\ read \in Nat /\ read <= offered - Len(data) /\ Len(data) \in Nat
        /\ Len(buffer) \in Nat
    BY <1>1, Octets DEF Windows
  <2>2. offered <= Len(buffer) /\ read <= Len(buffer)
    BY <2>1
  <2>3. /\ whole \in Seq(Octet) /\ Len(whole) \in Nat /\ Len(sent) \in Nat /\ used \in Nat
        /\ used + Len(buffer) + Len(sent) = Len(whole)
    BY <1>1, Octets, Zenon
  <2>4. /\ buffer \in Seq(Octet) /\ sent \in Seq(Octet)
        /\ IsPiece(buffer, whole, used) /\ IsPiece(sent, whole, used + Len(buffer))
    BY <1>1, Zenon DEF Windows
  <2> QED
    BY <2>1, <2>2, <2>3, <2>4, Zenon
<1>4. /\ buffer' \in Seq(Octet) /\ Len(buffer') = Len(buffer) - read
      /\ IsPiece(buffer', whole, used + read)
  BY <1>2, <1>3, Left
<1>5. whole' = whole
  BY <1>2 DEF whole
<1>6. used' = used + read
  <2>1. sent' = sent /\ Len(buffer') = Len(buffer) - read
    BY <1>2, <1>4
  <2>2. Len(whole) \in Nat /\ Len(sent) \in Nat /\ Len(buffer) \in Nat /\ read \in Nat
    BY <1>3, Zenon
  <2>3. used' = Len(whole) - Len(sent) - (Len(buffer) - read)
    BY <1>5, <2>1 DEF used
  <2> QED
    BY <2>2, <2>3 DEF used
<1>7. here' = here
  BY <1>2, <1>3, <1>6 DEF here
<1>8. data' \in Seq(Octet) /\ Len(data') = 0
  BY <1>2
<1>9. pos' = used'
  BY <1>2, <1>3, <1>6, <1>8 DEF pos
<1>10. used + read \in Nat /\ used + read <= Len(whole)
  BY <1>3
<1>11. IsPiece(data', whole, used + read)
  BY <1>8, <1>10 DEF IsPiece
<1>12. used' + Len(buffer') = used + Len(buffer)
  BY <1>3, <1>4, <1>6
<1>13. declined' \in 0 .. Len(buffer') /\ offered' \in 0 .. Len(buffer')
  BY <1>2, <1>3, <1>4
<1>14. IsPiece(buffer', whole', used') /\ IsPiece(sent', whole', (used + Len(buffer))') /\ IsPiece(data', whole', pos')
  <2>1. (used + Len(buffer))' = used + Len(buffer)
    BY <1>12
  <2> QED
    BY <1>2, <1>3, <1>4, <1>5, <1>6, <1>9, <1>11, <2>1
<1>15. Windows'
  BY <1>1, <1>2, <1>3, <1>4, <1>8, <1>13, <1>14 DEF Windows
<1>16. Places'
  BY <1>1, <1>2 DEF Places, PCs
<1> QED
  BY <1>1, <1>2, <1>7, <1>15, <1>16, StageSame DEF MessageInv

LEMMA OfferKeeps == ASSUME MessageInv, NEW n \in 1 .. Len(buffer), Offer(n) PROVE MessageInv'
<1>1. Windows /\ Places /\ Stage /\ Parts /\ pc = "idle" /\ ~complete
  BY DEF MessageInv, Offer
<1>2. /\ UNCHANGED <<response, sent, buffer, declined, chunk>>
      /\ UNCHANGED <<response, statusCode, header, headerRead, chunked, remaining, body, complete>>
      /\ offered' = n /\ data' = SubSeq(buffer, 1, n) /\ read' = 0
      /\ pc' = IF statusCode = -1 THEN "status" ELSE IF headerRead THEN "type" ELSE "header"
  BY DEF Offer, stream, message
<1>3. /\ whole \in Seq(Octet) /\ buffer \in Seq(Octet) /\ IsPiece(buffer, whole, used)
      /\ Len(buffer) \in Nat /\ used \in Nat /\ n \in Nat /\ n <= Len(buffer) /\ 0 <= n
      /\ offered = 0 /\ read = 0 /\ chunk = 0
  BY <1>1, Octets DEF Windows, Places
<1>4. data' \in Seq(Octet) /\ Len(data') = n /\ IsPiece(data', whole, used)
  BY <1>2, <1>3, Foremost
<1>5. whole' = whole
  BY <1>2 DEF whole
<1>6. used' = used
  BY <1>2, <1>5 DEF used
<1>7. pos' = used /\ here' = here
  BY <1>2, <1>3, <1>4, <1>6 DEF pos, here
<1>8. IsPiece(buffer', whole', used') /\ IsPiece(sent', whole', (used + Len(buffer))') /\ IsPiece(data', whole', pos')
  <2>1. (used + Len(buffer))' = used + Len(buffer)
    BY <1>2, <1>6
  <2> QED
    BY <1>1, <1>2, <1>4, <1>5, <1>6, <1>7, <2>1 DEF Windows
<1>9. Windows'
  <2>1. offered' \in 0 .. Len(buffer') /\ Len(data') <= offered' /\ read' \in Nat /\ chunk' \in Nat
        /\ read' <= offered' - Len(data') /\ chunk' <= offered'
    <3>1. offered' = n /\ Len(data') = n /\ read' = 0 /\ chunk' = 0 /\ Len(buffer') = Len(buffer)
      BY <1>2, <1>3, <1>4, Zenon
    <3> QED
      BY <1>3, <3>1
  <2> QED
    BY <1>1, <1>2, <1>4, <1>8, <2>1 DEF Windows
<1>10. pc' \in {"status", "type", "header"} /\ (pc' = "status" <=> statusCode = -1) /\ (pc' = "type" => headerRead)
       /\ (pc' = "header" => ~headerRead)
  <2>1. headerRead \in BOOLEAN
    BY <1>1 DEF Parts
  <2>2. \/ statusCode = -1 /\ pc' = "status"
        \/ statusCode # -1 /\ headerRead /\ pc' = "type"
        \/ statusCode # -1 /\ ~headerRead /\ pc' = "header"
    <3>1. pc' = IF statusCode = -1 THEN "status" ELSE IF headerRead THEN "type" ELSE "header"
      BY <1>2, Zenon
    <3>2. CASE statusCode = -1
      BY <3>1, <3>2
    <3>3. CASE statusCode # -1 /\ headerRead
      BY <3>1, <3>3
    <3>4. CASE statusCode # -1 /\ ~headerRead
      BY <3>1, <3>4
    <3> QED
      BY <2>1, <3>2, <3>3, <3>4
  <2> QED
    BY <2>2
<1>11. Places'
  BY <1>2, <1>3, <1>4, <1>10 DEF Places, PCs
<1>12. whole' = whole /\ Bodiless' = Bodiless /\ AfterHeader' = AfterHeader
  BY <1>2, <1>5 DEF Bodiless, AfterHeader, Told
<1>13. Stage'
  <2>1. AtStatus => AtStatus'
    BY <1>2, <1>7, <1>10, <1>12 DEF AtStatus, Told
  <2>2. InHeader => InHeader'
    BY <1>2, <1>7, <1>10, <1>12 DEF InHeader, Told
  <2>3. headerRead /\ statusCode = 200 => pc' = "type"
    BY <1>10
  <2>4. Undecided => Undecided'
    BY <1>2, <1>7, <1>12, <2>3 DEF Undecided, AfterHeader
  <2>5. ByLength => ByLength'
    <3>1. ByLength => pc' = "type"
      BY <2>3 DEF ByLength, AfterHeader
    <3> QED
      BY <1>1, <1>2, <1>7, <1>12, <3>1 DEF ByLength
  <2>6. InChunks => InChunks'
    <3>1. InChunks => pc' = "type"
      BY <2>3 DEF InChunks, AfterHeader
    <3> QED
      BY <1>2, <1>7, <1>12, <3>1 DEF InChunks
  <2> QED
    BY <1>1, <2>1, <2>2, <2>4, <2>5, <2>6 DEF Stage, InTrailer, AllRead, Stuck
<1>14. Parts'
  BY <1>1, <1>2 DEF Parts
<1> QED
  BY <1>9, <1>11, <1>13, <1>14 DEF MessageInv

-----------------------------------------------------------------------------
(* process().                                                              *)

LEMMA NamesAll ==
    ASSUME NEW r \in Response, NEW i \in 1 .. Len(All(r))
    PROVE  All(r)[i][1] \in Names \cup {"length", "coding"} /\ All(r)[i] \in Octet
<1> DEFINE F == Len(r.fields)
           M == Len(Top(r))
<1>1. All(r) \in Seq(Octet) /\ All(r)[i] \in Octet
  BY AllIs, ElementOfSeq
<1>2. Named(r, F, M, Len(r.trailer)) /\ (r.framing = "none" <=> M = F)
  BY NamesAre, Zenon
<1>3. All(r)[i][1] \in Names \/ (i = M /\ M # F)
  BY <1>2, NameIs
<1>4. ASSUME M # F PROVE All(r)[M][1] \in {"length", "coding"}
  <2> HIDE DEF M, F
  <2>1. r.framing # "none"
    BY <1>2, <1>4, Zenon
  <2> QED
    BY <2>1, FramingLine DEF M
<1> QED
  BY <1>1, <1>3, <1>4

LEMMA WindowsSame ==
    ASSUME Windows, UNCHANGED <<stream, offer, view>>
    PROVE  Windows' /\ here' = here /\ pos' = pos /\ whole' = whole
<1>1. UNCHANGED <<response, sent, buffer, declined, offered, data, read, chunk>>
  BY DEF stream, offer, view
<1>2. used' = used /\ whole' = whole
  BY <1>1 DEF used, whole
<1>3. pos' = pos /\ here' = here
  BY <1>1, <1>2 DEF pos, here
<1> QED
  BY <1>1, <1>2, <1>3 DEF Windows

LEMMA NoLineKeeps == ASSUME MessageInv, NEW at \in {"status", "header", "chunks"}, NoLine(at) PROVE MessageInv'
<1>1. Windows /\ Places /\ Stage /\ Parts /\ pc = at /\ pc' = "return"
  BY DEF MessageInv, NoLine
<1>2. UNCHANGED <<stream, offer, view>> /\ UNCHANGED <<response, message>>
  BY DEF NoLine, stream
<1>3. Windows' /\ here' = here
  BY <1>1, <1>2, WindowsSame
<1>4. Places'
  BY <1>1 DEF Places, PCs
<1>5. pc \notin {"trailer", "spinning"} /\ pc' \in {"idle", "return"}
  BY <1>1
<1> QED
  BY <1>1, <1>2, <1>3, <1>4, <1>5, StageSame DEF MessageInv

\* Where process() stands when it is not in the trailer.
LEMMA Stands ==
    ASSUME Windows, Places, pc \in {"status", "header", "type", "body", "chunks"}
    PROVE  chunk = 0 /\ pos = here
<1>1. read = offered - Len(data) /\ chunk = 0 /\ used \in Nat /\ read \in Nat /\ Len(data) \in Nat /\ offered \in Nat
  BY Octets DEF Places, Windows
<1> QED
  BY <1>1 DEF pos, here

\* A line is taken from data and counted, in read or in chunk.
LEMMA TakesLine ==
    ASSUME Windows, UNCHANGED <<stream, offer>>, NEW n \in Nat, n <= Len(data), data' = Drop(n),
           read' \in Nat, chunk' \in Nat, read' + chunk' <= offered - Len(data) + n
    PROVE  /\ Windows' /\ here' = used + read' /\ whole' = whole
           /\ Len(data') = Len(data) - n /\ Len(data') \in Nat /\ offered' = offered
<1>1. /\ data \in Seq(Octet) /\ whole \in Seq(Octet) /\ pos \in Nat /\ IsPiece(data, whole, pos)
      /\ Len(data) \in Nat /\ offered \in Nat /\ Len(data) <= offered
  BY Octets DEF Windows
<1>2. data' \in Seq(Octet) /\ Len(data') = Len(data) - n /\ IsPiece(data', whole, pos + n)
  BY <1>1, Left DEF Drop
<1>3. read' <= offered - Len(data') /\ chunk' <= offered /\ Len(data') \in Nat
  BY <1>1, <1>2
<1>4. offered' = offered
  BY DEF offer
<1> QED
  BY <1>2, <1>3, <1>4, Takes

LEMMA StatusKeeps == ASSUME MessageInv, process_status PROVE MessageInv'
<1>1. Windows /\ Places /\ Stage /\ Parts /\ pc = "status" /\ pc' = "header" /\ HasLine
  BY DEF MessageInv, process_status
<1>2. AtStatus /\ here = 0 /\ Told(0) /\ Bodiless /\ ~headerRead
  BY <1>1 DEF Stage, AtStatus, InHeader, Undecided, ByLength, InChunks, InTrailer, AllRead, Stuck
<1>3. /\ UNCHANGED <<stream, offer>> /\ UNCHANGED <<response, chunk, header, headerRead, chunked, remaining, body, complete>>
      /\ statusCode' = TheLine[2] /\ data' = Drop(LineLength + 2) /\ read' = read + LineLength + 2
  BY DEF process_status, stream
<1>4. <<"status", 200>> \in Octet /\ chunk = 0 /\ pos = 0
  BY <1>1, <1>2, Stands DEF Octet
<1>5. Len(data) \in Nat /\ Len(data) >= 3 /\ LineLength = 1 /\ TheLine = <<"status", 200>>
  <2>1. IsPiece(Line(<<"status", 200>>), whole, 0) /\ whole \in Seq(Octet) /\ data \in Seq(Octet) /\ IsPiece(data, whole, 0)
    BY <1>1, <1>4, Octets, RestIs, StreamIs DEF whole, Windows
  <2> QED
    BY <1>1, <1>4, <2>1, LineRead DEF HasLine, LineLength, TheLine
<1>6. statusCode' = 200 /\ data' = Drop(3) /\ read' = read + 3 /\ chunk' = 0
  <2>1. read \in Nat
    BY <1>1 DEF Windows
  <2> QED
    BY <1>3, <1>4, <1>5, <2>1
<1>7. read \in Nat /\ offered \in Nat /\ read = offered - Len(data) /\ used \in Nat
  BY <1>1, Octets DEF Places, Windows
<1>8. Windows' /\ here' = used + read' /\ Len(data') = Len(data) - 3 /\ offered' = offered
  <2>1. read' \in Nat /\ chunk' \in Nat /\ read' + chunk' <= offered - Len(data) + 3
    BY <1>5, <1>6, <1>7
  <2> QED
    BY <1>1, <1>3, <1>5, <1>6, <2>1, TakesLine
<1>9. here' = 3
  BY <1>2, <1>6, <1>7, <1>8 DEF here
<1>10. Places'
  BY <1>1, <1>5, <1>6, <1>7, <1>8 DEF Places, PCs
<1>11. Told(0)' /\ Bodiless'
  BY <1>2, <1>3 DEF Told, Bodiless
<1>12. InHeader'
  <2>1. 0 \in 0 .. Len(Top(response)) /\ 3 + 3 * 0 = 3
    BY <1>1, Octets
  <2>2. (\E k \in 0 .. Len(Top(response)) : here = 3 + 3 * k /\ Told(k))'
    BY <1>3, <1>9, <1>11, <2>1
  <2> QED
    BY <1>1, <1>2, <1>3, <1>6, <1>11, <2>2 DEF InHeader
<1>13. Parts'
  BY <1>1, <1>3, <1>6 DEF Parts
<1> QED
  BY <1>8, <1>10, <1>12, <1>13 DEF MessageInv, Stage

\* What comes next in the header is a line of it, or the empty line.
LEMMA HeaderNext ==
    ASSUME Windows, NEW k \in 0 .. Len(Top(response)), pos = 3 + 3 * k, HasLine
    PROVE  /\ k < Len(Top(response)) => Len(data) >= 3 /\ LineLength = 1 /\ TheLine = All(response)[k + 1]
           /\ k = Len(Top(response)) => Len(data) >= 2 /\ LineLength = 0
<1> DEFINE M == Len(Top(response))
<1>1. /\ response \in Response /\ whole \in Seq(Octet) /\ data \in Seq(Octet) /\ IsPiece(data, whole, pos) /\ M \in Nat
  BY Octets DEF Windows
<1>2. /\ \A i \in 1 .. M : IsPiece(Line(Top(response)[i]), whole, 3 * i) /\ All(response)[i] = Top(response)[i]
      /\ IsPiece(Blank, whole, 3 + 3 * M)
      /\ \A i \in 1 .. M : i \in 1 .. Len(All(response))
  <2>1. Len(All(response)) = M + Len(response.trailer) /\ Len(response.trailer) \in Nat
    BY <1>1, AllIs
  <2>2. \A i \in 1 .. M : i \in 1 .. Len(All(response))
    BY <1>1, <2>1
  <2> QED
    BY <1>1, <2>2, RestIs, StreamIs, AllIs DEF whole
<1> HIDE DEF M
<1>3. ASSUME k < M PROVE Len(data) >= 3 /\ LineLength = 1 /\ TheLine = All(response)[k + 1]
  <2>1. PICK i \in 1 .. M : i = k + 1
    BY <1>1, <1>3
  <2>2. 3 * i = pos
    BY <1>1, <2>1
  <2>3. All(response)[i] \in Octet
    BY <1>1, <1>2, NamesAll
  <2>4. IsPiece(Line(All(response)[i]), whole, pos)
    BY <1>2, <2>2
  <2>5. Len(data) >= 3 /\ LineLength = 1 /\ TheLine = All(response)[i]
    BY <1>1, <2>3, <2>4, LineRead DEF HasLine, LineLength, TheLine
  <2> QED
    BY <2>1, <2>5
<1>4. ASSUME k = M PROVE Len(data) >= 2 /\ LineLength = 0
  <2>1. IsPiece(Blank, whole, pos)
    BY <1>2, <1>4
  <2> QED
    BY <1>1, <2>1, BlankRead DEF HasLine, LineLength
<1> QED
  BY <1>3, <1>4 DEF M

LEMMA HeaderKeeps == ASSUME MessageInv, process_header PROVE MessageInv'
<1> DEFINE M == Len(Top(response))
<1>1. Windows /\ Places /\ Stage /\ Parts /\ pc = "header" /\ HasLine
  BY DEF MessageInv, process_header, Field, EmptyLine
<1>2. InHeader
  BY <1>1 DEF Stage, AtStatus, Undecided, ByLength, InChunks, InTrailer, AllRead, Stuck
<1>3. PICK k \in 0 .. M : here = 3 + 3 * k /\ Told(k)
  BY <1>2 DEF InHeader
<1>4. /\ response \in Response /\ M \in Nat /\ used \in Nat /\ read \in Nat /\ offered \in Nat /\ Len(data) \in Nat
      /\ Len(All(response)) \in Nat /\ M <= Len(All(response)) /\ read = offered - Len(data) /\ chunk = 0 /\ pos = here
  <2>1. Len(All(response)) = M + Len(response.trailer) /\ response \in Response /\ Len(response.trailer) \in Nat /\ M \in Nat
    BY <1>1, Octets, AllIs
  <2>2. /\ used \in Nat /\ Len(data) \in Nat /\ chunk = 0 /\ pos = here
    BY <1>1, Octets, Stands
  <2>3. read \in Nat /\ offered \in 0 .. Len(buffer) /\ read = offered - Len(data)
    BY <1>1 DEF Windows, Places
  <2>4. offered \in Nat
    BY <2>3
  <2>5. Len(All(response)) \in Nat /\ M <= Len(All(response))
    BY <2>1
  <2> QED
    BY <2>1, <2>2, <2>3, <2>4, <2>5
<1>5. /\ k < M => Len(data) >= 3 /\ LineLength = 1 /\ TheLine = All(response)[k + 1]
      /\ k = M => Len(data) >= 2 /\ LineLength = 0
  BY <1>1, <1>3, <1>4, HeaderNext
<1>6. /\ UNCHANGED <<stream, offer>> /\ UNCHANGED <<response, chunk, statusCode, chunked, remaining, body, complete>>
      /\ read' = read + LineLength + 2
  BY DEF process_header, stream
<1>7. CASE Field /\ UNCHANGED pc
  <2>1. k < M /\ LineLength = 1 /\ Len(data) >= 3 /\ TheLine = All(response)[k + 1] /\ data' = Drop(3) /\ headerRead' = headerRead
    BY <1>3, <1>4, <1>5, <1>7 DEF Field
  <2>2. read' = read + 3 /\ chunk' = 0
    BY <1>4, <1>6, <2>1
  <2>3. read' \in Nat /\ chunk' \in Nat /\ read' + chunk' <= offered - Len(data) + 3
    BY <1>4, <2>2
  <2>4. Windows' /\ here' = used + read' /\ whole' = whole /\ Len(data') = Len(data) - 3 /\ offered' = offered
    BY <1>1, <1>4, <1>6, <2>1, <2>3, TakesLine
  <2>5. PICK m \in 0 .. M : m = k + 1
    BY <1>4, <2>1
  <2>6. here' = 3 + 3 * m
    BY <1>3, <1>4, <2>2, <2>4, <2>5 DEF here
  <2>7. Told(m)'
    <3>1. k + 1 <= Len(All(response))
      BY <1>4, <2>1
    <3>2. k \in Nat /\ UNCHANGED response
      BY <1>6
    <3> QED
      BY <1>1, <1>3, <1>4, <1>7, <2>1, <2>5, <3>1, <3>2, Tells
  <2>8. (\E i \in 0 .. Len(Top(response)) : here = 3 + 3 * i /\ Told(i))'
    BY <1>6, <2>5, <2>6, <2>7
  <2>9. InHeader'
    BY <1>1, <1>2, <1>6, <1>7, <2>1, <2>8 DEF InHeader, Bodiless
  <2>10. Places'
    BY <1>1, <1>4, <1>7, <2>2, <2>4 DEF Places
  <2>11. Parts'
    <3>1. DOMAIN header' = DOMAIN header \cup {TheLine[1]}
      BY <1>7 DEF Field
    <3>2. TheLine[1] \in Names \cup {"length", "coding"}
      <4>1. k + 1 \in 1 .. Len(All(response))
        BY <1>4, <2>1
      <4> QED
        BY <1>4, <2>1, <4>1, NamesAll
    <3> QED
      BY <1>1, <1>6, <2>1, <3>1, <3>2 DEF Parts
  <2> QED
    BY <2>4, <2>9, <2>10, <2>11 DEF MessageInv, Stage
<1>8. CASE EmptyLine /\ pc' = "type"
  <2>1. k = M /\ LineLength = 0 /\ Len(data) >= 2 /\ data' = Drop(2) /\ headerRead' = TRUE /\ header' = header
    BY <1>3, <1>4, <1>5, <1>8 DEF EmptyLine
  <2>2. read' = read + 2 /\ chunk' = 0
    BY <1>4, <1>6, <2>1
  <2>3. read' \in Nat /\ chunk' \in Nat /\ read' + chunk' <= offered - Len(data) + 2
    BY <1>4, <2>2
  <2>4. Windows' /\ here' = used + read' /\ whole' = whole /\ Len(data') = Len(data) - 2 /\ offered' = offered
    BY <1>1, <1>4, <1>6, <2>1, <2>3, TakesLine
  <2>5. here' = Begins(response)
    BY <1>3, <1>4, <2>1, <2>2, <2>4 DEF here, Begins
  <2>6. Told(M)'
    BY <1>3, <1>6, <2>1 DEF Told
  <2>7. AfterHeader' /\ Bodiless' /\ Begins(response)' = Begins(response)
    BY <1>2, <1>6, <2>1, <2>6 DEF InHeader, AfterHeader, Bodiless
  <2>8. Undecided'
    BY <1>8, <2>5, <2>7 DEF Undecided
  <2>9. Places'
    BY <1>4, <1>8, <2>2, <2>4 DEF Places, PCs
  <2>10. Parts'
    BY <1>1, <1>6, <2>1 DEF Parts
  <2> QED
    BY <2>4, <2>8, <2>9, <2>10 DEF MessageInv, Stage
<1> QED
  BY <1>7, <1>8 DEF process_header

LEMMA MalformedKeeps == ASSUME MessageInv, MalformedHeader PROVE MessageInv'
<1>1. Windows /\ Places /\ Stage /\ Parts /\ pc \in {"header", "trailer"} /\ pc' = "spinning"
  BY DEF MessageInv, MalformedHeader
<1>2. UNCHANGED <<stream, offer, view>> /\ UNCHANGED <<response, statusCode, header, headerRead, chunked, remaining, body, complete>>
  BY DEF MalformedHeader, stream, message
<1>3. ~complete
  BY <1>1 DEF Stage, AtStatus, InHeader, Undecided, ByLength, InChunks, InTrailer, AllRead, Stuck, Bodiless
<1>4. Windows'
  BY <1>1, <1>2, WindowsSame
<1>5. Places' /\ Stuck'
  BY <1>1, <1>2, <1>3 DEF Places, PCs, Stuck
<1>6. Parts'
  BY <1>1, <1>2 DEF Parts
<1> QED
  BY <1>4, <1>5, <1>6 DEF MessageInv, Stage

LEMMA BodyTypeKeeps == ASSUME MessageInv, check_body_type PROVE MessageInv'
<1>1. Windows /\ Places /\ Stage /\ Parts /\ pc = "type"
  BY DEF MessageInv, check_body_type
<1>2. UNCHANGED <<stream, offer, view>> /\ UNCHANGED <<response, statusCode, header, headerRead, body, complete>>
  BY DEF check_body_type, stream
<1>3. Windows' /\ here' = here /\ whole' = whole
  BY <1>1, <1>2, WindowsSame
<1>4. response \in Response /\ response \in Responses /\ chunk = 0 /\ read = offered - Len(data)
      /\ response.framing \in {"length", "chunked", "othercoding", "none"}
      /\ Len(Body(response)) \in 0 .. SizeMax /\ SizeMax \in Nat
  BY <1>1, Octets, ResponseIs DEF Windows, Places
<1>5. Undecided \/ ByLength \/ InChunks
  BY <1>1 DEF Stage, AtStatus, InHeader, InTrailer, AllRead, Stuck
<1>6. AfterHeader /\ AfterHeader'
  BY <1>2, <1>5 DEF Undecided, ByLength, InChunks, AfterHeader, Told
<1>7. /\ "coding" \in DOMAIN header <=> response.framing \in {"chunked", "othercoding"}
      /\ response.framing = "chunked" => header["coding"] = 1
      /\ response.framing = "othercoding" => header["coding"] = 0
      /\ "length" \in DOMAIN header <=> response.framing = "length"
      /\ response.framing = "length" => header["length"] = Len(Body(response))
  BY <1>4, <1>6, FramingKnown DEF AfterHeader
<1>8. Places' /\ pc' \in {"body", "chunks", "return"} /\ (pc' = IF remaining' # -1 THEN "body" ELSE IF chunked' THEN "chunks" ELSE "return")
  <2>1. pc' = IF remaining' # -1 THEN "body" ELSE IF chunked' THEN "chunks" ELSE "return"
    BY DEF check_body_type
  <2>2. UNCHANGED <<offered, data, read, chunk>>
    BY <1>2 DEF offer, view
  <2> QED
    BY <1>4, <2>1, <2>2 DEF Places, PCs
<1>9. CASE Undecided
  <2>1. ~chunked /\ remaining = -1 /\ body = <<>> /\ ~complete /\ here = Begins(response)
    BY <1>9 DEF Undecided, Bodiless
  <2>2. /\ chunked' = (response.framing = "chunked")
        /\ remaining' = IF response.framing = "length" THEN Len(Body(response))
                        ELSE IF response.framing = "none" THEN 0 ELSE -1
    BY <1>4, <1>7, <2>1 DEF check_body_type
  <2>3. CASE response.framing = "chunked"
    <3>1. chunked' /\ remaining' = -1 /\ pc' = "chunks"
      BY <1>8, <2>2, <2>3
    <3>2. At(response, 0) = Begins(response) /\ Upto(response.chunks, 0) = <<>>
      BY <1>4, <2>3, ChunkedIs, ResponseIs, Pieces
    <3>3. (\E j \in 0 .. Len(response.chunks) : here = At(response, j) /\ body = Upto(response.chunks, j))'
      <4>1. 0 \in 0 .. Len(response.chunks)
        BY <1>1, Octets
      <4> QED
        BY <1>2, <1>3, <2>1, <3>2, <4>1
    <3>4. InChunks'
      BY <1>2, <1>6, <2>1, <2>3, <3>1, <3>3 DEF InChunks
    <3>5. Parts'
      BY <1>1, <1>2, <1>4, <2>1, <3>1 DEF Parts
    <3> QED
      BY <1>3, <1>8, <3>4, <3>5 DEF MessageInv, Stage
  <2>4. CASE response.framing = "othercoding"
    <3>1. ~chunked' /\ chunked' \in BOOLEAN /\ remaining' = -1 /\ pc' = "return"
      BY <1>8, <2>2, <2>4
    <3>2. Undecided'
      BY <1>2, <1>3, <1>6, <2>1, <3>1 DEF Undecided, Bodiless, Begins
    <3>3. Parts'
      BY <1>1, <1>2, <1>4, <2>1, <3>1 DEF Parts
    <3> QED
      BY <1>3, <1>8, <3>2, <3>3 DEF MessageInv, Stage
  <2>5. CASE response.framing \in {"length", "none"}
    <3>1. /\ ~chunked' /\ chunked' \in BOOLEAN /\ remaining' \in 0 .. SizeMax /\ pc' = "body"
          /\ remaining' = IF response.framing = "length" THEN Len(Body(response)) ELSE 0
      <4> DEFINE b == Len(Body(response))
      <4>1. b \in 0 .. SizeMax /\ SizeMax \in Nat
        BY <1>4, Zenon
      <4>2. remaining' = IF response.framing = "length" THEN b ELSE 0
        BY <2>2, <2>5
      <4>3. ~chunked' /\ chunked' \in BOOLEAN
        BY <2>2, <2>5
      <4> HIDE DEF b
      <4>4. remaining' \in 0 .. SizeMax /\ remaining' # -1
        BY <4>1, <4>2
      <4>5. pc' = "body"
        BY <1>8, <4>4, Zenon
      <4> QED
        BY <4>2, <4>3, <4>4, <4>5 DEF b
    <3>2. Len(body) = 0 /\ Begins(response) \in Nat
      BY <1>4, <2>1, RestIs, StreamIs
    <3>3. /\ remaining' = ((IF response.framing = "length" THEN Len(Body(response)) ELSE 0) - Len(body))'
          /\ here' = (Begins(response) + Len(body))' /\ remaining' \in Nat
      <4>1. /\ (Begins(response) + Len(body))' = Begins(response) + Len(body)
            /\ ((IF response.framing = "length" THEN Len(Body(response)) ELSE 0) - Len(body))'
                 = (IF response.framing = "length" THEN Len(Body(response)) ELSE 0) - Len(body)
        BY <1>2
      <4> QED
        BY <1>3, <1>4, <2>1, <3>1, <3>2, <4>1
    <3>4. ByLength'
      BY <1>2, <1>6, <2>1, <2>5, <3>1, <3>3 DEF ByLength
    <3>5. Parts'
      BY <1>1, <1>2, <1>4, <2>1, <3>1 DEF Parts
    <3> QED
      BY <1>3, <1>8, <3>4, <3>5 DEF MessageInv, Stage
  <2> QED
    BY <1>4, <2>3, <2>4, <2>5
<1>10. CASE ByLength
  <2>1. ~chunked /\ remaining \in Nat /\ remaining # -1 /\ ~complete
    BY <1>1, <1>10 DEF ByLength
  <2>2. chunked' = chunked /\ remaining' = remaining /\ chunked \in BOOLEAN
    BY <1>1, <2>1 DEF check_body_type, Parts
  <2>3. pc' = "body"
    BY <1>8, <2>1, <2>2
  <2>4. ByLength'
    BY <1>2, <1>3, <1>6, <1>10, <2>1, <2>2, <2>3 DEF ByLength, Begins
  <2>5. Parts'
    BY <1>1, <1>2, <2>2 DEF Parts
  <2> QED
    BY <1>3, <1>8, <2>4, <2>5 DEF MessageInv, Stage
<1>11. CASE InChunks
  <2>1. chunked /\ remaining = -1 /\ ~complete
    BY <1>11 DEF InChunks
  <2>2. chunked' /\ chunked' \in BOOLEAN /\ remaining' = remaining
    BY <1>1, <2>1 DEF check_body_type, Parts
  <2>3. pc' = "chunks"
    BY <1>8, <2>1, <2>2
  <2>4. InChunks'
    BY <1>2, <1>3, <1>6, <1>11, <2>1, <2>2, <2>3 DEF InChunks, At, Chunks, Begins
  <2>5. Parts'
    BY <1>1, <1>2, <2>2 DEF Parts
  <2> QED
    BY <1>3, <1>8, <2>4, <2>5 DEF MessageInv, Stage
<1> QED
  BY <1>5, <1>9, <1>10, <1>11

\* A piece at the same place as a longer one is where that begins.
LEMMA Shorter ==
    ASSUME NEW S, NEW w, NEW s \in Seq(S), NEW t \in Seq(S), NEW p, IsPiece(s, w, p), IsPiece(t, w, p), Len(s) <= Len(t)
    PROVE  IsPiece(s, t, 0)
<1>1. Len(s) \in Nat /\ Len(t) \in Nat /\ p \in Nat
  BY LenProperties DEF IsPiece
<1>2. ASSUME NEW i \in 1 .. Len(s) PROVE s[i] = t[0 + i]
  <2>1. i \in 1 .. Len(t) /\ 0 + i = i
    BY <1>1
  <2>2. s[i] = w[p + i] /\ t[i] = w[p + i]
    BY <2>1 DEF IsPiece
  <2> QED
    BY <2>1, <2>2
<1> QED
  BY <1>1, <1>2 DEF IsPiece

LEMMA ReadBodyKeeps == ASSUME MessageInv, read_body PROVE MessageInv'
<1>1. Windows /\ Places /\ Stage /\ Parts /\ pc = "body" /\ pc' = "return"
  BY DEF MessageInv, read_body
<1>2. ByLength
  BY <1>1 DEF Stage, AtStatus, InHeader, Undecided, InChunks, InTrailer, AllRead, Stuck
<1>3. /\ UNCHANGED <<stream, offer>> /\ UNCHANGED <<response, chunk, statusCode, header, headerRead, chunked>>
      /\ complete' = (complete \/ remaining' = 0)
  BY DEF read_body, stream, Over
<1>4. /\ response \in Response /\ response.framing \in {"length", "none"}
      /\ remaining = (IF response.framing = "length" THEN Len(Body(response)) ELSE 0) - Len(body)
      /\ remaining \in Nat /\ here = Begins(response) + Len(body) /\ ~complete /\ ~chunked
  BY <1>1, <1>2, Octets DEF ByLength
<1>5. /\ used \in Nat /\ read \in Nat /\ offered \in Nat /\ Len(data) \in Nat /\ read = offered - Len(data)
      /\ chunk = 0 /\ pos = here /\ data \in Seq(Octet) /\ IsPiece(data, whole, pos)
      /\ whole \in Seq(Octet) /\ Len(whole) \in Nat /\ body \in Seq(Octet) /\ IsPiece(body, Body(response), 0)
      /\ Body(response) \in Seq(Octet) /\ Len(Body(response)) \in Nat /\ Len(body) \in Nat /\ SizeMax \in Nat
      /\ Len(Body(response)) <= SizeMax
  BY <1>1, <1>4, Octets, Stands, ResponseIs, LenProperties DEF Windows, Places, Parts
<1>6. AfterHeader'
  BY <1>2, <1>3 DEF ByLength, AfterHeader, Told
<1>7. Places'
  BY <1>1 DEF Places, PCs
<1>8. CASE remaining > 0
  <2>1. /\ body' = body \o data /\ remaining' = Minus(remaining, Len(data))
        /\ read' = read + Len(data) /\ data' = <<>>
    BY <1>8 DEF read_body
  <2>2. response.framing = "length" /\ remaining = Len(Body(response)) - Len(body)
    BY <1>4, <1>5, <1>8
  <2>3. /\ IsPiece(Body(response), whole, Begins(response)) /\ Begins(response) \in Nat
        /\ Len(whole) = Begins(response) + Len(Body(response))
    BY <1>4, <2>2, RestIs, StreamIs DEF whole, Rest
  <2>4. pos + Len(data) <= Len(whole)
    BY <1>5 DEF IsPiece
  <2>5. Len(data) <= remaining
    BY <1>4, <1>5, <2>2, <2>3, <2>4
  <2>6. remaining' = remaining - Len(data) /\ remaining' \in Nat /\ remaining' <= SizeMax
    BY <1>4, <1>5, <2>1, <2>2, <2>5 DEF Minus
  <2>7. IsPiece(body, whole, Begins(response))
    <3>1. IsPiece(body, whole, Begins(response) + 0)
      BY <1>5, <2>3, PieceOfPiece
    <3> QED
      BY <2>3, <3>1
  <2>8. body' \in Seq(Octet) /\ Len(body') = Len(body) + Len(data) /\ IsPiece(body', whole, Begins(response))
    <3>1. IsPiece(data, whole, Begins(response) + Len(body))
      BY <1>4, <1>5
    <3> QED
      BY <1>5, <2>1, <2>7, <3>1, Together, Adjoin
  <2>9. IsPiece(body', Body(response), 0)
    <3>1. Len(body') <= Len(Body(response))
      BY <1>5, <2>2, <2>5, <2>8
    <3> QED
      BY <1>5, <2>3, <2>8, <3>1, Shorter
  <2>10. Windows' /\ here' = used + read'
    <3>1. data' \in Seq(Octet) /\ Len(data') = 0 /\ IsPiece(data', whole, pos + Len(data))
      <4>1. data' \in Seq(Octet) /\ Len(data') = 0
        BY <2>1
      <4>2. pos + Len(data) \in Nat
        BY <1>1, <1>5, Octets
      <4> QED
        BY <1>5, <2>4, <4>1, <4>2 DEF IsPiece
    <3>2. Len(data') = Len(data) - Len(data) /\ read' \in Nat /\ chunk' \in Nat /\ read' <= offered - Len(data') /\ chunk' <= offered
      BY <1>3, <1>5, <2>1, <3>1
    <3> QED
      BY <1>1, <1>3, <1>5, <3>1, <3>2, Takes
  <2>11. here' = (Begins(response) + Len(body))'
    <3>1. (Begins(response) + Len(body))' = Begins(response) + Len(body')
      BY <1>3 DEF Begins
    <3>2. here' = here + Len(data)
      BY <1>5, <2>1, <2>10 DEF here
    <3> QED
      BY <1>4, <1>5, <2>3, <2>8, <3>1, <3>2
  <2>12. remaining' = ((IF response.framing = "length" THEN Len(Body(response)) ELSE 0) - Len(body))'
    <3>1. ((IF response.framing = "length" THEN Len(Body(response)) ELSE 0) - Len(body))' = Len(Body(response)) - Len(body')
      BY <1>3, <2>2
    <3> QED
      BY <1>5, <2>2, <2>6, <2>8, <3>1
  <2>13. ByLength'
    BY <1>1, <1>3, <1>4, <1>6, <2>6, <2>11, <2>12 DEF ByLength
  <2>14. Parts'
    BY <1>1, <1>3, <2>6, <2>8, <2>9 DEF Parts
  <2> QED
    BY <1>7, <2>10, <2>13, <2>14 DEF MessageInv, Stage
<1>9. CASE ~(remaining > 0)
  <2>1. UNCHANGED <<body, remaining, read, data>>
    BY <1>9 DEF read_body
  <2>2. UNCHANGED view
    BY <1>3, <2>1 DEF view
  <2>3. Windows' /\ here' = here
    BY <1>1, <1>3, <2>2, WindowsSame
  <2>4. remaining' = 0
    BY <1>4, <1>9, <2>1
  <2>5. ByLength'
    BY <1>1, <1>3, <1>4, <1>6, <2>1, <2>3, <2>4 DEF ByLength, Begins
  <2>6. Parts'
    BY <1>1, <1>3, <2>1 DEF Parts
  <2> QED
    BY <1>7, <2>3, <2>5, <2>6 DEF MessageInv, Stage
<1> QED
  BY <1>8, <1>9

-----------------------------------------------------------------------------
(* read_body_chunked().                                                    *)

LEMMA SizeRead ==
    ASSUME Windows, response.framing = "chunked", NEW j \in 0 .. Len(response.chunks), pos = At(response, j), HasLine
    PROVE  /\ Len(data) >= 3 /\ LineLength = 1
           /\ j = Len(response.chunks) => Size = 0
           /\ j < Len(response.chunks) => Size = Len(response.chunks[j + 1]) /\ Size \in Nat /\ Size > 0
<1> DEFINE C == Len(response.chunks)
<1>1. /\ response \in Response /\ Proper(response) /\ whole \in Seq(Octet) /\ data \in Seq(Octet)
      /\ IsPiece(data, whole, pos) /\ C \in Nat
  BY Octets DEF Windows
<1>2. ASSUME j = C PROVE Len(data) >= 3 /\ LineLength = 1 /\ Size = 0
  <2>1. <<"size", 0>> \in Octet /\ IsPiece(Line(<<"size", 0>>), whole, pos)
    BY <1>1, <1>2, ChunkedIs DEF whole
  <2>2. Len(data) >= 3 /\ LineLength = 1 /\ TheLine = <<"size", 0>>
    BY <1>1, <2>1, LineRead DEF HasLine, LineLength, TheLine
  <2> QED
    BY <2>2 DEF Size
<1>3. ASSUME j < C
      PROVE  Len(data) >= 3 /\ LineLength = 1 /\ Size = Len(response.chunks[j + 1]) /\ Size \in Nat /\ Size > 0
  <2>1. PICK i \in 1 .. C : i = j + 1 /\ i - 1 = j
    BY <1>1, <1>3
  <2>2. /\ <<"size", Len(response.chunks[i])>> \in Octet /\ response.chunks[i] \in Seq(Octet)
        /\ IsPiece(Line(<<"size", Len(response.chunks[i])>>), whole, At(response, i - 1))
    BY <1>1, <2>1, ChunkedIs DEF whole
  <2>3. Len(data) >= 3 /\ LineLength = 1 /\ TheLine = <<"size", Len(response.chunks[i])>>
    <3>1. IsPiece(Line(<<"size", Len(response.chunks[i])>>), whole, pos)
      BY <2>1, <2>2
    <3> QED
      BY <1>1, <2>2, <3>1, LineRead DEF HasLine, LineLength, TheLine
  <2>4. response.chunks[i] # <<>>
    <3>1. i \in DOMAIN response.chunks
      BY <1>1, <2>1, ResponseIs, LenProperties
    <3> QED
      BY <1>1, <3>1 DEF Proper
  <2>5. Len(response.chunks[i]) \in Nat /\ Len(response.chunks[i]) > 0
    BY <2>2, <2>4
  <2> QED
    BY <2>1, <2>3, <2>5 DEF Size
<1>4. j = C \/ j < C
  BY <1>1
<1> QED
  BY <1>2, <1>3, <1>4 DEF C

LEMMA PartialKeeps == ASSUME MessageInv, PartialChunk PROVE MessageInv'
<1>1. Windows /\ Places /\ Stage /\ Parts /\ pc = "chunks" /\ pc' = "return" /\ HasLine
  BY DEF MessageInv, PartialChunk
<1>2. InChunks
  BY <1>1 DEF Stage, AtStatus, InHeader, Undecided, ByLength, InTrailer, AllRead, Stuck
<1>3. PICK j \in 0 .. Len(response.chunks) : here = At(response, j)
  BY <1>2 DEF InChunks
<1>4. Len(data) >= 3 /\ LineLength = 1
  <2>1. pos = At(response, j) /\ response.framing = "chunked"
    BY <1>1, <1>2, <1>3, Stands DEF InChunks
  <2> QED
    BY <1>1, <2>1, SizeRead
<1>5. /\ UNCHANGED <<stream, offer>> /\ UNCHANGED <<response, message>> /\ UNCHANGED chunk
      /\ data' = Drop(3) /\ read' = read
  <2>1. read \in Nat
    BY <1>1 DEF Windows
  <2> QED
    BY <1>4, <2>1 DEF PartialChunk, OfPartialChunk, stream
<1>6. Windows' /\ here' = here
  <2>1. /\ chunk = 0 /\ read = offered - Len(data) /\ read \in Nat /\ offered \in Nat /\ Len(data) \in Nat
    BY <1>1, Octets DEF Places, Windows
  <2>2. 3 \in Nat /\ 3 <= Len(data) /\ read' \in Nat /\ chunk' \in Nat /\ read' + chunk' <= offered - Len(data) + 3
    BY <1>4, <1>5, <2>1
  <2>3. Windows' /\ here' = used + read'
    BY <1>1, <1>5, <2>2, TakesLine
  <2> QED
    BY <1>5, <2>3 DEF here
<1>7. Places'
  BY <1>1 DEF Places, PCs
<1>8. pc \notin {"trailer", "spinning"} /\ pc' \in {"idle", "return"}
  BY <1>1
<1> QED
  BY <1>1, <1>5, <1>6, <1>7, <1>8, StageSame DEF MessageInv

LEMMA WholeChunkKeeps == ASSUME MessageInv, WholeChunk PROVE MessageInv'
<1> DEFINE C == Len(response.chunks)
           rest == Drop(LineLength + 2)
<1>1. Windows /\ Places /\ Stage /\ Parts /\ pc = "chunks" /\ pc' = "chunks" /\ HasLine /\ Size > 0 /\ Len(rest) >= Size + 2
  BY DEF MessageInv, WholeChunk
<1>2. InChunks
  BY <1>1 DEF Stage, AtStatus, InHeader, Undecided, ByLength, InTrailer, AllRead, Stuck
<1>3. PICK j \in 0 .. C : here = At(response, j) /\ body = Upto(response.chunks, j)
  BY <1>2 DEF InChunks
<1>4. /\ response \in Response /\ response.framing = "chunked" /\ C \in Nat /\ pos = here /\ chunk = 0
      /\ used \in Nat /\ read \in Nat /\ offered \in Nat /\ Len(data) \in Nat /\ read = offered - Len(data)
      /\ data \in Seq(Octet) /\ whole \in Seq(Octet) /\ IsPiece(data, whole, pos) /\ pos \in Nat
      /\ Len(data) <= offered
  BY <1>1, <1>2, Octets, Stands DEF Windows, Places, InChunks
<1>5. /\ Len(data) >= 3 /\ LineLength = 1
      /\ j = C => Size = 0
      /\ j < C => Size = Len(response.chunks[j + 1]) /\ Size \in Nat /\ Size > 0
  BY <1>1, <1>3, <1>4, SizeRead
<1>6. PICK i \in 1 .. C : i = j + 1 /\ i - 1 = j /\ j < C
  BY <1>1, <1>4, <1>5
<1> DEFINE o == response.chunks[i]
           n == Len(o)
<1>7. /\ At(response, i) = At(response, j) + n + 5 /\ o \in Seq(Octet) /\ n \in Nat /\ Size = n
      /\ IsPiece(o, whole, pos + 3) /\ IsPiece(Blank, whole, pos + 3 + n)
  BY <1>3, <1>4, <1>5, <1>6, ChunkedIs DEF whole
<1>8. /\ rest = Drop(3) /\ rest \in Seq(Octet) /\ Len(rest) = Len(data) - 3
      /\ IsPiece(rest, whole, pos + 3) /\ Len(rest) \in Nat /\ Len(rest) >= n + 2
  <2>1. rest = SubSeq(data, 3 + 1, Len(data))
    BY <1>5 DEF Drop
  <2>2. rest \in Seq(Octet) /\ Len(rest) = Len(data) - 3 /\ IsPiece(rest, whole, pos + 3)
    <3>1. PICK k \in Nat : k = 3
      OBVIOUS
    <3>2. k <= Len(data) /\ rest = SubSeq(data, k + 1, Len(data))
      BY <1>4, <1>5, <2>1, <3>1
    <3> HIDE DEF rest
    <3>3. rest \in Seq(Octet) /\ Len(rest) = Len(data) - k /\ IsPiece(rest, whole, pos + k)
      BY <1>4, <3>2, Left
    <3> QED
      BY <3>1, <3>3
  <2>3. Len(rest) \in Nat /\ Len(rest) >= n + 2
    BY <1>1, <1>7, <2>2, LenProperties
  <2>4. rest = Drop(3)
    BY <1>5
  <2> HIDE DEF rest
  <2> QED
    BY <2>2, <2>3, <2>4, Zenon
<1> HIDE DEF rest, o, n
<1>9. rest[n + 1] = CR /\ rest[n + 2] = LF
  <2>1. whole[pos + 3 + n + 1] = CR /\ whole[pos + 3 + n + 2] = LF
    <3>1. \A k \in 1 .. Len(Blank) : Blank[k] = whole[pos + 3 + n + k]
      BY <1>7 DEF IsPiece
    <3>2. 1 \in 1 .. Len(Blank) /\ 2 \in 1 .. Len(Blank)
      BY BlankIs
    <3> QED
      BY <3>1, <3>2, BlankIs
  <2>2. n + 1 \in 1 .. Len(rest) /\ n + 2 \in 1 .. Len(rest)
    BY <1>7, <1>8
  <2>3. rest[n + 1] = whole[pos + 3 + (n + 1)] /\ rest[n + 2] = whole[pos + 3 + (n + 2)]
    BY <1>8, <2>2 DEF IsPiece
  <2>4. pos + 3 + (n + 1) = pos + 3 + n + 1 /\ pos + 3 + (n + 2) = pos + 3 + n + 2
    BY <1>4, <1>7
  <2> QED
    BY <2>1, <2>3, <2>4
<1>10. SubSeq(rest, 1, n) = o
  <2>1. n <= Len(rest)
    BY <1>7, <1>8
  <2>2. /\ SubSeq(rest, 1, n) \in Seq(Octet) /\ Len(SubSeq(rest, 1, n)) = n
        /\ IsPiece(SubSeq(rest, 1, n), whole, pos + 3)
    <3>1. pos + 3 \in Nat
      BY <1>4
    <3> QED
      BY <1>4, <1>7, <1>8, <2>1, <3>1, Foremost
  <2>3. IsPiece(SubSeq(rest, 1, n), o, 0) /\ Len(o) = n
    <3>1. Len(o) = n
      BY DEF n
    <3>2. Len(SubSeq(rest, 1, n)) <= Len(o)
      BY <1>7, <2>2, <3>1
    <3> QED
      BY <1>7, <2>2, <3>1, <3>2, Shorter, Zenon
  <2> QED
    BY <1>7, <2>2, <2>3, WholePiece
<1>11. body' = body \o o /\ data' = SubSeq(rest, n + 2 + 1, Len(rest)) /\ read' = read + n + 5
  <2>1. Len(rest) >= Size + 2 /\ rest[Size + 1] = CR /\ rest[Size + 2] = LF
    BY <1>7, <1>8, <1>9
  <2>2. /\ body' = body \o SubSeq(rest, 1, Size) /\ data' = SubSeq(rest, Size + 2 + 1, Len(rest))
        /\ read' = read + LineLength + 2 + Size + 2
    BY <2>1 DEF WholeChunk, rest
  <2>3. read + LineLength + 2 + Size + 2 = read + n + 5
    BY <1>4, <1>5, <1>7
  <2> QED
    BY <1>7, <1>10, <2>2, <2>3, Zenon
<1>12. /\ UNCHANGED <<stream, offer>>
       /\ UNCHANGED <<response, chunk, statusCode, header, headerRead, chunked, remaining, complete>>
  BY DEF WholeChunk, stream
<1>13. Windows' /\ here' = used + read' /\ Len(data') = Len(data) - (n + 5) /\ offered' = offered
  <2>1. n + 2 \in Nat /\ n + 2 <= Len(rest) /\ pos + 3 \in Nat
    BY <1>4, <1>7, <1>8
  <2>2. data' \in Seq(Octet) /\ Len(data') = Len(rest) - (n + 2) /\ IsPiece(data', whole, pos + 3 + (n + 2))
    <3>1. PICK q \in Nat : q = n + 2
      BY <2>1
    <3>2. PICK p \in Nat : p = pos + 3
      BY <2>1
    <3>3. rest \in Seq(Octet) /\ IsPiece(rest, whole, p) /\ q <= Len(rest) /\ data' = SubSeq(rest, q + 1, Len(rest))
      BY <1>8, <1>11, <2>1, <3>1, <3>2
    <3>4. data' \in Seq(Octet) /\ Len(data') = Len(rest) - q /\ IsPiece(data', whole, p + q)
      BY <1>4, <3>3, Left
    <3> QED
      BY <3>1, <3>2, <3>4
  <2>3. /\ n + 5 \in Nat /\ n + 5 <= Len(data) /\ Len(data') = Len(data) - (n + 5)
        /\ pos + 3 + (n + 2) = pos + (n + 5)
    BY <1>4, <1>7, <1>8, <2>2
  <2>4. read' \in Nat /\ chunk' \in Nat /\ read' <= offered - Len(data') /\ chunk' <= offered
    <3>1. read' = read + n + 5 /\ chunk' = 0
      BY <1>4, <1>11, <1>12
    <3>2. read \in Nat /\ offered \in Nat /\ Len(data) \in Nat /\ read = offered - Len(data) /\ n \in Nat
      BY <1>4, <1>7, Zenon
    <3> QED
      BY <2>3, <3>1, <3>2
  <2>5. PICK m \in Nat : m = n + 5
    BY <2>3
  <2>6. Windows' /\ here' = used + read'
    BY <1>1, <1>12, <2>2, <2>3, <2>4, <2>5, Takes
  <2> QED
    BY <1>12, <2>3, <2>6 DEF offer
<1>14. Places'
  <2>1. chunk' = 0 /\ read' = offered' - Len(data')
    <3>1. read' = read + n + 5 /\ chunk' = 0 /\ offered' = offered /\ Len(data') = Len(data) - (n + 5)
      BY <1>4, <1>11, <1>12, <1>13
    <3>2. read \in Nat /\ offered \in Nat /\ Len(data) \in Nat /\ read = offered - Len(data) /\ n \in Nat
      BY <1>4, <1>7, Zenon
    <3> QED
      BY <3>1, <3>2
  <2> QED
    BY <1>1, <2>1 DEF Places, PCs
<1>15. here' = At(response, i)
  BY <1>3, <1>4, <1>7, <1>11, <1>13 DEF here
<1>16. /\ body' = Upto(response.chunks, i) /\ body' \in Seq(Octet) /\ IsPiece(body', Body(response), 0)
  <2>1. response.chunks \in Seq(Seq(Octet)) /\ i \in 0 .. C
    BY <1>4, <1>6, ResponseIs
  <2>2. Upto(response.chunks, i) = Upto(response.chunks, i - 1) \o o
    BY <2>1, Pieces DEF o
  <2> QED
    BY <1>3, <1>6, <1>11, <2>1, <2>2, Pieces DEF Body
<1>17. (\E k \in 0 .. Len(response.chunks) : here = At(response, k) /\ body = Upto(response.chunks, k))'
  <2>1. i \in 0 .. C
    BY <1>6
  <2>2. At(response, i)' = At(response, i)
    BY <1>12 DEF At, Begins, Chunks
  <2> QED
    BY <1>12, <1>15, <1>16, <2>1, <2>2
<1>18. InChunks'
  BY <1>1, <1>2, <1>12, <1>17 DEF InChunks, AfterHeader, Told
<1>19. Parts'
  BY <1>1, <1>12, <1>16 DEF Parts
<1> QED
  BY <1>13, <1>14, <1>18, <1>19 DEF MessageInv, Stage

LEMMA LastChunkKeeps == ASSUME MessageInv, LastChunk PROVE MessageInv'
<1> DEFINE C == Len(response.chunks)
<1>1. Windows /\ Places /\ Stage /\ Parts /\ pc = "chunks" /\ pc' = "trailer" /\ HasLine /\ Size = 0
  BY DEF MessageInv, LastChunk
<1>2. InChunks
  BY <1>1 DEF Stage, AtStatus, InHeader, Undecided, ByLength, InTrailer, AllRead, Stuck
<1>3. PICK j \in 0 .. C : here = At(response, j) /\ body = Upto(response.chunks, j)
  BY <1>2 DEF InChunks
<1>4. /\ response \in Response /\ response.framing = "chunked" /\ C \in Nat /\ pos = here /\ chunk = 0
      /\ used \in Nat /\ read \in Nat /\ offered \in Nat /\ Len(data) \in Nat /\ read = offered - Len(data)
      /\ Len(response.trailer) \in Nat /\ Len(Top(response)) \in Nat
  BY <1>1, <1>2, Octets, Stands DEF Windows, Places, InChunks
<1>5. Len(data) >= 3 /\ LineLength = 1 /\ j = C
  BY <1>1, <1>3, <1>4, SizeRead
<1>6. /\ UNCHANGED <<stream, offer>> /\ UNCHANGED <<response, read, statusCode, header, chunked, remaining, body, complete>>
      /\ chunk' = 3 /\ data' = Drop(3) /\ headerRead' = FALSE
  BY <1>5 DEF LastChunk, stream
<1>7. Windows' /\ here' = here /\ Len(data') = Len(data) - 3 /\ offered' = offered
  <2>1. read' \in Nat /\ chunk' \in Nat /\ read' + chunk' <= offered - Len(data) + 3
    BY <1>4, <1>6
  <2>2. Windows' /\ here' = used + read' /\ Len(data') = Len(data) - 3 /\ offered' = offered
    BY <1>1, <1>5, <1>6, <2>1, TakesLine
  <2> QED
    BY <1>6, <2>2 DEF here
<1>8. Places'
  BY <1>1, <1>4, <1>6, <1>7 DEF Places, PCs
<1>9. InTrailer'
  <2>1. body = Body(response)
    BY <1>3, <1>4, <1>5, ResponseIs, Pieces DEF Body
  <2>2. Told(Len(Top(response)))'
    BY <1>2, <1>6 DEF InChunks, AfterHeader, Told
  <2>3. At(response, C)' = At(response, C)
    BY <1>6 DEF At, Begins, Chunks
  <2>4. (\E k \in 0 .. Len(response.trailer) : chunk = 3 + 3 * k /\ Told(Len(Top(response)) + k))'
    <3>1. 0 \in 0 .. Len(response.trailer) /\ 3 + 3 * 0 = 3 /\ Len(Top(response)) + 0 = Len(Top(response))
      BY <1>4
    <3>2. Told(Len(Top(response)) + 0)'
      BY <2>2, <3>1
    <3> QED
      BY <1>6, <3>1, <3>2
  <2> QED
    BY <1>1, <1>2, <1>3, <1>5, <1>6, <1>7, <2>1, <2>3, <2>4 DEF InTrailer, InChunks, AfterHeader
<1>10. Parts'
  BY <1>1, <1>6 DEF Parts
<1> QED
  BY <1>7, <1>8, <1>9, <1>10 DEF MessageInv, Stage

\* What comes next in the trailer.
LEMMA TrailerNext ==
    ASSUME Windows, response.framing = "chunked", NEW k \in 0 .. Len(response.trailer),
           pos = At(response, Len(response.chunks)) + 3 + 3 * k, HasLine
    PROVE  /\ k < Len(response.trailer) =>
                 Len(data) >= 3 /\ LineLength = 1 /\ TheLine = All(response)[Len(Top(response)) + k + 1]
           /\ k = Len(response.trailer) => Len(data) >= 2 /\ LineLength = 0
<1> DEFINE M == Len(Top(response))
           T == Len(response.trailer)
           e == At(response, Len(response.chunks))
<1>1. /\ response \in Response /\ whole \in Seq(Octet) /\ data \in Seq(Octet) /\ IsPiece(data, whole, pos)
      /\ M \in Nat /\ T \in Nat /\ Len(response.chunks) \in Nat
  BY Octets DEF Windows
<1>2. /\ \A i \in 1 .. T : IsPiece(Line(response.trailer[i]), whole, e + 3 * i)
      /\ IsPiece(Blank, whole, e + 3 + 3 * T) /\ e \in Nat
  <2>1. /\ \A i \in 1 .. T : IsPiece(Line(response.trailer[i]), Stream(response), e + 3 * i)
        /\ IsPiece(Blank, Stream(response), e + 3 + 3 * T)
        /\ \A j \in 0 .. Len(response.chunks) : At(response, j) \in Nat
    BY <1>1, ChunkedIs
  <2>2. Len(response.chunks) \in 0 .. Len(response.chunks)
    BY <1>1
  <2>3. e \in Nat
    BY <2>1, <2>2
  <2> QED
    BY <2>1, <2>3 DEF whole
<1>3. \A i \in 1 .. T : All(response)[M + i] = response.trailer[i] /\ response.trailer[i] \in Octet
  BY <1>1, AllIs, ResponseIs, ElementOfSeq
<1> HIDE DEF M, T, e
<1>4. ASSUME k < T PROVE Len(data) >= 3 /\ LineLength = 1 /\ TheLine = All(response)[M + k + 1]
  <2>1. PICK i \in 1 .. T : i = k + 1 /\ M + i = M + k + 1
    BY <1>1, <1>4
  <2>2. e + 3 * i = pos
    BY <1>1, <1>2, <2>1 DEF e
  <2>3. IsPiece(Line(response.trailer[i]), whole, pos)
    BY <1>2, <2>2
  <2>4. Len(data) >= 3 /\ LineLength = 1 /\ TheLine = response.trailer[i]
    BY <1>1, <1>3, <2>3, LineRead DEF HasLine, LineLength, TheLine
  <2> QED
    BY <1>3, <2>1, <2>4
<1>5. ASSUME k = T PROVE Len(data) >= 2 /\ LineLength = 0
  <2>1. IsPiece(Blank, whole, pos)
    BY <1>2, <1>5 DEF e
  <2> QED
    BY <1>1, <2>1, BlankRead DEF HasLine, LineLength
<1> QED
  BY <1>4, <1>5 DEF M, T

LEMMA TrailerKeeps == ASSUME MessageInv, Trailer PROVE MessageInv'
<1> DEFINE C == Len(response.chunks)
           M == Len(Top(response))
           T == Len(response.trailer)
           e == At(response, C)
<1>1. Windows /\ Places /\ Stage /\ Parts /\ pc = "trailer"
  BY DEF MessageInv, Trailer
<1>2. InTrailer
  BY <1>1 DEF Stage, AtStatus, InHeader, Undecided, ByLength, InChunks, AllRead, Stuck
<1>3. PICK k \in 0 .. T : chunk = 3 + 3 * k /\ Told(M + k)
  BY <1>2 DEF InTrailer
<1>4. /\ response \in Response /\ response.framing = "chunked" /\ C \in Nat /\ M \in Nat /\ T \in Nat
      /\ used \in Nat /\ read \in Nat /\ offered \in Nat /\ Len(data) \in Nat /\ chunk \in Nat
      /\ read + chunk = offered - Len(data) /\ here = e /\ body = Body(response) /\ e \in Nat
      /\ Len(All(response)) = M + T
  <2>1. here \in Nat /\ here = e
    BY <1>1, <1>2, Octets DEF InTrailer
  <2>2. /\ response \in Response /\ C \in Nat /\ M \in Nat /\ T \in Nat /\ used \in Nat /\ Len(data) \in Nat
    BY <1>1, Octets
  <2>3. read \in Nat /\ offered \in Nat /\ chunk \in Nat /\ read + chunk = offered - Len(data)
    BY <1>1, Octets DEF Windows, Places
  <2>4. response.framing = "chunked" /\ body = Body(response)
    BY <1>2 DEF InTrailer
  <2>5. Len(All(response)) = M + T
    BY <2>2, AllIs
  <2> QED
    BY <2>1, <2>2, <2>3, <2>4, <2>5
<1>5. pos = e + 3 + 3 * k
  <2>1. pos = used + (read + chunk)
    BY <1>4 DEF pos
  <2> QED
    BY <1>3, <1>4, <2>1 DEF here
<1>6. HasLine => /\ k < T => Len(data) >= 3 /\ LineLength = 1 /\ TheLine = All(response)[M + k + 1]
                 /\ k = T => Len(data) >= 2 /\ LineLength = 0
  BY <1>1, <1>4, <1>5, TrailerNext
<1>7. UNCHANGED <<stream, offer>> /\ UNCHANGED <<response, statusCode, chunked, remaining, body>>
  BY DEF Trailer, stream
<1>8. At(response, Len(response.chunks))' = e
  BY <1>7 DEF At, Begins, Chunks
<1> HIDE DEF C, M, T, e
<1>9. CASE Field /\ chunk' = chunk + LineLength + 2 /\ UNCHANGED <<read, complete, pc>>
  <2>1. /\ HasLine /\ k < T /\ LineLength = 1 /\ Len(data) >= 3 /\ TheLine = All(response)[M + k + 1]
        /\ data' = Drop(3) /\ headerRead' = headerRead
    BY <1>4, <1>6, <1>9 DEF Field
  <2>2. read' = read /\ chunk' = chunk + 3
    BY <1>4, <1>9, <2>1
  <2>3. read' \in Nat /\ chunk' \in Nat /\ read' + chunk' <= offered - Len(data) + 3
    BY <1>4, <2>2
  <2>4. Windows' /\ here' = used + read' /\ Len(data') = Len(data) - 3 /\ offered' = offered
    BY <1>1, <1>4, <1>7, <2>1, <2>3, TakesLine
  <2>5. here' = e
    BY <1>4, <2>2, <2>4 DEF here
  <2>6. PICK m \in 0 .. T : m = k + 1 /\ M + m = M + k + 1
    BY <1>4, <2>1
  <2>7. chunk' = 3 + 3 * m
    BY <1>3, <2>2, <2>6
  <2>8. Told(M + m)'
    <3>1. PICK n \in Nat : n = M + k
      BY <1>4
    <3>a. M' = M /\ M' + m = n + 1
      BY <1>4, <1>7, <2>6, <3>1 DEF M
    <3>2. n + 1 <= Len(All(response)) /\ Len(All(response)) \in Nat /\ n + 1 = M + m
      BY <1>4, <2>1, <2>6, <3>1
    <3>3. Told(n) /\ TheLine = All(response)[n + 1] /\ HasLine /\ Field /\ UNCHANGED response
      BY <1>3, <1>7, <1>9, <2>1, <3>1
    <3>4. Told(n + 1)'
      BY <3>1, <3>2, <3>3, Tells
    <3> QED
      BY <3>a, <3>4
  <2>9. (\E i \in 0 .. Len(response.trailer) : chunk = 3 + 3 * i /\ Told(Len(Top(response)) + i))'
    BY <1>7, <2>6, <2>7, <2>8 DEF M, T
  <2>10. InTrailer'
    BY <1>1, <1>2, <1>4, <1>7, <1>8, <1>9, <2>1, <2>5, <2>9 DEF InTrailer
  <2>11. Places'
    BY <1>1, <1>4, <1>9, <2>2, <2>4 DEF Places
  <2>12. Parts'
    <3>1. DOMAIN header' = DOMAIN header \cup {TheLine[1]}
      BY <1>9 DEF Field
    <3>2. TheLine[1] \in Names \cup {"length", "coding"}
      <4>1. M + k + 1 \in 1 .. Len(All(response))
        BY <1>4, <2>1
      <4> QED
        BY <1>4, <2>1, <4>1, NamesAll
    <3> QED
      BY <1>1, <1>7, <1>9, <2>1, <3>1, <3>2 DEF Parts
  <2> QED
    BY <2>4, <2>10, <2>11, <2>12 DEF MessageInv, Stage
<1>10. CASE EmptyLine /\ UNCHANGED chunk /\ read' = read + OfLastChunk /\ complete' = TRUE /\ pc' = "return"
  <2>1. /\ HasLine /\ k = T /\ LineLength = 0 /\ Len(data) >= 2 /\ data' = Drop(2)
        /\ headerRead' = TRUE /\ header' = header
    BY <1>4, <1>6, <1>10 DEF EmptyLine
  <2>2. read' = read + chunk + 2 /\ chunk' = chunk
    BY <1>4, <1>10 DEF OfLastChunk
  <2>3. read' \in Nat /\ Len(data) - 2 \in Nat /\ offered - (Len(data) - 2) = read + chunk + 2
    BY <1>4, <2>1, <2>2
  <2>4. Windows' /\ here' = used + read' /\ whole' = whole
    <3>1. /\ data \in Seq(Octet) /\ whole \in Seq(Octet) /\ pos \in Nat /\ IsPiece(data, whole, pos) /\ 2 \in Nat
          /\ chunk <= offered
      BY <1>1, Octets DEF Windows
    <3>2. data' \in Seq(Octet) /\ Len(data') = Len(data) - 2 /\ IsPiece(data', whole, pos + 2)
      BY <2>1, <3>1, Left DEF Drop
    <3>3. read' <= offered - Len(data') /\ chunk' \in Nat /\ chunk' <= offered
      BY <1>4, <2>2, <2>3, <3>1, <3>2
    <3> QED
      BY <1>1, <1>7, <2>1, <2>3, <3>1, <3>2, <3>3, Takes
  <2>5. here' = Len(whole)
    <3>1. Len(whole) = e + 3 + 3 * T + 2
      BY <1>4, ChunkedIs DEF whole, e, C, T
    <3>2. here' = used + read + chunk + 2
      BY <1>4, <2>2, <2>4
    <3> QED
      BY <1>3, <1>4, <2>1, <3>1, <3>2 DEF here
  <2>6. Told(Len(All(response)))'
    <3>1. Told(Len(All(response)))
      BY <1>3, <1>4, <2>1
    <3> QED
      BY <1>7, <2>1, <3>1 DEF Told
  <2>7. AllRead'
    BY <1>2, <1>4, <1>7, <1>10, <2>1, <2>4, <2>5, <2>6 DEF AllRead, InTrailer
  <2>8. Places'
    BY <1>10 DEF Places, PCs
  <2>9. Parts'
    BY <1>1, <1>7, <1>10, <2>1 DEF Parts
  <2> QED
    BY <2>4, <2>7, <2>8, <2>9 DEF MessageInv, Stage
<1>11. CASE ~HasLine /\ headerRead' = TRUE /\ pc' = "return" /\ UNCHANGED <<data, header, read, chunk, complete>>
  <2>1. UNCHANGED view
    BY <1>11 DEF view
  <2>2. Windows' /\ here' = here
    BY <1>1, <1>7, <2>1, WindowsSame
  <2>3. AfterHeader'
    <3>1. M + k \in Nat /\ M <= M + k
      BY <1>4
    <3>2. Told(M)
      BY <1>3, <1>4, <3>1, Retold
    <3> QED
      BY <1>2, <1>7, <1>11, <3>2 DEF AfterHeader, Told, M, InTrailer
  <2>4. (\E j \in 0 .. Len(response.chunks) : here = At(response, j) /\ body = Upto(response.chunks, j))'
    <3>1. C \in 0 .. C
      BY <1>4
    <3>2. body = Upto(response.chunks, C)
      BY <1>4, ResponseIs, Pieces DEF Body, C
    <3> QED
      BY <1>4, <1>7, <1>8, <2>2, <3>1, <3>2 DEF C
  <2>5. InChunks'
    BY <1>2, <1>7, <1>11, <2>3, <2>4 DEF InChunks, InTrailer
  <2>6. Places'
    BY <1>11 DEF Places, PCs
  <2>7. Parts'
    BY <1>1, <1>7, <1>11 DEF Parts
  <2> QED
    BY <2>2, <2>5, <2>6, <2>7 DEF MessageInv, Stage
<1> QED
  BY <1>9, <1>10, <1>11 DEF Trailer

-----------------------------------------------------------------------------
LEMMA MessageInit == Init => MessageInv
<1> SUFFICES ASSUME Init PROVE MessageInv
  OBVIOUS
<1>1. response \in Responses /\ response \in Response /\ SizeMax \in Nat
  BY MessageAssumption DEF Init
<1>2. whole \in Seq(Octet) /\ Len(whole) \in Nat /\ sent = whole
  BY <1>1, RestIs, StreamIs, LenProperties DEF whole, Init
<1>3. /\ buffer = <<>> /\ data = <<>> /\ declined = 0 /\ offered = 0 /\ read = 0 /\ chunk = 0
      /\ statusCode = -1 /\ header = <<>> /\ headerRead = FALSE /\ chunked = FALSE /\ remaining = -1
      /\ body = <<>> /\ complete = FALSE /\ pc = "idle"
  BY DEF Init
<1>4. <<>> \in Seq(Octet) /\ Len(<<>>) = 0
  OBVIOUS
<1>5. used = 0 /\ pos = 0 /\ here = 0 /\ used + Len(buffer) = 0
  <2>1. Len(buffer) = 0 /\ Len(data) = 0 /\ Len(sent) = Len(whole) /\ offered = 0 /\ read = 0
    BY <1>2, <1>3, <1>4, Zenon
  <2>2. used = 0
    BY <1>2, <2>1 DEF used
  <2> QED
    BY <2>1, <2>2 DEF pos, here
<1>6. IsPiece(<<>>, whole, 0) /\ IsPiece(whole, whole, 0)
  BY <1>2, <1>4 DEF IsPiece
<1>7. Windows
  BY <1>1, <1>2, <1>3, <1>4, <1>5, <1>6 DEF Windows
<1>8. Places
  BY <1>3 DEF Places, PCs
<1>9. DOMAIN header = {} /\ header = [f \in {} |-> header[f]]
  BY <1>3
<1>10. AtStatus
  BY <1>3, <1>5, <1>9 DEF AtStatus, Told, Bodiless
<1>11. Parts
  <2>1. IsPiece(<<>>, Body(response), 0)
    <3>1. Len(Body(response)) \in Nat
      BY <1>1, ResponseIs, LenProperties
    <3> QED
      BY <1>4, <3>1 DEF IsPiece
  <2> QED
    <3>1. remaining \in -1 .. SizeMax
      BY <1>1, <1>3
    <3>2. body \in Seq(Octet) /\ IsPiece(body, Body(response), 0)
      BY <1>3, <1>4, <2>1, Zenon
    <3> QED
      BY <1>3, <1>9, <3>1, <3>2 DEF Parts
<1> QED
  BY <1>7, <1>8, <1>10, <1>11 DEF MessageInv, Stage

LEMMA MessageSame == ASSUME MessageInv, UNCHANGED vars PROVE MessageInv'
<1>1. /\ Windows /\ Places /\ Stage /\ Parts /\ UNCHANGED <<stream, offer, view>>
      /\ UNCHANGED <<response, chunk, message, pc>>
      /\ UNCHANGED <<statusCode, header, headerRead, chunked, remaining, body, complete>>
  BY DEF MessageInv, vars, stream, view, message
<1>2. Windows' /\ here' = here /\ whole' = whole
  BY <1>1, WindowsSame
<1>3. Places' /\ Parts'
  BY <1>1 DEF Places, Parts, offer, view
<1>4. CASE pc \in {"trailer", "spinning"}
  <2>1. InTrailer \/ Stuck
    BY <1>1, <1>4 DEF Stage, AtStatus, InHeader, Undecided, ByLength, InChunks, AllRead
  <2>2. InTrailer => InTrailer'
    BY <1>1, <1>2 DEF InTrailer, Told, At, Begins, Chunks
  <2>3. Stuck => Stuck'
    BY <1>1 DEF Stuck
  <2> QED
    BY <1>2, <1>3, <2>1, <2>2, <2>3 DEF MessageInv, Stage
<1>5. CASE pc \notin {"trailer", "spinning"}
  <2>1. AfterHeader' = AfterHeader /\ Bodiless' = Bodiless
    BY <1>1 DEF AfterHeader, Bodiless, Told
  <2>2. AtStatus \/ InHeader \/ Undecided \/ ByLength \/ InChunks \/ AllRead
    BY <1>1, <1>5 DEF Stage, InTrailer, Stuck
  <2>3. (AtStatus => AtStatus') /\ (InHeader => InHeader')
    BY <1>1, <1>2, <2>1 DEF AtStatus, InHeader, Told
  <2>4. (Undecided => Undecided') /\ (ByLength => ByLength')
    BY <1>1, <1>2, <2>1 DEF Undecided, ByLength, Begins
  <2>5. (InChunks => InChunks') /\ (AllRead => AllRead')
    BY <1>1, <1>2, <2>1 DEF InChunks, AllRead, At, Begins, Chunks, Told
  <2> QED
    BY <1>2, <1>3, <2>2, <2>3, <2>4, <2>5 DEF MessageInv, Stage
<1> QED
  BY <1>4, <1>5

LEMMA ReceiveKeeps == ASSUME MessageInv, Receive PROVE MessageInv'
<1>1. CASE \E n \in 1 .. Len(sent) : Arrive(n)
  BY <1>1, ArriveKeeps
<1>2. CASE Offers
  BY <1>2, OfferKeeps DEF Offers
<1>3. CASE Return
  BY <1>3, ReturnKeeps
<1>4. CASE \E at \in {"status", "header", "chunks"} : NoLine(at)
  BY <1>4, NoLineKeeps
<1>5. CASE process_status \/ process_header \/ MalformedHeader
  BY <1>5, StatusKeeps, HeaderKeeps, MalformedKeeps
<1>6. CASE check_body_type \/ read_body
  BY <1>6, BodyTypeKeeps, ReadBodyKeeps
<1>7. CASE WholeChunk \/ PartialChunk \/ LastChunk \/ Trailer
  BY <1>7, WholeChunkKeeps, PartialKeeps, LastChunkKeeps, TrailerKeeps
<1> QED
  BY <1>1, <1>2, <1>3, <1>4, <1>5, <1>6, <1>7 DEF Receive, process

LEMMA MessageInvHolds == Spec => []MessageInv
<1>1. ClientInit => MessageInv
  BY MessageInit DEF ClientInit
<1>2. MessageInv /\ [Next]_allVars => MessageInv'
  <2> SUFFICES ASSUME MessageInv, [Next]_allVars PROVE MessageInv'
    OBVIOUS
  <2>1. CASE Receive
    BY <2>1, ReceiveKeeps
  <2>2. CASE UNCHANGED vars
    BY <2>2, MessageSame
  <2> QED
    BY <2>1, <2>2 DEF Next, ClientStep, Running, ResponseStep, allVars
<1> QED
  BY <1>1, <1>2, PTL DEF Spec

\* However the response is cut, and whatever is offered twice, what process() has put in the body is
\* what the server sent of it, in order and once.
THEOREM BodyIsPrefixHolds == Spec => []BodyIsPrefix
<1>1. ASSUME MessageInv PROVE BodyIsPrefix
  <2>1. /\ body \in Seq(Octet) /\ IsPiece(body, Body(response), 0) /\ Body(response) \in Seq(Octet)
        /\ Len(body) \in Nat /\ Len(Body(response)) \in Nat
    BY <1>1, Octets, ResponseIs, LenProperties DEF MessageInv, Parts
  <2>2. Len(body) <= Len(Body(response))
    BY <2>1 DEF IsPiece
  <2>3. /\ SubSeq(Body(response), 1, Len(body)) \in Seq(Octet)
        /\ Len(SubSeq(Body(response), 1, Len(body))) = Len(body)
        /\ IsPiece(SubSeq(Body(response), 1, Len(body)), Body(response), 0)
    <3>1. IsPiece(Body(response), Body(response), 0) /\ 0 \in Nat
      BY <2>1 DEF IsPiece
    <3> QED
      BY <2>1, <2>2, <3>1, Foremost
  <2>4. SubSeq(body, 1, Len(body)) = body
    BY <2>1, SubSeqFull
  <2>5. SubSeq(Body(response), 1, Len(body)) = body
    <3>1. IsPiece(SubSeq(Body(response), 1, Len(body)), body, 0)
      <4> PICK first \in Seq(Octet) : first = SubSeq(Body(response), 1, Len(body))
        BY <2>3
      <4>1. IsPiece(first, Body(response), 0) /\ Len(first) <= Len(body)
        BY <2>1, <2>3
      <4>2. body \in Seq(Octet) /\ IsPiece(body, Body(response), 0)
        BY <2>1
      <4>3. IsPiece(first, body, 0)
        BY <4>1, <4>2, Shorter
      <4> QED
        BY <4>3
    <3> QED
      BY <2>1, <2>3, <3>1, WholePiece
  <2> QED
    BY <2>2, <2>4, <2>5 DEF BodyIsPrefix, IsPrefix
<1> QED
  BY <1>1, MessageInvHolds, PTL

\* What is complete has been read to the end.
LEMMA CompleteIs ==
    ASSUME MessageInv, complete, response.framing = "none" => Body(response) = <<>>
    PROVE  /\ statusCode = 200 /\ Told(Len(All(response))) /\ body = Body(response)
           /\ here = Len(whole) /\ pc \in {"idle", "return"}
<1>1. Windows /\ Stage /\ Parts
  BY DEF MessageInv
<1>2. ByLength \/ AllRead
  BY <1>1 DEF Stage, AtStatus, InHeader, Undecided, InChunks, InTrailer, Stuck, Bodiless
<1>3. CASE ByLength
  <2>1. /\ AfterHeader /\ response.framing \in {"length", "none"} /\ pc \in {"idle", "return"}
        /\ 0 = (IF response.framing = "length" THEN Len(Body(response)) ELSE 0) - Len(body)
        /\ here = Begins(response) + Len(body)
    BY <1>3 DEF ByLength
  <2>2. /\ response \in Response /\ Proper(response) /\ body \in Seq(Octet) /\ Body(response) \in Seq(Octet)
        /\ Len(body) \in Nat /\ Len(Body(response)) \in Nat /\ IsPiece(body, Body(response), 0)
    BY <1>1, Octets, ResponseIs, LenProperties DEF Parts
  <2>3. Len(body) = Len(Body(response))
    <3>1. response.framing = "none" => Len(Body(response)) = 0
      OBVIOUS
    <3> QED
      BY <2>1, <2>2, <3>1
  <2>4. body = Body(response)
    BY <2>2, <2>3, WholePiece
  <2>5. here = Len(whole)
    <3>1. Len(whole) = Begins(response) + Len(Body(response))
      BY <2>1, <2>2, RestIs, StreamIs DEF whole, Rest
    <3> QED
      BY <2>1, <2>3, <3>1
  <2>6. Len(All(response)) = Len(Top(response))
    <3>1. response.trailer = <<>>
      BY <2>1, <2>2 DEF Proper
    <3>2. Len(response.trailer) = 0
      BY <3>1
    <3> QED
      BY <2>2, <3>2, AllIs
  <2> QED
    BY <2>1, <2>4, <2>5, <2>6 DEF AfterHeader
<1>4. CASE AllRead
  BY <1>4 DEF AllRead
<1> QED
  BY <1>2, <1>3, <1>4

\* When process() says that the message is complete, it is the response, fields and trailer and body,
\* and nothing of it is left in the buffer or to come: whatever the framing, unless the response has
\* a body and does not say how it ends, which the code takes for none.
THEOREM WholeMessageHolds ==
    ASSUME \A r \in Responses : r.framing = "none" => Body(r) = <<>>
    PROVE  Spec => []WholeMessage
<1>1. ASSUME MessageInv PROVE WholeMessage
  <2> SUFFICES ASSUME complete
               PROVE  /\ statusCode = 200 /\ header = Header(response) /\ body = Body(response)
                      /\ pc = "idle" => buffer \o sent = <<>>
    BY DEF WholeMessage
  <2>1. Windows /\ Places /\ response \in Responses
    BY <1>1 DEF MessageInv, Windows
  <2>2. /\ statusCode = 200 /\ Told(Len(All(response))) /\ body = Body(response) /\ here = Len(whole)
    BY <1>1, <2>1, CompleteIs
  <2>3. header = Header(response)
    BY <2>1, <2>2, HeaderIs
  <2>4. ASSUME pc = "idle" PROVE buffer \o sent = <<>>
    <3>1. /\ used + Len(buffer) + Len(sent) = Len(whole) /\ read = 0 /\ used \in Nat
          /\ Len(buffer) \in Nat /\ Len(sent) \in Nat /\ buffer \in Seq(Octet) /\ sent \in Seq(Octet)
      BY <2>1, <2>4, Octets DEF Places, Windows
    <3>2. Len(buffer) = 0 /\ Len(sent) = 0
      BY <2>2, <3>1 DEF here
    <3>3. buffer = <<>> /\ sent = <<>>
      BY <3>1, <3>2, EmptySeq
    <3> QED
      BY <3>3
  <2> QED
    BY <2>2, <2>3, <2>4
<1> QED
  BY <1>1, MessageInvHolds, PTL

-----------------------------------------------------------------------------
(* The attempts.                                                           *)

States == {"none"} \cup Waiting \cup Ended

Shape == /\ exchange \in Exchanges /\ phase \in Phases
         /\ attempt \in [Families -> States]
         /\ registered \subseteq Families /\ session \in Families \cup {"none"}
         /\ closed \subseteq Families /\ removing \subseteq closed /\ thrown \in BOOLEAN

\* An attempt is in the loop from when it is a session until that closes, if not longer; and what a race
\* was won with is a session.
Sessions == /\ \A f \in Families : f \in registered => attempt[f] = "session"
            /\ \A f \in Families : attempt[f] = "session" => f \in registered \/ f \in closed
            /\ session # "none" => attempt[session] = "session"
            /\ phase \in {"response", "done"} => session # "none"

\* What may still come to something is raced; as soon as it is a session the race is over, so that it
\* cannot close before the request is sent.
Racing == phase \in {"race6", "race4"}
Raced == /\ Racing => raced = ToSet(attempts)
         /\ Racing => \A f \in Families : attempt[f] \in Waiting \cup {"session"} => f \in raced
         /\ Racing /\ dummy # "done" => \A f \in Families : attempt[f] # "session"
         /\ phase = "second" => \A f \in Families : attempt[f] \in Waiting => f \in ToSet(attempts)
         /\ phase = "second" /\ session = "none" => \A f \in Families : attempt[f] # "session"
         /\ \A f \in closed : attempt[f] = "session" => phase \in {"response", "undefined"} \cup Finished

\* An attempt is started once; IPv4 is not before the second race, and nothing comes after that
\* without it unless there is a session.
Tried == /\ phase = "lookup" => attempt["v6"] = "none"
         /\ phase # "lookup" /\ exchange.addresses["v6"] > 0 => attempt["v6"] # "none"
         /\ phase \in {"lookup", "race6", "second"} => attempt["v4"] = "none"
         /\ phase \in {"race4", "request", "failed"} /\ session = "none"
               /\ exchange.addresses["v4"] > 0 => attempt["v4"] # "none"
         /\ phase \in {"lookup", "race6", "race4", "failed"} => session = "none"

Inv == Shape /\ Sessions /\ Raced /\ Tried

-----------------------------------------------------------------------------
LEMMA InvInit == ClientInit => Inv
<1> SUFFICES ASSUME ClientInit PROVE Inv
  OBVIOUS
<1>1. Shape
  BY DEF ClientInit, Shape, States, Phases
<1>2. Sessions
  BY DEF ClientInit, Sessions, Families
<1>3. Raced
  BY DEF ClientInit, Raced, Racing
<1>4. Tried
  BY DEF ClientInit, Tried, Families
<1> QED
  BY <1>1, <1>2, <1>3, <1>4 DEF Inv

\* What connect() does to its task when it is resumed: the task was suspended before.
LEMMA MovesKeeps ==
    ASSUME Inv, NEW f \in Families, NEW now \in States \ {"none"}, Suspended, attempt[f] \in Waiting,
           Moves(f, now), f \notin closed, UNCHANGED closing
    PROVE  Inv'
<1>1. Shape'
  BY DEF Inv, Shape, Moves, asked, closing, States
<1>2. attempt[f] \notin {"none", "session"}
  BY DEF Waiting
<1>3. /\ UNCHANGED <<phase, attempts, raced, session, closed>>
      /\ \A g \in Families : attempt'[g] = IF g = f THEN now ELSE attempt[g]
      /\ registered' = IF now = "session" THEN registered \cup {f} ELSE registered
      /\ dummy' = IF now \in Ended /\ f \in raced THEN "done" ELSE dummy
  BY DEF Moves, Inv, Shape, closing
<1>4. Sessions'
  BY <1>2, <1>3 DEF Inv, Shape, Sessions
<1>5. Raced'
  <2>1. (Racing <=> Racing') /\ phase # "second"
    BY <1>3 DEF Racing, Suspended
  <2>2. Racing => raced' = ToSet(attempts')
    BY <1>3 DEF Inv, Raced
  <2>3. Racing => \A g \in Families : attempt'[g] \in Waiting \cup {"session"} => g \in raced'
    BY <1>3 DEF Inv, Raced
  <2>4. ASSUME Racing, dummy' # "done" PROVE \A g \in Families : attempt'[g] # "session"
    <3>1. dummy # "done" /\ f \in raced
      BY <2>4, <1>3 DEF Suspended, Inv, Raced
    <3>2. now # "session"
      BY <2>4, <1>3, <3>1 DEF Ended
    <3> QED
      BY <2>4, <1>3, <3>1, <3>2 DEF Inv, Raced
  <2>5. \A g \in closed' : attempt'[g] = "session" => phase' \in {"response", "undefined"} \cup Finished
    BY <1>3 DEF Inv, Raced, Shape
  <2> QED
    BY <1>3, <2>1, <2>2, <2>3, <2>4, <2>5 DEF Raced
<1>6. Tried'
  BY <1>2 DEF Inv, Shape, Tried, Moves, asked, Suspended, Families
<1> QED
  BY <1>1, <1>4, <1>5, <1>6 DEF Inv

\* A race that starts one attempt, or only waits for what was started.
LEMMA RaceKeepsShape ==
    ASSUME Inv, NEW list, NEW fresh \in Families \cup {"none"}, NEW race \in Phases, NEW after \in Phases,
           fresh # "none" => attempt[fresh] = "none", Race(list, fresh, race, after), UNCHANGED closing
    PROVE  /\ Shape' /\ phase' \in {race, after, "threw"}
           /\ \A f \in Families : f # fresh => attempt'[f] = attempt[f]
           /\ fresh # "none" => attempt'[fresh] \notin {"none", "session"}
           /\ \A f \in Families : attempt'[f] = "session" <=> attempt[f] = "session"
<1>1. CASE fresh = "none"
  BY <1>1 DEF Race, Inv, Shape, asked, closing, Families, Phases, Finished
<1>2. CASE fresh # "none"
  <2>1. PICK n \in 0 .. exchange.addresses[fresh] : Starts(fresh, n)
    BY <1>2 DEF Race
  <2>2. /\ attempt' \in [Families -> States] /\ attempt'[fresh] \notin {"none", "session"}
        /\ \A f \in Families : f # fresh => attempt'[f] = attempt[f]
    BY <1>2, <2>1 DEF Starts, Inv, Shape, States, Waiting, Ended
  <2>3. /\ phase' \in {race, after, "threw"}
        /\ exchange' = exchange /\ registered' = registered /\ session' = session
    BY DEF Race, asked
  <2>4. Shape'
    BY <2>2, <2>3 DEF Inv, Shape, closing, Phases, Finished
  <2> QED
    BY <1>2, <2>2, <2>3, <2>4
<1> QED
  BY <1>1, <1>2

\* What was waiting is in the list that is raced, and what is started is added to it.
LEMMA RaceKeepsRaced ==
    ASSUME Inv, NEW list, NEW fresh \in Families \cup {"none"}, NEW race \in {"race6", "race4"},
           NEW after \in {"second", "request"}, fresh # "none" => attempt[fresh] = "none",
           Race(list, fresh, race, after), UNCHANGED closing,
           fresh # "none" => fresh \in ToSet(list), after = "second" => \A f \in Families : f # fresh => attempt[f] = "none",
           \A f \in Families : attempt[f] # "session",
           \A f \in Families : attempt[f] \in Waiting => f \in ToSet(list)
    PROVE  Raced'
<1>1. /\ phase' \in {race, after, "threw"}
      /\ \A f \in Families : f # fresh => attempt'[f] = attempt[f]
      /\ \A f \in Families : attempt'[f] # "session"
  BY RaceKeepsShape DEF Phases, Finished
<1>2. attempts' = list /\ closed' = closed
  BY DEF Race, closing
<1>3. CASE fresh # "none" /\ attempt'[fresh] \in Ended
  <2>1. phase' \in {after, "threw"}
    BY <1>3 DEF Race
  <2>2. after = "second" => \A f \in Families : attempt'[f] \notin Waiting
    BY <1>1, <1>3 DEF Ended, Waiting
  <2> QED
    BY <1>1, <1>2, <2>1, <2>2 DEF Raced, Racing, Inv, Shape
<1>4. CASE ~(fresh # "none" /\ attempt'[fresh] \in Ended)
  <2>1. phase' = race /\ raced' = ToSet(list)
    BY <1>4 DEF Race
  <2>2. ASSUME NEW f \in Families, attempt'[f] \in Waiting PROVE f \in ToSet(list)
    <3>1. CASE f = fresh
      BY <3>1 DEF Families
    <3>2. CASE f # fresh
      BY <1>1, <2>2, <3>2
    <3> QED
      BY <3>1, <3>2
  <2> QED
    BY <1>1, <1>2, <2>1, <2>2 DEF Raced, Racing, Inv, Shape
<1> QED
  BY <1>3, <1>4

LEMMA OneInList == ToSet(<<"v6">>) = {"v6"}
  BY DEF ToSet

LEMMA LookupKeeps == ASSUME Inv, Lookup, UNCHANGED closing PROVE Inv'
<1>1. phase = "lookup" /\ attempt["v6"] = "none" /\ attempt["v4"] = "none" /\ session = "none"
  BY DEF Lookup, Inv, Tried
<1>2. CASE exchange.addresses["v6"] > 0
  <2>1. Race(<<"v6">>, "v6", "race6", "second")
    BY <1>2 DEF Lookup
  <2>2. /\ Shape' /\ phase' \in {"race6", "second", "threw"}
        /\ \A f \in Families : f # "v6" => attempt'[f] = attempt[f]
        /\ attempt'["v6"] \notin {"none", "session"}
        /\ \A f \in Families : attempt'[f] = "session" <=> attempt[f] = "session"
    BY <1>1, <2>1, RaceKeepsShape DEF Families, Phases
  <2>3. UNCHANGED <<exchange, session, registered, closed>>
    BY <2>1 DEF Race, asked, closing
  <2>4. Raced'
    BY <1>1, <2>1, OneInList, RaceKeepsRaced DEF Families, Waiting
  <2>5. Sessions' /\ Tried'
    BY <1>1, <2>2, <2>3 DEF Inv, Sessions, Tried, Families
  <2> QED
    BY <2>2, <2>4, <2>5 DEF Inv
<1>3. CASE ~(exchange.addresses["v6"] > 0)
  <2>1. phase' = "second" /\ UNCHANGED <<exchange, attempts, attempt, raced, session, registered, closed, removing, thrown>>
    BY <1>3 DEF Lookup, connection, asked, closing
  <2>2. \A f \in Families : attempt'[f] = "none"
    BY <1>1, <2>1 DEF Families
  <2>3. closed' \subseteq Families /\ ~Racing'
    BY <2>1 DEF Inv, Shape, Racing
  <2>a. Raced'
    BY <2>1, <2>2, <2>3 DEF Raced, Waiting
  <2> QED
    BY <2>a, <1>1, <1>3, <2>1, <2>2 DEF Inv, Shape, Sessions, Tried, Phases
<1> QED
  BY <1>2, <1>3

LEMMA RaceResumesKeeps ==
    ASSUME Inv, Race6Ends \/ Race4Ends, UNCHANGED closing
    PROVE  Inv'
<1>1. PICK after \in {"second", "request"} :
        RaceResumes(after) /\ <<phase, after>> \in {<<"race6", "second">>, <<"race4", "request">>}
  BY DEF Race6Ends, Race4Ends
<1>2. session = "none"
  BY <1>1 DEF Inv, Tried
<1>3. UNCHANGED <<exchange, attempts, attempt, registered, closed, removing, thrown>>
  BY <1>1 DEF RaceResumes, asked, closing
<1>4. \/ session' = session /\ phase' \in {after, "threw"}
      \/ session' \in Families /\ attempt[session'] = "session" /\ phase' = after
  BY <1>1 DEF RaceResumes, Accepted
<1>5. Shape'
  BY <1>1, <1>3, <1>4 DEF Inv, Shape, Phases, Finished
<1>6. Sessions'
  BY <1>1, <1>2, <1>3, <1>4 DEF Inv, Shape, Sessions, Families
<1>7. Raced'
  <2>1. Racing /\ raced = ToSet(attempts)
    BY <1>1 DEF Inv, Raced, Racing
  <2>2. \A f \in Families : attempt[f] \in Waiting \cup {"session"} => f \in ToSet(attempts)
    BY <2>1 DEF Inv, Raced
  <2>3. phase' \in {"second", "request", "threw"}
    BY <1>4
  <2>4. ASSUME phase' = "second", session' = "none" PROVE \A f \in Families : attempt[f] # "session"
    <3>1. \A i \in DOMAIN attempts : ~Decides(attempts[i])
      BY <1>1, <2>4 DEF RaceResumes, Families
    <3> QED
      BY <2>2, <3>1 DEF Decides, Accepted, ToSet
  <2>5. \A f \in closed : attempt[f] # "session"
    BY <2>1 DEF Inv, Raced, Racing, Finished
  <2> QED
    BY <1>3, <2>2, <2>3, <2>4, <2>5 DEF Raced, Racing
<1>8. Tried'
  BY <1>1, <1>2, <1>3, <1>4 DEF Inv, Tried, Families
<1> QED
  BY <1>5, <1>6, <1>7, <1>8 DEF Inv

\* A list to which one attempt is added.
LEMMA AddedTo ==
    ASSUME NEW list \in Seq(Families), Len(list) <= 1
    PROVE  ToSet(list \o <<"v4">>) = ToSet(list) \cup {"v4"}
<1> DEFINE all == list \o <<"v4">>
<1>1. /\ Len(list) \in Nat /\ DOMAIN list = 1 .. Len(list) /\ Len(all) = Len(list) + 1
      /\ DOMAIN all = 1 .. Len(list) + 1
  BY DEF Families
<1>2. all[Len(list) + 1] = "v4" /\ \A i \in 1 .. Len(list) : all[i] = list[i]
  BY DEF Families
<1> HIDE DEF all
<1>3. CASE Len(list) = 0
  <2>1. DOMAIN all = {1} /\ DOMAIN list = {} /\ all[1] = "v4"
    BY <1>1, <1>2, <1>3
  <2> QED
    BY <2>1 DEF ToSet, all
<1>4. CASE Len(list) = 1
  <2>1. DOMAIN all = {1, 2} /\ DOMAIN list = {1} /\ all[1] = list[1] /\ all[2] = "v4"
    BY <1>1, <1>2, <1>4
  <2>2. ToSet(all) = {list[1], "v4"} /\ ToSet(list) = {list[1]}
    BY <2>1 DEF ToSet
  <2> QED
    BY <2>2 DEF all
<1> QED
  BY <1>1, <1>3, <1>4

LEMMA SecondRaceKeeps ==
    ASSUME Inv, SecondRace, UNCHANGED closing, attempts \in Seq(Families), Len(attempts) <= 1
    PROVE  Inv'
<1>1. phase = "second" /\ attempt["v4"] = "none" /\ session = "none"
  BY DEF SecondRace, Inv, Tried
<1> DEFINE kept == IF attempts # <<>> /\ attempt[Last(attempts)] \in Ended THEN <<>> ELSE attempts
<1>a. PICK fresh \in {"v4", "none"} :
        /\ Race(IF fresh = "v4" THEN kept \o <<"v4">> ELSE kept, fresh, "race4", "request")
        /\ exchange.addresses["v4"] > 0 => fresh = "v4"
  <2>1. \/ Race(kept \o <<"v4">>, "v4", "race4", "request")
        \/ Race(kept, "none", "race4", "request") /\ ~(exchange.addresses["v4"] > 0)
    BY DEF SecondRace, Joins
  <2> QED
    BY <2>1
<1>b. PICK list : list = IF fresh = "v4" THEN kept \o <<"v4">> ELSE kept
  OBVIOUS
<1>2. Race(list, fresh, "race4", "request") /\ (exchange.addresses["v4"] > 0 => fresh = "v4")
  BY <1>a, <1>b
<1>3. /\ Shape' /\ phase' \in {"race4", "request", "threw"}
      /\ \A f \in Families : f # fresh => attempt'[f] = attempt[f]
      /\ fresh # "none" => attempt'[fresh] \notin {"none", "session"}
      /\ \A f \in Families : attempt'[f] = "session" <=> attempt[f] = "session"
  BY <1>1, <1>2, RaceKeepsShape DEF Families, Phases
<1>4. UNCHANGED <<exchange, session, registered, closed>>
  BY <1>2 DEF Race, asked, closing
<1>5. Sessions'
  BY <1>1, <1>3, <1>4 DEF Inv, Sessions
<1>6. Tried'
  BY <1>1, <1>2, <1>3, <1>4 DEF Inv, Tried, Families
<1>7. Raced'
  <2>1. kept \in Seq(Families) /\ Len(kept) <= 1
    OBVIOUS
  <2>2. \A f \in Families : attempt[f] \in Waiting => f \in ToSet(kept)
    <3>1. \A f \in Families : attempt[f] \in Waiting => f \in ToSet(attempts)
      BY <1>1 DEF Inv, Raced
    <3>2. CASE kept = attempts
      BY <3>1, <3>2
    <3>3. CASE attempts # <<>> /\ attempt[Last(attempts)] \in Ended
      <4> DEFINE list1 == attempts
      <4>a. list1 \in Seq(Families) /\ list1 # <<>> /\ Len(list1) <= 1
        BY <3>3
      <4> HIDE DEF list1
      <4>b. Len(list1) \in Nat /\ Len(list1) # 0
        BY <4>a
      <4>1. Len(list1) = 1
        BY <4>a, <4>b
      <4>2. ToSet(attempts) = {Last(attempts)}
        BY <4>1 DEF ToSet, Last, list1
      <4> QED
        BY <3>1, <3>3, <4>2 DEF Waiting, Ended
    <3> QED
      BY <3>2, <3>3
  <2> HIDE DEF kept
  <2>3. ToSet(kept) \subseteq ToSet(list) /\ (fresh # "none" => fresh \in ToSet(list))
    BY <1>b, <2>1, AddedTo
  <2>4. \A f \in Families : attempt[f] # "session"
    BY <1>1 DEF Inv, Raced
  <2>5. \A f \in Families : attempt[f] \in Waiting => f \in ToSet(list)
    BY <2>2, <2>3
  <2> QED
    BY <1>1, <1>2, <2>3, <2>4, <2>5, RaceKeepsRaced DEF Families
<1> QED
  BY <1>3, <1>5, <1>6, <1>7 DEF Inv

\* A session that closes is not one that a race goes on with.
LEMMA ClosesKeeps == ASSUME Inv, NEW f \in Families, Closes(f) PROVE Inv'
<1>1. /\ UNCHANGED <<exchange, phase, attempts, attempt, raced, dummy, session, registered, thrown>>
      /\ closed' = closed \cup {f} /\ removing' = removing \cup {f}
  BY DEF Closes, asked, connection
<1>2. Shape' /\ Tried'
  BY <1>1 DEF Inv, Shape, Tried
<1>3. Sessions'
  BY <1>1 DEF Inv, Sessions
<1>4. attempt[f] = "session" => phase \in {"response", "undefined"} \cup Finished
  BY DEF Closes, Suspended, Inv, Raced, Racing
<1>5. Raced'
  BY <1>1, <1>4 DEF Inv, Raced, Racing
<1> QED
  BY <1>2, <1>3, <1>5 DEF Inv

\* What is no longer raced, because send() is over or nothing is known of it, is as it was.
LEMMA RacedStays ==
    ASSUME Inv, UNCHANGED <<exchange, attempts, attempt, raced, session, closed>>, phase # "lookup",
           phase' \in {phase, "dropped", "undefined"}, dummy' = dummy \/ dummy = "waiting"
    PROVE  Raced' /\ Tried'
<1>1. CASE phase' = phase
  <2>1. Raced'
    BY <1>1 DEF Inv, Raced, Racing
  <2>2. Tried'
    BY <1>1 DEF Inv, Tried
  <2> QED
    BY <2>1, <2>2
<1>2. CASE phase' \in {"dropped", "undefined"}
  <2>1. ~Racing' /\ phase' # "second"
    BY <1>2 DEF Racing
  <2>2. phase' \in {"response", "undefined"} \cup Finished
    BY <1>2 DEF Finished
  <2>3. Raced'
    BY <2>1, <2>2 DEF Raced
  <2>4. Tried'
    BY <1>2 DEF Inv, Tried
  <2> QED
    BY <2>3, <2>4
<1> QED
  BY <1>1, <1>2

LEMMA RemovesKeeps == ASSUME Inv, NEW f \in Families, Removes(f) PROVE Inv'
<1>a. phase # "lookup"
  BY DEF Removes, Suspended, Finished
<1>1. CASE f \in registered /\ registered' = registered \ {f} /\ removing' = removing \ {f}
           /\ UNCHANGED <<asked, phase, attempts, attempt, left, raced, dummy, session, wrote, closed, thrown>>
  <2>1. Shape' /\ Sessions'
    BY <1>1 DEF Inv, Shape, Sessions, Removes, asked
  <2> QED
    BY <1>a, <1>1, <2>1, RacedStays DEF Inv, asked
<1>2. CASE Throws(f)
  <2>1. /\ UNCHANGED <<exchange, attempts, attempt, raced, session, registered, closed>>
        /\ removing' \subseteq removing /\ thrown' = TRUE
        /\ phase' \in {phase, "dropped"} /\ (dummy' = dummy \/ dummy = "waiting")
    BY <1>2 DEF Throws, asked
  <2>2. Shape' /\ Sessions'
    BY <2>1 DEF Inv, Shape, Sessions, Phases, Finished
  <2> QED
    BY <1>a, <2>1, <2>2, RacedStays DEF Inv
<1>3. CASE phase' = "undefined" /\ UNCHANGED <<asked, connection, wrote, closing>>
  <2>1. UNCHANGED <<exchange, attempts, attempt, raced, dummy, session, registered, closed, removing, thrown>>
    BY <1>3 DEF asked, connection, closing
  <2>2. Shape' /\ Sessions'
    BY <1>3, <2>1 DEF Inv, Shape, Sessions, Phases
  <2> QED
    BY <1>a, <1>3, <2>1, <2>2, RacedStays DEF Inv
<1> QED
  BY <1>1, <1>2, <1>3 DEF Removes

\* A step in which nothing changes that the races look at.
LEMMA SameRaces ==
    ASSUME Inv, UNCHANGED <<exchange, phase, attempts, attempt, raced, dummy, session, registered, closed>>,
           removing' = removing, thrown' \in BOOLEAN
    PROVE  Inv'
<1>1. Shape' /\ Sessions' /\ Tried'
  BY DEF Inv, Shape, Sessions, Tried
<1>2. Raced'
  BY DEF Inv, Raced, Racing
<1> QED
  BY <1>1, <1>2 DEF Inv

\* What send() does without a race.
LEMMA GoesOnKeeps == ASSUME Inv, NoSecondRace \/ Send \/ Responds, UNCHANGED closing PROVE Inv'
<1>1. UNCHANGED <<exchange, attempts, attempt, raced, session, registered, closed, removing, thrown>>
  BY DEF NoSecondRace, Send, Responds, asked, connection, closing
<1>2. \/ phase = "second" /\ session # "none" /\ phase' = "request"
      \/ phase = "request" /\ session = "none" /\ phase' = "failed"
      \/ phase = "request" /\ session # "none" /\ phase' = "response"
      \/ phase = "response" /\ phase' = "done"
  BY DEF NoSecondRace, Send, Responds
<1>3. Shape'
  BY <1>1, <1>2 DEF Inv, Shape, Phases, Finished
<1>4. Sessions' /\ Tried'
  BY <1>1, <1>2 DEF Inv, Sessions, Tried
<1>5. Raced'
  BY <1>1, <1>2 DEF Inv, Raced, Racing, Finished
<1> QED
  BY <1>3, <1>4, <1>5 DEF Inv

LEMMA TimerKeeps == ASSUME Inv, TimerFires, UNCHANGED closing PROVE Inv'
<1>1. /\ UNCHANGED <<exchange, phase, attempts, attempt, raced, session, registered, closed, removing, thrown>>
      /\ dummy' = "done"
  BY DEF TimerFires, asked, closing
<1>2. Shape' /\ Sessions' /\ Tried'
  BY <1>1 DEF Inv, Shape, Sessions, Tried
<1>3. Raced'
  BY <1>1 DEF Inv, Raced, Racing
<1> QED
  BY <1>2, <1>3 DEF Inv

-----------------------------------------------------------------------------
(* URIs.                                                                   *)

\* The first n tokens are no marks, and then there is one, or nothing.
LEMMA FindAt ==
    ASSUME NEW text \in Seq(Token), NEW marks, NEW n \in 0 .. Len(text),
           \A i \in 1 .. n : text[i] \notin marks, n < Len(text) => text[n + 1] \in marks
    PROVE  Find(text, marks) = n + 1
<1> DEFINE T == {i \in DOMAIN text : text[i] \in marks} \cup {Len(text) + 1}
<1>1. Len(text) \in Nat /\ DOMAIN text = 1 .. Len(text)
  OBVIOUS
<1>2. n + 1 \in T /\ T \in SUBSET Nat
  BY <1>1
<1>3. \A k \in T : n + 1 <= k
  BY <1>1
<1> HIDE DEF T
<1>4. Min(T) = n + 1
  BY <1>2, <1>3, MinIs
<1> QED
  BY <1>4 DEF Find, T

LEMMA SkipTo ==
    ASSUME NEW text \in Seq(Token), NEW marks, NEW n \in 0 .. Len(text) - 1,
           \A i \in 1 .. n : text[i] \in marks, text[n + 1] \notin marks
    PROVE  Skip(text, marks) = n + 1
<1> DEFINE T == {i \in DOMAIN text : text[i] \notin marks} \cup {Len(text) + 1}
<1>1. Len(text) \in Nat /\ DOMAIN text = 1 .. Len(text)
  OBVIOUS
<1>2. n + 1 \in T /\ T \in SUBSET Nat
  BY <1>1
<1>3. \A k \in T : n + 1 <= k
  BY <1>1
<1> HIDE DEF T
<1>4. Min(T) = n + 1
  BY <1>2, <1>3, MinIs
<1> QED
  BY <1>4 DEF Skip, T

\* Two texts, one after the other.
Joined(both, s, t) == s \in Seq(Token) /\ t \in Seq(Token) /\ both = s \o t

LEMMA Halves ==
    ASSUME NEW s, NEW t, NEW both, Joined(both, s, t)
    PROVE  /\ both \in Seq(Token) /\ Len(both) = Len(s) + Len(t)
           /\ \A i \in 1 .. Len(s) : both[i] = s[i]
           /\ \A i \in 1 .. Len(t) : both[Len(s) + i] = t[i]
           /\ Until(both, Len(s) + 1) = s /\ From(both, Len(s) + 1) = t
<1>1. /\ both \in Seq(Token) /\ Len(both) = Len(s) + Len(t) /\ Len(s) \in Nat /\ Len(t) \in Nat
      /\ \A i \in 1 .. Len(s) : both[i] = s[i]
      /\ \A i \in 1 .. Len(t) : both[Len(s) + i] = t[i]
      /\ s \in Seq(Token) /\ t \in Seq(Token)
  BY DEF Joined
<1>2. Until(both, Len(s) + 1) = s
  BY <1>1 DEF Until
<1>3. From(both, Len(s) + 1) = t
  BY <1>1 DEF From
<1> QED
  BY <1>1, <1>2, <1>3

LEMMA Regroup ==
    ASSUME NEW a, NEW b, NEW c, NEW ab, NEW bc, NEW abc, Joined(ab, a, b), Joined(abc, ab, c), Joined(bc, b, c)
    PROVE  Joined(abc, a, bc)
  BY DEF Joined

LEMMA RegroupBack ==
    ASSUME NEW a, NEW b, NEW c, NEW ab, NEW bc, NEW abc, Joined(ab, a, b), Joined(bc, b, c), Joined(abc, a, bc)
    PROVE  Joined(abc, ab, c)
<1>1. a \in Seq(Token) /\ b \in Seq(Token) /\ c \in Seq(Token) /\ ab = a \o b /\ bc = b \o c /\ abc = a \o bc
  BY DEF Joined
<1>2. ab \in Seq(Token)
  BY <1>1
<1>3. (a \o b) \o c = a \o (b \o c)
  BY <1>1
<1>4. abc = ab \o c
  BY <1>1, <1>3, Zenon
<1> QED
  BY <1>1, <1>2, <1>4, Zenon DEF Joined

\* What the URI says of its port.
Stated(u) == IF u.port = NoPort THEN <<>> ELSE <<Colon, <<"number", u.port>>>>

\* The parts of a URI, as texts.
LEMMA UriParts ==
    ASSUME NEW u, IsUri(u)
    PROVE  /\ <<u.scheme, 0>> \in Token /\ Colon \in Token /\ Slash \in Token /\ <<"number", u.port>> \in Token
           /\ <<u.scheme, 0>> # Colon /\ <<"number", u.port>> \notin {Colon, Slash} /\ Colon # Slash
           /\ u.host \in Seq(Token) /\ u.path \in Seq(Token) /\ Stated(u) \in Seq(Token)
           /\ Len(u.host) \in Nat \ {0} /\ Len(u.path) \in Nat /\ (u.path = <<>> <=> Len(u.path) = 0)
           /\ \A i \in 1 .. Len(u.host) : u.host[i] \notin {Colon, Slash}
           /\ u.path # <<>> => u.path[1] = Slash
           /\ u.port # NoPort => u.port \in Nat /\ u.port <= MaxPort
<1>1. u.port \in Int /\ (u.port # NoPort => u.port \in Nat /\ u.port <= MaxPort)
  <2>1. u.port = NoPort \/ u.port \in 0 .. MaxPort
    BY DEF IsUri
  <2>2. MaxPort \in Nat /\ NoPort \in Int
    BY DEF MaxPort, NoPort
  <2> QED
    BY <2>1, <2>2
<1>2. u.scheme \in STRING
  BY DEF IsUri
<1>3. /\ <<u.scheme, 0>> \in Token /\ Colon \in Token /\ Slash \in Token /\ <<"number", u.port>> \in Token
  BY <1>1, <1>2 DEF Token
<1>4. <<u.scheme, 0>> # Colon /\ <<"number", u.port>> \notin {Colon, Slash} /\ Colon # Slash
  BY DEF IsUri, Colon, Slash
<1>5. u.host \in Seq(Token) /\ u.path \in Seq(Token) /\ u.host # <<>> /\ (u.path # <<>> => u.path[1] = Slash)
      /\ \A i \in DOMAIN u.host : u.host[i] \notin {Colon, Slash}
  BY DEF IsUri
<1>6. Stated(u) \in Seq(Token)
  BY <1>3 DEF Stated
<1> QED
  BY <1>1, <1>3, <1>4, <1>5, <1>6

\* A URI that is put together as one is taken apart into what it was put together of.
LEMMA ParsesTo ==
    ASSUME NEW u, IsUri(u)
    PROVE  /\ Parses(Text(u))
           /\ parse(Text(u)) =
                [scheme |-> <<<<u.scheme, 0>>>>, host |-> u.host,
                 path |-> IF u.path = <<>> THEN <<Slash>> ELSE u.path,
                 port |-> IF u.port = NoPort THEN DefaultPort(<<<<u.scheme, 0>>>>) ELSE u.port,
                 netloc |-> u.host \o Stated(u)]
<1> DEFINE host == u.host
           path == u.path
           number == <<"number", u.port>>
           scheme == <<u.scheme, 0>>
           head == <<scheme>>
           marks == <<Colon, Slash, Slash>>
           stated == Stated(u)
           after == stated \o path
           authority == host \o after
           rest == marks \o authority
           text == Text(u)
<1>1. /\ scheme \in Token /\ Colon \in Token /\ Slash \in Token /\ number \in Token
      /\ scheme # Colon /\ number \notin {Colon, Slash} /\ Colon # Slash
      /\ host \in Seq(Token) /\ path \in Seq(Token) /\ stated \in Seq(Token)
      /\ Len(host) \in Nat \ {0} /\ Len(path) \in Nat /\ (path = <<>> <=> Len(path) = 0)
      /\ \A i \in 1 .. Len(host) : host[i] \notin {Colon, Slash}
      /\ path # <<>> => path[1] = Slash
      /\ u.port # NoPort => u.port \in Nat /\ u.port <= MaxPort
  BY UriParts
<1>2. /\ u.port = NoPort => stated = <<>>
      /\ u.port # NoPort => stated = <<Colon, number>>
  BY DEF Stated
<1>3. text = ((<<scheme, Colon, Slash, Slash>> \o host) \o stated) \o path
  BY DEF Text, Stated
<1> HIDE DEF host, path, number, scheme, stated, text
<1>4. /\ head \in Seq(Token) /\ Len(head) = 1 /\ head[1] = scheme
      /\ marks \in Seq(Token) /\ Len(marks) = 3 /\ marks[1] = Colon /\ marks[2] = Slash /\ marks[3] = Slash
      /\ <<scheme, Colon, Slash, Slash>> = head \o marks
  BY <1>1
<1>5. /\ u.port = NoPort => Len(stated) = 0
      /\ u.port # NoPort => Len(stated) = 2 /\ stated[1] = Colon /\ stated[2] = number
      /\ Len(stated) \in Nat
  BY <1>2
<1> HIDE DEF head, marks
<1> DEFINE front == head \o marks
           upToHost == front \o host
           upToPort == upToHost \o stated
<1>6. /\ Joined(front, head, marks) /\ Joined(upToHost, front, host) /\ Joined(upToPort, upToHost, stated)
      /\ Joined(text, upToPort, path)
  <2>1. Joined(front, head, marks)
    BY <1>1, <1>4 DEF Joined
  <2>6. front \in Seq(Token)
    BY <1>4
  <2>7. front = <<scheme, Colon, Slash, Slash>>
    BY <1>4
  <2>2. front \in Seq(Token) /\ text = ((front \o host) \o stated) \o path
    <3> HIDE DEF front
    <3> QED
      BY <1>3, <2>6, <2>7
  <2> HIDE DEF front
  <2>3. Joined(upToHost, front, host)
    BY <1>1, <2>2 DEF Joined
  <2>4. upToHost \in Seq(Token) /\ text = (upToHost \o stated) \o path
    BY <1>1, <2>2
  <2> HIDE DEF upToHost
  <2>5. Joined(upToPort, upToHost, stated) /\ Joined(text, upToPort, path)
    BY <1>1, <2>4 DEF Joined
  <2> QED
    BY <2>1, <2>3, <2>5
<1> HIDE DEF front, upToHost, upToPort
<1>7. Joined(after, stated, path)
  BY <1>1 DEF Joined
<1>8. /\ after \in Seq(Token) /\ Len(after) = Len(stated) + Len(path)
      /\ \A i \in 1 .. Len(stated) : after[i] = stated[i]
      /\ \A i \in 1 .. Len(path) : after[Len(stated) + i] = path[i]
      /\ From(after, Len(stated) + 1) = path
  <2> HIDE DEF after
  <2> QED
    BY <1>7, Halves
<1> HIDE DEF after
<1>9. Joined(authority, host, after)
  BY <1>1, <1>8 DEF Joined
<1>10. /\ authority \in Seq(Token) /\ Len(authority) = Len(host) + Len(after)
       /\ \A i \in 1 .. Len(host) : authority[i] = host[i]
       /\ \A i \in 1 .. Len(after) : authority[Len(host) + i] = after[i]
       /\ Until(authority, Len(host) + 1) = host
       /\ From(authority, Len(host) + 1) = after
  <2> HIDE DEF authority
  <2> QED
    BY <1>9, Halves
<1> HIDE DEF authority
<1>26. Joined(rest, marks, authority)
  BY <1>4, <1>10 DEF Joined
<1> HIDE DEF rest
<1>27. Joined(text, head, rest)
  <2>1. Joined(text, upToHost, after)
    BY <1>6, <1>7, Regroup
  <2>2. Joined(text, front, authority)
    BY <1>6, <1>9, <2>1, Regroup
  <2> QED
    BY <1>6, <1>26, <2>2, Regroup
<1>11. Len(after) \in Nat /\ (Len(after) > 0 => after[1] \in {Colon, Slash})
  <2>1. Len(after) \in Nat
    BY <1>8
  <2>2. CASE u.port = NoPort
    BY <1>1, <1>5, <1>8, <2>1, <2>2
  <2>3. CASE u.port # NoPort
    BY <1>5, <1>8, <2>1, <2>3
  <2> QED
    BY <2>1, <2>2, <2>3
<1>12. Len(authority) \in Nat \ {0} /\ authority[1] \notin {Colon, Slash}
  BY <1>1, <1>10, <1>11
<1>13. /\ rest \in Seq(Token) /\ Len(rest) = 3 + Len(authority)
       /\ \A i \in 1 .. 3 : rest[i] = marks[i]
       /\ \A i \in 1 .. Len(authority) : rest[3 + i] = authority[i]
       /\ From(rest, 3 + 1) = authority
  <2>1. /\ rest \in Seq(Token) /\ Len(rest) = Len(marks) + Len(authority)
        /\ \A i \in 1 .. Len(marks) : rest[i] = marks[i]
        /\ \A i \in 1 .. Len(authority) : rest[Len(marks) + i] = authority[i]
        /\ From(rest, Len(marks) + 1) = authority
    BY <1>26, Halves
  <2> QED
    BY <1>4, <2>1
<1>14. /\ text \in Seq(Token) /\ Len(text) = 1 + Len(rest)
       /\ \A i \in 1 .. 1 : text[i] = head[i]
       /\ \A i \in 1 .. Len(rest) : text[1 + i] = rest[i]
       /\ Until(text, 1 + 1) = head /\ From(text, 1 + 1) = rest
  <2>1. /\ text \in Seq(Token) /\ Len(text) = Len(head) + Len(rest)
        /\ \A i \in 1 .. Len(head) : text[i] = head[i]
        /\ \A i \in 1 .. Len(rest) : text[Len(head) + i] = rest[i]
        /\ Until(text, Len(head) + 1) = head /\ From(text, Len(head) + 1) = rest
    BY <1>27, Halves
  <2> QED
    BY <1>4, <2>1
<1>15. Len(rest) \in Nat /\ Len(rest) >= 4
  BY <1>12, <1>13
<1>16. Find(text, {Colon}) = 2
  <2>1. 1 \in 0 .. Len(text) /\ text[1] = scheme /\ text[1 + 1] = Colon
    <3>1. text[1] = head[1] /\ text[1 + 1] = rest[1] /\ rest[1] = marks[1]
      BY <1>13, <1>14, <1>15
    <3> QED
      BY <1>4, <1>14, <1>15, <3>1
  <2>2. \A i \in 1 .. 1 : text[i] \notin {Colon}
    BY <1>1, <2>1
  <2>3. Find(text, {Colon}) = 1 + 1
    BY <1>14, <2>1, <2>2, FindAt
  <2> QED
    BY <2>3
<1>17. Skip(rest, {Colon, Slash}) = 4
  <2>1. \A i \in 1 .. 3 : rest[i] \in {Colon, Slash}
    BY <1>4, <1>13
  <2>2. rest[3 + 1] \notin {Colon, Slash} /\ 3 \in 0 .. Len(rest) - 1
    BY <1>12, <1>13, <1>15
  <2>3. Skip(rest, {Colon, Slash}) = 3 + 1
    <3>1. PICK n \in 0 .. Len(rest) - 1 : n = 3
      BY <2>2
    <3>2. (\A i \in 1 .. n : rest[i] \in {Colon, Slash}) /\ rest[n + 1] \notin {Colon, Slash}
      BY <2>1, <2>2, <3>1
    <3>3. rest \in Seq(Token)
      BY <1>13
    <3>4. Skip(rest, {Colon, Slash}) = n + 1
      BY <3>2, <3>3, SkipTo
    <3> QED
      BY <3>1, <3>4
  <2> QED
    BY <2>3
<1>18. Authority(text) = authority
  BY <1>13, <1>14, <1>16, <1>17 DEF Authority
<1>19. HostEnd(text) = Len(host) + 1
  <2>1. Len(host) \in Nat /\ Len(after) \in Nat /\ Len(authority) = Len(host) + Len(after)
    BY <1>1, <1>10, <1>11
  <2>2. /\ Len(host) \in 0 .. Len(authority)
        /\ \A i \in 1 .. Len(host) : authority[i] \notin {Colon, Slash}
    <3>1. Len(host) \in 0 .. Len(authority)
      BY <2>1
    <3>2. ASSUME NEW i \in 1 .. Len(host) PROVE authority[i] \notin {Colon, Slash}
      <4>1. authority[i] = host[i]
        BY <1>10
      <4>2. host[i] \notin {Colon, Slash}
        BY <1>1
      <4> QED
        BY <4>1, <4>2
    <3> QED
      BY <3>1, <3>2
  <2>3. Len(host) < Len(authority) => authority[Len(host) + 1] \in {Colon, Slash}
    BY <1>1, <1>10, <1>11
  <2>4. Find(authority, {Colon, Slash}) = Len(host) + 1
    BY <1>10, <2>2, <2>3, FindAt
  <2> QED
    BY <1>18, <2>4 DEF HostEnd
<1>20. HasPort(text) <=> u.port # NoPort
  <2>1. HasPort(text) <=> Len(host) + 1 <= Len(authority) /\ authority[Len(host) + 1] = Colon
    BY <1>18, <1>19 DEF HasPort
  <2>2. Len(after) >= 1 => authority[Len(host) + 1] = after[1]
    BY <1>10, <1>11
  <2>3. ASSUME u.port = NoPort, Len(host) + 1 <= Len(authority) PROVE authority[Len(host) + 1] # Colon
    <3>1. Len(after) >= 1 /\ Len(after) = Len(path) /\ after[1] = path[1]
      BY <1>1, <1>5, <1>8, <1>10, <1>11, <2>3
    <3> QED
      BY <1>1, <2>2, <3>1
  <2>4. ASSUME u.port # NoPort PROVE Len(host) + 1 <= Len(authority) /\ authority[Len(host) + 1] = Colon
    <3>2. Len(stated) = 2 /\ stated[1] = Colon
      BY <1>5, <2>4
    <3>1. Len(after) >= 1 /\ after[1] = Colon
      BY <1>1, <1>8, <3>2
    <3> QED
      BY <1>1, <1>10, <1>11, <2>2, <3>1
  <2> QED
    BY <2>1, <2>3, <2>4, Zenon
<1>21. ASSUME u.port # NoPort PROVE PortText(text) = <<number>>
  <2> DEFINE one == <<number>>
             colon == <<Colon>>
             last == one \o path
             upTo == host \o colon
  <2>1. one \in Seq(Token) /\ colon \in Seq(Token) /\ Len(one) = 1 /\ Len(colon) = 1 /\ one[1] = number
        /\ stated = colon \o one
    BY <1>1, <1>2, <1>21
  <2> HIDE DEF one, colon
  <2>2. Joined(last, one, path) /\ Joined(upTo, host, colon) /\ Joined(stated, colon, one)
    BY <1>1, <2>1 DEF Joined
  <2> HIDE DEF last, upTo
  <2>3. Joined(after, colon, last)
    BY <1>7, <2>2, Regroup
  <2>4. upTo \in Seq(Token) /\ Len(upTo) = Len(host) + 1
    <3>1. upTo \in Seq(Token) /\ Len(upTo) = Len(host) + Len(colon)
      BY <2>2, Halves
    <3> QED
      BY <2>1, <3>1
  <2>5. last \in Seq(Token)
    BY <2>2, Halves
  <2>6. Joined(authority, upTo, last)
    BY <1>9, <2>2, <2>3, RegroupBack
  <2>9. From(authority, Len(upTo) + 1) = last
    BY <2>6, Halves
  <2>7. /\ Len(last) = 1 + Len(path) /\ \A i \in 1 .. 1 : last[i] = one[i]
        /\ \A i \in 1 .. Len(path) : last[1 + i] = path[i]
        /\ Until(last, 1 + 1) = one
    <3>1. /\ Len(last) = Len(one) + Len(path) /\ \A i \in 1 .. Len(one) : last[i] = one[i]
          /\ \A i \in 1 .. Len(path) : last[Len(one) + i] = path[i]
          /\ Until(last, Len(one) + 1) = one
      BY <2>2, Halves
    <3> QED
      BY <2>1, <3>1
  <2>8. Find(last, {Slash}) = 1 + 1
    <3>1. 1 \in 0 .. Len(last) /\ (1 < Len(last) => last[1 + 1] \in {Slash})
      BY <1>1, <2>7
    <3>2. \A i \in 1 .. 1 : last[i] \notin {Slash}
      BY <1>1, <2>1, <2>7
    <3> QED
      BY <2>5, <3>1, <3>2, FindAt
  <2> QED
    BY <1>18, <1>19, <2>4, <2>9, <2>7, <2>8 DEF PortText, one
<1>22. Path(text) = IF path = <<>> THEN <<Slash>> ELSE path
  <2> DEFINE before == host \o stated
  <2>2. Joined(before, host, stated)
    BY <1>1 DEF Joined
  <2> HIDE DEF before
  <2>3. /\ before \in Seq(Token) /\ Len(before) = Len(host) + Len(stated)
        /\ \A i \in 1 .. Len(host) : before[i] = host[i]
        /\ \A i \in 1 .. Len(stated) : before[Len(host) + i] = stated[i]
    BY <2>2, Halves
  <2>1. Joined(authority, before, path)
    BY <1>7, <1>9, <2>2, RegroupBack
  <2>4. \A i \in 1 .. Len(before) : before[i] # Slash
    <3> TAKE i \in 1 .. Len(before)
    <3>1. CASE i <= Len(host)
      BY <1>1, <2>3, <3>1
    <3>2. CASE i > Len(host)
      <4> DEFINE k == i - Len(host)
      <4>1. k \in 1 .. Len(stated) /\ Len(host) + k = i
        BY <1>1, <1>5, <2>3, <3>2
      <4> HIDE DEF k
      <4>2. before[i] = stated[k]
        BY <2>3, <4>1
      <4>3. stated[k] \in {Colon, number}
        BY <1>5, <4>1
      <4> QED
        BY <1>1, <4>2, <4>3
    <3> QED
      BY <1>1, <2>3, <3>1, <3>2
  <2>5. /\ Len(authority) = Len(before) + Len(path) /\ Len(before) \in Nat
        /\ \A i \in 1 .. Len(before) : authority[i] = before[i]
        /\ \A i \in 1 .. Len(path) : authority[Len(before) + i] = path[i]
        /\ From(authority, Len(before) + 1) = path
    <3>1. Len(before) \in Nat
      BY <2>3
    <3> QED
      BY <2>1, <3>1, Halves
  <2>6. Find(authority, {Slash}) = Len(before) + 1
    <3>1. Len(before) \in 0 .. Len(authority) /\ \A i \in 1 .. Len(before) : authority[i] \notin {Slash}
      BY <1>1, <2>4, <2>5
    <3>2. Len(before) < Len(authority) => authority[Len(before) + 1] \in {Slash}
      BY <1>1, <2>5
    <3> QED
      BY <1>10, <3>1, <3>2, FindAt
  <2> QED
    BY <1>18, <2>5, <2>6 DEF Path
<1>23. ASSUME u.port # NoPort PROVE Port(number[2]) = u.port
  <2>1. u.port \in Nat /\ u.port <= 65535
    BY <1>1, <1>23 DEF MaxPort
  <2>2. u.port % 65536 = u.port
    BY <2>1
  <2> QED
    BY <2>2 DEF number, Port
<1>24. Parses(text)
  <2>1. HasScheme(text)
    BY <1>14, <1>15, <1>16 DEF HasScheme
  <2>2. Authority(text) # <<>>
    BY <1>12, <1>18
  <2>3. HasPort(text) => PortText(text) # <<>> /\ PortText(text)[1][1] = "number"
    BY <1>20, <1>21 DEF number
  <2> QED
    BY <2>1, <2>2, <2>3 DEF Parses
<1>25. parse(text) =
         [scheme |-> head, host |-> host, path |-> IF path = <<>> THEN <<Slash>> ELSE path,
          port |-> IF u.port = NoPort THEN DefaultPort(head) ELSE u.port, netloc |-> host \o stated]
  <2>1. Until(text, Find(text, {Colon})) = head
    BY <1>14, <1>16
  <2>2. Until(Authority(text), HostEnd(text)) = host
    BY <1>10, <1>18, <1>19
  <2>3. CASE u.port = NoPort
    <3>1. host \o stated = host
      BY <1>1, <1>2, <2>3
    <3> QED
      BY <1>20, <1>22, <2>1, <2>2, <2>3, <3>1 DEF parse
  <2>4. CASE u.port # NoPort
    <3> DEFINE one == <<number>>
               colon == <<Colon>>
    <3>1. host \o colon \o one = host \o stated
      <4>1. one \in Seq(Token) /\ colon \in Seq(Token) /\ stated = colon \o one
        BY <1>1, <1>2, <2>4
      <4> HIDE DEF one, colon
      <4> DEFINE upTo == host \o colon
                 netloc == host \o stated
      <4>2. Joined(upTo, host, colon) /\ Joined(stated, colon, one) /\ Joined(netloc, host, stated)
        BY <1>1, <4>1 DEF Joined
      <4> HIDE DEF upTo, netloc
      <4>3. Joined(netloc, upTo, one)
        BY <4>2, RegroupBack
      <4> QED
        BY <4>3 DEF Joined, upTo, netloc
    <3>2. Port(PortText(text)[1][2]) = u.port
      BY <1>21, <1>23, <2>4
    <3>3. host \o <<Colon>> \o PortText(text) = host \o stated
      BY <1>21, <2>4, <3>1
    <3> QED
      BY <1>20, <1>22, <2>1, <2>2, <2>4, <3>2, <3>3 DEF parse
  <2> QED
    BY <2>3, <2>4
<1> QED
  BY <1>24, <1>25 DEF head, scheme, text, stated, host, path

-----------------------------------------------------------------------------
(* Fields.                                                                 *)

\* Under which key an assignment is found, and which of the first s assignments are to a key.
KeyOf(a) == Key(a.name, a.spelling)
Host == Key("host", "lower")
To(assigned, s, k) == {i \in s : KeyOf(assigned[i]) = k}

\* The fields after some of the assignments, which is what the fold comes to.
Put(h, a) == [k \in DOMAIN h \cup {KeyOf(a)} |-> IF k = KeyOf(a) THEN a.value ELSE h[k]]
Base(w) == [k \in {Host} |-> w.netloc]
Folds(f, w, a) == f = [s \in SUBSET DOMAIN a |-> IF s = {} THEN Base(w) ELSE LET x == Max(s) IN Put(f[s \ {x}], a[x])]
After(w, a, s) == [k \in {Host} \cup {KeyOf(a[i]) : i \in s} |->
                      IF To(a, s, k) = {} THEN w.netloc ELSE a[Max(To(a, s, k))].value]

LEMMA FoldsAs ==
    ASSUME NEW w, NEW a
    PROVE  Fields(w, a) = (CHOOSE f : Folds(f, w, a))[DOMAIN a]
  BY DEF Fields, FoldLeft, MapThenFoldSet, Put, Base, Folds, KeyOf, Host

LEMMA Nothing == ASSUME NEW w, NEW a PROVE After(w, a, {}) = Base(w)
<1>1. {KeyOf(a[i]) : i \in {}} = {} /\ \A k : To(a, {}, k) = {}
  BY DEF To
<1> QED
  BY <1>1 DEF After, Base

\* x is the last of some assignments.
LastIn(s, n, x) == n \in Nat /\ s \in SUBSET (0 .. n) /\ s # {} /\ x = Max(s)

LEMMA OneMore ==
    ASSUME NEW w, NEW a, NEW n, NEW s, NEW x, LastIn(s, n, x)
    PROVE  After(w, a, s) = Put(After(w, a, s \ {x}), a[x]) /\ x \in s /\ \A i \in s : i <= x
<1> DEFINE key == KeyOf(a[x])
           less == s \ {x}
           h == After(w, a, less)
           keys(q) == {KeyOf(a[i]) : i \in q}
<1>0. n \in Nat /\ s \in SUBSET (0 .. n) /\ s # {} /\ x = Max(s)
  BY DEF LastIn
<1>1. x \in s /\ \A i \in s : i <= x
  BY <1>0, MaxIs
<1>2. {Host} \cup keys(s) = ({Host} \cup keys(less)) \cup {key}
  BY <1>1
<1>3. DOMAIN h = {Host} \cup keys(less)
  BY DEF After
<1>4. ASSUME NEW k \in {Host} \cup keys(s)
      PROVE  (IF To(a, s, k) = {} THEN w.netloc ELSE a[Max(To(a, s, k))].value) = IF k = key THEN a[x].value ELSE h[k]
  <2>1. CASE k = key
    <3>1. x \in To(a, s, k) /\ To(a, s, k) \in SUBSET (0 .. n)
      BY <1>0, <1>1, <2>1 DEF To
    <3>2. Max(To(a, s, k)) \in To(a, s, k) /\ \A i \in To(a, s, k) : i <= Max(To(a, s, k))
      BY <1>0, <3>1, MaxIs
    <3>3. Max(To(a, s, k)) \in s
      BY <3>2 DEF To
    <3>4. Max(To(a, s, k)) <= x /\ x <= Max(To(a, s, k)) /\ x \in Nat /\ Max(To(a, s, k)) \in Nat
      BY <1>0, <1>1, <3>1, <3>2, <3>3
    <3>5. Max(To(a, s, k)) = x
      <4> DEFINE m == Max(To(a, s, k))
      <4> HIDE DEF m
      <4>1. m <= x /\ x <= m /\ x \in Nat /\ m \in Nat
        BY <3>4 DEF m
      <4>2. m = x
        BY <4>1
      <4> QED
        BY <4>2 DEF m
    <3> QED
      BY <2>1, <3>1, <3>5
  <2>2. CASE k # key
    <3>1. To(a, s, k) = To(a, less, k)
      BY <2>2 DEF To
    <3>2. k \in DOMAIN h
      BY <1>2, <1>3, <2>2
    <3>3. h[k] = IF To(a, less, k) = {} THEN w.netloc ELSE a[Max(To(a, less, k))].value
      BY <1>3, <3>2 DEF After
    <3> QED
      BY <2>2, <3>1, <3>3
  <2> QED
    BY <2>1, <2>2
<1>5. After(w, a, s) = [k \in {Host} \cup keys(s) |-> IF To(a, s, k) = {} THEN w.netloc ELSE a[Max(To(a, s, k))].value]
  BY DEF After
<1>6. Put(h, a[x]) = [k \in DOMAIN h \cup {key} |-> IF k = key THEN a[x].value ELSE h[k]]
  BY DEF Put
<1> HIDE DEF h, key, keys
<1>7. After(w, a, s) = Put(h, a[x])
  BY <1>2, <1>3, <1>4, <1>5, <1>6
<1> QED
  BY <1>1, <1>7 DEF h

LEMMA FoldsAfter ==
    ASSUME NEW w, NEW S, NEW a \in Seq(S)
    PROVE  Fields(w, a) = After(w, a, DOMAIN a)
<1> DEFINE N == Len(a)
           f == [s \in SUBSET DOMAIN a |-> After(w, a, s)]
           g == CHOOSE h : Folds(h, w, a)
           T == {n \in 0 .. N : g[1 .. n] # After(w, a, 1 .. n)}
<1>1. N \in Nat /\ DOMAIN a = 1 .. N
  OBVIOUS
<1> HIDE DEF N
<1>2. Folds(f, w, a)
  <2> DEFINE r == [s \in SUBSET DOMAIN a |-> IF s = {} THEN Base(w) ELSE LET x == Max(s) IN Put(f[s \ {x}], a[x])]
  <2>1. ASSUME NEW s \in SUBSET DOMAIN a PROVE f[s] = r[s]
    <3>1. CASE s = {}
      BY <3>1, Nothing
    <3>2. CASE s # {}
      <4>1. s \in SUBSET (0 .. N)
        BY <1>1
      <4>2. After(w, a, s) = Put(After(w, a, s \ {Max(s)}), a[Max(s)])
        <5>1. LastIn(s, N, Max(s))
          BY <1>1, <3>2, <4>1 DEF LastIn
        <5> QED
          BY <5>1, OneMore
      <4>3. s \ {Max(s)} \in SUBSET DOMAIN a
        OBVIOUS
      <4>4. f[s] = After(w, a, s) /\ f[s \ {Max(s)}] = After(w, a, s \ {Max(s)})
        BY <4>3
      <4>5. r[s] = Put(f[s \ {Max(s)}], a[Max(s)])
        BY <3>2
      <4> QED
        BY <4>2, <4>4, <4>5
    <3> QED
      BY <3>1, <3>2
  <2>2. f = r
    BY <2>1
  <2> HIDE DEF f
  <2> QED
    BY <2>2 DEF Folds
<1>3. g = [s \in SUBSET DOMAIN a |-> IF s = {} THEN Base(w) ELSE LET x == Max(s) IN Put(g[s \ {x}], a[x])]
  <2>1. Folds(g, w, a)
    BY <1>2
  <2> HIDE DEF g
  <2> QED
    BY <2>1 DEF Folds
<1> HIDE DEF f, g
<1>4. T = {}
  <2> SUFFICES ASSUME T # {} PROVE FALSE
    OBVIOUS
  <2>1. PICK m \in T : \A k \in T : m <= k
    <3> HIDE DEF T
    <3>1. T \in SUBSET Nat
      BY <1>1 DEF T
    <3> QED
      BY <3>1, LeastNat
  <2>2. m \in 0 .. N /\ g[1 .. m] # After(w, a, 1 .. m)
    OBVIOUS
  <2>3. CASE m = 0
    <3>1. 1 .. m = {} /\ {} \in SUBSET DOMAIN a
      BY <2>3
    <3>2. g[{}] = Base(w)
      BY <1>3, <3>1
    <3> QED
      BY <2>2, <3>1, <3>2, Nothing
  <2>4. CASE m # 0
    <3> DEFINE s == 1 .. m
    <3>1. s \in SUBSET DOMAIN a /\ s \in SUBSET (0 .. N) /\ m \in s /\ s # {}
      BY <1>1, <2>2, <2>4
    <3>2. PICK x : x = Max(s)
      OBVIOUS
    <3>3. After(w, a, s) = Put(After(w, a, s \ {x}), a[x]) /\ x \in s /\ \A i \in s : i <= x
      <4>1. LastIn(s, N, x)
        BY <1>1, <3>1, <3>2 DEF LastIn
      <4> HIDE DEF s
      <4>2. After(w, a, s) = Put(After(w, a, s \ {x}), a[x])
        BY <4>1, OneMore
      <4>3. x \in s
        BY <4>1, OneMore
      <4>4. \A i \in s : i <= x
        BY <4>1, OneMore
      <4> QED
        BY <4>2, <4>3, <4>4
    <3>4. x = m
      BY <1>1, <2>2, <3>1, <3>3
    <3>5. s \ {x} = 1 .. m - 1 /\ m - 1 \in 0 .. N
      BY <1>1, <2>2, <2>4, <3>4
    <3>6. m - 1 \notin T
      BY <1>1, <2>1, <2>2, <2>4
    <3>7. g[1 .. m - 1] = After(w, a, 1 .. m - 1)
      BY <3>5, <3>6
    <3>8. g[s] = Put(g[s \ {x}], a[x])
      BY <1>3, <3>1, <3>2
    <3> QED
      BY <2>2, <3>3, <3>5, <3>7, <3>8
  <2> QED
    BY <2>3, <2>4
<1>5. g[1 .. N] = After(w, a, 1 .. N)
  BY <1>1, <1>4
<1>6. Fields(w, a) = g[DOMAIN a]
  BY FoldsAs DEF g
<1> QED
  BY <1>1, <1>5, <1>6

-----------------------------------------------------------------------------
(* Lines.                                                                  *)

\* A set as a sequence: each of its elements once.
LEMMA Listed ==
    ASSUME NEW S, IsFiniteSet(S)
    PROVE  /\ SetToSeq(S) \in Seq(S)
           /\ \A i, j \in DOMAIN SetToSeq(S) : SetToSeq(S)[i] = SetToSeq(S)[j] => i = j
           /\ \A x \in S : \E i \in DOMAIN SetToSeq(S) : SetToSeq(S)[i] = x
<1> DEFINE n == Cardinality(S)
           s == SetToSeq(S)
<1>1. n \in Nat /\ ExistsBijection(1 .. n, S)
  BY FS_CardinalityType
<1>2. \E f \in [1 .. n -> S] : IsInjective(f)
  BY <1>1 DEF ExistsBijection, Bijection, Injection
<1>3. s \in [1 .. n -> S] /\ IsInjective(s)
  BY <1>2 DEF SetToSeq
<1> HIDE DEF s
<1>4. s \in Injection(1 .. n, S)
  BY <1>3 DEF Injection
<1>5. IsFiniteSet(1 .. n) /\ Cardinality(1 .. n) = n
  BY <1>1, FS_Interval
<1>6. s \in Surjection(1 .. n, S)
  BY <1>4, <1>5, FS_Injection
<1>7. \A x \in S : \E i \in 1 .. n : s[i] = x
  BY <1>6 DEF Surjection
<1>8. s \in Seq(S) /\ DOMAIN s = 1 .. n
  BY <1>1, <1>3
<1>9. \A i, j \in DOMAIN s : s[i] = s[j] => i = j
  BY <1>3 DEF IsInjective
<1> QED
  BY <1>7, <1>8, <1>9 DEF s

\* The keys after n assignments, and the line of each.
KeysAfter(w, a) == DOMAIN After(w, a, DOMAIN a)
LinesOf(h) == {LineOf(k, h) : k \in DOMAIN h}

LEMMA LinesFinite ==
    ASSUME NEW w, NEW S, NEW a \in Seq(S)
    PROVE  IsFiniteSet(LinesOf(After(w, a, DOMAIN a)))
<1> DEFINE n == Len(a)
           h == After(w, a, DOMAIN a)
           T == LinesOf(h)
           key(i) == IF i = 0 THEN Host ELSE KeyOf(a[i])
           f == [i \in 0 .. n |-> LineOf(key(i), h)]
<1>1. n \in Nat /\ DOMAIN a = 1 .. n
  OBVIOUS
<1>2. DOMAIN h = {Host} \cup {KeyOf(a[i]) : i \in 1 .. n}
  BY <1>1 DEF After
<1> HIDE DEF h, n
<1>3. DOMAIN h = {key(i) : i \in 0 .. n}
  <2>1. \A i \in 1 .. n : key(i) = KeyOf(a[i])
    BY <1>1
  <2>2. key(0) = Host
    OBVIOUS
  <2>3. \A i \in 0 .. n : i = 0 \/ i \in 1 .. n
    BY <1>1
  <2>4. 0 \in 0 .. n /\ \A i \in 1 .. n : i \in 0 .. n
    BY <1>1
  <2> HIDE DEF key
  <2> QED
    BY <1>2, <2>1, <2>2, <2>3, <2>4
<1>4. f \in Surjection(0 .. n, T)
  <2>1. \A i \in 0 .. n : f[i] \in T
    BY <1>3 DEF LinesOf
  <2>2. \A t \in T : \E i \in 0 .. n : f[i] = t
    BY <1>3 DEF LinesOf
  <2>3. f \in [0 .. n -> T]
    BY <2>1
  <2> QED
    BY <2>2, <2>3 DEF Surjection
<1>5. IsFiniteSet(0 .. n)
  BY <1>1, FS_Interval
<1> HIDE DEF f, T
<1>6. IsFiniteSet(T)
  BY <1>4, <1>5, FS_Surjection
<1> QED
  BY <1>6 DEF T, h

\* The lines of a request: the first, one for each field, and the empty one.
Layout(lines, n, method, path, L) ==
    /\ n \in Nat /\ Len(lines) = n + 2 /\ DOMAIN lines = 1 .. n + 2
    /\ lines[1].kind = "request" /\ lines[1].name = method /\ lines[1].text = path
    /\ lines[n + 2].kind = "end"
    /\ \A i \in 2 .. n + 1 : lines[i] \in L
    /\ \A i, j \in 2 .. n + 1 : lines[i] = lines[j] => i = j
    /\ \A x \in L : \E i \in 2 .. n + 1 : lines[i] = x

LEMMA WrittenIs ==
    ASSUME NEW method, NEW w, NEW S, NEW a \in Seq(S),
           NEW h, h = After(w, a, DOMAIN a), NEW lines, lines = Written(method, w, h)
    PROVE  \E n \in Nat : Layout(lines, n, method, w.path, LinesOf(h))
<1> DEFINE first == [kind |-> "request", name |-> method, text |-> w.path]
           end == [kind |-> "end", name |-> "", text |-> <<>>]
           L == LinesOf(h)
           s == SetToSeq(L)
           all == L \cup {first, end}
           n == Len(s)
<1>1. IsFiniteSet(L)
  BY LinesFinite
<1> HIDE DEF L
<1>2. /\ s \in Seq(L)
      /\ \A i, j \in DOMAIN s : s[i] = s[j] => i = j
      /\ \A x \in L : \E i \in DOMAIN s : s[i] = x
  BY <1>1, Listed
<1>3. lines = <<first>> \o s \o <<end>>
  BY DEF Written, L, LinesOf
<1> HIDE DEF s, first, end
<1>4. n \in Nat /\ DOMAIN s = 1 .. n /\ s \in Seq(all) /\ <<first>> \in Seq(all) /\ <<end>> \in Seq(all)
  BY <1>2
<1>5. DOMAIN lines = 1 .. n + 2 /\ Len(lines) = n + 2 /\ lines[1] = first /\ lines[n + 2] = end /\ \A i \in 1 .. n : lines[i + 1] = s[i]
  <2> DEFINE top == <<first>> \o s
  <2>1. top \in Seq(all) /\ Len(top) = n + 1 /\ top[1] = first /\ \A i \in 1 .. n : top[i + 1] = s[i]
    BY <1>4
  <2>2. lines = top \o <<end>>
    BY <1>3
  <2> HIDE DEF top, n
  <2>3. DOMAIN lines = 1 .. n + 2 /\ Len(lines) = n + 2 /\ lines[n + 2] = end /\ \A i \in 1 .. n + 1 : lines[i] = top[i]
    <3>1. Len(top \o <<end>>) = Len(top) + 1 /\ (top \o <<end>>)[Len(top) + 1] = end
      BY <1>4, <2>1
    <3>2. \A i \in 1 .. Len(top) : (top \o <<end>>)[i] = top[i]
      BY <1>4, <2>1
    <3>3. n + 1 + 1 = n + 2
      BY <1>4
    <3>4. lines \in Seq(all)
      <4> HIDE DEF all
      <4>1. top \in Seq(all) /\ <<end>> \in Seq(all)
        BY <1>4, <2>1
      <4>2. top \o <<end>> \in Seq(all)
        BY <4>1, Together
      <4> QED
        BY <2>2, <4>2
    <3>5. DOMAIN lines = 1 .. Len(lines)
      BY <3>4
    <3> QED
      BY <2>1, <2>2, <3>1, <3>2, <3>3, <3>5
  <2> QED
    BY <1>4, <2>1, <2>3
<1>6. \A i \in 1 .. n : s[i] \in L
  BY <1>2, <1>4
<1> HIDE DEF n
<1>7. \A i \in 2 .. n + 1 : i - 1 \in 1 .. n /\ lines[i] = s[i - 1]
  <2> TAKE i \in 2 .. n + 1
  <2>1. PICK p \in 1 .. n : i = p + 1
    BY <1>4
  <2>2. lines[p + 1] = s[p] /\ i - 1 = p
    BY <1>4, <1>5, <2>1
  <2> QED
    BY <2>1, <2>2
<1>8. \A i \in 2 .. n + 1 : lines[i] \in L
  BY <1>6, <1>7
<1>9. ASSUME NEW i \in 2 .. n + 1, NEW j \in 2 .. n + 1, lines[i] = lines[j] PROVE i = j
  <2>1. s[i - 1] = s[j - 1] /\ i - 1 \in DOMAIN s /\ j - 1 \in DOMAIN s
    BY <1>4, <1>7, <1>9
  <2>2. i - 1 = j - 1
    BY <1>2, <2>1
  <2>3. i \in Nat /\ j \in Nat
    BY <1>4
  <2> QED
    BY <2>2, <2>3
<1>10. ASSUME NEW x \in L PROVE \E i \in 2 .. n + 1 : lines[i] = x
  <2>1. PICK p \in 1 .. n : s[p] = x
    BY <1>2, <1>4
  <2>2. lines[p + 1] = x
    BY <1>5, <2>1
  <2>3. p + 1 \in 2 .. n + 1
    BY <1>4
  <2> QED
    BY <2>2, <2>3
<1>11. /\ lines[1].kind = "request" /\ lines[1].name = method /\ lines[1].text = w.path
       /\ lines[n + 2].kind = "end"
  <2>1. first.kind = "request" /\ first.name = method /\ first.text = w.path
    BY DEF first
  <2>2. end.kind = "end"
    BY DEF end
  <2> QED
    BY <1>5, <2>1, <2>2
<1>12. Layout(lines, n, method, w.path, L)
  BY <1>4, <1>5, <1>8, <1>9, <1>10, <1>11 DEF Layout
<1> QED
  BY <1>4, <1>12 DEF L

\* A field of the request, and what the application or the URI says of it.
LEMMA ValueIs ==
    ASSUME NEW u, NEW S, NEW a \in Seq(S), NEW name, NEW w, w.netloc = u.host \o Stated(u),
           <<name, "lower">> \in DOMAIN After(w, a, DOMAIN a)
    PROVE  After(w, a, DOMAIN a)[<<name, "lower">>] = Value(u, a, name)
<1> DEFINE k == <<name, "lower">>
           I == {i \in 1 .. Len(a) : a[i].name = name}
<1>1. DOMAIN a = 1 .. Len(a) /\ Len(a) \in Nat
  OBVIOUS
<1>2. To(a, DOMAIN a, k) = I
  BY <1>1 DEF To, KeyOf, Key
<1>3. After(w, a, DOMAIN a)[k] = IF I = {} THEN w.netloc ELSE a[Max(I)].value
  BY <1>2 DEF After
<1>4. Value(u, a, name) =
        LET last == IF I # {} THEN Max(I) ELSE 0
        IN  IF last > 0 THEN a[last].value ELSE u.host \o Stated(u)
  BY DEF Value, SelectLastInSeq, Stated
<1>5. I # {} => Max(I) > 0
  <2> SUFFICES ASSUME I # {} PROVE Max(I) > 0
    OBVIOUS
  <2>1. I \in SUBSET (0 .. Len(a)) /\ \A i \in I : i > 0
    BY <1>1
  <2> HIDE DEF I
  <2>2. Max(I) \in I
    BY <1>1, <2>1, MaxIs
  <2> QED
    BY <2>1, <2>2
<1> HIDE DEF I
<1>6. CASE I = {}
  <2>1. After(w, a, DOMAIN a)[k] = u.host \o Stated(u)
    BY <1>3, <1>6
  <2>2. Value(u, a, name) = u.host \o Stated(u)
    BY <1>4, <1>6
  <2> QED
    BY <2>1, <2>2
<1>7. CASE I # {}
  BY <1>3, <1>4, <1>5, <1>7
<1> QED
  BY <1>6, <1>7

\* Every field has the key of the host or of a name that is assigned, and each of these has a field.
LEMMA KeysAre ==
    ASSUME NEW w, NEW S, NEW a \in Seq(S)
    PROVE  /\ \A k \in DOMAIN After(w, a, DOMAIN a) : k = <<k[1], "lower">>
           /\ \A name \in {"host"} \cup {b.name : b \in ToSet(a)} : <<name, "lower">> \in DOMAIN After(w, a, DOMAIN a)
<1>1. DOMAIN After(w, a, DOMAIN a) = {Host} \cup {KeyOf(a[i]) : i \in DOMAIN a}
  BY DEF After
<1>2. Host = <<"host", "lower">> /\ \A b : KeyOf(b) = <<b.name, "lower">>
  BY DEF Host, KeyOf, Key
<1>3. \A name \in {"host"} \cup {b.name : b \in ToSet(a)} : name = "host" \/ \E i \in DOMAIN a : name = a[i].name
  BY DEF ToSet
<1> QED
  <2>1. \A k \in DOMAIN After(w, a, DOMAIN a) : k = <<k[1], "lower">>
    BY <1>1, <1>2
  <2>2. ASSUME NEW name \in {"host"} \cup {b.name : b \in ToSet(a)}
        PROVE  <<name, "lower">> \in DOMAIN After(w, a, DOMAIN a)
    BY <1>1, <1>2, <1>3
  <2> QED
    BY <2>1, <2>2

LEMMA Asks ==
    ASSUME NEW method, NEW u, IsUri(u), NEW S, NEW a \in Seq(S), NEW w, w = parse(Text(u)),
           NEW lines, lines = Written(method, w, Fields(w, a))
    PROVE  AsksFor(lines, method, u, a) /\ lines # <<>>
<1> DEFINE h == After(w, a, DOMAIN a)
           fields == {i \in DOMAIN lines : lines[i].kind = "field"}
           names == {"host"} \cup {b.name : b \in ToSet(a)}
<1>1. /\ w.netloc = u.host \o Stated(u)
      /\ w.path = IF u.path = <<>> THEN <<Slash>> ELSE u.path
  <2>1. w = [scheme |-> <<<<u.scheme, 0>>>>, host |-> u.host,
             path |-> IF u.path = <<>> THEN <<Slash>> ELSE u.path,
             port |-> IF u.port = NoPort THEN DefaultPort(<<<<u.scheme, 0>>>>) ELSE u.port,
             netloc |-> u.host \o Stated(u)]
    BY ParsesTo, Zenon
  <2> DEFINE path == IF u.path = <<>> THEN <<Slash>> ELSE u.path
             port == IF u.port = NoPort THEN DefaultPort(<<<<u.scheme, 0>>>>) ELSE u.port
             netloc == u.host \o Stated(u)
             scheme == <<<<u.scheme, 0>>>>
  <2>2. w = [scheme |-> scheme, host |-> u.host, path |-> path, port |-> port, netloc |-> netloc]
    BY <2>1
  <2> HIDE DEF path, port, netloc, scheme
  <2>3. w.netloc = netloc /\ w.path = path
    BY <2>2
  <2> QED
    BY <2>3 DEF path, netloc
<1>2. Fields(w, a) = h
  BY FoldsAfter
<1>3. \A k \in DOMAIN h : k = <<k[1], "lower">>
  BY KeysAre
<1>4. \A name \in names : <<name, "lower">> \in DOMAIN h
  BY KeysAre
<1>5. \A name \in names : h[<<name, "lower">>] = Value(u, a, name)
  <2> TAKE name \in names
  <2>1. <<name, "lower">> \in DOMAIN After(w, a, DOMAIN a)
    BY <1>4
  <2>2. After(w, a, DOMAIN a)[<<name, "lower">>] = Value(u, a, name)
    <3> HIDE DEF h, names
    <3> QED
      BY <1>1, <2>1, ValueIs, Zenon
  <2> QED
    BY <2>2
<1>6. \E n \in Nat : Layout(lines, n, method, w.path, LinesOf(h))
  <2>1. PICK g : g = h
    OBVIOUS
  <2>2. lines = Written(method, w, g) /\ g = After(w, a, DOMAIN a)
    BY <1>2, <2>1
  <2>3. \E n \in Nat : Layout(lines, n, method, w.path, LinesOf(g))
    BY <2>2, WrittenIs
  <2> QED
    BY <2>1, <2>3
<1>7. PICK n \in Nat : Layout(lines, n, method, w.path, LinesOf(h))
  BY <1>6
<1> HIDE DEF h
<1>8. \A x \in LinesOf(h) : x.kind = "field" /\ x.name \in DOMAIN h /\ x.text = h[x.name] /\ x = LineOf(x.name, h)
  BY DEF LinesOf, LineOf
<1>9. \A i \in 2 .. n + 1 : lines[i] \in LinesOf(h)
  BY <1>7 DEF Layout
<1>10. \A i, j \in 2 .. n + 1 : lines[i] = lines[j] => i = j
  BY <1>7 DEF Layout
<1>11. \A x \in LinesOf(h) : \E i \in 2 .. n + 1 : lines[i] = x
  BY <1>7 DEF Layout
<1>12. fields = 2 .. n + 1
  <2>1. lines[1].kind = "request" /\ lines[n + 2].kind = "end" /\ DOMAIN lines = 1 .. n + 2
    BY <1>7 DEF Layout
  <2>2. \A i \in 2 .. n + 1 : i \in DOMAIN lines /\ lines[i].kind = "field"
    BY <1>8, <1>9, <2>1
  <2>3. \A i \in DOMAIN lines : i = 1 \/ i = n + 2 \/ i \in 2 .. n + 1
    BY <2>1
  <2> QED
    BY <2>1, <2>2, <2>3
<1> HIDE DEF fields, names
<1>13. ASSUME NEW name \in names
       PROVE  \E i \in fields : {j \in fields : lines[j].name[1] = name} = {i} /\ lines[i].text = Value(u, a, name)
  <2> DEFINE k == <<name, "lower">>
  <2>1. k \in DOMAIN h /\ h[k] = Value(u, a, name)
    BY <1>4, <1>5
  <2>2. PICK i \in 2 .. n + 1 : lines[i] = LineOf(k, h)
    BY <1>11, <2>1 DEF LinesOf
  <2>3. lines[i].name = k /\ lines[i].text = h[k] /\ k[1] = name
    BY <2>2 DEF LineOf
  <2>4. ASSUME NEW j \in 2 .. n + 1, lines[j].name[1] = name PROVE j = i
    <3>1. lines[j] \in LinesOf(h)
      BY <1>9
    <3>2. lines[j].name \in DOMAIN h /\ lines[j] = LineOf(lines[j].name, h)
      BY <1>8, <3>1
    <3>3. lines[j].name = k
      BY <1>3, <2>4, <3>2
    <3> QED
      BY <1>10, <2>2, <3>2, <3>3
  <2>5. {j \in 2 .. n + 1 : lines[j].name[1] = name} = {i}
    BY <2>3, <2>4
  <2> QED
    BY <1>12, <2>1, <2>3, <2>5
<1>14. Len(lines) = n + 2 /\ Len(lines) - 1 = n + 1 /\ lines # <<>>
  BY <1>7 DEF Layout
<1>15. /\ lines[1].kind = "request" /\ lines[1].name = method
       /\ lines[1].text = IF u.path = <<>> THEN <<Slash>> ELSE u.path
       /\ lines[Len(lines)].kind = "end"
  BY <1>1, <1>7, <1>14 DEF Layout
<1> QED
  BY <1>12, <1>13, <1>14, <1>15 DEF AsksFor, fields, names

-----------------------------------------------------------------------------
(* The request.                                                            *)

\* The URI is the one asked for, and what is written is its request; and without a port to connect to
\* every attempt throws.
Asked == /\ exchange \in Exchanges /\ uri = parse(Text(exchange.uri))
         /\ phase \in {"response", "done"} => wrote # <<>>
         /\ wrote # <<>> => phase \in {"response", "done", "dropped", "undefined"}
         /\ wrote # <<>> => session # "none"
         /\ wrote # <<>> => wrote = Written(exchange.method, uri, Fields(uri, exchange.assigned))

Portless == uri.port = NoPort => \A f \in Families : attempt[f] \in {"none", "threw"}

\* The tasks that are raced, and what they have left.
Tasks == /\ attempts \in Seq(Families) /\ Len(attempts) <= 2
         /\ phase \in {"lookup", "race6", "second"} => Len(attempts) <= 1
         /\ left \in [Families -> Nat] /\ raced \subseteq Families
         /\ dummy \in {"none", "waiting", "untimed", "done"}

\* What any step is one of: each leaves alone what closes, or is about that.
LEMMA Steps ==
    ASSUME [Next]_allVars
    PROVE  \/ UNCHANGED clientVars
           \/ (Step \/ Events) /\ UNCHANGED closing
           \/ \E f \in Families : Closes(f) \/ Removes(f) \/ VerifiesFreed(f)
           \/ RunsAgain
  BY DEF Next, ClientStep, Running, Closing, ResponseStep, Receiving, allVars

LEMMA InvNext == Inv /\ Tasks /\ [Next]_allVars => Inv'
<1> SUFFICES ASSUME Inv, Tasks, [Next]_allVars PROVE Inv'
  OBVIOUS
<1>1. CASE UNCHANGED clientVars
  <2>1. UNCHANGED <<exchange, phase, attempts, attempt, raced, dummy, session, registered, closed, removing, thrown>>
    BY <1>1 DEF clientVars, asked, connection, closing
  <2> QED
    BY <2>1, SameRaces DEF Inv, Shape
<1>2. CASE Step /\ UNCHANGED closing
  <2>1. CASE Lookup
    BY <1>2, <2>1, LookupKeeps
  <2>2. CASE Race6Ends \/ Race4Ends
    BY <1>2, <2>2, RaceResumesKeeps
  <2>3. CASE SecondRace
    <3>1. attempts \in Seq(Families) /\ Len(attempts) <= 1
      BY <2>3 DEF SecondRace, Tasks
    <3> QED
      BY <1>2, <2>3, <3>1, SecondRaceKeeps
  <2>4. CASE NoSecondRace \/ Send \/ Responds
    BY <1>2, <2>4, GoesOnKeeps
  <2> QED
    BY <1>2, <2>1, <2>2, <2>3, <2>4 DEF Step
<1>3. CASE Events /\ UNCHANGED closing
  <2>1. CASE TimerFires
    BY <1>3, <2>1, TimerKeeps
  <2>2. ASSUME NEW f \in Families, Connected(f) \/ Handshaken(f) \/ Verified(f) \/ VerifyThrows(f)
        PROVE  Inv'
    <3>1. Suspended /\ attempt[f] \in Waiting /\ f \notin closed
      BY <2>2 DEF Connected, Handshaken, Verified, VerifyThrows, Waiting
    <3>2. PICK now \in States \ {"none"} : Moves(f, now)
      BY <2>2 DEF Connected, Handshaken, Verified, VerifyThrows, States, Waiting, Ended
    <3> QED
      BY <1>3, <3>1, <3>2, MovesKeeps
  <2> QED
    BY <1>3, <2>1, <2>2 DEF Events
<1>4. ASSUME NEW f \in Families, Closes(f) \/ Removes(f) PROVE Inv'
  BY <1>4, ClosesKeeps, RemovesKeeps
<1>5. ASSUME NEW f \in Families, VerifiesFreed(f) PROVE Inv'
  <2>1. /\ phase' = "undefined" /\ phase # "lookup"
        /\ UNCHANGED <<exchange, attempts, attempt, raced, dummy, session, registered, closed, removing, thrown>>
    BY <1>5 DEF VerifiesFreed, Suspended, asked, connection, closing
  <2>2. Shape' /\ Sessions'
    BY <2>1 DEF Inv, Shape, Sessions, Phases
  <2> QED
    BY <2>1, <2>2, RacedStays DEF Inv
<1>6. CASE RunsAgain
  <2>1. /\ UNCHANGED <<exchange, phase, attempts, attempt, raced, dummy, session, registered, closed, removing>>
        /\ thrown' = FALSE
    BY <1>6 DEF RunsAgain, asked, connection
  <2> QED
    BY <2>1, SameRaces
<1> QED
  BY <1>1, <1>2, <1>3, <1>4, <1>5, <1>6, Steps

AskedInv == Asked /\ Portless /\ Tasks

LEMMA NoTask == <<>> \in Seq(Families) /\ Len(<<>>) <= 1 /\ Len(<<>>) <= 2
  OBVIOUS

LEMMA AskedInit == ClientInit => AskedInv
<1> SUFFICES ASSUME ClientInit PROVE AskedInv
  OBVIOUS
<1>1. exchange \in Exchanges /\ exchange.addresses \in [Families -> Nat]
  BY ClientAssumption DEF ClientInit
<1>2. Asked
  BY <1>1 DEF ClientInit, Asked
<1>3. Portless
  BY DEF ClientInit, Portless
<1>4. attempts \in Seq(Families) /\ Len(attempts) <= 1 /\ Len(attempts) <= 2
  BY NoTask DEF ClientInit
<1>5. Tasks
  <2>1. left \in [Families -> Nat] /\ raced = {} /\ dummy = "none"
    BY <1>1 DEF ClientInit
  <2> QED
    BY <1>4, <2>1 DEF Tasks
<1> QED
  BY <1>2, <1>3, <1>5 DEF AskedInv

\* A race adds to the list what it starts.
LEMMA RaceKeepsAsked ==
    ASSUME Inv, AskedInv, NEW list \in Seq(Families), Len(list) <= 2, NEW fresh \in Families \cup {"none"},
           NEW race \in {"race6", "race4"}, NEW after \in {"second", "request"},
           phase \in {"lookup", "second"}, Race(list, fresh, race, after),
           race = "race6" => Len(list) <= 1 /\ after = "second", race = "race4" => after = "request"
    PROVE  AskedInv'
<1>1. /\ UNCHANGED <<exchange, uri, wrote, session>> /\ attempts' = list /\ phase' \in {race, after, "threw"}
      /\ \/ UNCHANGED <<raced, dummy>>
         \/ raced' = ToSet(list) /\ dummy' = "waiting"
  BY DEF Race, asked
<1>2. Asked'
  BY <1>1 DEF AskedInv, Asked
<1>3. left' \in [Families -> Nat] /\ Portless'
  <2>1. CASE fresh = "none"
    BY <1>1, <2>1 DEF Race, AskedInv, Tasks, Portless
  <2>2. CASE fresh # "none"
    <3>1. PICK n \in 0 .. exchange.addresses[fresh] : Starts(fresh, n)
      BY <2>2 DEF Race
    <3>2. exchange \in Exchanges /\ exchange.addresses \in [Families -> Nat]
      BY ClientAssumption DEF AskedInv, Asked
    <3>3. exchange.addresses[fresh] \in Nat
      BY <2>2, <3>2
    <3>4. LeftOver(fresh, n) \in Nat
      BY <3>3 DEF LeftOver
    <3>5. left' = [left EXCEPT ![fresh] = LeftOver(fresh, n)]
      BY <3>1 DEF Starts
    <3>6. left' \in [Families -> Nat]
      BY <3>4, <3>5 DEF AskedInv, Tasks
    <3>7. uri.port = NoPort => attempt' = [attempt EXCEPT ![fresh] = "threw"]
      BY <3>1 DEF Starts
    <3>8. Portless'
      BY <1>1, <3>7 DEF AskedInv, Portless, Inv, Shape
    <3> QED
      BY <3>6, <3>8
  <2> QED
    BY <2>1, <2>2
<1>4. ToSet(list) \subseteq Families
  BY DEF ToSet
<1>5. Tasks'
  BY <1>1, <1>3, <1>4 DEF AskedInv, Tasks
<1> QED
  BY <1>2, <1>3, <1>5 DEF AskedInv

\* An attempt that goes on was started, so there is a port.
LEMMA MovesKeepsAsked ==
    ASSUME Inv, AskedInv, NEW f \in Families, NEW now, Suspended, attempt[f] \in Waiting, Moves(f, now),
           left' \in [Families -> Nat]
    PROVE  AskedInv'
<1>1. UNCHANGED <<exchange, uri, wrote, session, phase, attempts, raced>> /\ dummy' \in {dummy, "done"}
  BY DEF Moves, asked
<1>2. uri.port # NoPort
  BY DEF AskedInv, Portless, Waiting
<1> QED
  BY <1>1, <1>2 DEF AskedInv, Asked, Portless, Tasks

LEMMA StepKeepsAsked == ASSUME Inv, AskedInv, Step PROVE AskedInv'
<1>1. CASE Lookup
  <2>1. phase = "lookup"
    BY <1>1 DEF Lookup
  <2>2. CASE exchange.addresses["v6"] > 0
    <3>1. Race(<<"v6">>, "v6", "race6", "second")
      BY <1>1, <2>2 DEF Lookup
    <3>2. <<"v6">> \in Seq(Families) /\ Len(<<"v6">>) = 1 /\ "v6" \in Families \cup {"none"}
      BY DEF Families
    <3> QED
      <4>1. PICK list : list = <<"v6">>
        OBVIOUS
      <4>2. list \in Seq(Families) /\ Len(list) = 1 /\ Race(list, "v6", "race6", "second")
        BY <3>1, <3>2, <4>1
      <4>3. Len(list) <= 2 /\ Len(list) <= 1
        BY <4>2
      <4> QED
        BY <2>1, <3>2, <4>2, <4>3, RaceKeepsAsked
  <2>3. CASE ~(exchange.addresses["v6"] > 0)
    BY <1>1, <2>3 DEF Lookup, connection, asked, AskedInv, Asked, Portless, Tasks
  <2> QED
    BY <2>2, <2>3
<1>2. CASE Race6Ends \/ Race4Ends
  <2>1. /\ UNCHANGED <<exchange, uri, wrote, attempts, attempt, left>>
        /\ phase \in {"race6", "race4"} /\ phase' \in {"second", "request", "threw"}
        /\ phase = "race4" => phase' # "second"
        /\ raced' = {} /\ dummy' = "none"
    BY <1>2 DEF Race6Ends, Race4Ends, RaceResumes, asked
  <2> QED
    BY <2>1 DEF AskedInv, Asked, Portless, Tasks
<1>3. CASE SecondRace
  <2>1. phase = "second" /\ attempts \in Seq(Families) /\ Len(attempts) <= 1
    BY <1>3 DEF SecondRace, AskedInv, Tasks
  <2>2. PICK kept \in {<<>>, attempts} :
           \/ Race(kept \o <<"v4">>, "v4", "race4", "request")
           \/ Race(kept, "none", "race4", "request")
    BY <1>3 DEF SecondRace
  <2>3. kept \in Seq(Families) /\ Len(kept) <= 1
    BY <2>1, <2>2, NoTask
  <2>4. /\ "v4" \in Families /\ Len(kept) <= 2
        /\ kept \o <<"v4">> \in Seq(Families) /\ Len(kept \o <<"v4">>) <= 2
    BY <2>3 DEF Families
  <2>5. CASE Race(kept, "none", "race4", "request")
    BY <2>1, <2>3, <2>4, <2>5, RaceKeepsAsked
  <2>6. CASE Race(kept \o <<"v4">>, "v4", "race4", "request")
    BY <2>1, <2>4, <2>6, RaceKeepsAsked
  <2> QED
    BY <2>2, <2>5, <2>6
<1>4. CASE NoSecondRace
  BY <1>4 DEF NoSecondRace, connection, asked, AskedInv, Asked, Portless, Tasks
<1>5. CASE Send
  <2>1. /\ phase = "request" /\ UNCHANGED <<exchange, uri, attempts, attempt, left, raced, dummy, session>>
        /\ \/ phase' = "failed" /\ wrote' = wrote
           \/ phase' = "response" /\ session # "none" /\ wrote' = Written(exchange.method, uri, Fields(uri, exchange.assigned))
    BY <1>5 DEF Send, connection, asked
  <2>2. Written(exchange.method, uri, Fields(uri, exchange.assigned)) # <<>>
    <3>1. IsUri(exchange.uri) /\ exchange.assigned \in Seq(Assignment) /\ uri = parse(Text(exchange.uri))
      BY ClientAssumption DEF AskedInv, Asked
    <3> QED
      BY <3>1, Asks
  <2> QED
    BY <2>1, <2>2 DEF AskedInv, Asked, Portless, Tasks
<1>6. CASE Responds
  BY <1>6 DEF Responds, connection, asked, AskedInv, Asked, Portless, Tasks
<1> QED
  BY <1>1, <1>2, <1>3, <1>4, <1>5, <1>6 DEF Step

\* What happens beside send() leaves it as it is, or ends it.
LEMMA ElseKeepsAsked ==
    ASSUME AskedInv, UNCHANGED <<exchange, uri, attempts, attempt, left, raced, session, wrote>>,
           phase' \in {phase, "dropped", "undefined"}, dummy' \in {dummy, "untimed", "done"}
    PROVE  AskedInv'
<1>1. Asked'
  BY DEF AskedInv, Asked
<1>2. Portless'
  BY DEF AskedInv, Portless
<1>3. Tasks'
  BY DEF AskedInv, Tasks
<1> QED
  BY <1>1, <1>2, <1>3 DEF AskedInv

LEMMA AskedNext == Inv /\ AskedInv /\ [Next]_allVars => AskedInv'
<1> SUFFICES ASSUME Inv, AskedInv, [Next]_allVars PROVE AskedInv'
  OBVIOUS
<1>1. CASE UNCHANGED clientVars
  BY <1>1, ElseKeepsAsked DEF clientVars, asked, connection
<1>2. CASE Step
  BY <1>2, StepKeepsAsked
<1>3. CASE TimerFires
  BY <1>3, ElseKeepsAsked DEF TimerFires, asked
<1>4. ASSUME NEW f \in Families, Connected(f) \/ Handshaken(f) \/ Verified(f) \/ VerifyThrows(f)
      PROVE  AskedInv'
  <2>1. Suspended /\ attempt[f] \in Waiting /\ \E now : Moves(f, now)
    BY <1>4 DEF Connected, Handshaken, Verified, VerifyThrows, Waiting
  <2>2. left' \in [Families -> Nat]
    BY <1>4 DEF Connected, Handshaken, Verified, VerifyThrows, AskedInv, Tasks
  <2> QED
    BY <2>1, <2>2, MovesKeepsAsked
<1>5. ASSUME NEW f \in Families, Closes(f) \/ VerifiesFreed(f) PROVE AskedInv'
  BY <1>5, ElseKeepsAsked DEF Closes, VerifiesFreed, asked, connection
<1>6. ASSUME NEW f \in Families, Removes(f) PROVE AskedInv'
  <2>1. /\ UNCHANGED <<exchange, uri, attempts, attempt, left, raced, session, wrote>>
        /\ phase' \in {phase, "dropped", "undefined"} /\ dummy' \in {dummy, "untimed", "done"}
    <3>1. CASE Throws(f)
      BY <3>1 DEF Throws, asked
    <3>2. CASE UNCHANGED <<asked, phase, attempts, attempt, left, raced, dummy, session, wrote, closed, thrown>>
      BY <3>2 DEF asked
    <3>3. CASE phase' = "undefined" /\ UNCHANGED <<asked, connection, wrote, closing>>
      BY <3>3 DEF asked, connection
    <3> QED
      BY <1>6, <3>1, <3>2, <3>3 DEF Removes
  <2> QED
    BY <2>1, ElseKeepsAsked
<1>7. CASE RunsAgain
  BY <1>7, ElseKeepsAsked DEF RunsAgain, asked, connection
<1> QED
  BY <1>1, <1>2, <1>3, <1>4, <1>5, <1>6, <1>7, Steps DEF Events

LEMMA InvHolds == Spec => [](Inv /\ AskedInv)
<1>1. ClientInit => Inv /\ AskedInv
  BY InvInit, AskedInit
<1>2. Inv /\ AskedInv /\ [Next]_allVars => (Inv /\ AskedInv)'
  BY InvNext, AskedNext DEF AskedInv
<1> QED
  BY <1>1, <1>2, PTL DEF Spec

\* However the attempts, the timers, the failures and the server's end of the connection were
\* interleaved, the session send() writes to is connected and open when it does, and in the loop until it
\* closes.
THEOREM UsesConnectedHolds == Spec => []UsesConnected
<1>1. Inv => UsesConnected
  BY DEF Inv, Shape, Sessions, Raced, Finished, UsesConnected
<1> QED
  BY <1>1, InvHolds, PTL

\* send() gives up only when it has tried every family that has addresses.
THEOREM FallsBackHolds == Spec => []FallsBack
<1>1. Inv => FallsBack
  BY DEF Inv, Tried, FallsBack, Families
<1> QED
  BY <1>1, InvHolds, PTL

LEMMA PortIs ==
    ASSUME NEW u, IsUri(u), NEW w, w = parse(Text(u))
    PROVE  w.port \in {NoPort} \cup 0 .. MaxPort
<1> DEFINE scheme == <<<<u.scheme, 0>>>>
           path == IF u.path = <<>> THEN <<Slash>> ELSE u.path
           port == IF u.port = NoPort THEN DefaultPort(scheme) ELSE u.port
           netloc == u.host \o Stated(u)
<1>1. w = [scheme |-> scheme, host |-> u.host, path |-> path, port |-> port, netloc |-> netloc]
  BY ParsesTo, Zenon
<1> HIDE DEF path, port, netloc, scheme
<1>2. w.port = port
  BY <1>1
<1>3. DefaultPort(scheme) \in {80, 443, NoPort}
  BY DEF DefaultPort
<1>4. 80 \in 0 .. MaxPort /\ 443 \in 0 .. MaxPort
  BY DEF MaxPort
<1>5. u.port # NoPort => u.port \in 0 .. MaxPort
  BY DEF IsUri
<1> QED
  BY <1>2, <1>3, <1>4, <1>5 DEF port

\* Where a URI is to be connected to, and where its request is sent.
LEMMA TargetIs ==
    ASSUME NEW u, IsUri(u), NEW w, w = parse(Text(u)), w.port # NoPort
    PROVE  Target(u) = [port |-> w.port, ssl |-> w.scheme = <<<<"https", 0>>>>]
<1> DEFINE scheme == <<<<u.scheme, 0>>>>
           path == IF u.path = <<>> THEN <<Slash>> ELSE u.path
           port == IF u.port = NoPort THEN DefaultPort(scheme) ELSE u.port
           netloc == u.host \o Stated(u)
<1>1. w = [scheme |-> scheme, host |-> u.host, path |-> path, port |-> port, netloc |-> netloc]
  BY ParsesTo, Zenon
<1> HIDE DEF path, port, netloc, scheme
<1>2. w.scheme = scheme /\ w.port = port
  BY <1>1
<1>3. scheme = <<<<"https", 0>>>> <=> u.scheme = "https"
  BY DEF scheme
<1>4. scheme = <<<<"http", 0>>>> <=> u.scheme = "http"
  BY DEF scheme
<1>5. DefaultPort(scheme) = IF u.scheme = "http" THEN 80 ELSE IF u.scheme = "https" THEN 443 ELSE NoPort
  BY <1>3, <1>4 DEF DefaultPort
<1>6. port = IF u.port # NoPort THEN u.port ELSE IF u.scheme = "https" THEN 443 ELSE 80
  BY <1>2, <1>5 DEF port
<1> QED
  BY <1>2, <1>3, <1>6 DEF Target

\* However a URI leaves out its port or its path, and however often and in whatever spelling the
\* application assigns its fields: what is written asks for what the URI names, on a connection to its
\* port and with the security of its scheme.
THEOREM RequestArrivesHolds == Spec => []RequestArrives
<1>1. Inv /\ AskedInv => RequestArrives
  <2> SUFFICES ASSUME Inv, AskedInv, wrote # <<>>
               PROVE  /\ AsksFor(wrote, exchange.method, exchange.uri, exchange.assigned)
                      /\ Target(exchange.uri) = [port |-> uri.port, ssl |-> ssl]
    BY DEF RequestArrives
  <2>1. IsUri(exchange.uri) /\ exchange.assigned \in Seq(Assignment) /\ uri = parse(Text(exchange.uri))
    BY ClientAssumption DEF AskedInv, Asked
  <2>2. wrote = Written(exchange.method, uri, Fields(uri, exchange.assigned))
    BY DEF AskedInv, Asked
  <2>3. AsksFor(wrote, exchange.method, exchange.uri, exchange.assigned)
    BY <2>1, <2>2, Asks
  <2>4. uri.port # NoPort
    <3>1. session \in Families /\ attempt[session] = "session"
      BY DEF Inv, Shape, Sessions, AskedInv, Asked
    <3> QED
      BY <3>1 DEF AskedInv, Portless
  <2>5. Target(exchange.uri) = [port |-> uri.port, ssl |-> ssl]
    BY <2>1, <2>4, TargetIs DEF ssl
  <2> QED
    BY <2>3, <2>5
<1> QED
  BY <1>1, InvHolds, PTL

\* What ends where a sequence ends is a suffix of it.
LEMMA SuffixIs ==
    ASSUME NEW S, NEW t \in Seq(S), NEW s \in Seq(S), NEW p, IsPiece(s, t, p), p = Len(t) - Len(s)
    PROVE  IsSuffix(s, t)
<1> DEFINE n == Len(s)
           N == Len(t)
           r == Reverse(s)
           R == Reverse(t)
           start == SubSeq(R, 1, n)
<1>1. n \in Nat /\ N \in Nat /\ n <= N /\ \A i \in 1 .. n : s[i] = t[N - n + i]
  BY DEF IsPiece
<1>2. DOMAIN s = 1 .. n /\ DOMAIN t = 1 .. N /\ (\A i \in 1 .. n : s[i] \in S) /\ \A i \in 1 .. N : t[i] \in S
  OBVIOUS
<1>3. r = [i \in 1 .. n |-> s[(n - i) + 1]] /\ R = [i \in 1 .. N |-> t[(N - i) + 1]]
  BY DEF Reverse
<1> HIDE DEF n, N, r, R
<1>4. \A i \in 1 .. n : r[i] \in S
  <2> TAKE i \in 1 .. n
  <2>1. (n - i) + 1 \in 1 .. n
    BY <1>1
  <2> QED
    BY <1>2, <1>3, <2>1
<1>5. \A i \in 1 .. N : R[i] \in S
  <2> TAKE i \in 1 .. N
  <2>1. (N - i) + 1 \in 1 .. N
    BY <1>1
  <2> QED
    BY <1>2, <1>3, <2>1
<1>6. r \in Seq(S) /\ Len(r) = n /\ R \in Seq(S) /\ Len(R) = N
  BY <1>1, <1>3, <1>4, <1>5
<1>7. \A i \in 1 .. n : r[i] = R[i]
  <2> TAKE i \in 1 .. n
  <2>1. (n - i) + 1 \in 1 .. n /\ i \in 1 .. N /\ N - n + ((n - i) + 1) = (N - i) + 1
    BY <1>1
  <2>2. s[(n - i) + 1] = t[(N - i) + 1]
    <3>1. PICK k \in 1 .. n : k = (n - i) + 1
      BY <2>1
    <3>2. s[k] = t[N - n + k] /\ N - n + k = (N - i) + 1
      BY <1>1, <2>1, <3>1
    <3> QED
      BY <3>1, <3>2
  <2> QED
    BY <1>3, <2>1, <2>2
<1>8. IsPiece(r, R, 0)
  BY <1>1, <1>6, <1>7 DEF IsPiece
<1>9. 0 \in Nat /\ n \in Nat /\ 0 <= n /\ n <= Len(R) /\ 0 + 1 = 1 /\ n - 0 = n
  BY <1>1, <1>6
<1>10. start \in Seq(S) /\ Len(start) = n /\ IsPiece(start, R, 0)
  <2>1. SubSeq(R, 0 + 1, n) \in Seq(S) /\ Len(SubSeq(R, 0 + 1, n)) = n - 0 /\ IsPiece(SubSeq(R, 0 + 1, n), R, 0)
    BY <1>6, <1>9, Cut
  <2> QED
    BY <1>9, <2>1
<1> HIDE DEF start
<1>11. IsPiece(start, r, 0)
  <2>1. \A i \in 1 .. Len(start) : start[i] = R[i]
    BY <1>10, FirstPiece
  <2> QED
    BY <1>1, <1>6, <1>7, <1>10, <2>1 DEF IsPiece
<1>12. start = r
  BY <1>6, <1>10, <1>11, WholePiece
<1>13. SubSeq(r, 1, n) = r
  BY <1>6, SubSeqFull
<1> QED
  BY <1>1, <1>6, <1>12, <1>13 DEF IsSuffix, IsPrefix, start, r, R

LEMMA MessageTypes == ASSUME MessageInv PROVE MessageTypeOK
<1>1. /\ response \in Responses
      /\ sent \in Seq(Octet) /\ buffer \in Seq(Octet) /\ data \in Seq(Octet) /\ whole \in Seq(Octet)
      /\ IsPiece(buffer, whole, used) /\ IsPiece(sent, whole, used + Len(buffer))
      /\ offered \in 0 .. Len(buffer) /\ declined \in 0 .. Len(buffer)
      /\ Len(data) <= offered /\ IsPiece(data, whole, pos)
      /\ read \in Nat /\ chunk \in Nat /\ read <= offered - Len(data) /\ chunk <= offered
  BY Octets DEF MessageInv, Windows
<1>2. Len(sent) \in Nat /\ Len(buffer) \in Nat /\ Len(data) \in Nat /\ Len(whole) \in Nat /\ used \in Nat /\ pos \in Nat
  BY <1>1, LenProperties DEF IsPiece
<1>3. used = Len(whole) - Len(sent) - Len(buffer) /\ pos = used + offered - Len(data)
  BY DEF used, pos
<1> HIDE DEF used, pos
<1>4. IsSuffix(sent, whole)
  <2>1. used + Len(buffer) = Len(whole) - Len(sent)
    BY <1>2, <1>3
  <2> QED
    BY <1>1, <2>1, SuffixIs
<1>5. IsSuffix(buffer \o sent, whole)
  <2>1. IsPiece(buffer \o sent, whole, used)
    BY <1>1, Adjoin
  <2>2. buffer \o sent \in Seq(Octet) /\ Len(buffer \o sent) = Len(buffer) + Len(sent)
    BY <1>1, Together
  <2>3. used = Len(whole) - Len(buffer \o sent)
    BY <1>2, <1>3, <2>2
  <2> QED
    BY <1>1, <2>1, <2>2, <2>3, SuffixIs
<1>6. IsSuffix(data, SubSeq(buffer, 1, offered))
  <2> DEFINE part == SubSeq(buffer, 1, offered)
             q == offered - Len(data)
  <2>1. offered \in Nat /\ 0 <= offered /\ offered <= Len(buffer) /\ 0 + 1 = 1 /\ offered - 0 = offered
        /\ q \in Nat /\ q + Len(data) = offered /\ used + 0 = used
    BY <1>1, <1>2
  <2>2. part \in Seq(Octet) /\ Len(part) = offered /\ IsPiece(part, buffer, 0)
    <3>1. /\ SubSeq(buffer, 0 + 1, offered) \in Seq(Octet) /\ Len(SubSeq(buffer, 0 + 1, offered)) = offered - 0
          /\ IsPiece(SubSeq(buffer, 0 + 1, offered), buffer, 0)
      BY <1>1, <2>1, Cut
    <3> QED
      BY <2>1, <3>1
  <2> HIDE DEF part
  <2>3. IsPiece(part, whole, used)
    <3>1. IsPiece(part, whole, used + 0)
      BY <1>1, <2>2, PieceOfPiece
    <3> QED
      BY <2>1, <3>1
  <2>4. pos = used + q
    BY <1>2, <1>3, <2>1
  <2> HIDE DEF q
  <2>5. ASSUME NEW i \in 1 .. Len(data) PROVE data[i] = part[q + i]
    <3>1. q + i \in 1 .. Len(part) /\ pos + i = used + (q + i)
      BY <1>2, <2>1, <2>2, <2>4
    <3>2. data[i] = whole[pos + i]
      BY <1>1 DEF IsPiece
    <3>3. part[q + i] = whole[used + (q + i)]
      BY <2>3, <3>1 DEF IsPiece
    <3> QED
      BY <3>1, <3>2, <3>3
  <2>6. IsPiece(data, part, q)
    BY <2>1, <2>2, <2>5 DEF IsPiece
  <2>7. q = Len(part) - Len(data)
    BY <2>1, <2>2 DEF q
  <2>8. IsSuffix(data, part)
    BY <1>1, <2>2, <2>6, <2>7, SuffixIs
  <2> QED
    BY <2>8 DEF part
<1>7. read \in 0 .. offered /\ chunk \in 0 .. offered
  BY <1>1, <1>2
<1>8. /\ statusCode \in {-1, 200}
      /\ headerRead \in BOOLEAN /\ chunked \in BOOLEAN /\ complete \in BOOLEAN
      /\ remaining \in -1 .. SizeMax
      /\ DOMAIN header \subseteq Names \cup {"length", "coding"}
      /\ pc \in PCs
  BY DEF MessageInv, Parts, Places
<1> QED
  BY <1>1, <1>4, <1>5, <1>6, <1>7, <1>8 DEF MessageTypeOK, whole

\* The types of send(), its attempts and the message it receives; nothing is written to a session before
\* the response is awaited, and only sessions that have closed are to be removed.
THEOREM ClientTypeOKHolds == Spec => []ClientTypeOK
<1>1. Inv /\ AskedInv /\ MessageInv => ClientTypeOK
  <2> SUFFICES ASSUME Inv, AskedInv, MessageInv PROVE ClientTypeOK
    OBVIOUS
  <2>1. MessageTypeOK
    BY MessageTypes
  <2>2. uri.port \in {NoPort} \cup 0 .. MaxPort
    <3>1. IsUri(exchange.uri) /\ uri = parse(Text(exchange.uri))
      BY ClientAssumption DEF AskedInv, Asked
    <3> QED
      BY <3>1, PortIs
  <2>3. attempts \in SeqOf(Families, 2)
    <3>1. attempts \in Seq(Families) /\ Len(attempts) <= 2
      BY DEF AskedInv, Tasks
    <3>2. Len(attempts) \in Nat /\ attempts \in [1 .. Len(attempts) -> Families]
      BY <3>1, LenProperties
    <3>3. Len(attempts) \in 0 .. 2
      BY <3>1, <3>2
    <3> QED
      BY <3>2, <3>3 DEF SeqOf
  <2>4. Shape /\ Asked /\ Tasks
    BY DEF Inv, AskedInv
  <2> QED
    BY <2>1, <2>2, <2>3, <2>4 DEF Shape, Asked, Tasks, States, ClientTypeOK
<1> QED
  BY <1>1, InvHolds, MessageInvHolds, PTL
=============================================================================
