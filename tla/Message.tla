------------------------------- MODULE Message ------------------------------
(***************************************************************************)
(* covent::http::Message: the parser of a response, resumed with whatever  *)
(* part of it has arrived.  process() is offered the input of its session, *)
(* a piece of it or all of it, and reports how much it has used; the rest  *)
(* is offered again, together with what has come since.                    *)
(*                                                                         *)
(* A stream is a sequence of pairs <<kind, value>>: the two octets that    *)
(* end a line, the octets of the body, and one pair for a status line, a   *)
(* field or the size of a chunk.  Each turn of a loop is an action.        *)
(***************************************************************************)
EXTENDS Integers, SequencesExt

CONSTANTS Responses,    \* what the server may send, one of them in a behaviour
          Names,        \* names of fields
          SizeMax       \* bound: the largest std::size_t

CR == <<"CR", 0>>
LF == <<"LF", 0>>

\* fields: the header in the order sent, pairs <<name, value>> or a line without a colon; framing: how
\* the end of the body is told; chunks: the body, in the pieces a chunked one is sent in.
Response == [fields : Seq(Names \X Int), framing : {"length", "chunked", "othercoding", "none"},
             chunks : Seq(Seq({"octet", "CR", "LF"} \X Int)), trailer : Seq(Names \X Int)]

Body(r) == FlattenSeq(r.chunks)

\* The piece that ends a chunked body is its last, and only what is after one is a trailer.
Proper(r) == IF r.framing = "chunked" THEN \A i \in DOMAIN r.chunks : r.chunks[i] # <<>>
                                      ELSE r.trailer = <<>>

ASSUME MessageAssumption == /\ Responses \subseteq Response /\ SizeMax \in Nat
                            /\ {"length", "coding"} \cap Names = {}
                            /\ \A r \in Responses : Proper(r) /\ Len(Body(r)) <= SizeMax

Line(octet) == <<octet, CR, LF>>
Lines(octets) == FlattenSeq([i \in DOMAIN octets |-> Line(octets[i])])

\* The server's side: the response as octets.
Framing(r) == CASE r.framing = "length" -> Line(<<"length", Len(Body(r))>>)
                [] r.framing = "chunked" -> Line(<<"coding", 1>>)
                [] r.framing = "othercoding" -> Line(<<"coding", 0>>)
                [] r.framing = "none" -> <<>>
Chunk(octets) == Line(<<"size", Len(octets)>>) \o octets \o <<CR, LF>>
Stream(r) ==
    Line(<<"status", 200>>) \o Lines(r.fields) \o Framing(r) \o <<CR, LF>>
        \o IF r.framing = "chunked"
           THEN FlattenSeq([i \in DOMAIN r.chunks |-> Chunk(r.chunks[i])])
                  \o Line(<<"size", 0>>) \o Lines(r.trailer) \o <<CR, LF>>
           ELSE Body(r)

VARIABLES response,     \* what the server sends
          sent,         \* what of it has not arrived yet
          buffer,       \* the session's input
          declined,     \* how many octets the last process() was offered that used none
          offered,      \* how many the present one was called with
          data,         \* what is left of its string_view
          read,         \* the octets it will report
          chunk,        \* read_body_chunked: octets of the chunk it is in, as counted so far
          statusCode,   \* status_code, -1 before it is known
          header,       \* the fields
          headerRead,   \* header_read
          chunked,
          remaining,    \* body_remaining, -1 for nullopt
          body,
          complete,
          pc            \* where process() is

stream == <<response, sent>>
offer == <<buffer, declined, offered>>
view == <<data, read, chunk>>
message == <<statusCode, header, headerRead, chunked, remaining, body, complete>>
vars == <<stream, offer, view, message, pc>>

PCs == {"idle", "status", "header", "type", "body", "chunks", "trailer", "return", "spinning"}

MessageTypeOK ==
    /\ response \in Responses
    /\ IsSuffix(sent, Stream(response)) /\ IsSuffix(buffer \o sent, Stream(response))
    /\ declined \in 0 .. Len(buffer) /\ offered \in 0 .. Len(buffer)
    /\ IsSuffix(data, SubSeq(buffer, 1, offered))
    /\ read \in 0 .. offered /\ chunk \in 0 .. offered
    /\ statusCode \in {-1, 200}
    /\ DOMAIN header \subseteq Names \cup {"length", "coding"}
    /\ headerRead \in BOOLEAN /\ chunked \in BOOLEAN /\ complete \in BOOLEAN
    /\ remaining \in -1 .. SizeMax
    /\ pc \in PCs

Init == /\ response \in Responses
        /\ sent = Stream(response)
        /\ buffer = <<>> /\ declined = 0 /\ offered = 0
        /\ data = <<>> /\ read = 0 /\ chunk = 0
        /\ statusCode = -1 /\ header = <<>> /\ headerRead = FALSE
        /\ chunked = FALSE /\ remaining = -1 /\ body = <<>>
        /\ complete = FALSE
        /\ pc = "idle"

-----------------------------------------------------------------------------
(* The session's part.                                                     *)

\* Octets arrive.
Arrive(n) ==
    /\ pc = "idle" /\ n <= Len(sent)
    /\ buffer' = buffer \o SubSeq(sent, 1, n)
    /\ sent' = SubSeq(sent, n + 1, Len(sent))
    /\ UNCHANGED <<response, declined, offered, view, message, pc>>

\* read_cb() calls process() with the first n octets: contiguous ones, or all there are.  It does not
\* repeat an offer that was declined, and once complete the message has gone to the Response.
Offer(n) ==
    /\ pc = "idle" /\ ~complete
    /\ n > declined /\ n <= Len(buffer)
    /\ offered' = n /\ data' = SubSeq(buffer, 1, n) /\ read' = 0
    /\ pc' = IF statusCode = -1 THEN "status" ELSE IF headerRead THEN "type" ELSE "header"
    /\ UNCHANGED <<stream, buffer, declined, chunk, message>>

\* process() returns, and what it reports is used().
Return ==
    /\ pc = "return" /\ pc' = "idle"
    /\ buffer' = SubSeq(buffer, read + 1, Len(buffer))
    /\ declined' = IF read = 0 THEN offered ELSE 0
    /\ offered' = 0 /\ data' = <<>> /\ read' = 0 /\ chunk' = 0
    /\ UNCHANGED <<stream, message>>

-----------------------------------------------------------------------------
(* process().                                                              *)

\* data.find("\r\n"), as the number of octets before it.
LineEnds(d) == {i \in 1 .. Len(d) - 1 : d[i] = CR /\ d[i + 1] = LF}
HasLine == LineEnds(data) # {}
LineLength == Min(LineEnds(data)) - 1
TheLine == data[1]
Drop(n) == SubSeq(data, n + 1, Len(data))

\* Without a whole line, process() returns what it has used so far.
NoLine(here) ==
    /\ pc = here /\ ~HasLine
    /\ pc' = "return"
    /\ UNCHANGED <<stream, offer, view, message>>

process_status ==
    /\ pc = "status" /\ HasLine
    /\ statusCode' = TheLine[2]
    /\ data' = Drop(LineLength + 2) /\ read' = read + LineLength + 2
    /\ pc' = "header"
    /\ UNCHANGED <<stream, offer, chunk, header, headerRead, chunked, remaining, body, complete>>

\* What process_header() finds: a field, or the empty line.
Field ==
    /\ HasLine /\ LineLength > 0 /\ TheLine[1] # "junk"
    /\ header' = [f \in DOMAIN header \cup {TheLine[1]} |->
                     IF f = TheLine[1] THEN TheLine[2] ELSE header[f]]
    /\ data' = Drop(LineLength + 2)
    /\ UNCHANGED headerRead
EmptyLine ==
    /\ HasLine /\ LineLength = 0
    /\ headerRead' = TRUE
    /\ data' = Drop(2)
    /\ UNCHANGED header

process_header ==
    /\ pc = "header"
    /\ \/ Field /\ UNCHANGED pc
       \/ EmptyLine /\ pc' = "type"
    /\ read' = read + LineLength + 2
    /\ UNCHANGED <<stream, offer, chunk, statusCode, chunked, remaining, body, complete>>

\* A line without a colon: reported as read but left in data, so that the loop never ends.
MalformedHeader ==
    /\ pc \in {"header", "trailer"} /\ HasLine /\ LineLength > 0 /\ TheLine[1] = "junk"
    /\ pc' = "spinning"
    /\ UNCHANGED <<stream, offer, view, message>>

\* Once: a transfer coding, a length, or no body.
check_body_type ==
    /\ pc = "type"
    /\ LET undecided == remaining = -1 /\ ~chunked
           coded == "coding" \in DOMAIN header
       IN  /\ chunked' = (chunked \/ (undecided /\ coded /\ header["coding"] = 1))
           /\ remaining' = IF ~undecided \/ coded THEN remaining
                           ELSE IF "length" \in DOMAIN header THEN header["length"] ELSE 0
    /\ pc' = IF remaining' # -1 THEN "body" ELSE IF chunked' THEN "chunks" ELSE "return"
    /\ UNCHANGED <<stream, offer, view, statusCode, header, headerRead, body, complete>>

\* size_t subtraction
Minus(n, m) == IF n >= m THEN n - m ELSE n - m + SizeMax + 1

\* Whether a body is over, of which before octets were to come and now are.
OverIfRead(before, now) == before > 0 /\ now = 0
Over(before, now) == now = 0

read_body ==
    /\ pc = "body"
    /\ IF remaining > 0
       THEN /\ body' = body \o data
            /\ remaining' = Minus(remaining, Len(data))
            /\ read' = read + Len(data) /\ data' = <<>>
       ELSE UNCHANGED <<body, remaining, read, data>>
    /\ complete' = (complete \/ Over(remaining, remaining'))
    /\ pc' = "return"
    /\ UNCHANGED <<stream, offer, chunk, statusCode, header, headerRead, chunked>>

-----------------------------------------------------------------------------
(* read_body_chunked(): what a turn of its loop took from data is reported only when the whole   *)
(* chunk is there.                                                                               *)

Size == TheLine[2]

\* A chunk that is all there, with its line end.
WholeChunk ==
    LET rest == Drop(LineLength + 2)
        end == IF Len(rest) >= Size + 2 /\ rest[Size + 1] = CR /\ rest[Size + 2] = LF THEN 2 ELSE 0
    IN  /\ pc = "chunks" /\ HasLine /\ Size > 0 /\ Len(rest) >= Size + 2
        /\ body' = body \o SubSeq(rest, 1, Size)
        /\ data' = SubSeq(rest, Size + end + 1, Len(rest))
        /\ read' = read + LineLength + 2 + Size + end
        /\ UNCHANGED <<stream, offer, chunk, statusCode, header, headerRead, chunked, remaining,
                       complete, pc>>

\* What is reported of a chunk that is not all there.
ItsSizeLine == LineLength + 2
OfPartialChunk == 0

PartialChunk ==
    /\ pc = "chunks" /\ HasLine /\ Size > 0 /\ Len(Drop(LineLength + 2)) < Size + 2
    /\ data' = Drop(LineLength + 2)
    /\ read' = read + OfPartialChunk
    /\ pc' = "return"
    /\ UNCHANGED <<stream, offer, chunk, message>>

\* read_body_chunk_final(): the trailer is read as a header ...
LastChunk ==
    /\ pc = "chunks" /\ HasLine /\ Size = 0
    /\ chunk' = LineLength + 2
    /\ data' = Drop(LineLength + 2)
    /\ headerRead' = FALSE
    /\ pc' = "trailer"
    /\ UNCHANGED <<stream, offer, read, statusCode, header, chunked, remaining, body, complete>>

\* ... to its empty line, which completes the message: the last chunk is reported from its size on.
\* With part of the trailer, nothing is.
ItsEmptyLine == 2
OfLastChunk == chunk + 2

Trailer ==
    /\ pc = "trailer"
    /\ \/ /\ Field /\ chunk' = chunk + LineLength + 2
          /\ UNCHANGED <<read, complete, pc>>
       \/ /\ EmptyLine /\ UNCHANGED chunk
          /\ read' = read + OfLastChunk
          /\ complete' = TRUE /\ pc' = "return"
       \/ /\ ~HasLine
          /\ headerRead' = TRUE /\ pc' = "return"
          /\ UNCHANGED <<data, header, read, chunk, complete>>
    /\ UNCHANGED <<stream, offer, statusCode, chunked, remaining, body>>

-----------------------------------------------------------------------------
process ==
    \/ \E here \in {"status", "header", "chunks"} : NoLine(here)
    \/ process_status \/ process_header \/ MalformedHeader \/ check_body_type \/ read_body
    \/ WholeChunk \/ PartialChunk \/ LastChunk \/ Trailer

\* The session offers a piece, or everything.
Offers == \E n \in 1 .. Len(buffer) : Offer(n)
OfferAll == Offer(Len(buffer))

Receive == \/ \E n \in 1 .. Len(sent) : Arrive(n)
           \/ Offers \/ process \/ Return

-----------------------------------------------------------------------------
(* Properties.                                                             *)

WellFormed(r) == \A line \in ToSet(r.fields \o r.trailer) : line[1] # "junk"

Coding(r) == r.framing \in {"chunked", "othercoding"}

\* What the header of r says; a trailer adds to it, and a later field takes the place of an earlier one.
Header(r) ==
    LET line == r.fields \o r.trailer
        names == {line[i][1] : i \in DOMAIN line}
    IN  [f \in names \cup (IF r.framing = "length" THEN {"length"} ELSE {})
                    \cup (IF Coding(r) THEN {"coding"} ELSE {}) |->
            CASE f = "length" -> Len(Body(r))
              [] f = "coding" -> IF r.framing = "chunked" THEN 1 ELSE 0
              [] OTHER -> line[Max({i \in DOMAIN line : line[i][1] = f})][2]]

\* However the response is cut, and whatever is offered twice, the body so far is what the server
\* sent of it, in order and once.
BodyIsPrefix == IsPrefix(body, Body(response))

\* A complete message is the response, and nothing of it is left in the buffer or still to come.
WholeMessage ==
    complete => /\ statusCode = 200 /\ header = Header(response)
                /\ body = Body(response)
                /\ pc = "idle" => buffer \o sent = <<>>
=============================================================================
