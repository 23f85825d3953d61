--------------------------- MODULE RequestParser ----------------------------
(***************************************************************************)
(* The incremental parser of HTTP requests                                 *)
(* (src/src/httpCore/RequestParser.cpp): recv() hands it the request in    *)
(* segments that may end anywhere, and each call of parse() goes on where  *)
(* the last one had to stop.                                               *)
(*                                                                         *)
(* The text is a sequence of symbols.  CR, LF and an octet of a body are   *)
(* one byte each; the content of a line is one symbol that says how the    *)
(* parser classifies it.                                                   *)
(***************************************************************************)
EXTENDS Integers, Sequences, SequencesExt

CONSTANT Texts    \* the texts that clients may send

CR == [kind |-> "CR", val |-> 0]
LF == [kind |-> "LF", val |-> 0]
Octet(v) == [kind |-> "octet", val |-> v]
NotANumber == -1
StartSymbol(status) == [kind |-> "start", val |-> status]   \* 0, 400: bad URI, 505: bad version
Field(name, v)      == [kind |-> name, val |-> v]           \* "Host", "TE", "CL"
Junk                == [kind |-> "junk", val |-> 0]         \* a line without a colon
SizeSymbol(n)       == [kind |-> "size", val |-> n]

FieldNames == {"Host", "TE", "CL"}
Absent == -2      \* no such header
Chunked == 1      \* the one value of Transfer-Encoding that is supported
Status == {0, 400, 501, 505}
Number == Nat \union {NotANumber}

(* What may stand in a text, with the readings that the parser gives it.   *)
Symbol == [kind : {"CR", "LF"}, val : {0}]
          \union [kind : {"start"}, val : {0, 400, 505}]
          \union [kind : FieldNames \union {"octet", "junk", "size"}, val : Number]

ASSUME TextsAssumption == Texts \subseteq Seq(Symbol)

VARIABLES
    text,      \* what the client sends
    received,  \* how many symbols of it recv() has returned
    parser,    \* the RequestParser, the HttpRequest it fills and the buffer
    running,   \* inside parse()
    returned   \* what the last parse() returned

vars == <<text, received, parser, running, returned>>

Fresh == [state |-> "START_LINE", status |-> 0, err |-> FALSE, chunk |-> -1,
          headers |-> [n \in FieldNames |-> Absent], body |-> <<>>, buffer |-> <<>>]

(* RequestParser::setErrorInfo(ERROR, status, true)                        *)
SetErrorSilent(p, status) ==    \* mutant: has_error is not set
    [p EXCEPT !.state = "ERROR", !.status = status]
SetError(p, status) == [p EXCEPT !.state = "ERROR", !.status = status, !.err = TRUE]

(* checkCompleteLine and copyAndCleanBuffer: the text before the first     *)
(* CRLF, and what follows it.                                              *)
Ends(b) == {i \in 1..Len(b) - 1 : b[i] = CR /\ b[i + 1] = LF}
CompleteLine(b) == Ends(b) # {}
LineEnd(b) == CHOOSE i \in Ends(b) : \A j \in Ends(b) : i <= j
Line(b) == SubSeq(b, 1, LineEnd(b) - 1)
Rest(b) == SubSeq(b, LineEnd(b) + 2, Len(b))
Kind(line) == IF Len(line) = 1 THEN line[1].kind ELSE "junk"

-----------------------------------------------------------------------------
(* The parse functions.  Waits says when one of them returns false.        *)
Waits(p) ==
    CASE p.state \in {"START_LINE", "HEADERS", "CHUNK_SIZE", "FINAL_CRLF"} ->
            ~CompleteLine(p.buffer)
      [] p.state = "BODY" ->
            /\ p.headers["TE"] = Absent /\ p.headers["CL"] >= 0
            /\ Len(p.buffer) < p.headers["CL"]
      [] p.state = "CHUNK_DATA" -> Len(p.buffer) < p.chunk + 2
      [] p.state \in {"COMPLETE", "ERROR"} -> FALSE

(* parse() moves to HEADERS after parseStartLine, whatever that has set;   *)
(* only the error status survives.                                         *)
ParseStartLine(p) ==
    LET line == Line(p.buffer)
        fault == IF Kind(line) = "start" THEN line[1].val ELSE 400
        q == [p EXCEPT !.buffer = Rest(p.buffer)]
    IN  [(IF fault = 0 THEN q ELSE SetError(q, fault)) EXCEPT !.state = "HEADERS"]

(* One turn of parseHeader's loop.  A repeated header overwrites.          *)
ParseHeader(p) ==
    LET line == Line(p.buffer)
        q == [p EXCEPT !.buffer = Rest(p.buffer)]
    IN  IF line = <<>>
        THEN IF p.headers["Host"] = Absent THEN SetError(q, 400)
             ELSE [q EXCEPT !.state = "BODY"]
        ELSE IF Kind(line) \in FieldNames
        THEN [q EXCEPT !.headers[Kind(line)] = line[1].val]
        ELSE SetError(q, 400)

ParseBodyGreedy(p) ==    \* mutant: the body is all that has arrived
    LET te == p.headers["TE"]
        cl == p.headers["CL"]
    IN  IF te # Absent
        THEN IF cl # Absent \/ te # Chunked THEN SetError(p, 400)
             ELSE [p EXCEPT !.state = "CHUNK_SIZE"]
        ELSE IF cl = NotANumber THEN SetError(p, 400)
        ELSE [p EXCEPT !.state = "COMPLETE", !.buffer = <<>>,
                       !.body = IF cl = Absent THEN <<>> ELSE p.buffer]

ParseBodyAnyFraming(p) ==    \* mutant: Content-Length beside chunked is allowed
    LET te == p.headers["TE"]
        n == IF p.headers["CL"] = Absent THEN 0 ELSE p.headers["CL"]
    IN  CASE te = Chunked -> [p EXCEPT !.state = "CHUNK_SIZE"]
          [] te \notin {Chunked, Absent} -> SetError(p, 501)
          [] te = Absent /\ n = NotANumber -> SetError(p, 400)
          [] te = Absent /\ n # NotANumber ->
                [p EXCEPT !.state = "COMPLETE", !.body = SubSeq(p.buffer, 1, n),
                          !.buffer = SubSeq(@, n + 1, Len(@))]

ParseBody(p) ==
    LET te == p.headers["TE"]
        cl == p.headers["CL"]
    IN  CASE te # Absent /\ cl # Absent  -> SetError(p, 400)
          [] te # Absent /\ cl = Absent  ->
                IF te = Chunked THEN [p EXCEPT !.state = "CHUNK_SIZE"] ELSE SetError(p, 501)
          [] te = Absent /\ cl = NotANumber -> SetError(p, 400)
          [] te = Absent /\ cl # NotANumber ->
                LET n == IF cl = Absent THEN 0 ELSE cl
                IN  [p EXCEPT !.state = "COMPLETE",
                              !.body = @ \o SubSeq(p.buffer, 1, n),
                              !.buffer = SubSeq(@, n + 1, Len(@))]

ParseChunkSize(p) ==
    LET line == Line(p.buffer)
        q == [p EXCEPT !.buffer = Rest(p.buffer)]
    IN  IF Kind(line) # "size" \/ line[1].val = NotANumber THEN SetError(q, 400)
        ELSE [q EXCEPT !.chunk = line[1].val,
                       !.state = IF line[1].val = 0 THEN "FINAL_CRLF" ELSE "CHUNK_DATA"]

ParseChunkDataKeepsLF(p) ==    \* mutant: one byte too few is erased
    LET n == p.chunk
    IN  IF p.buffer[n + 1] # CR \/ p.buffer[n + 2] # LF THEN SetError(p, 400)
        ELSE [p EXCEPT !.body = @ \o SubSeq(p.buffer, 1, n),
                       !.buffer = SubSeq(@, n + 2, Len(@)),
                       !.state = "CHUNK_SIZE", !.chunk = -1]

ParseChunkData(p) ==
    LET n == p.chunk
    IN  IF p.buffer[n + 1] # CR \/ p.buffer[n + 2] # LF THEN SetError(p, 400)
        ELSE [p EXCEPT !.body = @ \o SubSeq(p.buffer, 1, n),
                       !.buffer = SubSeq(@, n + 3, Len(@)),
                       !.state = "CHUNK_SIZE", !.chunk = -1]

ParseChunkFinalCRLF(p) ==
    LET q == [p EXCEPT !.buffer = Rest(p.buffer)]
    IN  IF Line(p.buffer) # <<>> THEN SetError(q, 400) ELSE [q EXCEPT !.state = "COMPLETE"]

-----------------------------------------------------------------------------
State == {"START_LINE", "HEADERS", "BODY", "CHUNK_SIZE", "CHUNK_DATA", "FINAL_CRLF",
          "COMPLETE", "ERROR"}
Parser == [state : State, status : Status, err : BOOLEAN, chunk : Number,
           headers : [FieldNames -> Number \union {Absent}],
           body : Seq(Symbol), buffer : Seq(Symbol)]

TypeOK ==
    /\ text \in Texts
    /\ received \in 0..Len(text)
    /\ parser \in Parser
    /\ parser.err = (parser.status # 0)
    /\ IsSuffix(parser.buffer, SubSeq(text, 1, received))
    /\ running \in BOOLEAN /\ returned \in BOOLEAN

Init ==
    /\ text \in Texts
    /\ received = 0
    /\ parser = Fresh
    /\ running = FALSE
    /\ returned = FALSE

(* Connection::onReadable: recv() appends a segment and calls parse().     *)
ReceiveStartsAnew ==    \* mutant: the parser is reset when more arrives
    /\ ~running
    /\ \E n \in 1..Len(text) - received :
          /\ received' = received + n
          /\ parser' = [(IF returned THEN Fresh ELSE parser) EXCEPT !.buffer =
                           @ \o SubSeq(text, received + 1, received + n)]
    /\ running' = TRUE
    /\ UNCHANGED <<text, returned>>

Receive ==
    /\ ~running
    /\ \E n \in 1..Len(text) - received :
          /\ received' = received + n
          /\ parser' = [parser EXCEPT !.buffer =
                           @ \o SubSeq(text, received + 1, received + n)]
    /\ running' = TRUE
    /\ UNCHANGED <<text, returned>>

(* RequestParser::parse, one turn of its loop.                             *)
Turn(state, step(_)) ==
    /\ running /\ parser.state = state /\ ~Waits(parser)
    /\ parser' = step(parser)
    /\ UNCHANGED <<text, received, running, returned>>

StartLine == Turn("START_LINE", ParseStartLine)
Header    == Turn("HEADERS", ParseHeader)
Body      == Turn("BODY", ParseBody)
ChunkSize == Turn("CHUNK_SIZE", ParseChunkSize)
ChunkData == Turn("CHUNK_DATA", ParseChunkData)
FinalCRLF == Turn("FINAL_CRLF", ParseChunkFinalCRLF)

Final(p) == p.state \in {"COMPLETE", "ERROR"}

Return ==
    /\ running /\ (Final(parser) \/ Waits(parser))
    /\ running' = FALSE
    /\ returned' = Final(parser)
    /\ UNCHANGED <<text, received, parser>>

Next == Receive \/ StartLine \/ Header \/ Body \/ ChunkSize \/ ChunkData
        \/ FinalCRLF \/ Return

Spec == Init /\ [][Next]_vars

-----------------------------------------------------------------------------
(* The parser run on the first n symbols in one piece.                     *)
Dispatch(p) ==
    CASE p.state = "START_LINE" -> ParseStartLine(p)
      [] p.state = "HEADERS"    -> ParseHeader(p)
      [] p.state = "BODY"       -> ParseBody(p)
      [] p.state = "CHUNK_SIZE" -> ParseChunkSize(p)
      [] p.state = "CHUNK_DATA" -> ParseChunkData(p)
      [] p.state = "FINAL_CRLF" -> ParseChunkFinalCRLF(p)

(* One turn of parse(), or none when it has returned.                      *)
TurnOf(p) == IF Final(p) \/ Waits(p) THEN p ELSE Dispatch(p)

(* What parse() makes of the first n symbols, turn after turn.             *)
AllOf(n) == [Fresh EXCEPT !.buffer = SubSeq(text, 1, n)]
Turns(n) ==
    LET turn[k \in Nat] == IF k = 0 THEN AllOf(n) ELSE TurnOf(turn[k - 1])
    IN  turn

(* Each turn takes the end of a line, but for the one that leaves BODY and *)
(* the one that finds an error: n + 5 turns are enough.                    *)
InOnePiece(n) == Turns(n)[n + 5]

(* However recv() cuts the request - inside a CRLF, a chunk size or a body *)
(* - the parser is where it would be had all of it come at once; what      *)
(* comes after the request is left in the buffer.                          *)
SegmentationIndependent == ~running => parser = InOnePiece(received)

(* parse() returns true, once it has, for ever: the verdict, the headers   *)
(* and the body that processRequest may already have used do not change    *)
(* when the client sends more.                                             *)
VerdictIsFinal ==
    [][returned => returned' /\ [parser' EXCEPT !.buffer = <<>>] =
                                [parser EXCEPT !.buffer = <<>>]]_vars

(* "Return false if incomplete, true if complete or error": once the       *)
(* parser has found an error, parse() does not return false.               *)
ErrorIsReported == ~running /\ parser.err => returned
=============================================================================
