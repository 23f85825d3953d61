--------------------------- MODULE RequestGrammar ---------------------------
(***************************************************************************)
(* What a request says, apart from how it is parsed: the grammar of        *)
(* src/grammar.md for HTTP requests and chunked data, as a function from   *)
(* requests to texts, and the reading that a text so written has.          *)
(***************************************************************************)
EXTENDS RequestParser

CONSTANTS
    StartFaults,  \* what the start lines suffer from, 0 for nothing
    FieldLines,   \* the sequences of header lines
    Payloads,     \* the bodies, as sequences of chunks
    Extras        \* what may follow a request on the connection

(* A chunk has at least one byte: one without ends the body.               *)
ASSUME GrammarAssumption ==
    /\ StartFaults \subseteq {0, 400, 505}
    /\ FieldLines \subseteq Seq(Symbol)
    /\ Payloads \subseteq Seq(Seq(Symbol) \ {<<>>})

CRLF == <<CR, LF>>
Written(line) == <<line>> \o CRLF

Requests == [fault : StartFaults, fields : FieldLines, chunks : Payloads]

(* The last value of a header, as request.headers keeps it.                *)
Value(r, name) ==
    LET at == {i \in 1..Len(r.fields) : r.fields[i].kind = name}
    IN  IF at = {} THEN Absent
        ELSE r.fields[CHOOSE i \in at : \A j \in at : j <= i].val

Payload(r) == FlattenSeq(r.chunks)

HeadText(r) ==
    Written(StartSymbol(r.fault))
    \o FlattenSeq([i \in 1..Len(r.fields) |-> Written(r.fields[i])]) \o CRLF

ChunkedBody(r) ==
    FlattenSeq([i \in 1..Len(r.chunks) |->
                  Written(SizeSymbol(Len(r.chunks[i]))) \o r.chunks[i] \o CRLF])
    \o Written(SizeSymbol(0)) \o CRLF

(* The request, written with the framing its header names.                 *)
TextOf(r) == HeadText(r) \o (IF Value(r, "TE") = Chunked THEN ChunkedBody(r) ELSE Payload(r))

(* A request can be read when its framing is: Host is there, and either a  *)
(* length, or "chunked", or neither.                                       *)
Readable(r) ==
    /\ \A i \in 1..Len(r.fields) : r.fields[i].kind \in FieldNames
    /\ Value(r, "Host") # Absent
    /\ \/ Value(r, "TE") = Absent /\ Value(r, "CL") # NotANumber
       \/ Value(r, "TE") = Chunked /\ Value(r, "CL") = Absent

(* The body a readable request has, and where its text ends.               *)
Length(r) == IF Value(r, "CL") = Absent THEN 0 ELSE Value(r, "CL")
BodyOf(r) ==
    IF Value(r, "TE") = Chunked THEN Payload(r) ELSE SubSeq(Payload(r), 1, Length(r))
End(r) ==
    IF Value(r, "TE") = Chunked THEN Len(TextOf(r)) ELSE Len(HeadText(r)) + Length(r)

WrittenRequests == {r \in Requests : Value(r, "TE") = Chunked \/ Len(Payload(r)) >= Length(r)}

AllTexts == {TextOf(r) \o x : r \in WrittenRequests, x \in Extras}

-----------------------------------------------------------------------------
(* A request without a fault is complete with exactly its body, as soon as *)
(* its last byte is there and not before, however it was cut and whatever  *)
(* follows it: CRLFs inside a body and zero-length ones included.          *)
ReadsRequest ==
    ~running => \A r \in WrittenRequests :
        r.fault = 0 /\ Readable(r) /\ IsPrefix(TextOf(r), text) =>
            /\ returned <=> received >= End(r)
            /\ returned => parser.state = "COMPLETE" /\ parser.body = BodyOf(r)
            /\ ~parser.err

(* A request that is at fault is answered with an error and never handled  *)
(* as a good one, whichever part of it is wrong.                           *)
RejectsFaults ==
    ~running /\ returned => \A r \in WrittenRequests :
        (r.fault # 0 \/ ~Readable(r)) /\ IsPrefix(TextOf(r), text) => parser.err
=============================================================================
