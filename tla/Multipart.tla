------------------------------ MODULE Multipart ------------------------------
(***************************************************************************)
(* What an upload stores, and under which extension: the reading of a body *)
(* in src/src/httpCore/UploadHandler.cpp.                                  *)
(*                                                                         *)
(* A body is a sequence of characters; "--" and the boundary are together  *)
(* one of them, and so is the name of a header.  A Content-Disposition     *)
(* line is its name and the characters of its filename, none when it has   *)
(* no filename.  Bound: no filename has a backslash.                       *)
(***************************************************************************)
EXTENDS Paths

CR   == "\r"
LF   == "\n"
CRLF == <<CR, LF>>
ContentDisposition == "Content-Disposition"

(* string::find: where part begins in text for the first time, not before  *)
(* from; 0 when it does not.                                               *)
FindFrom(text, part, from) ==
    LET at == {i \in from..Len(text) - Len(part) + 1 :
                  SubSeq(text, i, i + Len(part) - 1) = part}
    IN  IF at = {} THEN 0 ELSE Min(at)

Lines(text) ==
    LET read == FoldLeft(LAMBDA s, ch :
                    IF ch = LF /\ s.line # <<>> /\ Last(s.line) = CR
                    THEN [lines |-> Append(s.lines, Front(s.line)), line |-> <<>>]
                    ELSE [s EXCEPT !.line = Append(@, ch)],
                    [lines |-> <<>>, line |-> <<>>], text)
    IN  Append(read.lines, read.line)

(* extractFilenameFromDisposition: without the directories.                *)
Filename(line) ==
    LET slashes == {1} \union {i \in DOMAIN line : line[i] = Slash}
    IN  SubSeq(Tail(line), Max(slashes), Len(line) - 1)

(* The filename of the last Content-Disposition line.                      *)
FilenameOf(lines) ==
    LET named == {i \in DOMAIN lines : ContentDisposition \in ToSet(lines[i])}
    IN  IF named = {} THEN <<>> ELSE Filename(lines[Max(named)])

Skip(text, ch, i) == IF i \in DOMAIN text /\ text[i] = ch THEN i + 1 ELSE i

Invalid == [valid |-> FALSE, content |-> <<>>, filename |-> <<>>]

(* What closes the content of a part.                                      *)
EndDelimiterBare(delimiter) == <<delimiter>>    \* mutant: the line break stays
EndDelimiter(delimiter) == CRLF \o <<delimiter>>

ParseMultipartFirstFile(body, delimiter) ==
    LET found      == FindFrom(body, <<delimiter>>, 1)
        start      == Skip(body, LF, Skip(body, CR, found + 1))
        headersEnd == FindFrom(body, CRLF \o CRLF, start)
        contentAt  == headersEnd + 4
        contentEnd == FindFrom(body, EndDelimiter(delimiter), contentAt)
    IN  IF found = 0 \/ headersEnd = 0 \/ contentEnd = 0 THEN Invalid
        ELSE [valid    |-> TRUE,
              content  |-> SubSeq(body, contentAt, contentEnd - 1),
              filename |-> FilenameOf(Lines(SubSeq(body, start, headersEnd - 1)))]

(* A form as its client writes it: the first part has some headers, none   *)
(* of them an empty line, and this content, which the delimiter is not in. *)
IsForm(body, delimiter, content) ==
    \E h \in 0..Len(body) - 3 :
        LET headers == SubSeq(body, 4, h + 3)
        IN  /\ IsPrefix(<<delimiter>> \o CRLF \o headers \o CRLF \o CRLF
                           \o content \o CRLF \o <<delimiter>>, body)
            /\ FindFrom(headers \o CRLF \o CRLF, CRLF \o CRLF, 1) = h + 1
            /\ delimiter \notin {CR, LF} \union ToSet(content)

(* What is no form at all: a delimiter, the end of the headers or the end  *)
(* of the content is missing.                                              *)
IsNoForm(body, delimiter) ==
    \E part \in {<<delimiter>>, CRLF \o CRLF, CRLF \o <<delimiter>>} :
        FindFrom(body, part, 1) = 0

-----------------------------------------------------------------------------
NoDelimiter == ""    \* a Content-Type without a boundary
Form        == "multipart/form-data"
Bin         == <<Dot, "b", "i", "n">>

(* getExtensionFromFilename: what follows a leading dot is no extension,   *)
(* and neither is one with a sign in it.                                   *)
Signs == {"-", "_", " ", "~"}
GetExtensionFromFilename(filename) ==
    LET dots == {i \in DOMAIN filename : filename[i] = Dot}
        ext  == SubSeq(filename, Max(dots), Len(filename))
    IN  IF dots \subseteq {1} \/ ToSet(ext) \intersect Signs # {} THEN <<>> ELSE ext

ExtensionFromContentType(type) ==
    CASE type = "image/jpeg"       -> <<Dot, "j", "p", "g">>
      [] type = "image/png"        -> <<Dot, "p", "n", "g">>
      [] type = "image/gif"        -> <<Dot, "g", "i", "f">>
      [] type = "text/plain"       -> <<Dot, "t", "x", "t">>
      [] type = "text/html"        -> <<Dot, "h", "t", "m", "l">>
      [] type = "application/pdf"  -> <<Dot, "p", "d", "f">>
      [] type = "application/json" -> <<Dot, "j", "s", "o", "n">>
      [] OTHER                     -> Bin

Readable(type, delimiter) == type = Form /\ delimiter # NoDelimiter

(* Step 4 of UploadHandler::handle: a form that cannot be read is stored   *)
(* as it came.                                                             *)
Received(type, delimiter, body) ==
    LET part == IF Readable(type, delimiter)
                THEN ParseMultipartFirstFile(body, delimiter) ELSE Invalid
        ext  == GetExtensionFromFilename(part.filename)
    IN  [content |-> IF part.valid THEN part.content ELSE body,
         ext     |-> IF type \notin {Form, ""} THEN ExtensionFromContentType(type)
                     ELSE IF part.valid /\ ext # <<>> THEN ext
                     ELSE Bin]
=============================================================================
