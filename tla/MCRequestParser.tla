-------------------------- MODULE MCRequestParser ---------------------------
(***************************************************************************)
(* Requests for the parser: each kind of start line, header combinations   *)
(* with and without a body, bodies of up to three bytes that look like the *)
(* end of a line, and text after the request.                              *)
(***************************************************************************)
EXTENDS RequestGrammar

Host == Field("Host", 0)
TE(v) == Field("TE", v)
CL(n) == Field("CL", n)

SomeFieldLines ==
    { <<>>, <<Host>>, <<Junk, Host>>, <<Host, CL(0)>>, <<Host, CL(2)>>, <<CL(1), Host>>,
      <<Host, CL(2), CL(1)>>, <<Host, CL(NotANumber)>>, <<Host, TE(Chunked)>>,
      <<Host, TE(0)>>, <<TE(Chunked)>>, <<Host, TE(Chunked), CL(2)>> }

SomePayloads ==
    { <<>>, <<<<Octet(1)>>>>, <<<<CR, LF>>>>, <<<<Octet(1)>>, <<LF, Octet(2)>>>> }

SomeExtras == { <<>>, <<Octet(3)>>, CRLF }

(* Texts that no grammar writes: bad chunk sizes, a chunk that is longer   *)
(* than its size, a trailer, an empty start line, a lone CR or LF.         *)
ChunkHead == Written(StartSymbol(0)) \o Written(Host) \o Written(TE(Chunked)) \o CRLF
BadTexts ==
    { ChunkHead \o Written(SizeSymbol(NotANumber)),
      ChunkHead \o CRLF \o CRLF,
      ChunkHead \o Written(SizeSymbol(1)) \o <<Octet(1), Octet(2)>> \o CRLF,
      ChunkHead \o Written(SizeSymbol(1)) \o <<CR, LF, CR>>,
      ChunkHead \o Written(SizeSymbol(0)) \o Written(Host) \o CRLF,
      CRLF \o Written(Host) \o CRLF,
      <<StartSymbol(0), CR, CR, LF>> \o Written(Host) \o CRLF,
      <<StartSymbol(0), LF>> \o Written(Host) \o CRLF }

SomeTexts == AllTexts \union BadTexts
=============================================================================
