------------------------- MODULE RequestParserProofs --------------------------
(***************************************************************************)
(* Proofs about the parser of requests, for all texts that clients may     *)
(* send and all ways in which recv() may cut them: its type invariant,     *)
(* that a verdict is final (VerdictIsFinal), that the cuts make no         *)
(* difference (SegmentationIndependent), and that a request written by     *)
(* the grammar is read as it was meant (ReadsRequest, RejectsFaults).      *)
(*                                                                         *)
(* Parsing in one piece is a recursive function.  Nothing is proved by     *)
(* induction over the text: the invariant relates each state of the        *)
(* parser to one turn of that function, for every text that starts with    *)
(* what has been received.  For the grammar, a second invariant says in    *)
(* each state where in the request the buffer begins and what of it the    *)
(* parser knows; the places come from the folds that write the text.       *)
(***************************************************************************)
EXTENDS RequestGrammar, FoldProofs

-----------------------------------------------------------------------------
(* Numbers and sequences.                                                  *)
(* What is cut from the front of a sequence is not changed by what is      *)
(* appended to it, and the rest takes it up.                               *)
LEMMA CutOfConcat ==
    ASSUME NEW b \in Seq(Symbol), NEW x \in Seq(Symbol), NEW n \in 0..Len(b)
    PROVE  /\ b \o x \in Seq(Symbol) /\ Len(b \o x) = Len(b) + Len(x)
           /\ SubSeq(b \o x, 1, n) = SubSeq(b, 1, n)
           /\ SubSeq(b \o x, n + 1, Len(b \o x)) = SubSeq(b, n + 1, Len(b)) \o x
<1>1. /\ b \o x \in Seq(Symbol) /\ Len(b \o x) = Len(b) + Len(x)
      /\ Len(b) \in Nat /\ Len(x) \in Nat
  BY ConcatProperties, LenProperties
<1>2. \A i \in 1..Len(b) + Len(x) : (b \o x)[i] = IF i <= Len(b) THEN b[i] ELSE x[i - Len(b)]
  BY ConcatProperties
<1>3. \A i \in 1..Len(b) : b[i] \in Symbol
  BY ElementOfSeq
<1>4. \A i \in 1..Len(b \o x) : (b \o x)[i] \in Symbol
  BY <1>1, ElementOfSeq
<1>5. SubSeq(b \o x, 1, n) = SubSeq(b, 1, n)
  <2> DEFINE s == SubSeq(b \o x, 1, n)
             t == SubSeq(b, 1, n)
  <2>1. n \in Int /\ 1 \in Int /\ n \in Nat
    BY <1>1
  <2>2. /\ s \in Seq(Symbol) /\ Len(s) = IF 1 <= n THEN n ELSE 0
        /\ \A i \in 1..n : s[i] = (b \o x)[i]
    <3>1. \A i \in 1..n : (b \o x)[i] \in Symbol
      BY <1>1, <1>4
    <3> QED
      BY <2>1, <3>1, SubSeqProperties
  <2>3. /\ t \in Seq(Symbol) /\ Len(t) = IF 1 <= n THEN n ELSE 0
        /\ \A i \in 1..n : t[i] = b[i]
    <3>1. \A i \in 1..n : b[i] \in Symbol
      BY <1>1, <1>3
    <3> QED
      BY <2>1, <3>1, SubSeqProperties
  <2>4. \A i \in 1..Len(s) : s[i] = t[i]
    BY <1>1, <1>2, <2>1, <2>2, <2>3
  <2> HIDE DEF s, t
  <2>5. s = t
    BY <2>2, <2>3, <2>4, SeqEqual
  <2> QED
    BY <2>5 DEF s, t
<1>6. SubSeq(b \o x, n + 1, Len(b \o x)) = SubSeq(b, n + 1, Len(b)) \o x
  <2> DEFINE s == SubSeq(b \o x, n + 1, Len(b) + Len(x))
             t == SubSeq(b, n + 1, Len(b))
  <2>1. /\ n + 1 \in Int /\ Len(b) \in Int /\ Len(b) + Len(x) \in Int
        /\ Len(b) - n \in Nat
    BY <1>1
  <2>2. /\ s \in Seq(Symbol) /\ Len(s) = Len(b) + Len(x) - n
        /\ \A i \in 1..Len(b) + Len(x) - n : s[i] = (b \o x)[n + i]
    <3>1. \A i \in n + 1..Len(b) + Len(x) : (b \o x)[i] \in Symbol
      BY <1>1, <1>4
    <3> QED
      BY <1>1, <2>1, <3>1, SubSeqProperties
  <2>3. /\ t \in Seq(Symbol) /\ Len(t) = Len(b) - n
        /\ \A i \in 1..Len(b) - n : t[i] = b[n + i]
    <3>1. \A i \in n + 1..Len(b) : b[i] \in Symbol
      BY <1>1, <1>3
    <3> QED
      BY <1>1, <2>1, <3>1, SubSeqProperties
  <2> HIDE DEF s, t
  <2>4. /\ t \o x \in Seq(Symbol) /\ Len(t \o x) = Len(b) + Len(x) - n
        /\ \A i \in 1..Len(b) + Len(x) - n :
              (t \o x)[i] = IF i <= Len(b) - n THEN t[i] ELSE x[i - (Len(b) - n)]
    <3>1. /\ t \o x \in Seq(Symbol) /\ Len(t \o x) = Len(t) + Len(x)
          /\ \A i \in 1..Len(t) + Len(x) :
                (t \o x)[i] = IF i <= Len(t) THEN t[i] ELSE x[i - Len(t)]
      BY <2>3, ConcatProperties
    <3>2. Len(t) = Len(b) - n /\ Len(t) + Len(x) = Len(b) + Len(x) - n
      BY <1>1, <2>1, <2>3
    <3> QED
      BY <3>1, <3>2
  <2>5. \A i \in 1..Len(s) : s[i] = (t \o x)[i]
    <3> SUFFICES ASSUME NEW i \in 1..Len(b) + Len(x) - n PROVE s[i] = (t \o x)[i]
      BY <2>2
    <3>1. n + i \in 1..Len(b) + Len(x) /\ s[i] = (b \o x)[n + i]
      BY <1>1, <2>1, <2>2
    <3>2. CASE i <= Len(b) - n
      <4>1. i \in 1..Len(b) - n /\ n + i <= Len(b)
        BY <1>1, <2>1, <3>2
      <4> QED
        BY <1>2, <2>3, <2>4, <3>1, <4>1
    <3>3. CASE ~(i <= Len(b) - n)
      <4>1. ~(n + i <= Len(b)) /\ n + i - Len(b) = i - (Len(b) - n)
        BY <1>1, <2>1, <3>3
      <4>2. (b \o x)[n + i] = x[n + i - Len(b)]
        BY <1>2, <3>1, <4>1
      <4>3. (t \o x)[i] = x[i - (Len(b) - n)]
        BY <2>4, <3>3
      <4> QED
        BY <3>1, <4>1, <4>2, <4>3
    <3> QED
      BY <3>2, <3>3
  <2>6. s = t \o x
    BY <2>2, <2>4, <2>5, SeqEqual
  <2> QED
    BY <1>1, <2>6 DEF s, t
<1> QED
  BY <1>1, <1>5, <1>6

-----------------------------------------------------------------------------
(* The line that copyAndCleanBuffer takes is the first one.                *)
LEMMA FirstLine ==
    ASSUME NEW b \in Seq(Symbol), CompleteLine(b)
    PROVE  /\ LineEnd(b) \in Ends(b) /\ \A j \in Ends(b) : LineEnd(b) <= j
           /\ Len(b) \in Nat /\ LineEnd(b) \in 1..Len(b) - 1
           /\ Line(b) \in Seq(Symbol) /\ Rest(b) \in Seq(Symbol)
<1>1. Len(b) \in Nat
  BY LenProperties
<1>2. Ends(b) \in SUBSET Nat /\ Ends(b) # {}
  BY <1>1 DEF Ends, CompleteLine
<1>3. LineEnd(b) \in Ends(b) /\ \A j \in Ends(b) : LineEnd(b) <= j
  <2>1. \E i \in Ends(b) : \A j \in Ends(b) : i <= j
    BY <1>2, SmallestNumber
  <2> QED
    BY <2>1 DEF LineEnd
<1>4. LineEnd(b) \in 1..Len(b) - 1
  BY <1>3 DEF Ends
<1>5. \A i \in 1..Len(b) : b[i] \in Symbol
  BY ElementOfSeq
<1>6. Line(b) \in Seq(Symbol)
  <2>1. \A i \in 1..LineEnd(b) - 1 : b[i] \in Symbol
    BY <1>1, <1>4, <1>5
  <2> QED
    BY <1>4, <2>1, SubSeqProperties DEF Line
<1>7. Rest(b) \in Seq(Symbol)
  <2>1. \A i \in LineEnd(b) + 2..Len(b) : b[i] \in Symbol
    BY <1>1, <1>4, <1>5
  <2>2. LineEnd(b) + 2 \in Int /\ Len(b) \in Int
    BY <1>1, <1>4
  <2> QED
    BY <2>1, <2>2, SubSeqProperties DEF Rest
<1> QED
  BY <1>1, <1>3, <1>4, <1>6, <1>7

(* More text behind a complete line changes neither it nor where it ends.  *)
LEMMA LineOfConcat ==
    ASSUME NEW b \in Seq(Symbol), NEW x \in Seq(Symbol), CompleteLine(b)
    PROVE  CompleteLine(b \o x) /\ Line(b \o x) = Line(b) /\ Rest(b \o x) = Rest(b) \o x
<1> DEFINE e == LineEnd(b)
           c == b \o x
<1>1. /\ e \in Ends(b) /\ \A j \in Ends(b) : e <= j
      /\ Len(b) \in Nat /\ e \in 1..Len(b) - 1
  BY FirstLine
<1>2. /\ c \in Seq(Symbol) /\ Len(c) = Len(b) + Len(x) /\ Len(x) \in Nat
      /\ \A i \in 1..Len(b) : c[i] = b[i]
  <2>1. \A i \in 1..Len(b) + Len(x) : c[i] = IF i <= Len(b) THEN b[i] ELSE x[i - Len(b)]
    BY ConcatProperties
  <2>2. c \in Seq(Symbol) /\ Len(c) = Len(b) + Len(x) /\ Len(x) \in Nat
    BY ConcatProperties, LenProperties
  <2> QED
    BY <1>1, <2>1, <2>2
<1> HIDE DEF e, c
<1>3. \A i \in 1..Len(b) - 1 : i \in Ends(c) <=> i \in Ends(b)
  <2> SUFFICES ASSUME NEW i \in 1..Len(b) - 1 PROVE i \in Ends(c) <=> i \in Ends(b)
    OBVIOUS
  <2>1. i \in 1..Len(b) /\ i + 1 \in 1..Len(b) /\ i \in 1..Len(c) - 1
    BY <1>1, <1>2
  <2>2. c[i] = b[i] /\ c[i + 1] = b[i + 1]
    BY <1>2, <2>1
  <2> QED
    BY <2>1, <2>2 DEF Ends
<1>4. e \in Ends(c) /\ CompleteLine(c)
  BY <1>1, <1>3 DEF CompleteLine
<1>5. LineEnd(c) \in Ends(c) /\ \A j \in Ends(c) : LineEnd(c) <= j
  BY <1>2, <1>4, FirstLine
<1>6. LineEnd(c) = e
  <2>1. LineEnd(c) \in 1..Len(c) - 1 /\ LineEnd(c) <= e
    BY <1>4, <1>5 DEF Ends
  <2>2. LineEnd(c) \in Ends(b)
    BY <1>1, <1>3, <1>5, <2>1
  <2> QED
    BY <1>1, <2>1, <2>2
<1>7. e - 1 \in 0..Len(b) /\ e + 1 \in 0..Len(b)
  BY <1>1
<1>8. SubSeq(c, 1, e - 1) = SubSeq(b, 1, e - 1)
  BY <1>7, CutOfConcat DEF c
<1>9. SubSeq(c, e + 2, Len(c)) = SubSeq(b, e + 2, Len(b)) \o x
  <2>1. SubSeq(c, e + 1 + 1, Len(c)) = SubSeq(b, e + 1 + 1, Len(b)) \o x
    BY <1>7, CutOfConcat DEF c
  <2>2. e + 1 + 1 = e + 2
    BY <1>1
  <2> QED
    BY <2>1, <2>2
<1> QED
  BY <1>4, <1>6, <1>8, <1>9 DEF Line, Rest, e, c

-----------------------------------------------------------------------------
(* The records of the parser.                                              *)
Good(p) ==
    /\ p \in Parser
    /\ p.err = TRUE <=> p.status # 0
    /\ p.state = "CHUNK_DATA" => p.chunk \in Nat

(* Two parsers that differ in their buffers at most.                       *)
Agree(p, q) ==
    /\ p.state = q.state /\ p.status = q.status /\ p.err = q.err /\ p.chunk = q.chunk
    /\ p.headers = q.headers /\ p.body = q.body

LEMMA SameParser ==
    ASSUME NEW p \in Parser, NEW q \in Parser, Agree(p, q), p.buffer = q.buffer
    PROVE  p = q
  BY DEF Parser, Agree

(* The parser, had x come behind what is in the buffer.                    *)
With(p, x) == [p EXCEPT !.buffer = @ \o x]

LEMMA TakenFields ==
    ASSUME NEW p \in Parser, NEW y \in Seq(Symbol)
    PROVE  LET q == [p EXCEPT !.buffer = y]
           IN  q \in Parser /\ Agree(q, p) /\ q.buffer = y
  BY DEF Parser, Agree

LEMMA WithFields ==
    ASSUME NEW p \in Parser, NEW x \in Seq(Symbol)
    PROVE  /\ With(p, x) \in Parser /\ Agree(With(p, x), p)
           /\ With(p, x).buffer = p.buffer \o x
<1> DEFINE y == p.buffer \o x
<1>1. y \in Seq(Symbol)
  BY ConcatProperties DEF Parser
<1>2. With(p, x) = [p EXCEPT !.buffer = y]
  BY DEF With
<1> HIDE DEF y
<1>3. With(p, x) \in Parser /\ Agree(With(p, x), p) /\ With(p, x).buffer = y
  BY <1>1, <1>2, TakenFields
<1> QED
  BY <1>3 DEF y

LEMMA IsWith ==
    ASSUME NEW q \in Parser, NEW u \in Parser, NEW x \in Seq(Symbol),
           Agree(u, q), u.buffer = q.buffer \o x
    PROVE  u = With(q, x)
<1>1. /\ With(q, x) \in Parser /\ Agree(With(q, x), q)
      /\ With(q, x).buffer = q.buffer \o x
  BY WithFields
<1>2. Agree(u, With(q, x))
  BY <1>1 DEF Agree
<1> QED
  BY <1>1, <1>2, SameParser

(* More text behind a complete line.                                       *)
LEMMA WithLine ==
    ASSUME NEW p \in Parser, CompleteLine(p.buffer), NEW x \in Seq(Symbol)
    PROVE  /\ With(p, x) \in Parser /\ Agree(With(p, x), p)
           /\ CompleteLine(With(p, x).buffer)
           /\ Line(With(p, x).buffer) = Line(p.buffer)
           /\ Rest(With(p, x).buffer) = Rest(p.buffer) \o x
<1>1. p.buffer \in Seq(Symbol)
  BY DEF Parser
<1>2. CompleteLine(p.buffer \o x) /\ Line(p.buffer \o x) = Line(p.buffer)
      /\ Rest(p.buffer \o x) = Rest(p.buffer) \o x
  BY <1>1, LineOfConcat
<1> QED
  BY <1>2, WithFields

LEMMA SetErrorFields ==
    ASSUME NEW p \in Parser, NEW s \in Status
    PROVE  LET q == SetError(p, s)
           IN  /\ q \in Parser /\ q.buffer = p.buffer
               /\ q.state = "ERROR" /\ q.status = s /\ q.err = TRUE
               /\ q.chunk = p.chunk /\ q.headers = p.headers /\ q.body = p.body
  BY DEF Parser, SetError, State

LEMMA MovedFields ==
    ASSUME NEW p \in Parser, NEW s \in State
    PROVE  LET q == [p EXCEPT !.state = s]
           IN  /\ q \in Parser /\ q.buffer = p.buffer
               /\ q.state = s /\ q.status = p.status /\ q.err = p.err
               /\ q.chunk = p.chunk /\ q.headers = p.headers /\ q.body = p.body
  BY DEF Parser

-----------------------------------------------------------------------------
(* What a turn takes from the buffer.  A turn that takes no line brings    *)
(* the parser one stage on, which happens twice at most.                   *)
Stage(state) ==
    CASE state = "ERROR" -> 2
      [] state \in {"CHUNK_SIZE", "CHUNK_DATA", "FINAL_CRLF", "COMPLETE"} -> 1
      [] OTHER -> 0

Takes(p, q) ==
    \E d \in 0..Len(p.buffer) :
        /\ q.buffer = SubSeq(p.buffer, d + 1, Len(p.buffer))
        /\ 1 + Stage(p.state) <= d + Stage(q.state)

LEMMA Stages == \A s : Stage(s) \in 0..2
  BY DEF Stage

LEMMA LineTaken ==
    ASSUME NEW p \in Parser, NEW q, CompleteLine(p.buffer), q.buffer = Rest(p.buffer),
           Stage(p.state) <= Stage(q.state) + 1
    PROVE  Takes(p, q)
<1> DEFINE d == LineEnd(p.buffer) + 1
<1>1. p.buffer \in Seq(Symbol)
  BY DEF Parser
<1>2. /\ Len(p.buffer) \in Nat /\ LineEnd(p.buffer) \in 1..Len(p.buffer) - 1
  BY <1>1, FirstLine
<1>3. d \in 0..Len(p.buffer) /\ 2 <= d /\ d + 1 = LineEnd(p.buffer) + 2
  BY <1>2
<1>4. q.buffer = SubSeq(p.buffer, d + 1, Len(p.buffer))
  BY <1>3 DEF Rest
<1>5. 1 + Stage(p.state) <= d + Stage(q.state)
  BY <1>2, <1>3, Stages
<1> QED
  BY <1>3, <1>4, <1>5 DEF Takes

(* A turn that takes no line: the whole buffer stays.                      *)
LEMMA NothingTaken ==
    ASSUME NEW p \in Parser, NEW q, q.buffer = p.buffer, 1 + Stage(p.state) <= Stage(q.state)
    PROVE  Takes(p, q)
<1>1. p.buffer \in Seq(Symbol) /\ Len(p.buffer) \in Nat
  BY LenProperties DEF Parser
<1>2. p.buffer = SubSeq(p.buffer, 0 + 1, Len(p.buffer))
  BY <1>1, SubSeqFull
<1>3. 1 + Stage(p.state) <= 0 + Stage(q.state) /\ 0 \in 0..Len(p.buffer)
  BY <1>1, Stages
<1> QED
  BY <1>2, <1>3 DEF Takes

LEMMA Readings ==
    ASSUME NEW line \in Seq(Symbol)
    PROVE  /\ Kind(line) = "start" => line[1].val \in {0, 400, 505}
           /\ Kind(line) \in FieldNames \union {"size"} => line[1].val \in Number
<1>1. Len(line) = 1 => line[1] \in Symbol
  BY ElementOfSeq
<1>2. Len(line) # 1 => Kind(line) = "junk"
  BY DEF Kind
<1>3. CASE Len(line) = 1
  <2>1. Kind(line) = line[1].kind
    BY <1>3 DEF Kind
  <2> DEFINE y == line[1]
  <2>2. y \in Symbol
    BY <1>1, <1>3
  <2> HIDE DEF y
  <2>3. y.kind = "start" => y.val \in {0, 400, 505}
    BY <2>2 DEF Symbol, FieldNames
  <2>4. y.kind \in FieldNames \union {"size"} => y.val \in Number
    BY <2>2 DEF Symbol, FieldNames
  <2> QED
    BY <2>1, <2>3, <2>4 DEF y
<1> QED
  BY <1>2, <1>3 DEF FieldNames

-----------------------------------------------------------------------------
(* parse(), turn by turn: the parser stays well formed, and does the same  *)
(* with more text behind what it has.                                      *)
Fault(line) == IF Kind(line) = "start" THEN line[1].val ELSE 400

StartLineSays(p, q) ==
    /\ q \in Parser /\ q.buffer = Rest(p.buffer) /\ q.state = "HEADERS"
    /\ Fault(Line(p.buffer)) = 0 => q.status = p.status /\ q.err = p.err
    /\ Fault(Line(p.buffer)) # 0 => q.status = Fault(Line(p.buffer)) /\ q.err = TRUE
    /\ q.chunk = p.chunk /\ q.headers = p.headers /\ q.body = p.body

LEMMA StartLineFields ==
    ASSUME NEW p \in Parser, CompleteLine(p.buffer)
    PROVE  StartLineSays(p, ParseStartLine(p))
<1> DEFINE fault == Fault(Line(p.buffer))
           r == [p EXCEPT !.buffer = Rest(p.buffer)]
           s == IF fault = 0 THEN r ELSE SetError(r, fault)
           q == ParseStartLine(p)
<1>1. p.buffer \in Seq(Symbol)
  BY DEF Parser
<1>2. Line(p.buffer) \in Seq(Symbol) /\ Rest(p.buffer) \in Seq(Symbol)
  BY <1>1, FirstLine
<1>3. fault \in {0, 400, 505}
  BY <1>2, Readings DEF Fault
<1>4. q = [s EXCEPT !.state = "HEADERS"]
  BY DEF ParseStartLine, Fault
<1>5. r \in Parser /\ Agree(r, p) /\ r.buffer = Rest(p.buffer)
  BY <1>2, TakenFields
<1> HIDE DEF r, fault, q
<1>6. /\ s \in Parser /\ s.buffer = Rest(p.buffer)
      /\ fault = 0 => s.status = p.status /\ s.err = p.err
      /\ fault # 0 => s.status = fault /\ s.err = TRUE
      /\ s.chunk = p.chunk /\ s.headers = p.headers /\ s.body = p.body
  <2>1. CASE fault = 0
    BY <1>5, <2>1 DEF Agree
  <2>2. CASE fault # 0
    <3>1. fault \in Status
      BY <1>3 DEF Status
    <3>2. s = SetError(r, fault)
      BY <2>2
    <3> QED
      BY <1>5, <2>2, <3>1, <3>2, SetErrorFields DEF Agree
  <2> QED
    BY <2>1, <2>2
<1> HIDE DEF s
<1>7. "HEADERS" \in State
  BY DEF State
<1>8. /\ q \in Parser /\ q.buffer = s.buffer /\ q.state = "HEADERS" /\ q.status = s.status
      /\ q.err = s.err /\ q.chunk = s.chunk /\ q.headers = s.headers /\ q.body = s.body
  BY <1>4, <1>6, <1>7, MovedFields
<1> QED
  BY <1>6, <1>8 DEF fault, StartLineSays, q

LEMMA StartLineTurn ==
    ASSUME NEW p, Good(p), p.state = "START_LINE", ~Waits(p)
    PROVE  /\ Good(ParseStartLine(p)) /\ Takes(p, ParseStartLine(p))
           /\ \A x \in Seq(Symbol) :
                 /\ ~Waits(With(p, x))
                 /\ ParseStartLine(With(p, x)) = With(ParseStartLine(p), x)
<1> DEFINE q == ParseStartLine(p)
<1>1. p \in Parser /\ CompleteLine(p.buffer)
  BY DEF Good, Waits
<1>2. StartLineSays(p, q)
  BY <1>1, StartLineFields
<1> HIDE DEF q
<1>3. Good(q)
  BY <1>2 DEF Good, StartLineSays
<1>4. Takes(p, q)
  <2>1. Stage(p.state) <= Stage(q.state) + 1
    BY <1>2 DEF Stage, StartLineSays
  <2> QED
    BY <1>1, <1>2, <2>1, LineTaken DEF StartLineSays
<1>5. ASSUME NEW x \in Seq(Symbol)
      PROVE  ~Waits(With(p, x)) /\ ParseStartLine(With(p, x)) = With(q, x)
  <2> DEFINE w == With(p, x)
             u == ParseStartLine(w)
  <2>1. /\ w \in Parser /\ Agree(w, p)
        /\ CompleteLine(w.buffer) /\ Line(w.buffer) = Line(p.buffer)
        /\ Rest(w.buffer) = Rest(p.buffer) \o x
    BY <1>1, WithLine
  <2>2. StartLineSays(w, u)
    BY <2>1, StartLineFields
  <2> HIDE DEF w, u
  <2>3. ~Waits(w)
    BY <2>1 DEF Waits, Agree
  <2>4. Agree(u, q)
    BY <1>2, <2>1, <2>2 DEF StartLineSays, Agree
  <2>5. u = With(q, x)
    BY <1>2, <2>1, <2>2, <2>4, IsWith DEF StartLineSays
  <2> QED
    BY <2>3, <2>5 DEF u, w
<1> QED
  BY <1>3, <1>4, <1>5 DEF q

(* Headers.                                                                *)
Fails(p, q, s) ==
    /\ q.state = "ERROR" /\ q.status = s /\ q.err = TRUE
    /\ q.chunk = p.chunk /\ q.headers = p.headers /\ q.body = p.body

LEMMA BothFail ==
    ASSUME NEW p, NEW q, NEW w, NEW u, NEW s, Agree(w, p), Fails(p, q, s), Fails(w, u, s)
    PROVE  Agree(u, q)
<1>1. u.state = q.state /\ u.status = q.status /\ u.chunk = q.chunk
  BY DEF Agree, Fails
<1>2. u.err = q.err
  BY Zenon DEF Fails
<1>3. u.headers = q.headers /\ u.body = q.body
  BY DEF Agree, Fails
<1> QED
  BY <1>1, <1>2, <1>3 DEF Agree

LEMMA ErrorHere ==
    ASSUME NEW p \in Parser, NEW s \in Status
    PROVE  /\ SetError(p, s) \in Parser /\ SetError(p, s).buffer = p.buffer
           /\ Fails(p, SetError(p, s), s)
  BY SetErrorFields DEF Fails

LEMMA ErrorAfterLine ==
    ASSUME NEW p \in Parser, NEW y \in Seq(Symbol), NEW s \in Status
    PROVE  LET q == SetError([p EXCEPT !.buffer = y], s)
           IN  q \in Parser /\ q.buffer = y /\ Fails(p, q, s)
<1> DEFINE r == [p EXCEPT !.buffer = y]
<1>1. r \in Parser /\ Agree(r, p) /\ r.buffer = y
  BY TakenFields
<1> HIDE DEF r
<1>2. LET q == SetError(r, s) IN q \in Parser /\ q.buffer = y /\ Fails(p, q, s)
  BY <1>1, SetErrorFields DEF Fails, Agree
<1> QED
  BY <1>2 DEF r

LEMMA HeaderSet ==
    ASSUME NEW p \in Parser, NEW n \in FieldNames, NEW v \in Number
    PROVE  LET q == [p EXCEPT !.headers[n] = v]
           IN  /\ q \in Parser /\ q.buffer = p.buffer
               /\ q.state = p.state /\ q.status = p.status /\ q.err = p.err
               /\ q.chunk = p.chunk /\ q.body = p.body
               /\ q.headers = [p.headers EXCEPT ![n] = v]
<1> DEFINE h == [p.headers EXCEPT ![n] = v]
<1>1. h \in [FieldNames -> Number \union {Absent}]
  BY DEF Parser
<1>2. [p EXCEPT !.headers[n] = v] = [p EXCEPT !.headers = h]
  OBVIOUS
<1> HIDE DEF h
<1>3. LET q == [p EXCEPT !.headers = h]
      IN  /\ q \in Parser /\ q.buffer = p.buffer
          /\ q.state = p.state /\ q.status = p.status /\ q.err = p.err
          /\ q.chunk = p.chunk /\ q.body = p.body /\ q.headers = h
  BY <1>1 DEF Parser
<1> QED
  BY <1>2, <1>3 DEF h

HeaderSays(p, q) ==
    /\ q \in Parser /\ q.buffer = Rest(p.buffer)
    /\ Line(p.buffer) = <<>> /\ p.headers["Host"] = Absent => Fails(p, q, 400)
    /\ Line(p.buffer) = <<>> /\ p.headers["Host"] # Absent =>
          /\ q.state = "BODY" /\ q.status = p.status /\ q.err = p.err
          /\ q.chunk = p.chunk /\ q.headers = p.headers /\ q.body = p.body
    /\ Line(p.buffer) # <<>> /\ Kind(Line(p.buffer)) \in FieldNames =>
          /\ q.state = p.state /\ q.status = p.status /\ q.err = p.err
          /\ q.chunk = p.chunk /\ q.body = p.body
          /\ q.headers = [p.headers EXCEPT ![Kind(Line(p.buffer))] = Line(p.buffer)[1].val]
    /\ Line(p.buffer) # <<>> /\ Kind(Line(p.buffer)) \notin FieldNames => Fails(p, q, 400)

LEMMA HeaderFields ==
    ASSUME NEW p \in Parser, CompleteLine(p.buffer)
    PROVE  HeaderSays(p, ParseHeader(p))
<1> DEFINE line == Line(p.buffer)
           r == [p EXCEPT !.buffer = Rest(p.buffer)]
           q == ParseHeader(p)
<1>1. p.buffer \in Seq(Symbol)
  BY DEF Parser
<1>2. line \in Seq(Symbol) /\ Rest(p.buffer) \in Seq(Symbol)
  BY <1>1, FirstLine
<1>3. r \in Parser /\ Agree(r, p) /\ r.buffer = Rest(p.buffer)
  BY <1>2, TakenFields
<1>4. /\ SetError(r, 400) \in Parser /\ SetError(r, 400).buffer = Rest(p.buffer)
      /\ Fails(p, SetError(r, 400), 400)
  <2>1. 400 \in Status
    BY DEF Status
  <2> QED
    BY <1>2, <2>1, ErrorAfterLine
<1>5. q = IF line = <<>>
          THEN IF p.headers["Host"] = Absent THEN SetError(r, 400)
               ELSE [r EXCEPT !.state = "BODY"]
          ELSE IF Kind(line) \in FieldNames
          THEN [r EXCEPT !.headers[Kind(line)] = line[1].val]
          ELSE SetError(r, 400)
  BY DEF ParseHeader
<1> HIDE DEF line, r, q
<1>6. CASE line = <<>> /\ p.headers["Host"] = Absent
  <2>1. q = SetError(r, 400)
    BY <1>5, <1>6
  <2> QED
    BY <1>4, <1>6, <2>1 DEF HeaderSays, line, q
<1>7. CASE line = <<>> /\ p.headers["Host"] # Absent
  <2>1. q = [r EXCEPT !.state = "BODY"] /\ "BODY" \in State
    BY <1>5, <1>7 DEF State
  <2>2. /\ q \in Parser /\ q.buffer = r.buffer /\ q.state = "BODY" /\ q.status = r.status
        /\ q.err = r.err /\ q.chunk = r.chunk /\ q.headers = r.headers /\ q.body = r.body
    BY <1>3, <2>1, MovedFields
  <2> QED
    BY <1>3, <1>7, <2>2 DEF HeaderSays, Agree, line, q
<1>8. CASE line # <<>> /\ Kind(line) \in FieldNames
  <2>1. q = [r EXCEPT !.headers[Kind(line)] = line[1].val] /\ line[1].val \in Number
    BY <1>2, <1>5, <1>8, Readings
  <2>2. /\ q \in Parser /\ q.buffer = r.buffer /\ q.state = r.state /\ q.status = r.status
        /\ q.err = r.err /\ q.chunk = r.chunk /\ q.body = r.body
        /\ q.headers = [r.headers EXCEPT ![Kind(line)] = line[1].val]
    BY <1>3, <1>8, <2>1, HeaderSet
  <2> QED
    BY <1>3, <1>8, <2>2 DEF HeaderSays, Agree, line, q
<1>9. CASE line # <<>> /\ Kind(line) \notin FieldNames
  <2>1. q = SetError(r, 400)
    BY <1>5, <1>9
  <2> QED
    BY <1>4, <1>9, <2>1 DEF HeaderSays, line, q
<1> QED
  BY <1>6, <1>7, <1>8, <1>9

LEMMA HeaderTurn ==
    ASSUME NEW p, Good(p), p.state = "HEADERS", ~Waits(p)
    PROVE  /\ Good(ParseHeader(p)) /\ Takes(p, ParseHeader(p))
           /\ \A x \in Seq(Symbol) :
                 ~Waits(With(p, x)) /\ ParseHeader(With(p, x)) = With(ParseHeader(p), x)
<1> DEFINE q == ParseHeader(p)
<1>1. p \in Parser /\ CompleteLine(p.buffer)
  BY DEF Good, Waits
<1>2. HeaderSays(p, q)
  BY <1>1, HeaderFields
<1> HIDE DEF q
<1>3. Good(q)
  BY <1>2 DEF Good, HeaderSays, Fails
<1>4. Takes(p, q)
  <2>1. Stage(p.state) <= Stage(q.state) + 1
    BY Stages DEF Stage
  <2> QED
    BY <1>1, <1>2, <2>1, LineTaken DEF HeaderSays
<1>5. ASSUME NEW x \in Seq(Symbol)
      PROVE  ~Waits(With(p, x)) /\ ParseHeader(With(p, x)) = With(q, x)
  <2> DEFINE w == With(p, x)
             u == ParseHeader(w)
  <2>1. /\ w \in Parser /\ Agree(w, p)
        /\ CompleteLine(w.buffer) /\ Line(w.buffer) = Line(p.buffer)
        /\ Rest(w.buffer) = Rest(p.buffer) \o x
    BY <1>1, WithLine
  <2>2. HeaderSays(w, u)
    BY <2>1, HeaderFields
  <2> HIDE DEF w, u
  <2>3. ~Waits(w)
    BY <2>1 DEF Waits, Agree
  <2>4. Agree(u, q)
    <3> DEFINE line == Line(p.buffer)
    <3>1. CASE line = <<>> /\ p.headers["Host"] = Absent
      <4>1. Fails(p, q, 400) /\ Fails(w, u, 400)
        BY <1>2, <2>1, <2>2, <3>1 DEF HeaderSays, Agree
      <4> QED
        BY <2>1, <4>1, BothFail
    <3>2. CASE line = <<>> /\ p.headers["Host"] # Absent
      BY <1>2, <2>1, <2>2, <3>2 DEF HeaderSays, Agree
    <3>3. CASE line # <<>> /\ Kind(line) \in FieldNames
      BY <1>2, <2>1, <2>2, <3>3 DEF HeaderSays, Agree
    <3>4. CASE line # <<>> /\ Kind(line) \notin FieldNames
      <4>1. Fails(p, q, 400) /\ Fails(w, u, 400)
        BY <1>2, <2>1, <2>2, <3>4 DEF HeaderSays, Agree
      <4> QED
        BY <2>1, <4>1, BothFail
    <3> QED
      BY <3>1, <3>2, <3>3, <3>4
  <2>5. u = With(q, x)
    BY <1>2, <2>1, <2>2, <2>4, IsWith DEF HeaderSays
  <2> QED
    BY <2>3, <2>5 DEF u, w
<1> QED
  BY <1>3, <1>4, <1>5 DEF q

(* The body with a length, or none.                                        *)
BodyLength(p) == IF p.headers["CL"] = Absent THEN 0 ELSE p.headers["CL"]

BodySays(p, q) ==
    LET te == p.headers["TE"]
        cl == p.headers["CL"]
    IN  /\ q \in Parser
        /\ te # Absent /\ cl # Absent => q.buffer = p.buffer /\ Fails(p, q, 400)
        /\ te = Chunked /\ cl = Absent =>
              /\ q.state = "CHUNK_SIZE" /\ q.status = p.status /\ q.err = p.err
              /\ q.chunk = p.chunk /\ q.headers = p.headers /\ q.body = p.body
              /\ q.buffer = p.buffer
        /\ te \notin {Chunked, Absent} /\ cl = Absent =>
              q.buffer = p.buffer /\ Fails(p, q, 501)
        /\ te = Absent /\ cl = NotANumber => q.buffer = p.buffer /\ Fails(p, q, 400)
        /\ te = Absent /\ cl # NotANumber =>
              /\ q.state = "COMPLETE" /\ q.status = p.status /\ q.err = p.err
              /\ q.chunk = p.chunk /\ q.headers = p.headers
              /\ q.body = p.body \o SubSeq(p.buffer, 1, BodyLength(p))
              /\ q.buffer = SubSeq(p.buffer, BodyLength(p) + 1, Len(p.buffer))

LEMMA HeaderValues ==
    ASSUME NEW p \in Parser
    PROVE  /\ p.headers["TE"] \in Number \union {Absent}
           /\ p.headers["CL"] \in Number \union {Absent}
  BY DEF Parser, FieldNames

(* What is cut from the front, and what stays.                             *)
LEMMA Cut ==
    ASSUME NEW b \in Seq(Symbol), NEW n \in 0..Len(b)
    PROVE  SubSeq(b, 1, n) \in Seq(Symbol) /\ SubSeq(b, n + 1, Len(b)) \in Seq(Symbol)
<1>1. Len(b) \in Nat /\ n \in Int /\ n + 1 \in Int
  BY LenProperties
<1>2. \A i \in 1..Len(b) : b[i] \in Symbol
  BY ElementOfSeq
<1>3. /\ \A i \in 1..n : b[i] \in Symbol
      /\ \A i \in n + 1..Len(b) : b[i] \in Symbol
  BY <1>1, <1>2
<1> QED
  BY <1>1, <1>3, SubSeqProperties

LEMMA BodyFields ==
    ASSUME NEW p \in Parser, BodyLength(p) = NotANumber \/ BodyLength(p) \in 0..Len(p.buffer)
                             \/ p.headers["TE"] # Absent
    PROVE  BodySays(p, ParseBody(p))
<1> DEFINE te == p.headers["TE"]
           cl == p.headers["CL"]
           q == ParseBody(p)
<1>1. te \in Number \union {Absent} /\ cl \in Number \union {Absent}
  BY HeaderValues
<1>2. 400 \in Status /\ 501 \in Status /\ "CHUNK_SIZE" \in State /\ "COMPLETE" \in State
  BY DEF Status, State
<1>3. Absent # NotANumber /\ Absent # Chunked
  BY DEF Absent, NotANumber, Chunked
<1>4. CASE te # Absent /\ cl # Absent
  <2>1. q = SetError(p, 400)
    BY <1>4 DEF ParseBody
  <2> HIDE DEF q
  <2>2. q \in Parser /\ q.buffer = p.buffer /\ Fails(p, q, 400)
    BY <1>2, <2>1, ErrorHere
  <2>3. BodySays(p, q)
    BY <1>3, <1>4, <2>2 DEF BodySays
  <2> QED
    BY <2>3 DEF q
<1>5. CASE te = Chunked /\ cl = Absent
  <2>1. q = [p EXCEPT !.state = "CHUNK_SIZE"]
    BY <1>3, <1>5 DEF ParseBody
  <2> HIDE DEF q
  <2>2. /\ q \in Parser /\ q.buffer = p.buffer
        /\ q.state = "CHUNK_SIZE" /\ q.status = p.status /\ q.err = p.err
        /\ q.chunk = p.chunk /\ q.headers = p.headers /\ q.body = p.body
    BY <1>2, <2>1, MovedFields
  <2>3. BodySays(p, q)
    BY <1>3, <1>5, <2>2 DEF BodySays
  <2> QED
    BY <2>3 DEF q
<1>6. CASE te \notin {Chunked, Absent} /\ cl = Absent
  <2>1. q = SetError(p, 501)
    BY <1>3, <1>6 DEF ParseBody
  <2> HIDE DEF q
  <2>2. q \in Parser /\ q.buffer = p.buffer /\ Fails(p, q, 501)
    BY <1>2, <2>1, ErrorHere
  <2>3. BodySays(p, q)
    BY <1>3, <1>6, <2>2 DEF BodySays
  <2> QED
    BY <2>3 DEF q
<1>7. CASE te = Absent /\ cl = NotANumber
  <2>1. q = SetError(p, 400)
    BY <1>3, <1>7 DEF ParseBody
  <2> HIDE DEF q
  <2>2. q \in Parser /\ q.buffer = p.buffer /\ Fails(p, q, 400)
    BY <1>2, <2>1, ErrorHere
  <2>3. BodySays(p, q)
    BY <1>3, <1>7, <2>2 DEF BodySays
  <2> QED
    BY <2>3 DEF q
<1>8. CASE te = Absent /\ cl # NotANumber
  <2> DEFINE n == BodyLength(p)
             y == SubSeq(p.buffer, 1, n)
             z == SubSeq(p.buffer, n + 1, Len(p.buffer))
             d == p.body \o y
  <2>1. n \in 0..Len(p.buffer)
    BY <1>3, <1>8 DEF BodyLength, NotANumber
  <2>2. p.buffer \in Seq(Symbol) /\ p.body \in Seq(Symbol)
    BY DEF Parser
  <2>3. y \in Seq(Symbol) /\ z \in Seq(Symbol)
    BY <2>1, <2>2, Cut
  <2>4. d \in Seq(Symbol)
    BY <2>2, <2>3, ConcatProperties
  <2>5. q = [p EXCEPT !.state = "COMPLETE", !.body = d, !.buffer = z]
    BY <1>3, <1>8 DEF ParseBody, BodyLength
  <2> HIDE DEF q, y, z, d
  <2>6. /\ q \in Parser /\ q.state = "COMPLETE" /\ q.status = p.status /\ q.err = p.err
        /\ q.chunk = p.chunk /\ q.headers = p.headers /\ q.body = d /\ q.buffer = z
    BY <1>2, <2>3, <2>4, <2>5 DEF Parser
  <2>7. BodySays(p, q)
    BY <1>3, <1>8, <2>6 DEF BodySays, d, y, z
  <2> QED
    BY <2>7 DEF q
<1> QED
  BY <1>3, <1>4, <1>5, <1>6, <1>7, <1>8

LEMMA BodyTurn ==
    ASSUME NEW p, Good(p), p.state = "BODY", ~Waits(p)
    PROVE  /\ Good(ParseBody(p)) /\ Takes(p, ParseBody(p))
           /\ \A x \in Seq(Symbol) :
                 ~Waits(With(p, x)) /\ ParseBody(With(p, x)) = With(ParseBody(p), x)
<1> DEFINE q == ParseBody(p)
           te == p.headers["TE"]
           cl == p.headers["CL"]
           n == BodyLength(p)
<1>1. /\ p \in Parser /\ p.buffer \in Seq(Symbol) /\ Len(p.buffer) \in Nat
      /\ te \in Number \union {Absent} /\ cl \in Number \union {Absent}
      /\ Absent # NotANumber /\ Absent # Chunked
  BY HeaderValues, LenProperties DEF Good, Parser, Absent, NotANumber, Chunked
<1>2. te # Absent \/ ~(cl >= 0) \/ ~(Len(p.buffer) < cl)
  BY DEF Waits
<1>3. te # Absent \/ n = NotANumber \/ n \in 0..Len(p.buffer)
  BY <1>1, <1>2 DEF BodyLength, Absent, NotANumber, Number
<1>4. BodySays(p, q)
  BY <1>1, <1>3, BodyFields
<1> HIDE DEF q
<1>5. \/ te # Absent /\ cl # Absent
      \/ te = Chunked /\ cl = Absent
      \/ te \notin {Chunked, Absent} /\ cl = Absent
      \/ te = Absent /\ cl = NotANumber
      \/ te = Absent /\ cl # NotANumber
  OBVIOUS
<1>6. Good(q) /\ Takes(p, q)
  <2>1. ASSUME q.buffer = p.buffer, NEW s \in {400, 501}, Fails(p, q, s)
        PROVE  Good(q) /\ Takes(p, q)
    <3>1. Good(q)
      BY <1>4, <2>1 DEF Good, Fails, BodySays
    <3>2. 1 + Stage(p.state) <= Stage(q.state)
      BY <2>1 DEF Stage, Fails
    <3> QED
      BY <1>1, <2>1, <3>1, <3>2, NothingTaken
  <2>2. CASE te # Absent /\ cl # Absent
    BY <1>4, <2>1, <2>2 DEF BodySays
  <2>3. CASE te = Chunked /\ cl = Absent
    <3>1. /\ q \in Parser /\ q.state = "CHUNK_SIZE" /\ q.status = p.status /\ q.err = p.err
          /\ q.buffer = p.buffer
      BY <1>1, <1>4, <2>3 DEF BodySays
    <3>2. Good(q)
      BY <3>1 DEF Good
    <3>3. 1 + Stage(p.state) <= Stage(q.state)
      BY <3>1 DEF Stage
    <3> QED
      BY <1>1, <3>1, <3>2, <3>3, NothingTaken
  <2>4. CASE te \notin {Chunked, Absent} /\ cl = Absent
    BY <1>4, <2>1, <2>4 DEF BodySays
  <2>5. CASE te = Absent /\ cl = NotANumber
    BY <1>1, <1>4, <2>1, <2>5 DEF BodySays
  <2>6. CASE te = Absent /\ cl # NotANumber
    <3>1. /\ q \in Parser /\ q.state = "COMPLETE" /\ q.status = p.status /\ q.err = p.err
          /\ q.buffer = SubSeq(p.buffer, n + 1, Len(p.buffer))
      BY <1>1, <1>4, <2>6 DEF BodySays
    <3>2. Good(q)
      BY <3>1 DEF Good
    <3>3. n \in 0..Len(p.buffer)
      BY <1>1, <1>3, <2>6 DEF BodyLength, NotANumber
    <3>4. 1 + Stage(p.state) <= n + Stage(q.state)
      BY <3>1, <3>3 DEF Stage
    <3> QED
      BY <3>1, <3>2, <3>3, <3>4 DEF Takes
  <2> QED
    BY <1>5, <2>2, <2>3, <2>4, <2>5, <2>6
<1>7. ASSUME NEW x \in Seq(Symbol)
      PROVE  ~Waits(With(p, x)) /\ ParseBody(With(p, x)) = With(q, x)
  <2> DEFINE w == With(p, x)
             u == ParseBody(w)
  <2>1. w \in Parser /\ Agree(w, p) /\ w.buffer = p.buffer \o x
    BY <1>1, WithFields
  <2>2. Len(w.buffer) \in Nat /\ Len(p.buffer) <= Len(w.buffer)
    <3>1. Len(p.buffer \o x) = Len(p.buffer) + Len(x) /\ Len(x) \in Nat
      BY <1>1, ConcatProperties, LenProperties
    <3> QED
      BY <1>1, <2>1, <3>1
  <2> HIDE DEF w
  <2>3. w.headers = p.headers /\ w.state = "BODY" /\ BodyLength(w) = n
    BY <2>1 DEF Agree, BodyLength
  <2>4. ~Waits(w)
    <3>1. te # Absent \/ ~(cl >= 0) \/ ~(Len(w.buffer) < cl)
      BY <1>1, <1>2, <2>2 DEF Absent, NotANumber, Number
    <3> QED
      BY <2>3, <3>1 DEF Waits
  <2>5. BodySays(w, u)
    <3>1. te # Absent \/ n = NotANumber \/ n \in 0..Len(w.buffer)
      BY <1>1, <1>3, <2>2
    <3> QED
      BY <2>1, <2>3, <3>1, BodyFields
  <2> HIDE DEF u
  <2>6. Agree(u, q) /\ u.buffer = q.buffer \o x
    <3>1. CASE te # Absent /\ cl # Absent
      <4>1. /\ Fails(p, q, 400) /\ q.buffer = p.buffer
            /\ Fails(w, u, 400) /\ u.buffer = w.buffer
        BY <1>4, <2>3, <2>5, <3>1 DEF BodySays
      <4> QED
        BY <2>1, <4>1, BothFail
    <3>2. CASE te = Chunked /\ cl = Absent
      BY <1>1, <1>4, <2>1, <2>3, <2>5, <3>2 DEF BodySays, Agree
    <3>3. CASE te \notin {Chunked, Absent} /\ cl = Absent
      <4>1. /\ Fails(p, q, 501) /\ q.buffer = p.buffer
            /\ Fails(w, u, 501) /\ u.buffer = w.buffer
        BY <1>4, <2>3, <2>5, <3>3 DEF BodySays
      <4> QED
        BY <2>1, <4>1, BothFail
    <3>4. CASE te = Absent /\ cl = NotANumber
      <4>1. /\ Fails(p, q, 400) /\ q.buffer = p.buffer
            /\ Fails(w, u, 400) /\ u.buffer = w.buffer
        BY <1>1, <1>4, <2>3, <2>5, <3>4 DEF BodySays
      <4> QED
        BY <2>1, <4>1, BothFail
    <3>5. CASE te = Absent /\ cl # NotANumber
      <4>1. n \in 0..Len(p.buffer)
        BY <1>1, <1>3, <3>5 DEF BodyLength, NotANumber
      <4>2. /\ SubSeq(w.buffer, 1, n) = SubSeq(p.buffer, 1, n)
            /\ SubSeq(w.buffer, n + 1, Len(w.buffer))
                  = SubSeq(p.buffer, n + 1, Len(p.buffer)) \o x
        <5> DEFINE b == p.buffer
        <5>1. b \in Seq(Symbol) /\ n \in 0..Len(b)
          BY <1>1, <4>1
        <5> HIDE DEF b, n
        <5>2. /\ SubSeq(b \o x, 1, n) = SubSeq(b, 1, n)
              /\ SubSeq(b \o x, n + 1, Len(b \o x)) = SubSeq(b, n + 1, Len(b)) \o x
          BY <5>1, CutOfConcat
        <5> QED
          BY <2>1, <5>2 DEF b
      <4>3. /\ q.state = "COMPLETE" /\ q.status = p.status /\ q.err = p.err
            /\ q.chunk = p.chunk /\ q.headers = p.headers
            /\ q.body = p.body \o SubSeq(p.buffer, 1, n)
            /\ q.buffer = SubSeq(p.buffer, n + 1, Len(p.buffer))
        BY <1>4, <3>5 DEF BodySays
      <4>4. /\ u.state = "COMPLETE" /\ u.status = w.status /\ u.err = w.err
            /\ u.chunk = w.chunk /\ u.headers = w.headers
            /\ u.body = w.body \o SubSeq(w.buffer, 1, n)
            /\ u.buffer = SubSeq(w.buffer, n + 1, Len(w.buffer))
        BY <2>3, <2>5, <3>5 DEF BodySays
      <4> QED
        BY <2>1, <4>2, <4>3, <4>4 DEF Agree
    <3> QED
      BY <1>5, <3>1, <3>2, <3>3, <3>4, <3>5
  <2>7. u = With(q, x)
    BY <1>4, <2>5, <2>6, IsWith DEF BodySays
  <2> QED
    BY <2>4, <2>7 DEF u, w
<1> QED
  BY <1>6, <1>7 DEF q

(* Chunks.                                                                 *)
ChunkSizeSays(p, q) ==
    LET line == Line(p.buffer)
    IN  /\ q \in Parser /\ q.buffer = Rest(p.buffer)
        /\ Kind(line) # "size" \/ line[1].val = NotANumber => Fails(p, q, 400)
        /\ Kind(line) = "size" /\ line[1].val # NotANumber =>
              /\ q.state = (IF line[1].val = 0 THEN "FINAL_CRLF" ELSE "CHUNK_DATA")
              /\ q.status = p.status /\ q.err = p.err /\ q.headers = p.headers
              /\ q.body = p.body /\ q.chunk = line[1].val /\ line[1].val \in Nat

LEMMA ChunkSizeFields ==
    ASSUME NEW p \in Parser, CompleteLine(p.buffer)
    PROVE  ChunkSizeSays(p, ParseChunkSize(p))
<1> DEFINE line == Line(p.buffer)
           y == Rest(p.buffer)
           q == ParseChunkSize(p)
<1>1. p.buffer \in Seq(Symbol)
  BY DEF Parser
<1>2. line \in Seq(Symbol) /\ y \in Seq(Symbol)
  BY <1>1, FirstLine
<1>3. CASE Kind(line) # "size" \/ line[1].val = NotANumber
  <2>1. q = SetError([p EXCEPT !.buffer = y], 400)
    BY <1>3 DEF ParseChunkSize
  <2>2. 400 \in Status
    BY DEF Status
  <2> HIDE DEF q, y
  <2>3. q \in Parser /\ q.buffer = y /\ Fails(p, q, 400)
    BY <1>2, <2>1, <2>2, ErrorAfterLine
  <2>4. ChunkSizeSays(p, q)
    BY <1>3, <2>3 DEF ChunkSizeSays, y
  <2> QED
    BY <2>4 DEF q
<1>4. CASE Kind(line) = "size" /\ line[1].val # NotANumber
  <2> DEFINE v == line[1].val
             s == IF v = 0 THEN "FINAL_CRLF" ELSE "CHUNK_DATA"
  <2>1. v \in Nat /\ v \in Number /\ s \in State
    BY <1>2, <1>4, Readings DEF Number, State
  <2>2. q = [[p EXCEPT !.buffer = y] EXCEPT !.chunk = v, !.state = s]
    BY <1>4 DEF ParseChunkSize
  <2>3. q = [p EXCEPT !.buffer = y, !.chunk = v, !.state = s]
    BY <2>2
  <2> HIDE DEF q, y, v, s
  <2>4. /\ q \in Parser /\ q.buffer = y /\ q.state = s /\ q.status = p.status
        /\ q.err = p.err /\ q.headers = p.headers /\ q.body = p.body /\ q.chunk = v
    BY <1>2, <2>1, <2>3 DEF Parser
  <2>5. ChunkSizeSays(p, q)
    BY <1>4, <2>1, <2>4 DEF ChunkSizeSays, y, v, s
  <2> QED
    BY <2>5 DEF q
<1> QED
  BY <1>3, <1>4

LEMMA ChunkSizeTurn ==
    ASSUME NEW p, Good(p), p.state = "CHUNK_SIZE", ~Waits(p)
    PROVE  /\ Good(ParseChunkSize(p)) /\ Takes(p, ParseChunkSize(p))
           /\ \A x \in Seq(Symbol) :
                 /\ ~Waits(With(p, x))
                 /\ ParseChunkSize(With(p, x)) = With(ParseChunkSize(p), x)
<1> DEFINE q == ParseChunkSize(p)
           line == Line(p.buffer)
<1>1. p \in Parser /\ CompleteLine(p.buffer)
  BY DEF Good, Waits
<1>2. ChunkSizeSays(p, q)
  BY <1>1, ChunkSizeFields
<1> HIDE DEF q
<1>3. Good(q) /\ Stage(p.state) <= Stage(q.state) + 1
  <2>1. CASE Kind(line) # "size" \/ line[1].val = NotANumber
    BY <1>2, <2>1 DEF Good, ChunkSizeSays, Fails, Stage
  <2>2. CASE Kind(line) = "size" /\ line[1].val # NotANumber
    BY <1>2, <2>2 DEF Good, ChunkSizeSays, Stage
  <2> QED
    BY <2>1, <2>2
<1>4. Takes(p, q)
  BY <1>1, <1>2, <1>3, LineTaken DEF ChunkSizeSays
<1>5. ASSUME NEW x \in Seq(Symbol)
      PROVE  ~Waits(With(p, x)) /\ ParseChunkSize(With(p, x)) = With(q, x)
  <2> DEFINE w == With(p, x)
             u == ParseChunkSize(w)
  <2>1. /\ w \in Parser /\ Agree(w, p)
        /\ CompleteLine(w.buffer) /\ Line(w.buffer) = Line(p.buffer)
        /\ Rest(w.buffer) = Rest(p.buffer) \o x
    BY <1>1, WithLine
  <2>2. ChunkSizeSays(w, u)
    BY <2>1, ChunkSizeFields
  <2> HIDE DEF w, u
  <2>3. ~Waits(w)
    BY <2>1 DEF Waits, Agree
  <2>4. Agree(u, q)
    <3>1. CASE Kind(line) # "size" \/ line[1].val = NotANumber
      <4>1. Fails(p, q, 400) /\ Fails(w, u, 400)
        BY <1>2, <2>1, <2>2, <3>1 DEF ChunkSizeSays
      <4> QED
        BY <2>1, <4>1, BothFail
    <3>2. CASE Kind(line) = "size" /\ line[1].val # NotANumber
      BY <1>2, <2>1, <2>2, <3>2 DEF ChunkSizeSays, Agree
    <3> QED
      BY <3>1, <3>2
  <2>5. u = With(q, x)
    BY <1>2, <2>1, <2>2, <2>4, IsWith DEF ChunkSizeSays
  <2> QED
    BY <2>3, <2>5 DEF u, w
<1> QED
  BY <1>3, <1>4, <1>5 DEF q

FinalSays(p, q) ==
    /\ q \in Parser /\ q.buffer = Rest(p.buffer)
    /\ Line(p.buffer) # <<>> => Fails(p, q, 400)
    /\ Line(p.buffer) = <<>> =>
          /\ q.state = "COMPLETE" /\ q.status = p.status /\ q.err = p.err
          /\ q.chunk = p.chunk /\ q.headers = p.headers /\ q.body = p.body

LEMMA FinalFields ==
    ASSUME NEW p \in Parser, CompleteLine(p.buffer)
    PROVE  FinalSays(p, ParseChunkFinalCRLF(p))
<1> DEFINE r == [p EXCEPT !.buffer = Rest(p.buffer)]
           q == ParseChunkFinalCRLF(p)
<1>1. p.buffer \in Seq(Symbol) /\ 400 \in Status /\ "COMPLETE" \in State
  BY DEF Parser, Status, State
<1>2. Rest(p.buffer) \in Seq(Symbol)
  BY <1>1, FirstLine
<1>3. CASE Line(p.buffer) # <<>>
  <2>1. q = SetError(r, 400)
    BY <1>3 DEF ParseChunkFinalCRLF
  <2> HIDE DEF q
  <2>2. q \in Parser /\ q.buffer = Rest(p.buffer) /\ Fails(p, q, 400)
    BY <1>1, <1>2, <2>1, ErrorAfterLine
  <2> QED
    BY <1>3, <2>2 DEF FinalSays, q
<1>4. CASE Line(p.buffer) = <<>>
  <2>1. q = [r EXCEPT !.state = "COMPLETE"]
    BY <1>4 DEF ParseChunkFinalCRLF
  <2>2. r \in Parser /\ Agree(r, p) /\ r.buffer = Rest(p.buffer)
    BY <1>2, TakenFields
  <2> HIDE DEF q, r
  <2>3. /\ q \in Parser /\ q.buffer = r.buffer /\ q.state = "COMPLETE"
        /\ q.status = r.status /\ q.err = r.err
        /\ q.chunk = r.chunk /\ q.headers = r.headers /\ q.body = r.body
    BY <1>1, <2>1, <2>2, MovedFields
  <2> QED
    BY <1>4, <2>2, <2>3 DEF FinalSays, Agree, q
<1> QED
  BY <1>3, <1>4

LEMMA FinalTurn ==
    ASSUME NEW p, Good(p), p.state = "FINAL_CRLF", ~Waits(p)
    PROVE  /\ Good(ParseChunkFinalCRLF(p)) /\ Takes(p, ParseChunkFinalCRLF(p))
           /\ \A x \in Seq(Symbol) :
                 /\ ~Waits(With(p, x))
                 /\ ParseChunkFinalCRLF(With(p, x)) = With(ParseChunkFinalCRLF(p), x)
<1> DEFINE q == ParseChunkFinalCRLF(p)
<1>1. p \in Parser /\ CompleteLine(p.buffer)
  BY DEF Good, Waits
<1>2. FinalSays(p, q)
  BY <1>1, FinalFields
<1> HIDE DEF q
<1>3. Good(q) /\ Stage(p.state) <= Stage(q.state) + 1
  BY <1>2 DEF Good, FinalSays, Fails, Stage
<1>4. Takes(p, q)
  BY <1>1, <1>2, <1>3, LineTaken DEF FinalSays
<1>5. ASSUME NEW x \in Seq(Symbol)
      PROVE  ~Waits(With(p, x)) /\ ParseChunkFinalCRLF(With(p, x)) = With(q, x)
  <2> DEFINE w == With(p, x)
             u == ParseChunkFinalCRLF(w)
  <2>1. /\ w \in Parser /\ Agree(w, p)
        /\ CompleteLine(w.buffer) /\ Line(w.buffer) = Line(p.buffer)
        /\ Rest(w.buffer) = Rest(p.buffer) \o x
    BY <1>1, WithLine
  <2>2. FinalSays(w, u)
    BY <2>1, FinalFields
  <2> HIDE DEF w, u
  <2>3. ~Waits(w)
    BY <2>1 DEF Waits, Agree
  <2>4. Agree(u, q)
    <3>1. CASE Line(p.buffer) # <<>>
      <4>1. Fails(p, q, 400) /\ Fails(w, u, 400)
        BY <1>2, <2>1, <2>2, <3>1 DEF FinalSays
      <4> QED
        BY <2>1, <4>1, BothFail
    <3>2. CASE Line(p.buffer) = <<>>
      BY <1>2, <2>1, <2>2, <3>2 DEF FinalSays, Agree
    <3> QED
      BY <3>1, <3>2
  <2>5. u = With(q, x)
    BY <1>2, <2>1, <2>2, <2>4, IsWith DEF FinalSays
  <2> QED
    BY <2>3, <2>5 DEF u, w
<1> QED
  BY <1>3, <1>4, <1>5 DEF q

Terminated(p) == p.buffer[p.chunk + 1] = CR /\ p.buffer[p.chunk + 2] = LF

ChunkDataSays(p, q) ==
    /\ q \in Parser
    /\ ~Terminated(p) => q.buffer = p.buffer /\ Fails(p, q, 400)
    /\ Terminated(p) =>
          /\ q.state = "CHUNK_SIZE" /\ q.status = p.status /\ q.err = p.err
          /\ q.headers = p.headers /\ q.chunk = -1
          /\ q.body = p.body \o SubSeq(p.buffer, 1, p.chunk)
          /\ q.buffer = SubSeq(p.buffer, p.chunk + 3, Len(p.buffer))

LEMMA ChunkDataFields ==
    ASSUME NEW p \in Parser, p.chunk \in Nat, p.chunk + 2 <= Len(p.buffer)
    PROVE  ChunkDataSays(p, ParseChunkData(p))
<1> DEFINE n == p.chunk
           y == SubSeq(p.buffer, 1, n)
           z == SubSeq(p.buffer, n + 3, Len(p.buffer))
           d == p.body \o y
           q == ParseChunkData(p)
<1>1. /\ p.buffer \in Seq(Symbol) /\ p.body \in Seq(Symbol) /\ Len(p.buffer) \in Nat
      /\ 400 \in Status /\ "CHUNK_SIZE" \in State /\ -1 \in Number
  BY LenProperties DEF Parser, Status, State, Number, NotANumber
<1>2. CASE ~Terminated(p)
  <2>1. q = SetError(p, 400)
    BY <1>2 DEF ParseChunkData, Terminated
  <2> HIDE DEF q
  <2>2. q \in Parser /\ q.buffer = p.buffer /\ Fails(p, q, 400)
    BY <1>1, <2>1, ErrorHere
  <2>3. ChunkDataSays(p, q)
    BY <1>2, <2>2 DEF ChunkDataSays
  <2> QED
    BY <2>3 DEF q
<1>3. CASE Terminated(p)
  <2>1. y \in Seq(Symbol) /\ z \in Seq(Symbol)
    <3>1. n \in 0..Len(p.buffer) /\ n + 2 \in 0..Len(p.buffer) /\ n + 3 = (n + 2) + 1
      BY <1>1
    <3>2. y \in Seq(Symbol)
      BY <1>1, <3>1, Cut
    <3>3. SubSeq(p.buffer, (n + 2) + 1, Len(p.buffer)) \in Seq(Symbol)
      BY <1>1, <3>1, Cut
    <3> QED
      BY <3>1, <3>2, <3>3
  <2>2. d \in Seq(Symbol)
    BY <1>1, <2>1, ConcatProperties
  <2>3. q = [p EXCEPT !.body = d, !.buffer = z, !.state = "CHUNK_SIZE", !.chunk = -1]
    BY <1>3 DEF ParseChunkData, Terminated
  <2> HIDE DEF q, y, z, d
  <2>4. /\ q \in Parser /\ q.state = "CHUNK_SIZE" /\ q.status = p.status /\ q.err = p.err
        /\ q.headers = p.headers /\ q.chunk = -1 /\ q.body = d /\ q.buffer = z
    BY <1>1, <2>1, <2>2, <2>3 DEF Parser
  <2>5. ChunkDataSays(p, q)
    BY <1>3, <2>4 DEF ChunkDataSays, d, y, z
  <2> QED
    BY <2>5 DEF q
<1> QED
  BY <1>2, <1>3

LEMMA ChunkDataTurn ==
    ASSUME NEW p, Good(p), p.state = "CHUNK_DATA", ~Waits(p)
    PROVE  /\ Good(ParseChunkData(p)) /\ Takes(p, ParseChunkData(p))
           /\ \A x \in Seq(Symbol) :
                 /\ ~Waits(With(p, x))
                 /\ ParseChunkData(With(p, x)) = With(ParseChunkData(p), x)
<1> DEFINE q == ParseChunkData(p)
           b == p.buffer
           n == p.chunk
<1>1. /\ p \in Parser /\ b \in Seq(Symbol) /\ Len(b) \in Nat /\ n \in Nat
      /\ n + 2 <= Len(b)
  <2>1. p \in Parser /\ b \in Seq(Symbol) /\ n \in Nat /\ ~(Len(b) < n + 2)
    BY DEF Good, Waits, Parser
  <2> QED
    BY <2>1, LenProperties
<1>2. ChunkDataSays(p, q)
  BY <1>1, ChunkDataFields
<1> HIDE DEF q
<1>3. /\ n + 2 \in 0..Len(b) /\ (n + 2) + 1 = n + 3 /\ n \in 0..Len(b)
      /\ n + 1 \in 1..Len(b) /\ n + 2 \in 1..Len(b)
  BY <1>1
<1>4. Good(q) /\ Takes(p, q)
  <2>1. CASE ~Terminated(p)
    <3>1. q.buffer = p.buffer /\ Fails(p, q, 400) /\ q \in Parser
      BY <1>2, <2>1 DEF ChunkDataSays
    <3>2. Good(q)
      BY <3>1 DEF Good, Fails
    <3>3. 1 + Stage(p.state) <= Stage(q.state)
      BY <3>1 DEF Stage, Fails
    <3> QED
      BY <1>1, <3>1, <3>2, <3>3, NothingTaken
  <2>2. CASE Terminated(p)
    <3>1. /\ q.state = "CHUNK_SIZE" /\ q.status = p.status /\ q.err = p.err
          /\ q.buffer = SubSeq(b, n + 3, Len(b)) /\ q \in Parser
      BY <1>2, <2>2 DEF ChunkDataSays
    <3>2. Good(q)
      BY <3>1 DEF Good
    <3>3. 1 + Stage(p.state) <= (n + 2) + Stage(q.state)
      BY <1>1, <3>1 DEF Stage
    <3>4. q.buffer = SubSeq(b, (n + 2) + 1, Len(b))
      BY <1>3, <3>1
    <3> QED
      BY <1>3, <3>2, <3>3, <3>4 DEF Takes
  <2> QED
    BY <2>1, <2>2
<1>5. ASSUME NEW x \in Seq(Symbol)
      PROVE  ~Waits(With(p, x)) /\ ParseChunkData(With(p, x)) = With(q, x)
  <2> DEFINE w == With(p, x)
             u == ParseChunkData(w)
  <2>1. w \in Parser /\ Agree(w, p) /\ w.buffer = b \o x
    BY <1>1, WithFields
  <2>2. /\ Len(b \o x) = Len(b) + Len(x) /\ Len(x) \in Nat
        /\ \A i \in 1..Len(b) : (b \o x)[i] = b[i]
    <3>1. \A i \in 1..Len(b) + Len(x) : (b \o x)[i] = IF i <= Len(b) THEN b[i] ELSE x[i - Len(b)]
      BY <1>1, ConcatProperties
    <3>2. Len(b \o x) = Len(b) + Len(x) /\ Len(x) \in Nat
      BY <1>1, ConcatProperties, LenProperties
    <3> QED
      BY <1>1, <3>1, <3>2
  <2> HIDE DEF w
  <2>3. w.chunk = n /\ n + 2 <= Len(w.buffer) /\ w.state = "CHUNK_DATA"
    BY <1>1, <2>1, <2>2 DEF Agree
  <2>4. ~Waits(w)
    <3>1. Len(w.buffer) \in Nat
      BY <1>1, <2>1, <2>2
    <3>2. ~(Len(w.buffer) < w.chunk + 2)
      BY <1>1, <2>3, <3>1
    <3> QED
      BY <2>3, <3>2 DEF Waits
  <2>5. ChunkDataSays(w, u)
    BY <1>1, <2>1, <2>3, ChunkDataFields
  <2>6. Terminated(w) <=> Terminated(p)
    <3>1. w.buffer[n + 1] = b[n + 1] /\ w.buffer[n + 2] = b[n + 2]
      BY <1>3, <2>1, <2>2
    <3> QED
      BY <2>3, <3>1 DEF Terminated
  <2> HIDE DEF u
  <2>7. Agree(u, q) /\ u.buffer = q.buffer \o x
    <3>1. CASE ~Terminated(p)
      <4>1. /\ Fails(p, q, 400) /\ q.buffer = b
            /\ Fails(w, u, 400) /\ u.buffer = w.buffer
        BY <1>2, <2>5, <2>6, <3>1 DEF ChunkDataSays
      <4> QED
        BY <2>1, <4>1, BothFail
    <3>2. CASE Terminated(p)
      <4>1. /\ q.state = "CHUNK_SIZE" /\ q.status = p.status /\ q.err = p.err
            /\ q.headers = p.headers /\ q.chunk = -1
            /\ q.body = p.body \o SubSeq(b, 1, n) /\ q.buffer = SubSeq(b, n + 3, Len(b))
        BY <1>2, <3>2 DEF ChunkDataSays
      <4>2. /\ u.state = "CHUNK_SIZE" /\ u.status = w.status /\ u.err = w.err
            /\ u.headers = w.headers /\ u.chunk = -1
            /\ u.body = w.body \o SubSeq(b \o x, 1, n)
            /\ u.buffer = SubSeq(b \o x, n + 3, Len(b \o x))
        BY <2>1, <2>3, <2>5, <2>6, <3>2 DEF ChunkDataSays
      <4> HIDE DEF b, n
      <4>3. SubSeq(b \o x, 1, n) = SubSeq(b, 1, n)
        BY <1>1, <1>3, CutOfConcat
      <4>4. SubSeq(b \o x, (n + 2) + 1, Len(b \o x)) = SubSeq(b, (n + 2) + 1, Len(b)) \o x
        BY <1>1, <1>3, CutOfConcat
      <4>5. SubSeq(b \o x, n + 3, Len(b \o x)) = SubSeq(b, n + 3, Len(b)) \o x
        BY <1>3, <4>4
      <4> QED
        BY <2>1, <4>1, <4>2, <4>3, <4>5 DEF Agree
    <3> QED
      BY <3>1, <3>2
  <2>8. u = With(q, x)
    BY <1>2, <2>5, <2>7, IsWith DEF ChunkDataSays
  <2> QED
    BY <2>4, <2>8 DEF u, w
<1> QED
  BY <1>4, <1>5 DEF q

(* A turn of any kind.                                                     *)
LEMMA AnyTurn ==
    ASSUME NEW p, Good(p), ~Final(p), ~Waits(p)
    PROVE  /\ Good(Dispatch(p)) /\ Takes(p, Dispatch(p))
           /\ \A x \in Seq(Symbol) :
                 ~Waits(With(p, x)) /\ Dispatch(With(p, x)) = With(Dispatch(p), x)
<1>1. p \in Parser /\ \A x \in Seq(Symbol) : With(p, x).state = p.state
  BY WithFields DEF Good, Agree
<1>2. p.state \in State \ {"COMPLETE", "ERROR"}
  BY <1>1 DEF Final, Parser
<1>3. CASE p.state = "START_LINE"
  <2>1. Dispatch(p) = ParseStartLine(p)
    BY <1>3 DEF Dispatch
  <2>2. \A x \in Seq(Symbol) : Dispatch(With(p, x)) = ParseStartLine(With(p, x))
    BY <1>1, <1>3 DEF Dispatch
  <2> QED
    BY <1>3, <2>1, <2>2, StartLineTurn
<1>4. CASE p.state = "HEADERS"
  <2>1. Dispatch(p) = ParseHeader(p)
    BY <1>4 DEF Dispatch
  <2>2. \A x \in Seq(Symbol) : Dispatch(With(p, x)) = ParseHeader(With(p, x))
    BY <1>1, <1>4 DEF Dispatch
  <2> QED
    BY <1>4, <2>1, <2>2, HeaderTurn
<1>5. CASE p.state = "BODY"
  <2>1. Dispatch(p) = ParseBody(p)
    BY <1>5 DEF Dispatch
  <2>2. \A x \in Seq(Symbol) : Dispatch(With(p, x)) = ParseBody(With(p, x))
    BY <1>1, <1>5 DEF Dispatch
  <2> QED
    BY <1>5, <2>1, <2>2, BodyTurn
<1>6. CASE p.state = "CHUNK_SIZE"
  <2>1. Dispatch(p) = ParseChunkSize(p)
    BY <1>6 DEF Dispatch
  <2>2. \A x \in Seq(Symbol) : Dispatch(With(p, x)) = ParseChunkSize(With(p, x))
    BY <1>1, <1>6 DEF Dispatch
  <2> QED
    BY <1>6, <2>1, <2>2, ChunkSizeTurn
<1>7. CASE p.state = "CHUNK_DATA"
  <2>1. Dispatch(p) = ParseChunkData(p)
    BY <1>7 DEF Dispatch
  <2>2. \A x \in Seq(Symbol) : Dispatch(With(p, x)) = ParseChunkData(With(p, x))
    BY <1>1, <1>7 DEF Dispatch
  <2> QED
    BY <1>7, <2>1, <2>2, ChunkDataTurn
<1>8. CASE p.state = "FINAL_CRLF"
  <2>1. Dispatch(p) = ParseChunkFinalCRLF(p)
    BY <1>8 DEF Dispatch
  <2>2. \A x \in Seq(Symbol) : Dispatch(With(p, x)) = ParseChunkFinalCRLF(With(p, x))
    BY <1>1, <1>8 DEF Dispatch
  <2> QED
    BY <1>8, <2>1, <2>2, FinalTurn
<1> QED
  BY <1>2, <1>3, <1>4, <1>5, <1>6, <1>7, <1>8 DEF State

-----------------------------------------------------------------------------
(* Parsing in one piece.  A function on the natural numbers that takes one *)
(* turn after the other exists: it is put together from finite parts, of   *)
(* which there is one for each length, and any two agree.                  *)
Part(first, n, g) == g[0] = first /\ \A i \in 1..n : g[i] = TurnOf(g[i - 1])

LEMMA PartsExist ==
    ASSUME NEW first, NEW n \in Nat
    PROVE  \E g : Part(first, n, g)
<1> DEFINE T == {m \in Nat : ~\E g : Part(first, m, g)}
<1>1. CASE T = {}
  BY <1>1
<1>2. CASE T # {}
  <2>1. PICK x \in T : \A y \in T : x <= y
    BY <1>2, SmallestNumber
  <2>2. x \in Nat /\ ~\E g : Part(first, x, g)
    BY <2>1
  <2>3. x # 0
    <3> DEFINE h == [i \in {0} |-> first]
    <3>1. Part(first, 0, h)
      BY DEF Part
    <3> QED
      BY <2>2, <3>1
  <2>4. x - 1 \in Nat /\ ~(x <= x - 1)
    BY <2>2, <2>3
  <2>5. PICK g : Part(first, x - 1, g)
    BY <2>1, <2>4
  <2> DEFINE h == [i \in 0..x |-> IF i = x THEN TurnOf(g[x - 1]) ELSE g[i]]
  <2>6. h[0] = first
    BY <2>2, <2>3, <2>5 DEF Part
  <2>7. ASSUME NEW i \in 1..x PROVE h[i] = TurnOf(h[i - 1])
    <3>1. i - 1 \in 0..x /\ i - 1 # x /\ i \in 0..x
      BY <2>2
    <3>2. h[i - 1] = g[i - 1]
      BY <3>1
    <3>3. CASE i = x
      BY <3>1, <3>2, <3>3
    <3>4. CASE i # x
      <4>1. i \in 1..x - 1
        BY <2>2, <3>4
      <4> QED
        BY <2>5, <3>1, <3>2, <3>4, <4>1 DEF Part
    <3> QED
      BY <3>3, <3>4
  <2>8. Part(first, x, h)
    BY <2>6, <2>7 DEF Part
  <2> QED
    BY <2>2, <2>8
<1> QED
  BY <1>1, <1>2

LEMMA PartsAgree ==
    ASSUME NEW first, NEW m \in Nat, NEW n \in Nat, m <= n,
           NEW g, Part(first, m, g), NEW h, Part(first, n, h)
    PROVE  g[m] = h[m]
<1> DEFINE T == {i \in 0..m : g[i] # h[i]}
<1>1. CASE T = {}
  BY <1>1
<1>2. CASE T # {}
  <2>1. T \in SUBSET Nat
    OBVIOUS
  <2> HIDE DEF T
  <2>2. PICK x \in T : \A y \in T : x <= y
    BY <1>2, <2>1, SmallestNumber
  <2>3. x \in 0..m /\ g[x] # h[x]
    BY <2>2 DEF T
  <2>4. x # 0
    BY <2>3 DEF Part
  <2>5. x - 1 \in 0..m /\ x \in 1..m /\ x \in 1..n /\ ~(x <= x - 1)
    BY <2>3, <2>4
  <2>6. g[x - 1] = h[x - 1]
    BY <2>2, <2>5 DEF T
  <2> QED
    BY <2>3, <2>5, <2>6 DEF Part
<1> QED
  BY <1>1, <1>2

LEMMA TurnsExist ==
    ASSUME NEW first
    PROVE  \E f : f = [k \in Nat |-> IF k = 0 THEN first ELSE TurnOf(f[k - 1])]
<1> DEFINE G(n) == CHOOSE g : Part(first, n, g)
           f == [k \in Nat |-> G(k)[k]]
<1>1. \A n \in Nat : Part(first, n, G(n))
  BY PartsExist
<1> HIDE DEF G
<1>2. ASSUME NEW k \in Nat PROVE f[k] = IF k = 0 THEN first ELSE TurnOf(f[k - 1])
  <2>1. CASE k = 0
    BY <1>1, <2>1 DEF Part
  <2>2. CASE k # 0
    <3>1. k - 1 \in Nat /\ k - 1 <= k /\ k \in 1..k /\ f[k - 1] = G(k - 1)[k - 1]
      BY <2>2
    <3>2. G(k)[k] = TurnOf(G(k)[k - 1])
      BY <1>1, <3>1 DEF Part
    <3>3. Part(first, k - 1, G(k - 1)) /\ Part(first, k, G(k))
      BY <1>1, <3>1
    <3>4. G(k - 1)[k - 1] = G(k)[k - 1]
      BY <3>1, <3>3, PartsAgree
    <3> QED
      BY <2>2, <3>1, <3>2, <3>4
  <2> QED
    BY <2>1, <2>2
<1>3. f = [k \in Nat |-> IF k = 0 THEN first ELSE TurnOf(f[k - 1])]
  BY <1>2
<1> HIDE DEF f
<1> QED
  BY <1>3

LEMMA TurnByTurn ==
    ASSUME NEW n
    PROVE  /\ Turns(n)[0] = AllOf(n)
           /\ \A k \in Nat : Turns(n)[k + 1] = TurnOf(Turns(n)[k])
<1> DEFINE a == AllOf(n)
           t == Turns(n)
<1>1. \E f : f = [k \in Nat |-> IF k = 0 THEN a ELSE TurnOf(f[k - 1])]
  BY TurnsExist
<1>2. t = CHOOSE f : f = [k \in Nat |-> IF k = 0 THEN a ELSE TurnOf(f[k - 1])]
  BY DEF Turns
<1> HIDE DEF a, t
<1>3. t = [k \in Nat |-> IF k = 0 THEN a ELSE TurnOf(t[k - 1])]
  BY <1>1, <1>2
<1>4. \A k \in Nat : t[k] = IF k = 0 THEN a ELSE TurnOf(t[k - 1])
  BY <1>3
<1>5. t[0] = a
  BY <1>4
<1>6. ASSUME NEW k \in Nat PROVE t[k + 1] = TurnOf(t[k])
  <2>1. k + 1 \in Nat /\ k + 1 # 0 /\ (k + 1) - 1 = k
    OBVIOUS
  <2> QED
    BY <1>4, <2>1
<1> QED
  BY <1>5, <1>6 DEF a, t

(* Once parse() has returned, further turns change nothing.                *)
LEMMA Settled ==
    ASSUME NEW n, NEW k \in Nat, TurnOf(Turns(n)[k]) = Turns(n)[k], NEW j \in Nat, k <= j
    PROVE  Turns(n)[j] = Turns(n)[k]
<1> DEFINE t == Turns(n)
<1>1. TurnOf(t[k]) = t[k] /\ \A i \in Nat : t[i + 1] = TurnOf(t[i])
  BY TurnByTurn
<1> HIDE DEF t
<1> DEFINE T == {i \in Nat : k <= i /\ t[i] # t[k]}
<1>2. CASE T = {}
  BY <1>2 DEF t
<1>3. CASE T # {}
  <2>1. T \in SUBSET Nat
    OBVIOUS
  <2> HIDE DEF T
  <2>2. PICK x \in T : \A y \in T : x <= y
    BY <1>3, <2>1, SmallestNumber
  <2>3. x \in Nat /\ k <= x /\ t[x] # t[k]
    BY <2>2 DEF T
  <2>4. x # k
    BY <2>3
  <2>5. x - 1 \in Nat /\ k <= x - 1 /\ ~(x <= x - 1) /\ (x - 1) + 1 = x
    BY <2>3, <2>4
  <2>6. t[x - 1] = t[k]
    BY <2>2, <2>5 DEF T
  <2>7. t[x] = TurnOf(t[x - 1])
    BY <1>1, <2>5
  <2> QED
    BY <1>1, <2>3, <2>6, <2>7
<1> QED
  BY <1>2, <1>3

-----------------------------------------------------------------------------
(* The invariant.  What is in the buffer is the end of what was received;  *)
(* parse() returns only where it cannot go on; and there is a turn at      *)
(* which parsing in one piece, of any text that starts with what was       *)
(* received, is exactly where the parser is, with the rest of the text     *)
(* behind its buffer.                                                      *)
Remainder == \E c \in 0..received : parser.buffer = SubSeq(text, c + 1, received)

Rested == ~running => Final(parser) \/ Waits(parser)

Reached(k) ==
    /\ k <= received - Len(parser.buffer) + Stage(parser.state)
    /\ \A m \in received..Len(text) :
          Turns(m)[k] = With(parser, SubSeq(text, received + 1, m))

RInv ==
    /\ text \in Texts /\ received \in 0..Len(text)
    /\ running \in BOOLEAN /\ returned \in BOOLEAN
    /\ Good(parser)
    /\ Remainder
    /\ Rested
    /\ returned => Final(parser)
    /\ \E k \in Nat : Reached(k)

(* Pieces of the text.                                                     *)
LEMMA Piece ==
    ASSUME NEW t \in Seq(Symbol), NEW i \in 0..Len(t), NEW j \in i..Len(t)
    PROVE  /\ SubSeq(t, i + 1, j) \in Seq(Symbol)
           /\ Len(SubSeq(t, i + 1, j)) = j - i
           /\ \A n \in 1..j - i : SubSeq(t, i + 1, j)[n] = t[i + n]
<1>1. Len(t) \in Nat /\ i + 1 \in Int /\ j \in Int /\ (i + 1 <= j <=> i < j)
  BY LenProperties
<1>2. \A n \in 1..Len(t) : t[n] \in Symbol
  BY ElementOfSeq
<1>3. \A n \in i + 1..j : t[n] \in Symbol
  BY <1>1, <1>2
<1>4. /\ SubSeq(t, i + 1, j) \in Seq(Symbol)
      /\ Len(SubSeq(t, i + 1, j)) = IF i + 1 <= j THEN j - (i + 1) + 1 ELSE 0
      /\ \A n \in 1..j - (i + 1) + 1 : SubSeq(t, i + 1, j)[n] = t[i + 1 + n - 1]
  BY <1>1, <1>3, SubSeqProperties
<1>5. j - (i + 1) + 1 = j - i /\ \A n \in 1..j - i : i + 1 + n - 1 = i + n
  BY <1>1
<1> QED
  BY <1>1, <1>4, <1>5

LEMMA PieceOfPiece ==
    ASSUME NEW t \in Seq(Symbol), NEW i \in 0..Len(t), NEW j \in i..Len(t), NEW d \in 0..j - i
    PROVE  SubSeq(SubSeq(t, i + 1, j), d + 1, j - i) = SubSeq(t, i + d + 1, j)
<1> DEFINE s == SubSeq(t, i + 1, j)
           u == SubSeq(s, d + 1, j - i)
           v == SubSeq(t, i + d + 1, j)
<1>1. Len(t) \in Nat /\ i + d \in 0..Len(t) /\ j \in i + d..Len(t)
  BY LenProperties
<1>2. /\ s \in Seq(Symbol) /\ Len(s) = j - i
      /\ \A n \in 1..j - i : s[n] = t[i + n]
  BY Piece
<1> HIDE DEF s
<1>3. /\ v \in Seq(Symbol) /\ Len(v) = j - (i + d)
      /\ \A n \in 1..j - (i + d) : v[n] = t[i + d + n]
  BY <1>1, Piece
<1>4. d \in 0..Len(s) /\ j - i \in d..Len(s)
  BY <1>1, <1>2
<1>5. /\ u \in Seq(Symbol) /\ Len(u) = (j - i) - d
      /\ \A n \in 1..(j - i) - d : u[n] = s[d + n]
  BY <1>2, <1>4, Piece
<1> HIDE DEF u, v
<1>6. ASSUME NEW n \in 1..Len(u) PROVE u[n] = v[n]
  <2>1. n \in 1..(j - i) - d /\ n \in 1..j - (i + d) /\ d + n \in 1..j - i
    BY <1>1, <1>5
  <2>2. i + (d + n) = i + d + n
    BY <1>1
  <2> QED
    BY <1>2, <1>3, <1>5, <2>1, <2>2
<1>7. Len(u) = Len(v)
  BY <1>1, <1>3, <1>5
<1>8. u = v
  BY <1>3, <1>5, <1>6, <1>7, SeqEqual
<1> QED
  BY <1>8 DEF s, u, v

LEMMA FreshParser == Good(Fresh) /\ Waits(Fresh) /\ Len(Fresh.buffer) = 0
<1>1. Fresh \in Parser
  BY EmptySeq DEF Fresh, Parser, State, Status, Number, NotANumber, Absent
<1>2. Ends(<<>>) = {}
  BY DEF Ends
<1>3. ~CompleteLine(<<>>)
  BY <1>2 DEF CompleteLine
<1> QED
  BY <1>1, <1>3 DEF Good, Fresh, Waits

LEMMA InitInv == Init => RInv
<1> SUFFICES ASSUME Init PROVE RInv
  OBVIOUS
<1>1. text \in Seq(Symbol) /\ Len(text) \in Nat
  BY TextsAssumption, LenProperties DEF Init
<1>2. /\ text \in Texts /\ received = 0 /\ received \in 0..Len(text)
      /\ running \in BOOLEAN /\ returned \in BOOLEAN /\ ~returned /\ parser = Fresh
  <2>1. running \in BOOLEAN /\ returned \in BOOLEAN /\ ~returned
    BY Zenon DEF Init
  <2> QED
    BY <1>1, <2>1 DEF Init
<1>3. Good(parser) /\ Waits(parser)
  BY <1>2, FreshParser
<1>4. Remainder
  <2>1. SubSeq(text, 0 + 1, 0) = <<>> /\ Fresh.buffer = <<>>
    BY SubSeqEmpty DEF Fresh
  <2> QED
    BY <1>2, <2>1 DEF Remainder
<1>5. Reached(0)
  <2>1. 0 <= received - Len(parser.buffer) + Stage(parser.state)
    BY <1>2, FreshParser, Stages
  <2>2. ASSUME NEW m \in received..Len(text)
        PROVE  Turns(m)[0] = With(parser, SubSeq(text, received + 1, m))
    <3> DEFINE s == SubSeq(text, 1, m)
    <3>1. SubSeq(text, 0 + 1, m) \in Seq(Symbol) /\ 0 + 1 = 1 /\ received + 1 = 1
      BY <1>1, <1>2, Piece
    <3>2. s \in Seq(Symbol)
      BY <3>1
    <3>3. Turns(m)[0] = [Fresh EXCEPT !.buffer = s]
      BY TurnByTurn DEF AllOf
    <3> HIDE DEF s
    <3>4. Fresh.buffer \o s = s
      BY <3>2, ConcatEmptySeq DEF Fresh
    <3>5. With(Fresh, s) = [Fresh EXCEPT !.buffer = s]
      BY <3>4 DEF With
    <3> QED
      BY <1>2, <3>1, <3>3, <3>5 DEF s
  <2> QED
    BY <2>1, <2>2 DEF Reached
<1> QED
  BY <1>2, <1>3, <1>4, <1>5 DEF RInv, Rested

(* More of the text arrives: the same turn is reached, with less to come.  *)
LEMMA ReceiveInv ==
    ASSUME RInv, Receive
    PROVE  RInv'
<1>1. PICK n \in 1..Len(text) - received :
        /\ received' = received + n
        /\ parser' = With(parser, SubSeq(text, received + 1, received + n))
  BY DEF Receive, With
<1>2. /\ text \in Texts /\ received \in 0..Len(text) /\ Good(parser)
      /\ text \in Seq(Symbol) /\ Len(text) \in Nat /\ parser \in Parser
  BY TextsAssumption, LenProperties DEF RInv, Good
<1>3. text' = text /\ running' = TRUE /\ returned' = returned
  BY DEF Receive
<1>4. received' \in received..Len(text) /\ received' \in 0..Len(text)
  BY <1>1, <1>2
<1> DEFINE y == SubSeq(text, received + 1, received')
<1>5. y \in Seq(Symbol) /\ Len(y) = n
  <2>1. Len(y) = received' - received
    BY <1>2, <1>4, Piece
  <2> QED
    BY <1>1, <1>2, <1>4, <2>1, Piece
<1>6. parser' = With(parser, y)
  BY <1>1
<1> HIDE DEF y
<1>7. /\ parser' \in Parser /\ Agree(parser', parser)
      /\ parser'.buffer = parser.buffer \o y
  BY <1>2, <1>5, <1>6, WithFields
<1>8. Good(parser') /\ (Final(parser) => Final(parser'))
  BY <1>2, <1>7 DEF Good, Agree, Final
<1>9. Remainder'
  <2>1. PICK c \in 0..received : parser.buffer = SubSeq(text, c + 1, received)
    BY DEF RInv, Remainder
  <2>2. /\ c + 1 \in 1..Len(text) + 1 /\ received \in (c + 1) - 1..Len(text)
        /\ received' \in received..Len(text) /\ c \in 0..received'
    BY <1>2, <1>4
  <2>3. SubSeq(text, c + 1, received) \o y = SubSeq(text, c + 1, received')
    BY <1>2, <2>2, ConcatAdjacentSubSeq DEF y
  <2> QED
    BY <1>3, <1>7, <2>1, <2>2, <2>3 DEF Remainder
<1>10. ASSUME NEW k \in Nat, Reached(k) PROVE Reached(k)'
  <2>1. k <= received' - Len(parser'.buffer) + Stage(parser'.state)
    <3>1. parser.buffer \in Seq(Symbol) /\ Len(parser.buffer) \in Nat
      BY <1>2, LenProperties DEF Parser
    <3>2. Len(parser'.buffer) = Len(parser.buffer) + n
      BY <1>5, <1>7, <3>1, ConcatProperties
    <3>3. Stage(parser'.state) = Stage(parser.state) /\ Stage(parser.state) \in 0..2
      BY <1>7, Stages DEF Agree
    <3>4. k <= received - Len(parser.buffer) + Stage(parser.state)
      BY <1>10 DEF Reached
    <3> DEFINE i == Stage(parser.state)
               l == Len(parser.buffer)
    <3>5. /\ i \in Int /\ l \in Int /\ received \in Int /\ n \in Int
          /\ k <= received - l + i /\ Len(parser'.buffer) = l + n
          /\ received' = received + n /\ Stage(parser'.state) = i
      BY <1>1, <1>2, <3>1, <3>2, <3>3, <3>4
    <3> HIDE DEF i, l
    <3>6. k <= (received + n) - (l + n) + i
      BY <3>5
    <3> QED
      BY <3>5, <3>6
  <2>2. ASSUME NEW m \in received'..Len(text)
        PROVE  Turns(m)[k] = With(parser', SubSeq(text, received' + 1, m))
    <3> DEFINE z == SubSeq(text, received' + 1, m)
    <3>1. m \in received..Len(text)
      BY <1>2, <1>4
    <3>2. Turns(m)[k] = With(parser, SubSeq(text, received + 1, m))
      BY <1>10, <3>1 DEF Reached
    <3>3. y \o z = SubSeq(text, received + 1, m)
      <4>1. received + 1 \in 1..Len(text) + 1 /\ received' \in (received + 1) - 1..Len(text)
        BY <1>2, <1>4
      <4> QED
        BY <1>2, <4>1, ConcatAdjacentSubSeq DEF y
    <3>4. z \in Seq(Symbol)
      BY <1>2, <1>4, Piece
    <3> HIDE DEF z
    <3>5. y \o z \in Seq(Symbol)
      BY <1>5, <3>4, ConcatProperties
    <3> DEFINE w == With(parser, y \o z)
    <3>6. w \in Parser /\ Agree(w, parser) /\ w.buffer = parser.buffer \o (y \o z)
      BY <1>2, <3>5, WithFields
    <3> HIDE DEF w
    <3>7. parser.buffer \o (y \o z) = (parser.buffer \o y) \o z
      <4>1. parser.buffer \in Seq(Symbol)
        BY <1>2 DEF Parser
      <4> DEFINE b == parser.buffer
      <4> HIDE DEF b
      <4>2. b \in Seq(Symbol) /\ y \in Seq(Symbol) /\ z \in Seq(Symbol)
        BY <1>5, <3>4, <4>1 DEF b
      <4>3. (b \o y) \o z = b \o (y \o z)
        BY <4>2, ConcatAssociative
      <4> QED
        BY <4>3 DEF b
    <3>8. Agree(w, parser') /\ w.buffer = parser'.buffer \o z
      BY <1>7, <3>6, <3>7 DEF Agree
    <3>9. w = With(parser', z)
      BY <1>7, <3>4, <3>6, <3>8, IsWith
    <3> QED
      BY <3>2, <3>3, <3>9 DEF w, z
  <2>3. \A m : Turns(m)' = Turns(m)
    BY <1>3 DEF Turns, AllOf
  <2> QED
    BY <1>3, <2>1, <2>2, <2>3 DEF Reached
<1>11. PICK k \in Nat : Reached(k)
  BY DEF RInv
<1>12. Reached(k)'
  BY <1>10, <1>11
<1>13. running' \in BOOLEAN /\ returned' \in BOOLEAN /\ Rested'
  BY <1>3 DEF RInv, Rested
<1>14. returned' => Final(parser')
  BY <1>3, <1>8 DEF RInv
<1> QED
  BY <1>2, <1>3, <1>4, <1>8, <1>9, <1>12, <1>13, <1>14 DEF RInv

(* One turn of parse() is one turn of parsing in one piece, whatever of    *)
(* the text is still to come.                                              *)
LEMMA TurnInv ==
    ASSUME RInv, running, ~Final(parser), ~Waits(parser), parser' = Dispatch(parser),
           UNCHANGED <<text, received, running, returned>>
    PROVE  RInv'
<1>1. /\ text \in Texts /\ received \in 0..Len(text) /\ Good(parser)
      /\ text \in Seq(Symbol) /\ Len(text) \in Nat /\ parser \in Parser
      /\ parser.buffer \in Seq(Symbol) /\ Len(parser.buffer) \in Nat
  <2>1. text \in Texts /\ received \in 0..Len(text) /\ Good(parser)
    BY DEF RInv
  <2>2. text \in Seq(Symbol) /\ parser \in Parser /\ parser.buffer \in Seq(Symbol)
    BY <2>1, TextsAssumption DEF Good, Parser
  <2> QED
    BY <2>1, <2>2, LenProperties
<1>2. /\ Good(parser') /\ Takes(parser, parser')
      /\ \A x \in Seq(Symbol) :
            ~Waits(With(parser, x)) /\ Dispatch(With(parser, x)) = With(parser', x)
  BY <1>1, AnyTurn
<1>3. PICK d \in 0..Len(parser.buffer) :
        /\ parser'.buffer = SubSeq(parser.buffer, d + 1, Len(parser.buffer))
        /\ 1 + Stage(parser.state) <= d + Stage(parser'.state)
  BY <1>2 DEF Takes
<1>4. PICK c \in 0..received : parser.buffer = SubSeq(text, c + 1, received)
  BY DEF RInv, Remainder
<1>5. Len(parser.buffer) = received - c
  <2>1. c \in 0..Len(text) /\ received \in c..Len(text)
    BY <1>1
  <2> QED
    BY <1>1, <1>4, <2>1, Piece
<1>6. Remainder'
  <2>1. c \in 0..Len(text) /\ received \in c..Len(text) /\ d \in 0..received - c
    BY <1>1, <1>3, <1>5
  <2>2. parser'.buffer = SubSeq(SubSeq(text, c + 1, received), d + 1, received - c)
    BY <1>3, <1>4, <1>5
  <2>3. parser'.buffer = SubSeq(text, c + d + 1, received)
    BY <1>1, <2>1, <2>2, PieceOfPiece
  <2>4. c + d \in 0..received
    BY <1>1, <2>1
  <2> QED
    BY <2>3, <2>4 DEF Remainder
<1>7. ASSUME NEW k \in Nat, Reached(k) PROVE Reached(k + 1)'
  <2>1. k + 1 <= received - Len(parser'.buffer) + Stage(parser'.state)
    <3>1. Len(parser'.buffer) = Len(parser.buffer) - d
      <4>1. d \in 0..Len(parser.buffer) /\ Len(parser.buffer) \in d..Len(parser.buffer)
        BY <1>1, <1>3
      <4> QED
        BY <1>1, <1>3, <4>1, Piece
    <3>2. k <= received - Len(parser.buffer) + Stage(parser.state)
      BY <1>7 DEF Reached
    <3>3. Stage(parser.state) \in 0..2 /\ Stage(parser'.state) \in 0..2 /\ d \in Nat
      BY <1>1, <1>3, Stages
    <3> DEFINE i == Stage(parser.state)
               j == Stage(parser'.state)
               l == Len(parser.buffer)
    <3>4. /\ i \in Int /\ j \in Int /\ l \in Int /\ received \in Int
          /\ 1 + i <= d + j /\ k <= received - l + i /\ Len(parser'.buffer) = l - d
      BY <1>1, <1>3, <3>1, <3>2, <3>3
    <3> HIDE DEF i, j, l
    <3>5. k + 1 <= received - (l - d) + j
      BY <3>3, <3>4
    <3> QED
      BY <3>4, <3>5 DEF j
  <2>2. ASSUME NEW m \in received..Len(text)
        PROVE  Turns(m)[k + 1] = With(parser', SubSeq(text, received + 1, m))
    <3> DEFINE x == SubSeq(text, received + 1, m)
               w == With(parser, x)
    <3>1. x \in Seq(Symbol)
      BY <1>1, Piece
    <3>2. Turns(m)[k] = w
      BY <1>7 DEF Reached
    <3>3. ~Waits(w) /\ Dispatch(w) = With(parser', x)
      BY <1>2, <3>1
    <3>4. ~Final(w)
      <4>1. Agree(w, parser)
        BY <1>1, <3>1, WithFields
      <4> HIDE DEF w
      <4> QED
        BY <4>1 DEF Agree, Final
    <3> HIDE DEF w
    <3>5. TurnOf(w) = With(parser', x)
      BY <3>3, <3>4 DEF TurnOf
    <3> QED
      BY <3>2, <3>5, TurnByTurn
  <2>3. \A m : Turns(m)' = Turns(m)
    BY DEF Turns, AllOf
  <2> QED
    BY <2>1, <2>2, <2>3 DEF Reached
<1>8. PICK k \in Nat : Reached(k)
  BY DEF RInv
<1>9. Reached(k + 1)' /\ k + 1 \in Nat
  BY <1>7, <1>8
<1>10. Rested' /\ (returned' => Final(parser'))
  BY DEF RInv, Rested
<1> QED
  BY <1>1, <1>2, <1>6, <1>9, <1>10 DEF RInv

LEMMA ReturnInv ==
    ASSUME RInv, Return
    PROVE  RInv'
<1>1. /\ UNCHANGED <<text, received, parser>>
      /\ Final(parser) \/ Waits(parser)
  BY DEF Return
<1>2. /\ running' \in BOOLEAN /\ returned' \in BOOLEAN
      /\ returned' => Final(parser)
  <2>1. running' = FALSE /\ returned' = Final(parser)
    BY DEF Return
  <2>2. returned' => Final(parser)
    BY <2>1, Zenon
  <2>3. Final(parser) \in BOOLEAN
    BY DEF Final
  <2>4. returned' \in BOOLEAN /\ running' \in BOOLEAN
    BY <2>1, <2>3, Zenon
  <2> QED
    BY <2>2, <2>4
<1>3. \A m : Turns(m)' = Turns(m)
  BY <1>1 DEF Turns, AllOf
<1>4. \E k \in Nat : Reached(k)'
  BY <1>1, <1>3 DEF RInv, Reached
<1>5. Rested' /\ Remainder'
  BY <1>1 DEF RInv, Rested, Remainder
<1> QED
  BY <1>1, <1>2, <1>4, <1>5 DEF RInv

(* The actions of parse() that take a turn.                                *)
LEMMA TurnIsDispatch ==
    ASSUME StartLine \/ Header \/ Body \/ ChunkSize \/ ChunkData \/ FinalCRLF
    PROVE  /\ running /\ ~Final(parser) /\ ~Waits(parser) /\ parser' = Dispatch(parser)
           /\ UNCHANGED <<text, received, running, returned>>
<1>1. CASE StartLine
  BY <1>1 DEF StartLine, Turn, Final, Dispatch
<1>2. CASE Header
  BY <1>2 DEF Header, Turn, Final, Dispatch
<1>3. CASE Body
  BY <1>3 DEF Body, Turn, Final, Dispatch
<1>4. CASE ChunkSize
  BY <1>4 DEF ChunkSize, Turn, Final, Dispatch
<1>5. CASE ChunkData
  BY <1>5 DEF ChunkData, Turn, Final, Dispatch
<1>6. CASE FinalCRLF
  BY <1>6 DEF FinalCRLF, Turn, Final, Dispatch
<1> QED
  BY <1>1, <1>2, <1>3, <1>4, <1>5, <1>6

LEMMA NextInv == RInv /\ [Next]_vars => RInv'
<1> SUFFICES ASSUME RInv, [Next]_vars PROVE RInv'
  OBVIOUS
<1>1. CASE Receive
  BY <1>1, ReceiveInv
<1>2. CASE StartLine \/ Header \/ Body \/ ChunkSize \/ ChunkData \/ FinalCRLF
  BY <1>2, TurnIsDispatch, TurnInv
<1>3. CASE Return
  BY <1>3, ReturnInv
<1>4. CASE UNCHANGED vars
  <2>1. UNCHANGED <<text, received, parser, running, returned>>
    BY <1>4 DEF vars
  <2>2. \A m : Turns(m)' = Turns(m)
    BY <2>1 DEF Turns, AllOf
  <2>3. \E k \in Nat : Reached(k)'
    BY <2>1, <2>2 DEF RInv, Reached
  <2>4. Rested' /\ Remainder' /\ (returned' => Final(parser'))
    BY <2>1 DEF RInv, Rested, Remainder
  <2> QED
    BY <2>1, <2>3, <2>4 DEF RInv
<1> QED
  BY <1>1, <1>2, <1>3, <1>4 DEF Next

-----------------------------------------------------------------------------
LEMMA Invariance == Spec => []RInv
<1>1. Init => RInv
  BY InitInv
<1>2. RInv /\ [Next]_vars => RInv'
  BY NextInv
<1> QED
  BY <1>1, <1>2, PTL DEF Spec

(* The end of what was received, read backwards.                           *)
LEMMA EndIsSuffix ==
    ASSUME NEW t \in Seq(Symbol), NEW r \in 0..Len(t), NEW c \in 0..r
    PROVE  IsSuffix(SubSeq(t, c + 1, r), SubSeq(t, 1, r))
<1> DEFINE s == SubSeq(t, c + 1, r)
           u == SubSeq(t, 1, r)
<1>1. /\ Len(t) \in Nat /\ r \in Nat /\ c \in Nat /\ c \in 0..Len(t) /\ r \in c..Len(t)
      /\ 0 \in 0..Len(t) /\ r \in 0..Len(t) /\ 0 + 1 = 1 /\ r - 0 = r
  BY LenProperties
<1>2. /\ s \in Seq(Symbol) /\ Len(s) = r - c
      /\ \A n \in 1..r - c : s[n] = t[c + n]
  BY <1>1, Piece
<1>3. /\ u \in Seq(Symbol) /\ Len(u) = r
      /\ \A n \in 1..r : u[n] = t[n]
  <2>1. /\ SubSeq(t, 0 + 1, r) \in Seq(Symbol) /\ Len(SubSeq(t, 0 + 1, r)) = r - 0
        /\ \A n \in 1..r - 0 : SubSeq(t, 0 + 1, r)[n] = t[0 + n]
    BY <1>1, Piece
  <2> QED
    BY <1>1, <2>1
<1> HIDE DEF s, u
<1> DEFINE rs == Reverse(s)
           ru == Reverse(u)
<1>4. /\ rs \in Seq(Symbol) /\ Len(rs) = r - c
      /\ \A n \in 1..r - c : rs[n] = t[r - n + 1]
  <2>1. rs = [n \in 1..r - c |-> s[(r - c - n) + 1]]
    BY <1>2 DEF Reverse
  <2>2. ASSUME NEW n \in 1..r - c
        PROVE  s[(r - c - n) + 1] \in Symbol /\ s[(r - c - n) + 1] = t[r - n + 1]
    <3>1. (r - c - n) + 1 \in 1..r - c /\ c + ((r - c - n) + 1) = r - n + 1
      BY <1>1
    <3> QED
      BY <1>2, <3>1, ElementOfSeq
  <2>3. r - c \in Nat /\ rs \in [1..r - c -> Symbol]
    BY <1>1, <2>1, <2>2
  <2>4. rs \in Seq(Symbol) /\ Len(rs) = r - c
    BY <2>3
  <2> QED
    BY <2>1, <2>2, <2>4
<1>5. /\ ru \in Seq(Symbol) /\ Len(ru) = r
      /\ \A n \in 1..r : ru[n] = t[r - n + 1]
  <2>1. ru = [n \in 1..r |-> u[(r - n) + 1]]
    BY <1>3 DEF Reverse
  <2>2. ASSUME NEW n \in 1..r
        PROVE  u[(r - n) + 1] \in Symbol /\ u[(r - n) + 1] = t[r - n + 1]
    <3>1. (r - n) + 1 \in 1..r /\ (r - n) + 1 = r - n + 1
      BY <1>1
    <3> QED
      BY <1>3, <3>1, ElementOfSeq
  <2>3. ru \in [1..r -> Symbol]
    BY <2>1, <2>2
  <2>4. ru \in Seq(Symbol) /\ Len(ru) = r
    BY <1>1, <2>3
  <2> QED
    BY <2>1, <2>2, <2>4
<1> HIDE DEF rs, ru
<1>6. SubSeq(rs, 1, r - c) = rs
  BY <1>4, SubSeqFull
<1>7. SubSeq(ru, 1, r - c) = rs
  <2> DEFINE v == SubSeq(ru, 1, r - c)
  <2>1. /\ SubSeq(ru, 0 + 1, r - c) \in Seq(Symbol) /\ Len(SubSeq(ru, 0 + 1, r - c)) = (r - c) - 0
        /\ \A n \in 1..(r - c) - 0 : SubSeq(ru, 0 + 1, r - c)[n] = ru[0 + n]
    <3>1. 0 \in 0..Len(ru) /\ r - c \in 0..Len(ru)
      BY <1>1, <1>5
    <3> QED
      BY <1>5, <3>1, Piece
  <2>2. /\ v \in Seq(Symbol) /\ Len(v) = r - c /\ \A n \in 1..r - c : v[n] = ru[n]
    BY <1>1, <2>1
  <2> HIDE DEF v
  <2>3. \A n \in 1..r - c : v[n] = rs[n]
    <3> SUFFICES ASSUME NEW n \in 1..r - c PROVE v[n] = rs[n]
      OBVIOUS
    <3>1. n \in 1..r
      BY <1>1
    <3>2. ru[n] = t[r - n + 1]
      BY <1>5, <3>1
    <3> QED
      BY <1>4, <2>2, <3>2
  <2>4. v = rs
    BY <1>4, <2>2, <2>3, SeqEqual
  <2> QED
    BY <2>4 DEF v
<1>8. Len(rs) <= Len(ru)
  BY <1>1, <1>4, <1>5
<1>9. IsPrefix(rs, ru)
  BY <1>4, <1>6, <1>7, <1>8 DEF IsPrefix
<1> QED
  BY <1>9 DEF IsSuffix, rs, ru, s, u

LEMMA RInvType == RInv => TypeOK
<1> SUFFICES ASSUME RInv PROVE TypeOK
  OBVIOUS
<1>1. /\ text \in Texts /\ received \in 0..Len(text) /\ text \in Seq(Symbol)
      /\ running \in BOOLEAN /\ returned \in BOOLEAN
  BY TextsAssumption DEF RInv
<1>2. parser \in Parser /\ parser.err = (parser.status # 0)
  <2>1. parser \in Parser /\ (parser.err = TRUE <=> parser.status # 0)
    BY DEF RInv, Good
  <2>2. parser.err \in BOOLEAN
    BY <2>1 DEF Parser
  <2> QED
    BY <2>1, <2>2
<1>3. IsSuffix(parser.buffer, SubSeq(text, 1, received))
  <2>1. PICK c \in 0..received : parser.buffer = SubSeq(text, c + 1, received)
    BY DEF RInv, Remainder
  <2> QED
    BY <1>1, <2>1, EndIsSuffix
<1> QED
  BY <1>1, <1>2, <1>3 DEF TypeOK

(* Every reachable state of the parser is well typed, for every text and   *)
(* every way to cut it: it reads no place outside its buffer, its buffer   *)
(* is always the end of what was received - no byte is lost, kept twice or *)
(* read twice - and has_error is set exactly when there is a status.       *)
THEOREM TypeCorrect == Spec => []TypeOK
<1>1. RInv => TypeOK
  BY RInvType
<1> QED
  BY <1>1, Invariance, PTL

(* The verdict of parse() is final: once it has returned true it does so   *)
(* for ever, with the same state, status, headers and body, whatever the   *)
(* client sends after its request.                                         *)
THEOREM VerdictKept == Spec => VerdictIsFinal
<1> DEFINE Kept == returned => returned' /\ [parser' EXCEPT !.buffer = <<>>] =
                                            [parser EXCEPT !.buffer = <<>>]
<1>1. ASSUME RInv, [Next]_vars PROVE [Kept]_vars
  <2> SUFFICES ASSUME returned
               PROVE  returned' /\ [parser' EXCEPT !.buffer = <<>>] =
                                   [parser EXCEPT !.buffer = <<>>]
    OBVIOUS
  <2>1. Final(parser) /\ parser \in Parser
    BY <1>1 DEF RInv, Good
  <2>2. CASE Receive
    <3>1. PICK n \in 1..Len(text) - received :
            parser' = [parser EXCEPT !.buffer = @ \o SubSeq(text, received + 1, received + n)]
      BY <2>2 DEF Receive
    <3>2. returned'
      BY <2>2 DEF Receive
    <3> DEFINE y == parser.buffer \o SubSeq(text, received + 1, received + n)
    <3>3. parser' = [parser EXCEPT !.buffer = y]
      BY <3>1
    <3> HIDE DEF y
    <3>4. [parser' EXCEPT !.buffer = <<>>] = [parser EXCEPT !.buffer = <<>>]
      BY <2>1, <3>3 DEF Parser
    <3> QED
      BY <3>2, <3>4
  <2>3. CASE StartLine \/ Header \/ Body \/ ChunkSize \/ ChunkData \/ FinalCRLF
    BY <2>1, <2>3, TurnIsDispatch
  <2>4. CASE Return
    <3>1. parser' = parser /\ returned' = Final(parser)
      BY <2>4 DEF Return
    <3>2. returned'
      BY <2>1, <3>1, Zenon
    <3> QED
      BY <3>1, <3>2
  <2>5. CASE UNCHANGED vars
    BY <2>5 DEF vars
  <2> QED
    BY <1>1, <2>2, <2>3, <2>4, <2>5 DEF Next
<1>2. Spec => [][Kept]_vars
  BY <1>1, Invariance, PTL DEF Spec
<1> QED
  BY <1>2 DEF VerdictIsFinal

LEMMA RInvOnePiece == RInv => SegmentationIndependent
<1> SUFFICES ASSUME RInv, ~running PROVE parser = InOnePiece(received)
  BY DEF SegmentationIndependent
<1>1. /\ text \in Seq(Symbol) /\ Len(text) \in Nat /\ received \in 0..Len(text)
      /\ parser \in Parser
      /\ Final(parser) \/ Waits(parser)
  BY TextsAssumption, LenProperties DEF RInv, Rested, Good
<1>2. PICK k \in Nat : Reached(k)
  BY DEF RInv
<1>3. Turns(received)[k] = parser
  <2>1. Turns(received)[k] = With(parser, SubSeq(text, received + 1, received))
    BY <1>1, <1>2 DEF Reached
  <2>2. SubSeq(text, received + 1, received) = <<>>
    BY <1>1, SubSeqEmpty
  <2>3. parser.buffer \in Seq(Symbol) /\ <<>> \in Seq(Symbol)
    BY <1>1, EmptySeq DEF Parser
  <2>4. parser.buffer = parser.buffer \o <<>>
    BY <2>3, ConcatEmptySeq
  <2>5. Agree(parser, parser)
    BY DEF Agree
  <2>6. parser = With(parser, <<>>)
    BY <1>1, <2>3, <2>4, <2>5, IsWith
  <2> QED
    BY <2>1, <2>2, <2>6
<1>4. k <= received + 5 /\ received + 5 \in Nat
  <2>1. k <= received - Len(parser.buffer) + Stage(parser.state)
    BY <1>2 DEF Reached
  <2>2. parser.buffer \in Seq(Symbol) /\ Len(parser.buffer) \in Nat
    BY <1>1, LenProperties DEF Parser
  <2>3. Stage(parser.state) \in 0..2
    BY Stages
  <2> DEFINE i == Stage(parser.state)
             l == Len(parser.buffer)
  <2>4. i \in 0..2 /\ l \in Nat /\ received \in Nat /\ k <= received - l + i
    BY <1>1, <2>1, <2>2, <2>3
  <2> HIDE DEF i, l
  <2> QED
    BY <2>4
<1>5. TurnOf(Turns(received)[k]) = Turns(received)[k]
  BY <1>1, <1>3 DEF TurnOf
<1>6. Turns(received)[received + 5] = Turns(received)[k]
  BY <1>4, <1>5, Settled
<1> QED
  BY <1>3, <1>6 DEF InOnePiece

(* Where recv() cuts a request makes no difference: each time parse() has  *)
(* returned, the parser is in the state, with the headers, the body and    *)
(* the rest of the buffer, that it would have had if all that was received *)
(* had come at once.  This holds for every text, good or broken, of any    *)
(* length.                                                                 *)
THEOREM CutsDoNotMatter == Spec => []SegmentationIndependent
<1>1. RInv => SegmentationIndependent
  BY RInvOnePiece
<1> QED
  BY <1>1, Invariance, PTL

-----------------------------------------------------------------------------
(* What stands in a text, and where.                                       *)
Stands(t, c, v) ==
    c \in Nat /\ c + Len(v) <= Len(t) /\ \A k \in 1..Len(v) : t[c + k] = v[k]

LEMMA StandsWhole ==
    ASSUME NEW t \in Seq(Symbol)
    PROVE  Stands(t, 0, t)
<1>1. Len(t) \in Nat
  BY LenProperties
<1>2. \A k \in 1..Len(t) : 0 + k = k
  BY <1>1
<1> QED
  BY <1>1, <1>2 DEF Stands

LEMMA StandsPrefix ==
    ASSUME NEW v \in Seq(Symbol), NEW t \in Seq(Symbol), IsPrefix(v, t)
    PROVE  Stands(t, 0, v)
<1>1. Len(t) \in Nat /\ Len(v) \in Nat /\ Len(v) <= Len(t)
  BY LenProperties DEF IsPrefix
<1>2. SubSeq(v, 1, Len(v)) = v
  BY SubSeqFull
<1>3. SubSeq(t, 1, Len(v)) = v
  BY <1>2 DEF IsPrefix
<1>4. \A k \in 1..Len(v) : SubSeq(t, 1, Len(v))[k] = t[k]
  <2>1. 0 \in 0..Len(t) /\ Len(v) \in 0..Len(t) /\ Len(v) - 0 = Len(v) /\ 0 + 1 = 1
    BY <1>1
  <2>2. \A k \in 1..Len(v) - 0 : SubSeq(t, 0 + 1, Len(v))[k] = t[0 + k]
    BY <2>1, Piece
  <2>3. \A k \in 1..Len(v) : 0 + k = k
    BY <1>1
  <2> QED
    BY <2>1, <2>2, <2>3
<1>5. \A k \in 1..Len(v) : t[0 + k] = v[k]
  BY <1>1, <1>3, <1>4
<1> QED
  BY <1>1, <1>5 DEF Stands

LEMMA StandsIn ==
    ASSUME NEW t \in Seq(Symbol), NEW h \in Seq(Symbol), NEW v \in Seq(Symbol),
           NEW c, NEW d, Stands(t, c, h), Stands(h, d, v)
    PROVE  Stands(t, c + d, v)
<1>1. Len(t) \in Nat /\ Len(h) \in Nat /\ Len(v) \in Nat
  BY LenProperties
<1>2. c \in Nat /\ d \in Nat /\ c + Len(h) <= Len(t) /\ d + Len(v) <= Len(h)
  BY DEF Stands
<1>3. c + d \in Nat /\ c + d + Len(v) <= Len(t)
  BY <1>1, <1>2
<1>4. ASSUME NEW k \in 1..Len(v) PROVE t[c + d + k] = v[k]
  <2>1. d + k \in 1..Len(h) /\ c + (d + k) = c + d + k
    BY <1>1, <1>2
  <2>2. t[c + (d + k)] = h[d + k] /\ h[d + k] = v[k]
    BY <2>1 DEF Stands
  <2> QED
    BY <2>1, <2>2
<1> QED
  BY <1>3, <1>4 DEF Stands

LEMMA StandsParts ==
    ASSUME NEW a \in Seq(Symbol), NEW b \in Seq(Symbol), NEW t \in Seq(Symbol),
           NEW c, Stands(t, c, a \o b)
    PROVE  Stands(t, c, a) /\ Stands(t, c + Len(a), b)
<1>1. Len(t) \in Nat /\ Len(a) \in Nat /\ Len(b) \in Nat
  BY LenProperties
<1>2. /\ Len(a \o b) = Len(a) + Len(b)
      /\ \A i \in 1..Len(a) + Len(b) : (a \o b)[i] = IF i <= Len(a) THEN a[i] ELSE b[i - Len(a)]
  BY ConcatProperties
<1> DEFINE v == a \o b
<1>3. c \in Nat /\ c + Len(v) <= Len(t) /\ \A k \in 1..Len(v) : t[c + k] = v[k]
  BY DEF Stands
<1> HIDE DEF v
<1>4. Len(v) = Len(a) + Len(b)
  BY <1>2 DEF v
<1>5. ASSUME NEW k \in 1..Len(a) PROVE t[c + k] = a[k]
  <2>1. k \in 1..Len(a) + Len(b) /\ k <= Len(a)
    BY <1>1
  <2>2. v[k] = a[k]
    BY <1>2, <2>1 DEF v
  <2> QED
    BY <1>3, <1>4, <2>1, <2>2
<1>6. ASSUME NEW k \in 1..Len(b) PROVE t[c + Len(a) + k] = b[k]
  <2>1. /\ Len(a) + k \in 1..Len(a) + Len(b) /\ ~(Len(a) + k <= Len(a))
        /\ Len(a) + k - Len(a) = k /\ c + (Len(a) + k) = c + Len(a) + k
    BY <1>1, <1>3
  <2>2. v[Len(a) + k] = b[k]
    BY <1>2, <2>1 DEF v
  <2>3. t[c + (Len(a) + k)] = v[Len(a) + k]
    BY <1>3, <1>4, <2>1
  <2> QED
    BY <2>1, <2>2, <2>3
<1>7. c + Len(a) <= Len(t) /\ c + Len(a) \in Nat /\ c + Len(a) + Len(b) <= Len(t)
  BY <1>1, <1>3, <1>4
<1> QED
  BY <1>3, <1>5, <1>6, <1>7 DEF Stands

-----------------------------------------------------------------------------
(* The parts of a text: where each begins, and that it stands there.       *)
Upto(s, i) == FlattenSeq(SubSeq(s, 1, i))
Mark(s, i) == Len(Upto(s, i))

LEMMA NextPart ==
    ASSUME NEW Y, NEW s \in Seq(Y), NEW i \in 1..Len(s)
    PROVE  /\ SubSeq(s, 1, i - 1) \in Seq(Y) /\ s[i] \in Y
           /\ SubSeq(s, 1, i) = Append(SubSeq(s, 1, i - 1), s[i])
<1> DEFINE p == SubSeq(s, 1, i - 1)
           q == SubSeq(s, 1, i)
<1>1. Len(s) \in Nat /\ \A k \in 1..Len(s) : s[k] \in Y
  BY LenProperties, ElementOfSeq
<1>2. i - 1 \in Nat /\ i \in Nat /\ i - 1 \in Int /\ i \in Int /\ 1 \in Int
  BY <1>1
<1>3. /\ p \in Seq(Y) /\ Len(p) = i - 1 /\ \A k \in 1..i - 1 : p[k] = s[k]
  <2>1. \A k \in 1..i - 1 : s[k] \in Y
    BY <1>1
  <2>2. /\ p \in Seq(Y) /\ Len(p) = (IF 1 <= i - 1 THEN i - 1 - 1 + 1 ELSE 0)
        /\ \A k \in 1..i - 1 - 1 + 1 : p[k] = s[1 + k - 1]
    BY <1>2, <2>1, SubSeqProperties
  <2>3. (IF 1 <= i - 1 THEN i - 1 - 1 + 1 ELSE 0) = i - 1 /\ i - 1 - 1 + 1 = i - 1
        /\ \A k \in 1..i - 1 : 1 + k - 1 = k
    BY <1>2
  <2> QED
    BY <2>2, <2>3
<1>4. /\ q \in Seq(Y) /\ Len(q) = i /\ \A k \in 1..i : q[k] = s[k]
  <2>1. \A k \in 1..i : s[k] \in Y
    BY <1>1
  <2>2. /\ q \in Seq(Y) /\ Len(q) = (IF 1 <= i THEN i - 1 + 1 ELSE 0)
        /\ \A k \in 1..i - 1 + 1 : q[k] = s[1 + k - 1]
    BY <1>2, <2>1, SubSeqProperties
  <2>3. (IF 1 <= i THEN i - 1 + 1 ELSE 0) = i /\ i - 1 + 1 = i
        /\ \A k \in 1..i : 1 + k - 1 = k
    BY <1>2
  <2> QED
    BY <2>2, <2>3
<1> HIDE DEF p, q
<1>5. s[i] \in Y
  BY <1>1
<1> DEFINE a == Append(p, s[i])
<1>6. /\ a \in Seq(Y) /\ Len(a) = i /\ a[i] = s[i] /\ \A k \in 1..i - 1 : a[k] = p[k]
  <2>1. /\ a \in Seq(Y) /\ Len(a) = Len(p) + 1
        /\ \A k \in 1..Len(p) : a[k] = p[k]
        /\ a[Len(p) + 1] = s[i]
    BY <1>3, <1>5, AppendProperties
  <2>2. Len(p) + 1 = i
    BY <1>2, <1>3
  <2> QED
    BY <1>3, <2>1, <2>2
<1> HIDE DEF a
<1>7. \A k \in 1..i : q[k] = a[k]
  <2> SUFFICES ASSUME NEW k \in 1..i PROVE q[k] = a[k]
    OBVIOUS
  <2>1. k = i \/ k \in 1..i - 1
    BY <1>2
  <2>2. q[k] = s[k]
    BY <1>4
  <2>3. CASE k = i
    BY <1>6, <2>2, <2>3
  <2>4. CASE k \in 1..i - 1
    BY <1>3, <1>6, <2>2, <2>4
  <2> QED
    BY <2>1, <2>3, <2>4
<1>8. q = a
  BY <1>4, <1>6, <1>7, SeqEqual
<1> QED
  BY <1>3, <1>5, <1>8 DEF p, q, a

LEMMA UptoNext ==
    ASSUME NEW s \in Seq(Seq(Symbol)), NEW i \in 1..Len(s)
    PROVE  /\ s[i] \in Seq(Symbol) /\ Upto(s, i - 1) \in Seq(Symbol)
           /\ Upto(s, i) = Upto(s, i - 1) \o s[i]
           /\ Mark(s, i) = Mark(s, i - 1) + Len(s[i])
<1> DEFINE Y == Seq(Symbol)
           p == SubSeq(s, 1, i - 1)
           x == s[i]
<1>1. p \in Seq(Y) /\ x \in Y /\ SubSeq(s, 1, i) = Append(p, x)
  BY NextPart
<1> HIDE DEF p, x
<1>2. FlattenSeq(p) \in Seq(Symbol) /\ FlattenSeq(Append(p, x)) = FlattenSeq(p) \o x
  BY <1>1, FlattenGrows
<1>3. Upto(s, i) = FlattenSeq(p) \o x
  BY <1>1, <1>2 DEF Upto
<1>4. Upto(s, i - 1) = FlattenSeq(p)
  BY DEF Upto, p
<1>5. Len(FlattenSeq(p) \o x) = Len(FlattenSeq(p)) + Len(x)
  BY <1>1, <1>2, ConcatProperties
<1> QED
  BY <1>1, <1>2, <1>3, <1>4, <1>5, Zenon DEF Mark, x

LEMMA UptoEnds ==
    ASSUME NEW s \in Seq(Seq(Symbol))
    PROVE  /\ Upto(s, 0) = <<>> /\ Mark(s, 0) = 0
           /\ Upto(s, Len(s)) = FlattenSeq(s) /\ FlattenSeq(s) \in Seq(Symbol)
<1>1. SubSeq(s, 1, 0) = <<>> /\ SubSeq(s, 1, Len(s)) = s
  <2>1. 0 < 1 /\ 1 \in Int /\ 0 \in Int
    OBVIOUS
  <2>2. SubSeq(s, 1, 0) = <<>>
    BY <2>1, SubSeqEmpty
  <2>3. SubSeq(s, 1, Len(s)) = s
    BY SubSeqFull
  <2> QED
    BY <2>2, <2>3
<1>2. FlattenSeq(<<>>) = <<>> /\ FlattenSeq(s) \in Seq(Symbol)
  BY FlattenGrows
<1>3. Len(<<>>) = 0
  BY EmptySeq
<1> QED
  BY <1>1, <1>2, <1>3, Zenon DEF Upto, Mark

LEMMA PartsStand ==
    ASSUME NEW s \in Seq(Seq(Symbol)), NEW t \in Seq(Symbol), NEW c, Stands(t, c, FlattenSeq(s))
    PROVE  \A i \in 1..Len(s) : Stands(t, c + Mark(s, i - 1), s[i])
<1> DEFINE n == Len(s)
           S == {j \in 0..n : Stands(t, c, Upto(s, n - j))}
<1>1. n \in Nat
  BY LenProperties
<1>2. 0 \in S
  <2>1. n - 0 = n /\ 0 \in 0..n
    BY <1>1
  <2>2. Stands(t, c, Upto(s, n - 0))
    BY <2>1, UptoEnds
  <2> QED
    BY <2>1, <2>2
<1>3. ASSUME NEW j \in 1..n, j - 1 \in S PROVE j \in S
  <2> DEFINE i == n - (j - 1)
  <2>1. i \in 1..n /\ n - j = i - 1 /\ j \in 0..n
    BY <1>1
  <2>2. Stands(t, c, Upto(s, i))
    BY <1>3
  <2> HIDE DEF i, n
  <2>3. /\ s[i] \in Seq(Symbol) /\ Upto(s, i - 1) \in Seq(Symbol)
        /\ Upto(s, i) = Upto(s, i - 1) \o s[i]
    BY <2>1, UptoNext DEF n
  <2> DEFINE a == Upto(s, i - 1)
             b == s[i]
  <2>4. Stands(t, c, a \o b)
    BY <2>2, <2>3
  <2>5. a \in Seq(Symbol) /\ b \in Seq(Symbol)
    BY <2>3
  <2> HIDE DEF a, b
  <2>6. Stands(t, c, a)
    BY <2>4, <2>5, StandsParts
  <2> QED
    BY <2>1, <2>6 DEF a
<1> HIDE DEF S
<1>4. 0..n \subseteq S
  BY <1>1, <1>2, <1>3, Counting
<1> SUFFICES ASSUME NEW i \in 1..Len(s) PROVE Stands(t, c + Mark(s, i - 1), s[i])
  OBVIOUS
<1>5. Stands(t, c, Upto(s, i))
  <2>1. n - i \in 0..n /\ n - (n - i) = i
    BY <1>1
  <2>2. n - i \in S
    BY <1>4, <2>1
  <2> QED
    BY <2>1, <2>2 DEF S
<1>6. /\ s[i] \in Seq(Symbol) /\ Upto(s, i - 1) \in Seq(Symbol)
      /\ Upto(s, i) = Upto(s, i - 1) \o s[i]
  BY UptoNext
<1> DEFINE a == Upto(s, i - 1)
           b == s[i]
<1>7. a \in Seq(Symbol) /\ b \in Seq(Symbol) /\ Stands(t, c, a \o b)
  BY <1>5, <1>6
<1>8. Mark(s, i - 1) = Len(a)
  BY DEF Mark
<1> HIDE DEF a, b
<1>9. Stands(t, c + Len(a), b)
  BY <1>7, StandsParts
<1> QED
  BY <1>8, <1>9 DEF b

(* A line that stands in the text is the one that is taken from a buffer   *)
(* that begins there, as soon as all of it has come.                       *)
LEMMA ByteAhead ==
    ASSUME NEW t \in Seq(Symbol), NEW n \in 0..Len(t), NEW c \in 0..n
    PROVE  LET b == SubSeq(t, c + 1, n)
           IN  /\ b \in Seq(Symbol) /\ Len(b) = n - c
               /\ \A k \in 1..n - c : b[k] = t[c + k]
               /\ \A d \in 0..n - c : SubSeq(b, d + 1, Len(b)) = SubSeq(t, c + d + 1, n)
<1> DEFINE b == SubSeq(t, c + 1, n)
<1>1. Len(t) \in Nat /\ c \in 0..Len(t) /\ n \in c..Len(t)
  BY LenProperties
<1>2. /\ b \in Seq(Symbol) /\ Len(b) = n - c
      /\ \A k \in 1..n - c : b[k] = t[c + k]
  BY <1>1, Piece
<1>3. \A d \in 0..n - c : SubSeq(SubSeq(t, c + 1, n), d + 1, n - c) = SubSeq(t, c + d + 1, n)
  BY <1>1, PieceOfPiece
<1> QED
  BY <1>2, <1>3

LEMMA EndOfLine ==
    ASSUME NEW b \in Seq(Symbol), NEW e \in Nat, e \in Ends(b), \A i \in Ends(b) : e <= i
    PROVE  CompleteLine(b) /\ LineEnd(b) = e
<1>1. CompleteLine(b)
  BY DEF CompleteLine
<1>2. LineEnd(b) \in Ends(b) /\ \A j \in Ends(b) : LineEnd(b) <= j
  BY <1>1, FirstLine
<1>3. Len(b) \in Nat /\ LineEnd(b) \in 1..Len(b) - 1
  BY <1>1, FirstLine
<1>4. LineEnd(b) <= e /\ e <= LineEnd(b)
  BY <1>2
<1> QED
  BY <1>1, <1>3, <1>4

LEMMA LineWritten ==
    ASSUME NEW y \in Symbol
    PROVE  /\ CRLF \in Seq(Symbol) /\ Len(CRLF) = 2 /\ CRLF[1] = CR /\ CRLF[2] = LF
           /\ Written(y) \in Seq(Symbol) /\ Len(Written(y)) = 3
           /\ Written(y)[1] = y /\ Written(y)[2] = CR /\ Written(y)[3] = LF
<1>1. CR \in Symbol /\ LF \in Symbol
  BY DEF CR, LF, Symbol
<1> DEFINE a == <<y>>
           w == CRLF
<1>2. w \in Seq(Symbol) /\ Len(w) = 2 /\ w[1] = CR /\ w[2] = LF
  BY <1>1 DEF CRLF
<1>3. a \in Seq(Symbol) /\ Len(a) = 1 /\ a[1] = y
  OBVIOUS
<1> HIDE DEF a, w
<1>4. /\ a \o w \in Seq(Symbol) /\ Len(a \o w) = Len(a) + Len(w)
      /\ \A i \in 1..Len(a) + Len(w) : (a \o w)[i] = IF i <= Len(a) THEN a[i] ELSE w[i - Len(a)]
  BY <1>2, <1>3, ConcatProperties
<1>5. Len(a \o w) = 3 /\ (a \o w)[1] = y /\ (a \o w)[2] = CR /\ (a \o w)[3] = LF
  BY <1>2, <1>3, <1>4
<1>6. Written(y) = a \o w
  BY DEF Written, a, w
<1> QED
  BY <1>2, <1>4, <1>5, <1>6, Zenon DEF w

LEMMA LineStands ==
    ASSUME NEW t \in Seq(Symbol), NEW n \in 0..Len(t), NEW c \in 0..n,
           NEW y \in Symbol, Stands(t, c, Written(y))
    PROVE  LET b == SubSeq(t, c + 1, n)
           IN  /\ CompleteLine(b) <=> c + 3 <= n
               /\ c + 3 <= n => Line(b) = <<y>> /\ Rest(b) = SubSeq(t, c + 3 + 1, n)
<1> DEFINE b == SubSeq(t, c + 1, n)
           w == Written(y)
<1>2. Len(w) = 3 /\ w[1] = y /\ w[2] = CR /\ w[3] = LF
  BY LineWritten
<1>3. t[c + 1] = y /\ t[c + 2] = CR /\ t[c + 3] = LF
  <2>1. \A k \in 1..3 : t[c + k] = w[k]
    BY <1>2 DEF Stands
  <2> HIDE DEF w
  <2> QED
    BY <1>2, <2>1
<1>4. /\ b \in Seq(Symbol) /\ Len(b) = n - c
      /\ \A k \in 1..n - c : b[k] = t[c + k]
      /\ \A d \in 0..n - c : SubSeq(b, d + 1, Len(b)) = SubSeq(t, c + d + 1, n)
  BY ByteAhead
<1>5. n \in Nat /\ c \in Nat /\ c <= n /\ CR # LF
  <2>1. CR # LF
    BY DEF CR, LF
  <2> QED
    BY <2>1, LenProperties
<1> HIDE DEF b, w
<1>6. \A i \in Ends(b) : 2 <= i /\ c + 3 <= n
  <2> SUFFICES ASSUME NEW i \in Ends(b) PROVE 2 <= i /\ c + 3 <= n
    OBVIOUS
  <2>1. i \in 1..n - c - 1 /\ b[i] = CR /\ b[i + 1] = LF
    BY <1>4 DEF Ends
  <2>2. i # 1
    <3> SUFFICES ASSUME i = 1 PROVE FALSE
      OBVIOUS
    <3>1. 2 \in 1..n - c /\ b[2] = LF
      BY <1>5, <2>1
    <3> QED
      BY <1>3, <1>4, <1>5, <3>1
  <2> QED
    BY <1>5, <2>1, <2>2
<1>7. ASSUME c + 3 <= n PROVE 2 \in Ends(b)
  <2>1. /\ 2 \in 1..n - c /\ 3 \in 1..n - c /\ 2 \in 1..n - c - 1
    BY <1>5, <1>7
  <2>2. b[2] = CR /\ b[3] = LF
    BY <1>3, <1>4, <2>1
  <2> QED
    BY <1>4, <2>1, <2>2 DEF Ends
<1>8. CompleteLine(b) <=> c + 3 <= n
  BY <1>6, <1>7 DEF CompleteLine
<1>9. ASSUME c + 3 <= n PROVE Line(b) = <<y>> /\ Rest(b) = SubSeq(t, c + 3 + 1, n)
  <2>1. LineEnd(b) = 2
    BY <1>4, <1>6, <1>7, <1>9, EndOfLine
  <2>2. Line(b) = <<y>>
    <3>1. b \in Seq(Symbol) /\ 0 \in 0..Len(b) /\ 1 \in 0..Len(b)
      BY <1>4, <1>5, <1>9
    <3>2. /\ SubSeq(b, 0 + 1, 1) \in Seq(Symbol) /\ Len(SubSeq(b, 0 + 1, 1)) = 1 - 0
          /\ \A k \in 1..1 - 0 : SubSeq(b, 0 + 1, 1)[k] = b[0 + k]
      BY <3>1, Piece
    <3> DEFINE l == SubSeq(b, 1, 1)
    <3>3. l \in Seq(Symbol) /\ Len(l) = 1 /\ l[1] = b[1]
      BY <3>2
    <3>4. b[1] = y
      <4>1. 1 \in 1..n - c
        BY <1>5, <1>9
      <4> QED
        BY <1>3, <1>4, <4>1
    <3>5. Line(b) = l
      BY <2>1 DEF Line
    <3> HIDE DEF l
    <3>6. /\ <<y>> \in Seq(Symbol) /\ Len(<<y>>) = 1 /\ <<y>>[1] = y
      OBVIOUS
    <3>7. \A k \in 1..1 : l[k] = <<y>>[k]
      BY <3>3, <3>4, <3>6
    <3>8. l = <<y>>
      BY <3>3, <3>6, <3>7, SeqEqual
    <3> QED
      BY <3>5, <3>8
  <2>3. Rest(b) = SubSeq(t, c + 3 + 1, n)
    <3>1. 3 \in 0..n - c /\ 3 + 1 = 2 + 2
      BY <1>5, <1>9
    <3>2. SubSeq(b, 3 + 1, Len(b)) = SubSeq(t, c + 3 + 1, n)
      BY <1>4, <3>1
    <3>3. Rest(b) = SubSeq(b, 2 + 2, Len(b))
      BY <2>1, Zenon DEF Rest
    <3> QED
      BY <3>1, <3>2, <3>3
  <2> QED
    BY <2>2, <2>3
<1> QED
  BY <1>8, <1>9 DEF b

LEMMA EmptyLineStands ==
    ASSUME NEW t \in Seq(Symbol), NEW n \in 0..Len(t), NEW c \in 0..n, Stands(t, c, CRLF)
    PROVE  LET b == SubSeq(t, c + 1, n)
           IN  /\ CompleteLine(b) <=> c + 2 <= n
               /\ c + 2 <= n => Line(b) = <<>> /\ Rest(b) = SubSeq(t, c + 2 + 1, n)
<1> DEFINE b == SubSeq(t, c + 1, n)
           w == CRLF
<1>1. Len(w) = 2 /\ w[1] = CR /\ w[2] = LF
  BY DEF CRLF
<1>2. t[c + 1] = CR /\ t[c + 2] = LF
  <2>1. \A k \in 1..2 : t[c + k] = w[k]
    BY <1>1 DEF Stands
  <2> HIDE DEF w
  <2> QED
    BY <1>1, <2>1
<1>3. /\ b \in Seq(Symbol) /\ Len(b) = n - c
      /\ \A k \in 1..n - c : b[k] = t[c + k]
      /\ \A d \in 0..n - c : SubSeq(b, d + 1, Len(b)) = SubSeq(t, c + d + 1, n)
  BY ByteAhead
<1>4. n \in Nat /\ c \in Nat /\ c <= n
  BY LenProperties
<1> HIDE DEF b, w
<1>5. \A i \in Ends(b) : 1 <= i /\ c + 2 <= n
  BY <1>3, <1>4 DEF Ends
<1>6. ASSUME c + 2 <= n PROVE 1 \in Ends(b)
  <2>1. /\ 1 \in 1..n - c /\ 2 \in 1..n - c /\ 1 \in 1..n - c - 1
    BY <1>4, <1>6
  <2>2. b[1] = CR /\ b[2] = LF
    BY <1>2, <1>3, <2>1
  <2> QED
    BY <1>3, <2>1, <2>2 DEF Ends
<1>7. CompleteLine(b) <=> c + 2 <= n
  BY <1>5, <1>6 DEF CompleteLine
<1>8. ASSUME c + 2 <= n PROVE Line(b) = <<>> /\ Rest(b) = SubSeq(t, c + 2 + 1, n)
  <2>1. LineEnd(b) = 1
    BY <1>3, <1>5, <1>6, <1>8, EndOfLine
  <2>2. Line(b) = <<>>
    <3>1. SubSeq(b, 1, 0) = <<>>
      BY <1>3, SubSeqEmpty
    <3>2. Line(b) = SubSeq(b, 1, LineEnd(b) - 1) /\ LineEnd(b) - 1 = 0
      BY <2>1 DEF Line
    <3> QED
      BY <3>1, <3>2
  <2>3. Rest(b) = SubSeq(t, c + 2 + 1, n)
    <3>1. 2 \in 0..n - c /\ 2 + 1 = 1 + 2
      BY <1>4, <1>8
    <3>2. SubSeq(b, 2 + 1, Len(b)) = SubSeq(t, c + 2 + 1, n)
      BY <1>3, <3>1
    <3>3. Rest(b) = SubSeq(b, 1 + 2, Len(b))
      BY <2>1, Zenon DEF Rest
    <3> QED
      BY <3>1, <3>2, <3>3
  <2> QED
    BY <2>2, <2>3
<1> QED
  BY <1>7, <1>8 DEF b

-----------------------------------------------------------------------------
(* Where the lines and the chunks of a written request stand in its text.  *)
Lines(r) == [i \in 1..Len(r.fields) |-> Written(r.fields[i])]
ChunkText(x) == Written(SizeSymbol(Len(x))) \o x \o CRLF
ChunkTexts(r) == [i \in 1..Len(r.chunks) |-> ChunkText(r.chunks[i])]
FieldAt(r, i) == 3 + Mark(Lines(r), i)
ChunkAt(r, i) == Len(HeadText(r)) + Mark(ChunkTexts(r), i)

LEMMA RequestIs ==
    ASSUME NEW r \in Requests
    PROVE  /\ r.fault \in {0, 400, 505} /\ r.fields \in Seq(Symbol)
           /\ r.chunks \in Seq(Seq(Symbol)) /\ \A i \in 1..Len(r.chunks) : r.chunks[i] # <<>>
           /\ Payload(r) \in Seq(Symbol)
<1>1. /\ r.fault \in StartFaults /\ r.fields \in FieldLines /\ r.chunks \in Payloads
  BY DEF Requests
<1>2. /\ r.fault \in {0, 400, 505} /\ r.fields \in Seq(Symbol)
      /\ r.chunks \in Seq(Seq(Symbol) \ {<<>>})
  BY <1>1, GrammarAssumption
<1> DEFINE Y == Seq(Symbol)
           Z == Y \ {<<>>}
           s == r.chunks
<1>3. Len(s) \in Nat /\ \A i \in 1..Len(s) : s[i] \in Z
  <2> HIDE DEF s
  <2>1. s \in Seq(Z)
    BY <1>2 DEF s
  <2> HIDE DEF Z
  <2> QED
    BY <2>1, LenProperties, ElementOfSeq
<1>4. s \in Seq(Y)
  <2>1. s \in [1..Len(s) -> Z]
    <3> HIDE DEF s
    <3>1. s \in Seq(Z)
      BY <1>2 DEF s
    <3> HIDE DEF Z
    <3> QED
      BY <3>1, LenProperties
  <2>2. s \in [1..Len(s) -> Y]
    BY <2>1
  <2> HIDE DEF s, Y
  <2> QED
    BY <1>3, <2>2
<1>5. FlattenSeq(s) \in Seq(Symbol)
  <2> HIDE DEF s
  <2> QED
    BY <1>4, FlattenGrows
<1> QED
  BY <1>2, <1>3, <1>4, <1>5 DEF Payload

LEMMA SymbolsAre ==
    /\ \A f \in {0, 400, 505} : StartSymbol(f) \in Symbol
    /\ \A n \in Nat : SizeSymbol(n) \in Symbol
BY DEF StartSymbol, SizeSymbol, Symbol, Number

LEMMA LinesAre ==
    ASSUME NEW r \in Requests
    PROVE  /\ Lines(r) \in Seq(Seq(Symbol)) /\ Len(Lines(r)) = Len(r.fields)
           /\ \A i \in 1..Len(r.fields) : Lines(r)[i] = Written(r.fields[i])
<1> DEFINE s == r.fields
           t == Lines(r)
           Y == Seq(Symbol)
<1>1. s \in Seq(Symbol)
  BY RequestIs
<1>2. t = [i \in 1..Len(s) |-> Written(s[i])]
  BY DEF Lines
<1> HIDE DEF s, t
<1>3. Len(s) \in Nat /\ \A i \in 1..Len(s) : s[i] \in Symbol
  BY <1>1, LenProperties, ElementOfSeq
<1>4. \A i \in 1..Len(s) : Written(s[i]) \in Y
  BY <1>3, LineWritten
<1> HIDE DEF Y
<1>5. t \in [1..Len(s) -> Y]
  BY <1>2, <1>4
<1>6. t \in Seq(Y) /\ Len(t) = Len(s)
  BY <1>3, <1>5
<1> QED
  BY <1>2, <1>6 DEF s, t, Y

LEMMA HeadStands ==
    ASSUME NEW r \in Requests
    PROVE  /\ HeadText(r) \in Seq(Symbol)
           /\ Stands(HeadText(r), 0, Written(StartSymbol(r.fault)))
           /\ FieldAt(r, 0) = 3
           /\ \A i \in 1..Len(r.fields) :
                 /\ FieldAt(r, i - 1) \in Nat /\ FieldAt(r, i) = FieldAt(r, i - 1) + 3
                 /\ Stands(HeadText(r), FieldAt(r, i - 1), Written(r.fields[i]))
           /\ Stands(HeadText(r), FieldAt(r, Len(r.fields)), CRLF)
           /\ FieldAt(r, Len(r.fields)) + 2 = Len(HeadText(r))
<1> DEFINE a == Written(StartSymbol(r.fault))
           s == Lines(r)
           f == FlattenSeq(s)
           h == HeadText(r)
           n == Len(r.fields)
<1>1. a \in Seq(Symbol) /\ Len(a) = 3 /\ CRLF \in Seq(Symbol) /\ Len(CRLF) = 2
  <2> DEFINE y == StartSymbol(r.fault)
  <2>1. y \in Symbol
    BY RequestIs, SymbolsAre
  <2> HIDE DEF y
  <2>2. Written(y) \in Seq(Symbol) /\ Len(Written(y)) = 3 /\ CRLF \in Seq(Symbol) /\ Len(CRLF) = 2
    BY <2>1, LineWritten
  <2> QED
    BY <2>2 DEF y
<1>2. s \in Seq(Seq(Symbol)) /\ Len(s) = n /\ \A i \in 1..n : s[i] = Written(r.fields[i])
  BY LinesAre
<1>3. h = (a \o f) \o CRLF
  BY Zenon DEF HeadText, Lines
<1>4. f \in Seq(Symbol) /\ Upto(s, 0) = <<>> /\ Mark(s, 0) = 0 /\ Mark(s, n) = Len(f)
  <2>1. /\ Upto(s, 0) = <<>> /\ Mark(s, 0) = 0 /\ Upto(s, Len(s)) = FlattenSeq(s)
        /\ FlattenSeq(s) \in Seq(Symbol)
    BY <1>2, UptoEnds
  <2> QED
    BY <1>2, <2>1, Zenon DEF Mark
<1>5. \A i \in 1..n : FieldAt(r, i) = 3 + Mark(s, i) /\ FieldAt(r, i - 1) = 3 + Mark(s, i - 1)
  BY DEF FieldAt
<1>6. FieldAt(r, 0) = 3 /\ FieldAt(r, n) = 3 + Len(f)
  <2>1. FieldAt(r, 0) = 3 + Mark(s, 0) /\ FieldAt(r, n) = 3 + Mark(s, n)
    BY DEF FieldAt
  <2> HIDE DEF f, s, n
  <2> QED
    BY <1>4, <2>1
<1> HIDE DEF a, s, f, h
<1> DEFINE g == a \o f
<1>7. g \in Seq(Symbol) /\ Len(g) = 3 + Len(f)
  <2>1. a \in Seq(Symbol) /\ f \in Seq(Symbol)
    BY <1>1, <1>4
  <2>2. a \o f \in Seq(Symbol) /\ Len(a \o f) = Len(a) + Len(f)
    BY <2>1, ConcatProperties
  <2>3. Len(a) = 3
    BY <1>1
  <2> QED
    BY <2>2, <2>3
<1> HIDE DEF g
<1>8. h \in Seq(Symbol) /\ Len(h) = 3 + Len(f) + 2
  <2>1. g \o CRLF \in Seq(Symbol) /\ Len(g \o CRLF) = Len(g) + Len(CRLF)
    BY <1>1, <1>7, ConcatProperties
  <2>2. h = g \o CRLF
    BY <1>3 DEF g
  <2> HIDE DEF g
  <2> QED
    BY <1>1, <1>7, <2>1, <2>2
<1>9. Stands(h, 0, g) /\ Stands(h, 3 + Len(f), CRLF)
  <2>1. Stands(h, 0, h)
    BY <1>8, StandsWhole
  <2>2. Stands(h, 0, g \o CRLF)
    BY <1>3, <2>1 DEF g
  <2>3. Stands(h, 0, g) /\ Stands(h, 0 + Len(g), CRLF)
    BY <1>1, <1>7, <1>8, <2>2, StandsParts
  <2>4. 0 + Len(g) = 3 + Len(f)
    BY <1>4, <1>7, LenProperties
  <2> QED
    BY <2>3, <2>4
<1>10. Stands(h, 0, a) /\ Stands(h, 3, f)
  <2>1. Stands(h, 0, a \o f)
    BY <1>9 DEF g
  <2>2. Stands(h, 0, a) /\ Stands(h, 0 + Len(a), f)
    BY <1>1, <1>4, <1>8, <2>1, StandsParts
  <2>3. 0 + Len(a) = 3
    BY <1>1
  <2> QED
    BY <2>2, <2>3
<1>11. ASSUME NEW i \in 1..n
       PROVE  /\ FieldAt(r, i - 1) \in Nat /\ FieldAt(r, i) = FieldAt(r, i - 1) + 3
              /\ Stands(h, FieldAt(r, i - 1), Written(r.fields[i]))
  <2>1. Stands(h, 3 + Mark(s, i - 1), s[i])
    <3>1. Stands(h, 3, FlattenSeq(s))
      BY <1>10 DEF f
    <3> QED
      BY <1>2, <1>8, <3>1, PartsStand
  <2>2. Mark(s, i) = Mark(s, i - 1) + Len(s[i]) /\ Upto(s, i - 1) \in Seq(Symbol)
    BY <1>2, UptoNext
  <2>3. Mark(s, i - 1) \in Nat
    BY <2>2, LenProperties DEF Mark
  <2>4. Len(s[i]) = 3
    <3>1. s[i] = Written(r.fields[i])
      BY <1>2
    <3>2. r.fields \in Seq(Symbol) /\ i \in 1..Len(r.fields)
      BY RequestIs
    <3>3. r.fields[i] \in Symbol
      BY <3>2, ElementOfSeq
    <3> QED
      BY <3>1, <3>3, LineWritten
  <2> HIDE DEF n
  <2>5. s[i] = Written(r.fields[i])
    BY <1>2
  <2> QED
    BY <1>5, <2>1, <2>2, <2>3, <2>4, <2>5
<1>12. FieldAt(r, n) + 2 = Len(h)
  BY <1>6, <1>8
<1> QED
  BY <1>6, <1>8, <1>9, <1>10, <1>11, <1>12 DEF a, h

LEMMA ChunkStands ==
    ASSUME NEW x \in Seq(Symbol)
    PROVE  /\ ChunkText(x) \in Seq(Symbol) /\ Len(ChunkText(x)) = 3 + Len(x) + 2
           /\ Stands(ChunkText(x), 0, Written(SizeSymbol(Len(x))))
           /\ Stands(ChunkText(x), 3, x) /\ Stands(ChunkText(x), 3 + Len(x), CRLF)
<1> DEFINE a == Written(SizeSymbol(Len(x)))
           g == a \o x
           h == ChunkText(x)
<1>1. a \in Seq(Symbol) /\ Len(a) = 3 /\ CRLF \in Seq(Symbol) /\ Len(CRLF) = 2
  <2> DEFINE y == SizeSymbol(Len(x))
  <2>1. y \in Symbol
    BY SymbolsAre, LenProperties
  <2> HIDE DEF y
  <2>2. Written(y) \in Seq(Symbol) /\ Len(Written(y)) = 3 /\ CRLF \in Seq(Symbol) /\ Len(CRLF) = 2
    BY <2>1, LineWritten
  <2> QED
    BY <2>2 DEF y
<1>2. Len(x) \in Nat
  BY LenProperties
<1>3. h = g \o CRLF
  BY Zenon DEF ChunkText
<1> HIDE DEF a, h
<1>4. g \in Seq(Symbol) /\ Len(g) = 3 + Len(x)
  <2>1. a \o x \in Seq(Symbol) /\ Len(a \o x) = Len(a) + Len(x)
    BY <1>1, ConcatProperties
  <2> QED
    BY <1>1, <2>1
<1> HIDE DEF g
<1>5. h \in Seq(Symbol) /\ Len(h) = 3 + Len(x) + 2
  <2>1. g \o CRLF \in Seq(Symbol) /\ Len(g \o CRLF) = Len(g) + Len(CRLF)
    BY <1>1, <1>4, ConcatProperties
  <2> QED
    BY <1>1, <1>3, <1>4, <2>1
<1>6. Stands(h, 0, g) /\ Stands(h, 3 + Len(x), CRLF)
  <2>1. Stands(h, 0, g \o CRLF)
    BY <1>3, <1>5, StandsWhole
  <2>2. Stands(h, 0, g) /\ Stands(h, 0 + Len(g), CRLF)
    BY <1>1, <1>4, <1>5, <2>1, StandsParts
  <2>3. 0 + Len(g) = 3 + Len(x)
    BY <1>2, <1>4
  <2> QED
    BY <2>2, <2>3
<1>7. Stands(h, 0, a) /\ Stands(h, 3, x)
  <2>1. Stands(h, 0, a \o x)
    BY <1>6 DEF g
  <2>2. Stands(h, 0, a) /\ Stands(h, 0 + Len(a), x)
    BY <1>1, <1>5, <2>1, StandsParts
  <2>3. 0 + Len(a) = 3
    BY <1>1
  <2> QED
    BY <2>2, <2>3
<1> QED
  BY <1>5, <1>6, <1>7 DEF a, h

LEMMA ChunksAre ==
    ASSUME NEW r \in Requests
    PROVE  /\ ChunkTexts(r) \in Seq(Seq(Symbol)) /\ Len(ChunkTexts(r)) = Len(r.chunks)
           /\ Len(r.chunks) \in Nat
           /\ \A i \in 1..Len(r.chunks) :
                 r.chunks[i] \in Seq(Symbol) /\ ChunkTexts(r)[i] = ChunkText(r.chunks[i])
<1> DEFINE s == r.chunks
           t == ChunkTexts(r)
           Y == Seq(Symbol)
<1>1. s \in Seq(Y)
  BY RequestIs
<1>2. t = [i \in 1..Len(s) |-> ChunkText(s[i])]
  BY DEF ChunkTexts
<1> HIDE DEF s, t
<1>3. Len(s) \in Nat /\ \A i \in 1..Len(s) : s[i] \in Y
  <2> HIDE DEF Y
  <2> QED
    BY <1>1, LenProperties, ElementOfSeq
<1>4. \A i \in 1..Len(s) : ChunkText(s[i]) \in Y
  BY <1>3, ChunkStands
<1> HIDE DEF Y
<1>5. t \in [1..Len(s) -> Y]
  BY <1>2, <1>4
<1>6. t \in Seq(Y) /\ Len(t) = Len(s)
  BY <1>3, <1>5
<1> QED
  BY <1>2, <1>3, <1>6 DEF s, t, Y

(* The text of a body in chunks.                                           *)
ChunksText(r) == FlattenSeq(ChunkTexts(r))
LEMMA ChunkedBodyStands ==
    ASSUME NEW r \in Requests
    PROVE  LET h == ChunkedBody(r)
               n == Len(ChunksText(r))
           IN  /\ h \in Seq(Symbol) /\ n \in Nat /\ Len(h) = n + 5
               /\ Stands(h, 0, ChunksText(r))
               /\ Stands(h, n, Written(SizeSymbol(0))) /\ Stands(h, n + 3, CRLF)
<1> DEFINE h == ChunkedBody(r)
           f == ChunksText(r)
           a == Written(SizeSymbol(0))
           g == f \o a
<1>1. a \in Seq(Symbol) /\ Len(a) = 3 /\ CRLF \in Seq(Symbol) /\ Len(CRLF) = 2
  <2> DEFINE y == SizeSymbol(0)
  <2>1. y \in Symbol
    BY SymbolsAre
  <2> HIDE DEF y
  <2>2. Written(y) \in Seq(Symbol) /\ Len(Written(y)) = 3 /\ CRLF \in Seq(Symbol) /\ Len(CRLF) = 2
    BY <2>1, LineWritten
  <2> QED
    BY <2>2 DEF y
<1>2. f \in Seq(Symbol) /\ Len(f) \in Nat
  <2>1. f \in Seq(Symbol)
    BY ChunksAre, UptoEnds DEF ChunksText
  <2> QED
    BY <2>1, LenProperties
<1>3. h = g \o CRLF
  BY Zenon DEF ChunkedBody, ChunksText, ChunkTexts, ChunkText
<1> HIDE DEF a, f, h
<1>4. g \in Seq(Symbol) /\ Len(g) = Len(f) + 3
  <2>1. f \o a \in Seq(Symbol) /\ Len(f \o a) = Len(f) + Len(a)
    BY <1>1, <1>2, ConcatProperties
  <2> QED
    BY <1>1, <2>1
<1> HIDE DEF g
<1>5. h \in Seq(Symbol) /\ Len(h) = Len(f) + 5
  <2>1. g \o CRLF \in Seq(Symbol) /\ Len(g \o CRLF) = Len(g) + Len(CRLF)
    BY <1>1, <1>4, ConcatProperties
  <2> QED
    BY <1>1, <1>2, <1>3, <1>4, <2>1
<1>6. Stands(h, 0, g) /\ Stands(h, Len(f) + 3, CRLF)
  <2>1. Stands(h, 0, g \o CRLF)
    BY <1>3, <1>5, StandsWhole
  <2>2. Stands(h, 0, g) /\ Stands(h, 0 + Len(g), CRLF)
    BY <1>1, <1>4, <1>5, <2>1, StandsParts
  <2>3. 0 + Len(g) = Len(f) + 3
    BY <1>2, <1>4
  <2> QED
    BY <2>2, <2>3
<1>7. Stands(h, 0, f) /\ Stands(h, Len(f), a)
  <2>1. Stands(h, 0, f \o a)
    BY <1>6 DEF g
  <2>2. Stands(h, 0, f) /\ Stands(h, 0 + Len(f), a)
    BY <1>1, <1>2, <1>5, <2>1, StandsParts
  <2>3. 0 + Len(f) = Len(f)
    BY <1>2
  <2> QED
    BY <2>2, <2>3
<1> QED
  BY <1>2, <1>5, <1>6, <1>7 DEF a, f, h

(* Where each chunk stands in the text of a chunked request.               *)
ChunkPlaces(r) ==
    LET t == TextOf(r)
        c == Len(HeadText(r))
        n == Len(r.chunks)
    IN  /\ ChunkAt(r, 0) = c
        /\ \A i \in 1..n :
              /\ ChunkAt(r, i - 1) \in Nat
              /\ ChunkAt(r, i) = ChunkAt(r, i - 1) + 3 + Len(r.chunks[i]) + 2
              /\ Stands(t, ChunkAt(r, i - 1), Written(SizeSymbol(Len(r.chunks[i]))))
              /\ Stands(t, ChunkAt(r, i - 1) + 3, r.chunks[i])
              /\ Stands(t, ChunkAt(r, i - 1) + 3 + Len(r.chunks[i]), CRLF)
        /\ ChunkAt(r, n) \in Nat /\ ChunkAt(r, n) + 5 = Len(t)
        /\ Stands(t, ChunkAt(r, n), Written(SizeSymbol(0)))
        /\ Stands(t, ChunkAt(r, n) + 3, CRLF)

LEMMA TextStands ==
    ASSUME NEW r \in Requests
    PROVE  /\ TextOf(r) \in Seq(Symbol) /\ Stands(TextOf(r), 0, HeadText(r))
           /\ Value(r, "TE") # Chunked => Stands(TextOf(r), Len(HeadText(r)), Payload(r))
           /\ Value(r, "TE") = Chunked => ChunkPlaces(r)
<1> DEFINE t == TextOf(r)
           h == HeadText(r)
           b == IF Value(r, "TE") = Chunked THEN ChunkedBody(r) ELSE Payload(r)
           c == Len(h)
<1>1. t = h \o b
  BY Zenon DEF TextOf
<1>2. h \in Seq(Symbol) /\ b \in Seq(Symbol) /\ c \in Nat
  <2>1. h \in Seq(Symbol)
    BY HeadStands
  <2>2. ChunkedBody(r) \in Seq(Symbol) /\ Payload(r) \in Seq(Symbol)
    BY ChunkedBodyStands, RequestIs
  <2> QED
    BY <2>1, <2>2, LenProperties
<1> HIDE DEF b, h, t, c
<1>3. t \in Seq(Symbol)
  BY <1>1, <1>2, ConcatProperties
<1>4. Stands(t, 0, h) /\ Stands(t, c, b) /\ Len(t) = c + Len(b)
  <2>1. Stands(t, 0, h \o b)
    BY <1>1, <1>3, StandsWhole
  <2>2. Stands(t, 0, h) /\ Stands(t, 0 + Len(h), b)
    BY <1>2, <1>3, <2>1, StandsParts
  <2>3. 0 + Len(h) = c
    BY <1>2 DEF c
  <2>4. Len(h \o b) = Len(h) + Len(b)
    BY <1>2, ConcatProperties
  <2> QED
    BY <1>1, <2>2, <2>3, <2>4 DEF c
<1>5. ASSUME Value(r, "TE") # Chunked PROVE Stands(t, c, Payload(r))
  <2>1. b = Payload(r)
    BY <1>5 DEF b
  <2> QED
    BY <1>4, <2>1
<1>6. ASSUME Value(r, "TE") = Chunked PROVE ChunkPlaces(r)
  <2> DEFINE s == ChunkTexts(r)
             f == ChunksText(r)
             n == Len(r.chunks)
             z == Written(SizeSymbol(0))
  <2>1. b = ChunkedBody(r)
    BY <1>6 DEF b
  <2>2. /\ Len(f) \in Nat /\ Len(b) = Len(f) + 5
        /\ Stands(b, 0, f) /\ Stands(b, Len(f), z) /\ Stands(b, Len(f) + 3, CRLF)
    BY <2>1, ChunkedBodyStands
  <2>3. /\ s \in Seq(Seq(Symbol)) /\ Len(s) = n
        /\ \A i \in 1..n : r.chunks[i] \in Seq(Symbol) /\ s[i] = ChunkText(r.chunks[i])
    BY ChunksAre
  <2>4. f \in Seq(Symbol) /\ Mark(s, 0) = 0 /\ Mark(s, n) = Len(f)
    <3>1. /\ Mark(s, 0) = 0 /\ Upto(s, Len(s)) = FlattenSeq(s) /\ FlattenSeq(s) \in Seq(Symbol)
      BY <2>3, UptoEnds
    <3> QED
      BY <2>3, <3>1, Zenon DEF Mark, ChunksText
  <2>5. z \in Seq(Symbol) /\ CRLF \in Seq(Symbol)
    BY SymbolsAre, LineWritten
  <2>6. ChunkAt(r, 0) = c /\ ChunkAt(r, n) = c + Len(f)
    <3>1. ChunkAt(r, 0) = c + Mark(s, 0) /\ ChunkAt(r, n) = c + Mark(s, n)
      BY Zenon DEF ChunkAt, c, h
    <3>2. c + 0 = c
      BY <1>2
    <3> HIDE DEF s, n, f
    <3> QED
      BY <2>4, <3>1, <3>2
  <2> HIDE DEF z, f
  <2>7. Stands(t, c + 0, f) /\ Stands(t, c + Len(f), z) /\ Stands(t, c + (Len(f) + 3), CRLF)
    BY <1>2, <1>3, <1>4, <2>2, <2>4, <2>5, StandsIn
  <2>8. c + 0 = c /\ c + (Len(f) + 3) = c + Len(f) + 3
    BY <1>2, <2>2
  <2>9. Stands(t, c, FlattenSeq(s))
    <3>1. Stands(t, c, f)
      BY <2>7, <2>8
    <3> QED
      BY <3>1 DEF f, ChunksText
  <2>10. ASSUME NEW i \in 1..n
         PROVE  /\ ChunkAt(r, i - 1) \in Nat
                /\ ChunkAt(r, i) = ChunkAt(r, i - 1) + 3 + Len(r.chunks[i]) + 2
                /\ Stands(t, ChunkAt(r, i - 1), Written(SizeSymbol(Len(r.chunks[i]))))
                /\ Stands(t, ChunkAt(r, i - 1) + 3, r.chunks[i])
                /\ Stands(t, ChunkAt(r, i - 1) + 3 + Len(r.chunks[i]), CRLF)
    <3> DEFINE x == r.chunks[i]
               d == ChunkAt(r, i - 1)
               y == Written(SizeSymbol(Len(x)))
    <3>1. Stands(t, c + Mark(s, i - 1), s[i])
      <4> HIDE DEF s, n
      <4> QED
        BY <1>3, <2>3, <2>9, PartsStand
    <3>2. Mark(s, i) = Mark(s, i - 1) + Len(s[i]) /\ Upto(s, i - 1) \in Seq(Symbol)
      <4> HIDE DEF s, n
      <4> QED
        BY <2>3, UptoNext
    <3>3. Mark(s, i - 1) \in Nat
      <4> HIDE DEF s
      <4> QED
        BY <3>2, LenProperties DEF Mark
    <3>4. d = c + Mark(s, i - 1) /\ ChunkAt(r, i) = c + Mark(s, i)
      BY Zenon DEF ChunkAt, c, h
    <3>5. x \in Seq(Symbol) /\ s[i] = ChunkText(x)
      BY <2>3
    <3> HIDE DEF x, d, s, y
    <3>6. Len(x) \in Nat /\ y \in Seq(Symbol)
      <4>1. Len(x) \in Nat
        BY <3>5, LenProperties
      <4> QED
        BY <4>1, SymbolsAre, LineWritten DEF y
    <3>7. /\ s[i] \in Seq(Symbol) /\ Len(s[i]) = 3 + Len(x) + 2
          /\ Stands(s[i], 0, y) /\ Stands(s[i], 3, x) /\ Stands(s[i], 3 + Len(x), CRLF)
      BY <3>5, ChunkStands DEF y
    <3>8. d \in Nat /\ ChunkAt(r, i) = d + 3 + Len(x) + 2
      <4> DEFINE m == Mark(s, i - 1)
                 l == Mark(s, i)
                 k == Len(s[i])
                 e == ChunkAt(r, i)
                 j == Len(x)
      <4>1. /\ c \in Nat /\ m \in Nat /\ j \in Nat /\ k = 3 + j + 2
            /\ l = m + k /\ d = c + m /\ e = c + l
        BY <1>2, <3>2, <3>3, <3>4, <3>6, <3>7
      <4> HIDE DEF m, l, k, e, j
      <4>2. d \in Nat /\ e = d + 3 + j + 2
        BY <4>1
      <4> QED
        BY <4>2 DEF e, j
    <3>9. Stands(t, d + 0, y) /\ Stands(t, d + 3, x) /\ Stands(t, d + (3 + Len(x)), CRLF)
      <4>1. Stands(t, d, s[i])
        BY <3>1, <3>4
      <4> DEFINE u == s[i]
      <4>2. u \in Seq(Symbol) /\ Stands(t, d, u) /\ Stands(u, 0, y) /\ Stands(u, 3, x)
            /\ Stands(u, 3 + Len(x), CRLF)
        BY <3>7, <4>1
      <4> HIDE DEF u
      <4> QED
        BY <1>3, <2>5, <3>5, <3>6, <4>2, StandsIn
    <3>10. d + 0 = d /\ d + (3 + Len(x)) = d + 3 + Len(x)
      BY <3>6, <3>8
    <3>11. Stands(t, d, y) /\ Stands(t, d + 3 + Len(x), CRLF)
      BY <3>9, <3>10
    <3> QED
      BY <3>8, <3>9, <3>11 DEF d, x, y
  <2>11. ChunkAt(r, n) \in Nat /\ ChunkAt(r, n) + 5 = Len(t)
    BY <1>2, <1>4, <2>2, <2>6
  <2>12. Stands(t, ChunkAt(r, n), z) /\ Stands(t, ChunkAt(r, n) + 3, CRLF)
    BY <2>6, <2>7, <2>8
  <2> QED
    BY <2>6, <2>10, <2>11, <2>12 DEF ChunkPlaces, z, t, c, h
<1> QED
  BY <1>3, <1>4, <1>5, <1>6 DEF t, h, c

-----------------------------------------------------------------------------
(* What the parser knows, in each of its states, of a request that the     *)
(* text begins with.                                                       *)
At(p, t, n, c) == c \in 0..n /\ p.buffer = SubSeq(t, c + 1, n)

(* The value of a header is that of the last of the first i fields.        *)
LastIs(fs, i, name, v) ==
    \/ v = Absent /\ \A j \in 1..i : fs[j].kind # name
    \/ \E j \in 1..i : /\ fs[j].kind = name /\ fs[j].val = v
                       /\ \A k \in 1..i : fs[k].kind = name => k <= j

HeadersRead(r, i, p) ==
    /\ \A j \in 1..i : r.fields[j].kind \in FieldNames
    /\ \A name \in FieldNames : LastIs(r.fields, i, name, p.headers[name])

ChunksRead(r, i, p) == p.body = Upto(r.chunks, i)
InChunks(r) == Readable(r) /\ Value(r, "TE") = Chunked

Reads(r, t, n, p) ==
    /\ p.state = "START_LINE" =>
          At(p, t, n, 0) /\ HeadersRead(r, 0, p) /\ p.err = FALSE /\ p.body = <<>>
    /\ p.state = "HEADERS" =>
          /\ \E i \in 0..Len(r.fields) : At(p, t, n, FieldAt(r, i)) /\ HeadersRead(r, i, p)
          /\ p.body = <<>>
    /\ p.state = "BODY" =>
          /\ At(p, t, n, Len(HeadText(r))) /\ HeadersRead(r, Len(r.fields), p)
          /\ p.headers["Host"] # Absent /\ p.body = <<>>
    /\ p.state = "CHUNK_SIZE" =>
          /\ InChunks(r)
          /\ \E i \in 0..Len(r.chunks) : At(p, t, n, ChunkAt(r, i)) /\ ChunksRead(r, i, p)
    /\ p.state = "CHUNK_DATA" =>
          /\ InChunks(r)
          /\ \E i \in 1..Len(r.chunks) :
                /\ At(p, t, n, ChunkAt(r, i - 1) + 3) /\ ChunksRead(r, i - 1, p)
                /\ p.chunk = Len(r.chunks[i])
    /\ p.state = "FINAL_CRLF" =>
          /\ InChunks(r)
          /\ At(p, t, n, ChunkAt(r, Len(r.chunks)) + 3) /\ ChunksRead(r, Len(r.chunks), p)
    /\ p.state = "COMPLETE" => Readable(r) /\ p.body = BodyOf(r) /\ End(r) <= n
    /\ p.state = "ERROR" => p.err = TRUE /\ ~Readable(r)
    /\ p.state # "START_LINE" /\ r.fault # 0 => p.err = TRUE
    /\ p.err = TRUE => r.fault # 0 \/ ~Readable(r)

(* The text begins with a request, and n symbols of it have come.          *)
Begins(r, t, n) ==
    r \in WrittenRequests /\ t \in Seq(Symbol) /\ n \in 0..Len(t) /\ Stands(t, 0, TextOf(r))

LEMMA BeginsWith ==
    ASSUME NEW r, NEW t, NEW n, Begins(r, t, n)
    PROVE  /\ r \in Requests /\ t \in Seq(Symbol) /\ n \in 0..Len(t) /\ n \in Nat
           /\ Len(r.fields) \in Nat /\ Len(r.chunks) \in Nat
           /\ Stands(t, 0, TextOf(r)) /\ TextOf(r) \in Seq(Symbol)
           /\ Stands(t, 0, HeadText(r)) /\ HeadText(r) \in Seq(Symbol)
<1>1. r \in Requests /\ t \in Seq(Symbol) /\ n \in 0..Len(t) /\ Stands(t, 0, TextOf(r))
  BY DEF Begins, WrittenRequests
<1>2. n \in Nat
  BY <1>1, LenProperties
<1>3. Len(r.fields) \in Nat /\ Len(r.chunks) \in Nat
  <2>1. r.fields \in Seq(Symbol)
    BY <1>1, RequestIs
  <2>2. Len(r.fields) \in Nat
    BY <2>1, LenProperties
  <2>3. Len(r.chunks) \in Nat
    BY <1>1, ChunksAre
  <2> QED
    BY <2>2, <2>3
<1>4. TextOf(r) \in Seq(Symbol) /\ Stands(TextOf(r), 0, HeadText(r)) /\ HeadText(r) \in Seq(Symbol)
  BY <1>1, TextStands, HeadStands
<1>5. Stands(t, 0, HeadText(r))
  <2>1. Stands(t, 0 + 0, HeadText(r))
    BY <1>1, <1>4, StandsIn
  <2>2. 0 + 0 = 0
    OBVIOUS
  <2> QED
    BY <2>1, <2>2
<1> QED
  BY <1>1, <1>2, <1>3, <1>4, <1>5

LEMMA Onward ==
    ASSUME NEW t \in Seq(Symbol), NEW h \in Seq(Symbol), NEW v \in Seq(Symbol),
           NEW d, Stands(t, 0, h), Stands(h, d, v)
    PROVE  Stands(t, d, v) /\ d + Len(v) <= Len(h)
<1>1. Stands(t, 0 + d, v)
  BY StandsIn
<1>2. d \in Nat /\ d + Len(v) <= Len(h)
  BY DEF Stands
<1>3. 0 + d = d
  BY <1>2
<1> QED
  BY <1>1, <1>2, <1>3

-----------------------------------------------------------------------------
(* The last value of a header.                                             *)
LEMMA LastNext ==
    ASSUME NEW fs \in Seq(Symbol), NEW i \in 1..Len(fs), NEW name, NEW v
    PROVE  /\ LastIs(fs, i - 1, name, v) /\ fs[i].kind # name => LastIs(fs, i, name, v)
           /\ fs[i].kind = name => LastIs(fs, i, name, fs[i].val)
<1>1. i \in Nat /\ i \in 1..i /\ \A j \in 1..i : j = i \/ j \in 1..i - 1
  BY LenProperties
<1>2. \A j \in 1..i - 1 : j \in 1..i
  BY <1>1
<1>3. ASSUME LastIs(fs, i - 1, name, v), fs[i].kind # name PROVE LastIs(fs, i, name, v)
  <2>1. CASE v = Absent /\ \A j \in 1..i - 1 : fs[j].kind # name
    BY <1>1, <1>3, <2>1 DEF LastIs
  <2>2. CASE \E j \in 1..i - 1 : /\ fs[j].kind = name /\ fs[j].val = v
                                 /\ \A k \in 1..i - 1 : fs[k].kind = name => k <= j
    <3>1. PICK j \in 1..i - 1 : /\ fs[j].kind = name /\ fs[j].val = v
                                /\ \A k \in 1..i - 1 : fs[k].kind = name => k <= j
      BY <2>2
    <3>2. \A k \in 1..i : fs[k].kind = name => k <= j
      BY <1>1, <1>3, <3>1
    <3> QED
      BY <1>2, <3>1, <3>2 DEF LastIs
  <2> QED
    BY <1>3, <2>1, <2>2 DEF LastIs
<1>4. ASSUME fs[i].kind = name PROVE LastIs(fs, i, name, fs[i].val)
  <2>1. \A k \in 1..i : k <= i
    BY <1>1
  <2> QED
    BY <1>1, <1>4, <2>1 DEF LastIs
<1> QED
  BY <1>3, <1>4

LEMMA LastIsValue ==
    ASSUME NEW r \in Requests, NEW name, NEW v, LastIs(r.fields, Len(r.fields), name, v)
    PROVE  v = Value(r, name)
<1> DEFINE fs == r.fields
           n == Len(fs)
           at == {i \in 1..n : fs[i].kind = name}
<1>1. n \in Nat
  BY RequestIs, LenProperties
<1>2. Value(r, name) = IF at = {} THEN Absent ELSE fs[CHOOSE i \in at : \A j \in at : j <= i].val
  BY DEF Value
<1>3. CASE v = Absent /\ \A j \in 1..n : fs[j].kind # name
  <2>1. at = {}
    BY <1>3
  <2> HIDE DEF at
  <2> QED
    BY <1>2, <1>3, <2>1
<1>4. CASE \E j \in 1..n : /\ fs[j].kind = name /\ fs[j].val = v
                           /\ \A k \in 1..n : fs[k].kind = name => k <= j
  <2>1. PICK j \in 1..n : /\ fs[j].kind = name /\ fs[j].val = v
                          /\ \A k \in 1..n : fs[k].kind = name => k <= j
    BY <1>4
  <2>2. j \in at /\ (\A k \in at : k <= j) /\ \A k \in at : k \in Nat
    BY <1>1, <2>1
  <2> DEFINE m == CHOOSE i \in at : \A k \in at : k <= i
  <2> HIDE DEF at, n, fs
  <2>3. m \in at /\ \A k \in at : k <= m
    BY <2>2
  <2> HIDE DEF m
  <2>4. m = j
    BY <2>2, <2>3
  <2>5. at # {}
    BY <2>2
  <2> QED
    BY <1>2, <2>1, <2>4, <2>5 DEF m
<1> QED
  BY <1>3, <1>4 DEF LastIs

LEMMA HeadersAre ==
    ASSUME NEW r \in Requests, NEW p, HeadersRead(r, Len(r.fields), p)
    PROVE  /\ p.headers["Host"] = Value(r, "Host") /\ p.headers["TE"] = Value(r, "TE")
           /\ p.headers["CL"] = Value(r, "CL")
           /\ \A i \in 1..Len(r.fields) : r.fields[i].kind \in FieldNames
<1>1. "Host" \in FieldNames /\ "TE" \in FieldNames /\ "CL" \in FieldNames
  BY DEF FieldNames
<1>2. \A name \in FieldNames : p.headers[name] = Value(r, name)
  BY LastIsValue DEF HeadersRead
<1> QED
  BY <1>1, <1>2 DEF HeadersRead

-----------------------------------------------------------------------------
(* One turn of parse(), in each state.                                     *)
LEMMA StartReads ==
    ASSUME NEW r, NEW t, NEW n, Begins(r, t, n), NEW p, Good(p), Reads(r, t, n, p),
           p.state = "START_LINE", ~Waits(p)
    PROVE  Reads(r, t, n, ParseStartLine(p))
<1> DEFINE q == ParseStartLine(p)
           y == StartSymbol(r.fault)
<1>1. p \in Parser /\ CompleteLine(p.buffer)
  BY DEF Good, Waits
<1>2. StartLineSays(p, q)
  BY <1>1, StartLineFields
<1>3. /\ At(p, t, n, 0) /\ HeadersRead(r, 0, p) /\ p.err = FALSE /\ p.body = <<>>
  BY DEF Reads
<1>4. r \in Requests /\ t \in Seq(Symbol) /\ n \in 0..Len(t) /\ n \in Nat /\ 0 \in 0..n
      /\ Stands(t, 0, HeadText(r)) /\ HeadText(r) \in Seq(Symbol) /\ Len(r.fields) \in Nat
  BY BeginsWith
<1>5. y \in Symbol /\ y.kind = "start" /\ y.val = r.fault
  <2>1. y \in Symbol
    <3> DEFINE f == r.fault
    <3>1. f \in {0, 400, 505}
      BY <1>4, RequestIs
    <3> HIDE DEF f
    <3>2. StartSymbol(f) \in Symbol
      BY <3>1, SymbolsAre
    <3> QED
      BY <3>2 DEF f
  <2> QED
    BY <2>1 DEF StartSymbol
<1>6. Stands(t, 0, Written(y))
  <2>1. Stands(HeadText(r), 0, Written(y))
    BY <1>4, HeadStands
  <2>2. Written(y) \in Seq(Symbol)
    BY <1>5, LineWritten
  <2> HIDE DEF y
  <2> QED
    BY <1>4, <2>1, <2>2, Onward
<1> HIDE DEF q, y
<1>7. 3 <= n /\ Line(p.buffer) = <<y>> /\ Rest(p.buffer) = SubSeq(t, 3 + 1, n)
  <2>1. /\ CompleteLine(SubSeq(t, 0 + 1, n)) <=> 0 + 3 <= n
        /\ 0 + 3 <= n => /\ Line(SubSeq(t, 0 + 1, n)) = <<y>>
                         /\ Rest(SubSeq(t, 0 + 1, n)) = SubSeq(t, 0 + 3 + 1, n)
    BY <1>4, <1>5, <1>6, LineStands
  <2>2. p.buffer = SubSeq(t, 0 + 1, n) /\ 0 + 3 = 3
    BY <1>3 DEF At
  <2> QED
    BY <1>1, <2>1, <2>2
<1>8. Fault(Line(p.buffer)) = r.fault
  <2>1. Len(<<y>>) = 1 /\ <<y>>[1] = y
    OBVIOUS
  <2> QED
    BY <1>5, <1>7, <2>1 DEF Fault, Kind
<1>9. /\ q.state = "HEADERS" /\ q.buffer = SubSeq(t, 3 + 1, n)
      /\ q.headers = p.headers /\ q.body = <<>>
      /\ r.fault = 0 => q.err = FALSE
      /\ r.fault # 0 => q.err = TRUE
  BY <1>2, <1>3, <1>7, <1>8 DEF StartLineSays
<1>10. At(q, t, n, FieldAt(r, 0)) /\ HeadersRead(r, 0, q) /\ 0 \in 0..Len(r.fields)
  <2>1. FieldAt(r, 0) = 3
    BY <1>4, HeadStands
  <2>2. 3 \in 0..n
    BY <1>4, <1>7
  <2>3. At(q, t, n, FieldAt(r, 0))
    BY <1>9, <2>1, <2>2 DEF At
  <2>4. HeadersRead(r, 0, q)
    BY <1>3, <1>9, Zenon DEF HeadersRead
  <2> QED
    BY <1>4, <2>3, <2>4
<1>11. Reads(r, t, n, q)
  BY <1>9, <1>10 DEF Reads
<1> QED
  BY <1>11 DEF q

LEMMA HeaderReads ==
    ASSUME NEW r, NEW t, NEW n, Begins(r, t, n), NEW p, Good(p), Reads(r, t, n, p),
           p.state = "HEADERS", ~Waits(p)
    PROVE  Reads(r, t, n, ParseHeader(p))
<1> DEFINE q == ParseHeader(p)
           b == p.buffer
           m == Len(r.fields)
<1>1. p \in Parser /\ CompleteLine(b)
  BY DEF Good, Waits
<1>2. HeaderSays(p, q)
  BY <1>1, HeaderFields
<1>3. PICK i \in 0..m : At(p, t, n, FieldAt(r, i)) /\ HeadersRead(r, i, p)
  BY DEF Reads
<1>4. /\ p.body = <<>>
      /\ r.fault # 0 => p.err = TRUE
      /\ p.err = TRUE => r.fault # 0 \/ ~Readable(r)
  BY DEF Reads
<1>5. r \in Requests /\ t \in Seq(Symbol) /\ n \in 0..Len(t) /\ n \in Nat
      /\ Stands(t, 0, HeadText(r)) /\ HeadText(r) \in Seq(Symbol) /\ m \in Nat
  BY BeginsWith
<1>6. r.fields \in Seq(Symbol)
  BY <1>5, RequestIs
<1> DEFINE c == FieldAt(r, i)
<1>7. c \in 0..n /\ b = SubSeq(t, c + 1, n)
  BY <1>3 DEF At
<1> HIDE DEF q, b
<1>8. CASE i # m
  <2> DEFINE k == i + 1
             y == r.fields[k]
  <2>1. k \in 1..m /\ k - 1 = i
    BY <1>5, <1>8
  <2>2. y \in Symbol
    BY <1>6, <2>1, ElementOfSeq
  <2>3. FieldAt(r, k) = c + 3 /\ Stands(HeadText(r), c, Written(y))
    <3>1. /\ FieldAt(r, k) = FieldAt(r, k - 1) + 3
          /\ Stands(HeadText(r), FieldAt(r, k - 1), Written(r.fields[k]))
      BY <1>5, <2>1, HeadStands
    <3> QED
      BY <2>1, <3>1
  <2> HIDE DEF c, y, k, m
  <2>4. Stands(t, c, Written(y))
    BY <1>5, <2>2, <2>3, LineWritten, Onward
  <2>5. c + 3 <= n /\ Line(b) = <<y>> /\ Rest(b) = SubSeq(t, c + 3 + 1, n)
    <3>1. /\ CompleteLine(SubSeq(t, c + 1, n)) <=> c + 3 <= n
          /\ c + 3 <= n => /\ Line(SubSeq(t, c + 1, n)) = <<y>>
                           /\ Rest(SubSeq(t, c + 1, n)) = SubSeq(t, c + 3 + 1, n)
      BY <1>5, <1>7, <2>2, <2>4, LineStands
    <3> QED
      BY <1>1, <1>7, <3>1
  <2>6. Line(b) # <<>> /\ Kind(Line(b)) = y.kind /\ Line(b)[1] = y
    <3>1. Len(<<y>>) = 1 /\ <<y>>[1] = y /\ <<y>> # <<>>
      OBVIOUS
    <3> QED
      BY <2>5, <3>1 DEF Kind
  <2>7. CASE y.kind \in FieldNames
    <3>1. /\ q.state = "HEADERS" /\ q.err = p.err /\ q.body = p.body
          /\ q.headers = [p.headers EXCEPT ![y.kind] = y.val]
          /\ q.buffer = SubSeq(t, c + 3 + 1, n)
      BY <1>2, <2>5, <2>6, <2>7 DEF HeaderSays, b
    <3>2. At(q, t, n, FieldAt(r, k))
      <4>1. c + 3 \in 0..n
        BY <1>5, <1>7, <2>5
      <4> QED
        BY <2>3, <3>1, <4>1 DEF At
    <3>3. HeadersRead(r, k, q)
      <4>1. \A j \in 1..k : j = k \/ j \in 1..i
        BY <1>5, <2>1 DEF k
      <4>2. \A j \in 1..k : r.fields[j].kind \in FieldNames
        BY <1>3, <2>7, <4>1 DEF HeadersRead, y
      <4>3. ASSUME NEW name \in FieldNames PROVE LastIs(r.fields, k, name, q.headers[name])
        <5>1. LastIs(r.fields, k - 1, name, p.headers[name])
          BY <1>3, <2>1 DEF HeadersRead
        <5>2. k \in 1..Len(r.fields)
          BY <2>1 DEF m
        <5>3. DOMAIN p.headers = FieldNames
          BY <1>1 DEF Parser
        <5>4. CASE y.kind = name
          <6>1. q.headers[name] = y.val
            BY <3>1, <5>3, <5>4
          <6>2. LastIs(r.fields, k, name, r.fields[k].val)
            BY <1>6, <5>2, <5>4, LastNext DEF y
          <6> QED
            BY <6>1, <6>2 DEF y
        <5>5. CASE y.kind # name
          <6>1. q.headers[name] = p.headers[name]
            BY <3>1, <5>3, <5>5
          <6>2. LastIs(r.fields, k, name, p.headers[name])
            BY <1>6, <5>1, <5>2, <5>5, LastNext DEF y
          <6> QED
            BY <6>1, <6>2
        <5> QED
          BY <5>4, <5>5
      <4> QED
        BY <4>2, <4>3 DEF HeadersRead
    <3>4. k \in 0..Len(r.fields)
      BY <1>5, <2>1 DEF m
    <3>5. \E j \in 0..Len(r.fields) : At(q, t, n, FieldAt(r, j)) /\ HeadersRead(r, j, q)
      BY <3>2, <3>3, <3>4
    <3> QED
      BY <1>4, <3>1, <3>5 DEF Reads, q
  <2>8. CASE y.kind \notin FieldNames
    <3>1. Fails(p, q, 400)
      BY <1>2, <2>6, <2>8 DEF HeaderSays, b
    <3>2. ~Readable(r)
      BY <2>1, <2>8 DEF Readable, y, m
    <3> QED
      BY <3>1, <3>2 DEF Reads, Fails, q
  <2> QED
    BY <2>7, <2>8
<1>9. CASE i = m
  <2>1. c + 2 = Len(HeadText(r)) /\ Stands(HeadText(r), c, CRLF)
    BY <1>5, <1>9, HeadStands
  <2>2. CRLF \in Seq(Symbol)
    BY SymbolsAre, LineWritten
  <2> HIDE DEF c
  <2>3. Stands(t, c, CRLF)
    BY <1>5, <2>1, <2>2, Onward
  <2>4. c + 2 <= n /\ Line(b) = <<>> /\ Rest(b) = SubSeq(t, c + 2 + 1, n)
    <3>1. /\ CompleteLine(SubSeq(t, c + 1, n)) <=> c + 2 <= n
          /\ c + 2 <= n => /\ Line(SubSeq(t, c + 1, n)) = <<>>
                           /\ Rest(SubSeq(t, c + 1, n)) = SubSeq(t, c + 2 + 1, n)
      BY <1>5, <1>7, <2>3, EmptyLineStands
    <3> QED
      BY <1>1, <1>7, <3>1
  <2>5. HeadersRead(r, Len(r.fields), p)
    BY <1>3, <1>9
  <2>6. p.headers["Host"] = Value(r, "Host")
    BY <1>5, <2>5, HeadersAre
  <2>7. CASE p.headers["Host"] = Absent
    <3>1. Fails(p, q, 400)
      BY <1>2, <2>4, <2>7 DEF HeaderSays, b
    <3>2. ~Readable(r)
      BY <2>6, <2>7 DEF Readable
    <3> QED
      BY <3>1, <3>2 DEF Reads, Fails, q
  <2>8. CASE p.headers["Host"] # Absent
    <3>1. /\ q.state = "BODY" /\ q.err = p.err /\ q.headers = p.headers /\ q.body = p.body
          /\ q.buffer = SubSeq(t, c + 2 + 1, n)
      BY <1>2, <2>4, <2>8 DEF HeaderSays, b
    <3>2. c + 2 \in 0..n
      BY <1>5, <1>7, <2>4
    <3>3. At(q, t, n, Len(HeadText(r)))
      BY <2>1, <3>1, <3>2 DEF At
    <3>4. HeadersRead(r, Len(r.fields), q)
      BY <2>5, <3>1, Zenon DEF HeadersRead
    <3> QED
      BY <1>4, <2>8, <3>1, <3>3, <3>4 DEF Reads, q
  <2> QED
    BY <2>7, <2>8
<1> QED
  BY <1>8, <1>9

(* A piece of what stands somewhere is a piece of the text.                *)
LEMMA PieceStands ==
    ASSUME NEW t \in Seq(Symbol), NEW n \in 0..Len(t), NEW c \in 0..n, NEW v \in Seq(Symbol),
           Stands(t, c, v), NEW k \in 0..Len(v), c + k <= n
    PROVE  SubSeq(SubSeq(t, c + 1, n), 1, k) = SubSeq(v, 1, k)
<1> DEFINE b == SubSeq(t, c + 1, n)
           x == SubSeq(b, 1, k)
           y == SubSeq(v, 1, k)
<1>1. /\ b \in Seq(Symbol) /\ Len(b) = n - c /\ \A j \in 1..n - c : b[j] = t[c + j]
  BY ByteAhead
<1>2. Len(v) \in Nat /\ k \in Nat /\ n \in Nat /\ c \in Nat /\ k <= n - c /\ 0 \in 0..Len(v)
  BY LenProperties
<1> HIDE DEF b
<1>3. 0 \in 0..Len(b) /\ k \in 0..Len(b) /\ 0 + 1 = 1 /\ k - 0 = k
  BY <1>1, <1>2
<1>4. x \in Seq(Symbol) /\ Len(x) = k /\ \A j \in 1..k : x[j] = b[0 + j]
  <2>1. /\ SubSeq(b, 0 + 1, k) \in Seq(Symbol) /\ Len(SubSeq(b, 0 + 1, k)) = k - 0
        /\ \A j \in 1..k - 0 : SubSeq(b, 0 + 1, k)[j] = b[0 + j]
    BY <1>1, <1>3, Piece
  <2> QED
    BY <1>3, <2>1
<1>5. y \in Seq(Symbol) /\ Len(y) = k /\ \A j \in 1..k : y[j] = v[0 + j]
  <2>1. /\ SubSeq(v, 0 + 1, k) \in Seq(Symbol) /\ Len(SubSeq(v, 0 + 1, k)) = k - 0
        /\ \A j \in 1..k - 0 : SubSeq(v, 0 + 1, k)[j] = v[0 + j]
    BY <1>2, Piece
  <2> QED
    BY <1>3, <2>1
<1> HIDE DEF x, y
<1>6. \A j \in 1..k : x[j] = y[j]
  <2> SUFFICES ASSUME NEW j \in 1..k PROVE x[j] = y[j]
    OBVIOUS
  <2>1. 0 + j = j /\ j \in 1..n - c /\ j \in 1..Len(v)
    BY <1>2
  <2>2. t[c + j] = v[j]
    BY <2>1 DEF Stands
  <2> QED
    BY <1>1, <1>4, <1>5, <2>1, <2>2
<1>7. x = y
  BY <1>4, <1>5, <1>6, SeqEqual
<1> QED
  BY <1>7 DEF x, y, b

LEMMA BodyReads ==
    ASSUME NEW r, NEW t, NEW n, Begins(r, t, n), NEW p, Good(p), Reads(r, t, n, p),
           p.state = "BODY", ~Waits(p)
    PROVE  Reads(r, t, n, ParseBody(p))
<1> DEFINE q == ParseBody(p)
           b == p.buffer
           te == p.headers["TE"]
           cl == p.headers["CL"]
           c == Len(HeadText(r))
           l == BodyLength(p)
<1>1. p \in Parser /\ (te = Absent /\ cl >= 0 => ~(Len(b) < cl))
  BY DEF Good, Waits
<1>2. /\ At(p, t, n, c) /\ HeadersRead(r, Len(r.fields), p)
      /\ p.headers["Host"] # Absent /\ p.body = <<>>
      /\ r.fault # 0 => p.err = TRUE
      /\ p.err = TRUE => r.fault # 0 \/ ~Readable(r)
  BY DEF Reads
<1>3. r \in Requests /\ r \in WrittenRequests /\ t \in Seq(Symbol) /\ n \in 0..Len(t) /\ n \in Nat
      /\ Stands(t, 0, TextOf(r)) /\ TextOf(r) \in Seq(Symbol)
  BY BeginsWith DEF Begins
<1>4. /\ te = Value(r, "TE") /\ cl = Value(r, "CL") /\ Value(r, "Host") # Absent
      /\ \A i \in 1..Len(r.fields) : r.fields[i].kind \in FieldNames
  BY <1>2, <1>3, HeadersAre
<1>5. te \in Number \union {Absent} /\ cl \in Number \union {Absent}
  BY <1>1, HeaderValues
<1>6. c \in 0..n /\ b = SubSeq(t, c + 1, n) /\ b \in Seq(Symbol) /\ Len(b) = n - c
  <2>1. c \in 0..n /\ b = SubSeq(t, c + 1, n)
    BY <1>2 DEF At
  <2>2. SubSeq(t, c + 1, n) \in Seq(Symbol) /\ Len(SubSeq(t, c + 1, n)) = n - c
    BY <1>3, <2>1, ByteAhead
  <2> QED
    BY <2>1, <2>2
<1>7. CASE te # Absent /\ cl # Absent
  <2>1. BodySays(p, q)
    BY <1>1, <1>7, BodyFields
  <2> HIDE DEF q
  <2>2. Fails(p, q, 400)
    BY <1>7, <2>1 DEF BodySays
  <2>3. ~Readable(r)
    BY <1>4, <1>7 DEF Readable, Absent, NotANumber
  <2> QED
    BY <2>2, <2>3 DEF Reads, Fails, q
<1>8. CASE te \notin {Chunked, Absent} /\ cl = Absent
  <2>1. BodySays(p, q)
    BY <1>1, <1>8, BodyFields
  <2> HIDE DEF q
  <2>2. Fails(p, q, 501)
    BY <1>8, <2>1 DEF BodySays
  <2>3. ~Readable(r)
    BY <1>4, <1>8 DEF Readable
  <2> QED
    BY <2>2, <2>3 DEF Reads, Fails, q
<1>9. CASE te = Chunked /\ cl = Absent
  <2>1. BodySays(p, q)
    <3>1. te # Absent
      BY <1>9 DEF Chunked, Absent
    <3> QED
      BY <1>1, <3>1, BodyFields
  <2> HIDE DEF q
  <2>2. q.state = "CHUNK_SIZE" /\ q.err = p.err /\ q.body = p.body /\ q.buffer = p.buffer
    BY <1>9, <2>1 DEF BodySays
  <2>3. InChunks(r)
    BY <1>4, <1>9 DEF InChunks, Readable
  <2>4. ChunkAt(r, 0) = c
    <3>1. ChunkPlaces(r)
      BY <1>3, <2>3, TextStands DEF InChunks
    <3> QED
      BY <3>1 DEF ChunkPlaces
  <2>5. At(q, t, n, ChunkAt(r, 0))
    BY <1>2, <2>2, <2>4 DEF At
  <2>6. ChunksRead(r, 0, q)
    <3>1. Upto(r.chunks, 0) = <<>>
      BY <1>3, RequestIs, UptoEnds
    <3> QED
      BY <1>2, <2>2, <3>1 DEF ChunksRead
  <2>7. 0 \in 0..Len(r.chunks)
    BY BeginsWith
  <2> QED
    BY <1>2, <2>2, <2>3, <2>5, <2>6, <2>7 DEF Reads, q
<1>10. CASE te = Absent /\ cl = NotANumber
  <2>1. BodySays(p, q)
    <3>1. l = NotANumber
      BY <1>10 DEF BodyLength, Absent, NotANumber
    <3> QED
      BY <1>1, <3>1, BodyFields
  <2> HIDE DEF q
  <2>2. Fails(p, q, 400)
    BY <1>10, <2>1 DEF BodySays
  <2>3. ~Readable(r)
    BY <1>4, <1>10 DEF Readable, Absent, Chunked, NotANumber
  <2> QED
    BY <2>2, <2>3 DEF Reads, Fails, q
<1>11. CASE te = Absent /\ cl # NotANumber
  <2>1. l \in Nat /\ l <= Len(b) /\ l = Length(r)
    <3>1. cl \in Nat \/ cl = Absent
      BY <1>5, <1>11 DEF Number
    <3>2. l = Length(r)
      BY <1>4 DEF BodyLength, Length
    <3>3. CASE cl = Absent
      BY <1>6, <3>2, <3>3, LenProperties DEF BodyLength
    <3>4. CASE cl \in Nat
      <4>1. cl # Absent /\ cl >= 0
        BY <3>4 DEF Absent
      <4>2. l = cl
        BY <4>1 DEF BodyLength
      <4> QED
        BY <1>1, <1>6, <1>11, <3>2, <3>4, <4>1, <4>2, LenProperties
    <3> QED
      BY <3>1, <3>3, <3>4
  <2>2. BodySays(p, q)
    <3>1. l \in 0..Len(p.buffer)
      BY <1>6, <2>1, LenProperties
    <3> QED
      BY <1>1, <3>1, BodyFields
  <2> HIDE DEF q
  <2>3. q.state = "COMPLETE" /\ q.err = p.err /\ q.body = p.body \o SubSeq(p.buffer, 1, l)
    BY <1>11, <2>2 DEF BodySays
  <2>4. Readable(r) /\ Value(r, "TE") # Chunked
    BY <1>4, <1>11 DEF Readable, Absent, Chunked
  <2>5. Payload(r) \in Seq(Symbol) /\ Stands(TextOf(r), c, Payload(r)) /\ Len(Payload(r)) \in Nat
    <3>1. Payload(r) \in Seq(Symbol) /\ Stands(TextOf(r), c, Payload(r))
      BY <1>3, <2>4, RequestIs, TextStands
    <3> QED
      BY <3>1, LenProperties
  <2>6. Stands(t, c, Payload(r))
    <3> HIDE DEF c
    <3> QED
      BY <1>3, <2>5, Onward
  <2>7. l <= Len(Payload(r))
    BY <1>3, <2>1, <2>4 DEF WrittenRequests
  <2>8. c + l <= n
    BY <1>3, <1>6, <2>1
  <2> HIDE DEF l, c, b
  <2>9. SubSeq(b, 1, l) = SubSeq(Payload(r), 1, l)
    <3>1. l \in 0..Len(Payload(r))
      BY <2>1, <2>5, <2>7
    <3> QED
      BY <1>3, <1>6, <2>5, <2>6, <2>8, <3>1, PieceStands
  <2>10. q.body = SubSeq(Payload(r), 1, l)
    <3> DEFINE x == SubSeq(b, 1, l)
    <3>1. x \in Seq(Symbol)
      <4>1. l \in 0..Len(b)
        BY <1>6, <2>1, LenProperties
      <4> QED
        BY <1>6, <4>1, Cut
    <3> HIDE DEF x
    <3>2. <<>> \o x = x
      BY <3>1, ConcatEmptySeq
    <3>3. q.body = <<>> \o x
      BY <1>2, <2>3 DEF x, b
    <3> QED
      BY <2>9, <3>2, <3>3 DEF x
  <2>11. q.body = BodyOf(r)
    BY <2>1, <2>4, <2>10 DEF BodyOf
  <2>12. End(r) <= n
    BY <2>1, <2>4, <2>8 DEF End, c
  <2> QED
    BY <1>2, <2>3, <2>4, <2>11, <2>12 DEF Reads, q
<1> QED
  BY <1>7, <1>8, <1>9, <1>10, <1>11

(* A request in chunks: where each of them is, and what it is.             *)
LEMMA InChunksIs ==
    ASSUME NEW r, NEW t, NEW n, Begins(r, t, n), InChunks(r)
    PROVE  /\ ChunkPlaces(r) /\ Len(r.chunks) \in Nat
           /\ \A i \in 1..Len(r.chunks) :
                 /\ r.chunks[i] \in Seq(Symbol) /\ r.chunks[i] # <<>>
                 /\ Len(r.chunks[i]) \in Nat /\ Len(r.chunks[i]) # 0
           /\ r.chunks \in Seq(Seq(Symbol))
           /\ BodyOf(r) = Payload(r) /\ End(r) = Len(TextOf(r)) /\ Readable(r)
<1>1. r \in Requests /\ Len(r.chunks) \in Nat
  BY BeginsWith
<1>2. ChunkPlaces(r)
  BY <1>1, TextStands DEF InChunks
<1>3. r.chunks \in Seq(Seq(Symbol)) /\ \A i \in 1..Len(r.chunks) : r.chunks[i] # <<>>
  BY <1>1, RequestIs
<1>4. \A i \in 1..Len(r.chunks) : r.chunks[i] \in Seq(Symbol)
  BY <1>1, ChunksAre
<1>5. ASSUME NEW x \in Seq(Symbol), x # <<>> PROVE Len(x) \in Nat /\ Len(x) # 0
  BY <1>5, LenProperties, EmptySeq
<1>6. BodyOf(r) = Payload(r) /\ End(r) = Len(TextOf(r)) /\ Readable(r)
  BY DEF InChunks, BodyOf, End
<1> QED
  BY <1>1, <1>2, <1>3, <1>4, <1>5, <1>6

(* A line that says a size, read where it stands.                          *)
LEMMA SizeStands ==
    ASSUME NEW t \in Seq(Symbol), NEW n \in 0..Len(t), NEW c \in 0..n, NEW l \in Nat,
           Stands(t, c, Written(SizeSymbol(l)))
    PROVE  LET b == SubSeq(t, c + 1, n)
           IN  /\ CompleteLine(b) <=> c + 3 <= n
               /\ c + 3 <= n => /\ Kind(Line(b)) = "size" /\ Line(b)[1].val = l
                                /\ Rest(b) = SubSeq(t, c + 3 + 1, n)
<1> DEFINE y == SizeSymbol(l)
           b == SubSeq(t, c + 1, n)
<1>1. y \in Symbol /\ y.kind = "size" /\ y.val = l
  <2>1. y \in Symbol
    BY SymbolsAre, Zenon
  <2> QED
    BY <2>1 DEF SizeSymbol
<1> HIDE DEF y
<1>2. /\ CompleteLine(b) <=> c + 3 <= n
      /\ c + 3 <= n => Line(b) = <<y>> /\ Rest(b) = SubSeq(t, c + 3 + 1, n)
  BY <1>1, LineStands DEF y
<1> HIDE DEF b
<1>3. Len(<<y>>) = 1 /\ <<y>>[1] = y
  OBVIOUS
<1>4. c + 3 <= n => Kind(Line(b)) = "size" /\ Line(b)[1].val = l
  BY <1>1, <1>2, <1>3 DEF Kind
<1> QED
  BY <1>2, <1>4 DEF b

LEMMA ChunkSizeReads ==
    ASSUME NEW r, NEW t, NEW n, Begins(r, t, n), NEW p, Good(p), Reads(r, t, n, p),
           p.state = "CHUNK_SIZE", ~Waits(p)
    PROVE  Reads(r, t, n, ParseChunkSize(p))
<1> DEFINE q == ParseChunkSize(p)
           b == p.buffer
           m == Len(r.chunks)
<1>1. p \in Parser /\ CompleteLine(b)
  BY DEF Good, Waits
<1>2. ChunkSizeSays(p, q)
  BY <1>1, ChunkSizeFields
<1>3. InChunks(r) /\ (r.fault # 0 => p.err = TRUE) /\ (p.err = TRUE => r.fault # 0 \/ ~Readable(r))
  BY DEF Reads
<1>4. PICK i \in 0..m : At(p, t, n, ChunkAt(r, i)) /\ ChunksRead(r, i, p)
  BY DEF Reads
<1>5. /\ t \in Seq(Symbol) /\ n \in 0..Len(t) /\ n \in Nat
      /\ Stands(t, 0, TextOf(r)) /\ TextOf(r) \in Seq(Symbol)
  BY BeginsWith
<1>6. /\ ChunkPlaces(r) /\ m \in Nat
      /\ \A j \in 1..m : Len(r.chunks[j]) \in Nat /\ Len(r.chunks[j]) # 0
  BY <1>3, InChunksIs
<1> DEFINE c == ChunkAt(r, i)
           l == IF i = m THEN 0 ELSE Len(r.chunks[i + 1])
<1>7. c \in 0..n /\ b = SubSeq(t, c + 1, n)
  BY <1>4 DEF At
<1>8. i # m => i + 1 \in 1..m /\ (i + 1) - 1 = i
  BY <1>6
<1>9. l \in Nat /\ (l = 0 <=> i = m)
  BY <1>6, <1>8
<1>10. Stands(TextOf(r), c, Written(SizeSymbol(l)))
  <2>1. CASE i = m
    BY <1>6, <2>1 DEF ChunkPlaces
  <2>2. CASE i # m
    <3> DEFINE k == i + 1
    <3>1. k \in 1..m /\ k - 1 = i
      BY <1>8, <2>2
    <3>2. Stands(TextOf(r), ChunkAt(r, k - 1), Written(SizeSymbol(Len(r.chunks[k]))))
      BY <1>6, <3>1 DEF ChunkPlaces
    <3> QED
      BY <2>2, <3>1, <3>2
  <2> QED
    BY <2>1, <2>2
<1> HIDE DEF q, b, l, m
<1>11. Stands(t, c, Written(SizeSymbol(l)))
  <2> HIDE DEF c
  <2>1. Written(SizeSymbol(l)) \in Seq(Symbol)
    BY <1>9, SymbolsAre, LineWritten
  <2> QED
    BY <1>5, <1>10, <2>1, Onward
<1>12. c + 3 <= n /\ Kind(Line(b)) = "size" /\ Line(b)[1].val = l
       /\ Rest(b) = SubSeq(t, c + 3 + 1, n)
  <2> HIDE DEF c
  <2>1. /\ CompleteLine(SubSeq(t, c + 1, n)) <=> c + 3 <= n
        /\ c + 3 <= n => /\ Kind(Line(SubSeq(t, c + 1, n))) = "size"
                         /\ Line(SubSeq(t, c + 1, n))[1].val = l
                         /\ Rest(SubSeq(t, c + 1, n)) = SubSeq(t, c + 3 + 1, n)
    BY <1>5, <1>7, <1>9, <1>11, SizeStands
  <2> QED
    BY <1>1, <1>7, <2>1
<1>13. /\ q.buffer = SubSeq(t, c + 3 + 1, n) /\ q.err = p.err /\ q.body = p.body /\ q.chunk = l
       /\ q.state = (IF l = 0 THEN "FINAL_CRLF" ELSE "CHUNK_DATA")
  <2>1. l # NotANumber
    BY <1>9 DEF NotANumber
  <2> QED
    BY <1>2, <1>12, <2>1 DEF ChunkSizeSays, b
<1>14. At(q, t, n, c + 3) /\ ChunksRead(r, i, q)
  <2>1. c + 3 \in 0..n
    BY <1>5, <1>7, <1>12
  <2> QED
    BY <1>4, <1>13, <2>1 DEF At, ChunksRead
<1>15. CASE i = m
  <2>1. q.state = "FINAL_CRLF"
    BY <1>9, <1>13, <1>15
  <2> QED
    BY <1>3, <1>13, <1>14, <1>15, <2>1 DEF Reads, q, m
<1>16. CASE i # m
  <2> DEFINE k == i + 1
  <2>1. k \in 1..m /\ k - 1 = i
    BY <1>8, <1>16
  <2>2. q.state = "CHUNK_DATA" /\ q.chunk = Len(r.chunks[k])
    BY <1>9, <1>13, <1>16 DEF l
  <2> HIDE DEF k
  <2>3. \E j \in 1..Len(r.chunks) :
           /\ At(q, t, n, ChunkAt(r, j - 1) + 3) /\ ChunksRead(r, j - 1, q)
           /\ q.chunk = Len(r.chunks[j])
    BY <1>14, <2>1, <2>2 DEF m
  <2> QED
    BY <1>3, <1>13, <2>2, <2>3 DEF Reads, q
<1> QED
  BY <1>15, <1>16

LEMMA ChunkDataReads ==
    ASSUME NEW r, NEW t, NEW n, Begins(r, t, n), NEW p, Good(p), Reads(r, t, n, p),
           p.state = "CHUNK_DATA", ~Waits(p)
    PROVE  Reads(r, t, n, ParseChunkData(p))
<1> DEFINE q == ParseChunkData(p)
           b == p.buffer
<1>1. p \in Parser /\ p.chunk \in Nat /\ ~(Len(b) < p.chunk + 2)
  BY DEF Good, Waits
<1>2. InChunks(r) /\ (r.fault # 0 => p.err = TRUE) /\ (p.err = TRUE => r.fault # 0 \/ ~Readable(r))
  BY DEF Reads
<1>3. PICK i \in 1..Len(r.chunks) :
         /\ At(p, t, n, ChunkAt(r, i - 1) + 3) /\ ChunksRead(r, i - 1, p)
         /\ p.chunk = Len(r.chunks[i])
  BY DEF Reads
<1>4. /\ t \in Seq(Symbol) /\ n \in 0..Len(t) /\ n \in Nat
      /\ Stands(t, 0, TextOf(r)) /\ TextOf(r) \in Seq(Symbol)
  BY BeginsWith
<1> DEFINE x == r.chunks[i]
           l == Len(x)
           a == ChunkAt(r, i - 1)
           c == a + 3
<1>5. x \in Seq(Symbol) /\ l \in Nat /\ r.chunks \in Seq(Seq(Symbol)) /\ Len(r.chunks) \in Nat
  BY <1>2, InChunksIs
<1>6. /\ a \in Nat /\ ChunkAt(r, i) = a + 3 + l + 2
      /\ Stands(TextOf(r), c, x) /\ Stands(TextOf(r), c + l, CRLF)
  <2>1. ChunkPlaces(r)
    BY <1>2, InChunksIs
  <2> QED
    BY <2>1 DEF ChunkPlaces
<1>7. c \in 0..n /\ b = SubSeq(t, c + 1, n) /\ p.chunk = l
  BY <1>3 DEF At
<1> HIDE DEF q, b, a, l, x
<1>8. Stands(t, c, x) /\ Stands(t, c + l, CRLF)
  <2> HIDE DEF c
  <2>1. CRLF \in Seq(Symbol)
    BY SymbolsAre, LineWritten
  <2> QED
    BY <1>4, <1>5, <1>6, <2>1, Onward
<1> DEFINE e == c + l + 2
<1>9. /\ Len(b) = n - c /\ \A k \in 1..n - c : b[k] = t[c + k]
      /\ \A d \in 0..n - c : SubSeq(b, d + 1, Len(b)) = SubSeq(t, c + d + 1, n)
  <2> HIDE DEF c
  <2> QED
    BY <1>4, <1>7, ByteAhead
<1>10. e <= n /\ e \in 0..n /\ l + 2 \in 0..n - c /\ ChunkAt(r, i) = e /\ c \in Nat
  BY <1>1, <1>4, <1>5, <1>6, <1>7, <1>9
<1>11. Terminated(p)
  <2>1. /\ Len(CRLF) = 2 /\ CRLF[1] = CR /\ CRLF[2] = LF
    BY SymbolsAre, LineWritten
  <2>2. 1 \in 1..Len(CRLF) /\ 2 \in 1..Len(CRLF)
    BY <2>1
  <2>3. t[c + l + 1] = CR /\ t[c + l + 2] = LF
    BY <1>8, <2>1, <2>2 DEF Stands
  <2>4. l + 1 \in 1..n - c /\ l + 2 \in 1..n - c
    BY <1>4, <1>5, <1>10
  <2>5. b[l + 1] = t[c + (l + 1)] /\ b[l + 2] = t[c + (l + 2)]
    BY <1>9, <2>4
  <2>6. c + (l + 1) = c + l + 1 /\ c + (l + 2) = c + l + 2
    BY <1>5, <1>10
  <2> QED
    BY <1>7, <2>3, <2>5, <2>6 DEF Terminated, b
<1>12. /\ q.state = "CHUNK_SIZE" /\ q.err = p.err
       /\ q.body = p.body \o SubSeq(b, 1, l) /\ q.buffer = SubSeq(b, l + 3, Len(b))
  <2>1. p.chunk + 2 <= Len(p.buffer)
    <3>1. l + 2 <= Len(b)
      BY <1>4, <1>9, <1>10
    <3> QED
      BY <1>7, <3>1 DEF b
  <2>2. ChunkDataSays(p, q)
    BY <1>1, <2>1, ChunkDataFields DEF q
  <2> QED
    BY <1>7, <1>11, <2>2 DEF ChunkDataSays, b
<1>13. At(q, t, n, ChunkAt(r, i))
  <2>1. SubSeq(b, (l + 2) + 1, Len(b)) = SubSeq(t, c + (l + 2) + 1, n)
    BY <1>9, <1>10
  <2>2. (l + 2) + 1 = l + 3 /\ c + (l + 2) + 1 = e + 1
    BY <1>5, <1>10
  <2>3. q.buffer = SubSeq(t, e + 1, n)
    BY <1>12, <2>1, <2>2
  <2> HIDE DEF e
  <2> QED
    BY <1>10, <2>3 DEF At
<1>14. ChunksRead(r, i, q)
  <2>1. SubSeq(b, 1, l) = SubSeq(x, 1, l)
    <3>1. l \in 0..Len(x) /\ c + l <= n
      BY <1>4, <1>5, <1>10 DEF l
    <3> HIDE DEF c
    <3> QED
      BY <1>4, <1>5, <1>7, <1>8, <3>1, PieceStands
  <2>2. SubSeq(x, 1, l) = x
    BY <1>5, SubSeqFull DEF l
  <2>3. Upto(r.chunks, i) = Upto(r.chunks, i - 1) \o x
    BY <1>5, UptoNext DEF x
  <2> QED
    BY <1>3, <1>12, <2>1, <2>2, <2>3 DEF ChunksRead
<1>15. i \in 0..Len(r.chunks)
  BY <1>5
<1>16. \E k \in 0..Len(r.chunks) : At(q, t, n, ChunkAt(r, k)) /\ ChunksRead(r, k, q)
  BY <1>13, <1>14, <1>15
<1> QED
  BY <1>2, <1>12, <1>16 DEF Reads, q

LEMMA FinalReads ==
    ASSUME NEW r, NEW t, NEW n, Begins(r, t, n), NEW p, Good(p), Reads(r, t, n, p),
           p.state = "FINAL_CRLF", ~Waits(p)
    PROVE  Reads(r, t, n, ParseChunkFinalCRLF(p))
<1> DEFINE q == ParseChunkFinalCRLF(p)
           b == p.buffer
           m == Len(r.chunks)
           a == ChunkAt(r, m)
           c == a + 3
<1>1. p \in Parser /\ CompleteLine(b)
  BY DEF Good, Waits
<1>2. FinalSays(p, q)
  BY <1>1, FinalFields
<1>3. /\ InChunks(r) /\ (r.fault # 0 => p.err = TRUE) /\ (p.err = TRUE => r.fault # 0 \/ ~Readable(r))
      /\ At(p, t, n, c) /\ ChunksRead(r, m, p)
  BY DEF Reads
<1>4. /\ t \in Seq(Symbol) /\ n \in 0..Len(t) /\ n \in Nat
      /\ Stands(t, 0, TextOf(r)) /\ TextOf(r) \in Seq(Symbol)
  BY BeginsWith
<1>5. /\ a \in Nat /\ a + 5 = Len(TextOf(r)) /\ Stands(TextOf(r), c, CRLF)
  <2>1. ChunkPlaces(r)
    BY <1>3, InChunksIs
  <2> QED
    BY <2>1 DEF ChunkPlaces
<1>6. BodyOf(r) = Payload(r) /\ End(r) = Len(TextOf(r)) /\ Readable(r)
      /\ r.chunks \in Seq(Seq(Symbol))
  BY <1>3, InChunksIs
<1>7. c \in 0..n /\ b = SubSeq(t, c + 1, n)
  BY <1>3 DEF At
<1> HIDE DEF q, b, a
<1>8. Stands(t, c, CRLF)
  <2> HIDE DEF c
  <2>1. CRLF \in Seq(Symbol)
    BY SymbolsAre, LineWritten
  <2> QED
    BY <1>4, <1>5, <2>1, Onward
<1>9. c + 2 <= n /\ Line(b) = <<>>
  <2> HIDE DEF c
  <2>1. /\ CompleteLine(SubSeq(t, c + 1, n)) <=> c + 2 <= n
        /\ c + 2 <= n => Line(SubSeq(t, c + 1, n)) = <<>>
    BY <1>4, <1>7, <1>8, EmptyLineStands
  <2> QED
    BY <1>1, <1>7, <2>1
<1>10. End(r) <= n
  BY <1>4, <1>5, <1>6, <1>9
<1>11. q.state = "COMPLETE" /\ q.err = p.err /\ q.body = p.body
  BY <1>2, <1>9 DEF FinalSays, b
<1>12. q.body = BodyOf(r)
  <2>1. Upto(r.chunks, Len(r.chunks)) = FlattenSeq(r.chunks)
    BY <1>6, UptoEnds
  <2> QED
    BY <1>3, <1>6, <1>11, <2>1 DEF ChunksRead, Payload
<1> QED
  BY <1>3, <1>6, <1>10, <1>11, <1>12 DEF Reads, q

LEMMA DispatchReads ==
    ASSUME NEW r, NEW t, NEW n, Begins(r, t, n), NEW p, Good(p), Reads(r, t, n, p),
           ~Final(p), ~Waits(p)
    PROVE  Reads(r, t, n, Dispatch(p))
<1>1. p.state \in State \ {"COMPLETE", "ERROR"}
  BY DEF Final, Good, Parser
<1>2. CASE p.state = "START_LINE"
  <2>1. Dispatch(p) = ParseStartLine(p)
    BY <1>2 DEF Dispatch
  <2> QED
    BY <1>2, <2>1, StartReads
<1>3. CASE p.state = "HEADERS"
  <2>1. Dispatch(p) = ParseHeader(p)
    BY <1>3 DEF Dispatch
  <2> QED
    BY <1>3, <2>1, HeaderReads
<1>4. CASE p.state = "BODY"
  <2>1. Dispatch(p) = ParseBody(p)
    BY <1>4 DEF Dispatch
  <2> QED
    BY <1>4, <2>1, BodyReads
<1>5. CASE p.state = "CHUNK_SIZE"
  <2>1. Dispatch(p) = ParseChunkSize(p)
    BY <1>5 DEF Dispatch
  <2> QED
    BY <1>5, <2>1, ChunkSizeReads
<1>6. CASE p.state = "CHUNK_DATA"
  <2>1. Dispatch(p) = ParseChunkData(p)
    BY <1>6 DEF Dispatch
  <2> QED
    BY <1>6, <2>1, ChunkDataReads
<1>7. CASE p.state = "FINAL_CRLF"
  <2>1. Dispatch(p) = ParseChunkFinalCRLF(p)
    BY <1>7 DEF Dispatch
  <2> QED
    BY <1>7, <2>1, FinalReads
<1> QED
  BY <1>1, <1>2, <1>3, <1>4, <1>5, <1>6, <1>7 DEF State

LEMMA AtMore ==
    ASSUME NEW t \in Seq(Symbol), NEW n \in 0..Len(t), NEW m \in n..Len(t), NEW p, NEW q, NEW c,
           At(p, t, n, c), q.buffer = p.buffer \o SubSeq(t, n + 1, m)
    PROVE  At(q, t, m, c)
<1>1. c \in 0..n /\ p.buffer = SubSeq(t, c + 1, n)
  BY DEF At
<1>2. /\ c + 1 \in 1..Len(t) + 1 /\ n \in (c + 1) - 1..Len(t)
      /\ m \in n..Len(t) /\ c \in 0..m
  BY <1>1, LenProperties
<1>3. SubSeq(t, c + 1, n) \o SubSeq(t, n + 1, m) = SubSeq(t, c + 1, m)
  BY <1>2, ConcatAdjacentSubSeq
<1> QED
  BY <1>1, <1>2, <1>3 DEF At

(* The largest of some numbers that have a bound.                          *)
LEMMA LargestIndex ==
    ASSUME NEW n \in Nat, NEW S \in SUBSET (1..n), S # {}
    PROVE  \E i \in S : \A j \in S : j <= i
<1> DEFINE U == {k \in Nat : \A j \in S : j <= k}
<1>1. U \in SUBSET Nat /\ n \in U
  OBVIOUS
<1>2. PICK m \in U : \A k \in U : m <= k
  <2> HIDE DEF U
  <2> QED
    BY <1>1, SmallestNumber
<1>3. m \in Nat /\ \A j \in S : j \in Nat /\ 1 <= j /\ j <= m
  OBVIOUS
<1>4. m \in S
  <2> SUFFICES ASSUME m \notin S PROVE FALSE
    OBVIOUS
  <2>1. \A j \in S : j <= m - 1
    BY <1>3
  <2>2. m - 1 \in Nat
    <3>1. PICK j \in S : TRUE
      OBVIOUS
    <3>2. 1 <= j /\ j <= m /\ j \in Nat
      BY <1>3, <3>1
    <3> QED
      BY <1>3, <3>2
  <2>3. m - 1 \in U
    BY <2>1, <2>2
  <2> QED
    BY <1>2, <1>3, <2>3
<1> QED
  BY <1>3, <1>4

LEMMA ValueIs ==
    ASSUME NEW r \in Requests, NEW name \in FieldNames
    PROVE  Value(r, name) \in Number \union {Absent}
<1> DEFINE fs == r.fields
           n == Len(fs)
           at == {i \in 1..n : fs[i].kind = name}
           m == CHOOSE i \in at : \A j \in at : j <= i
<1>1. fs \in Seq(Symbol) /\ n \in Nat
  BY RequestIs, LenProperties
<1>2. Value(r, name) = IF at = {} THEN Absent ELSE fs[m].val
  BY DEF Value
<1>3. CASE at # {}
  <2>1. \E i \in at : \A j \in at : j <= i
    <3>1. at \in SUBSET (1..n)
      OBVIOUS
    <3> HIDE DEF at, n
    <3> QED
      BY <1>1, <1>3, <3>1, LargestIndex
  <2>2. m \in at
    <3> HIDE DEF at
    <3> QED
      BY <2>1
  <2> HIDE DEF m
  <2>3. m \in 1..n /\ fs[m].kind = name
    BY <2>2
  <2> DEFINE y == fs[m]
  <2>4. y \in Symbol /\ y.kind = name
    BY <1>1, <2>3, ElementOfSeq
  <2> HIDE DEF y
  <2>5. y.val \in Number
    BY <2>4 DEF Symbol, FieldNames
  <2> HIDE DEF at
  <2> QED
    BY <1>2, <1>3, <2>5 DEF y
<1>4. CASE at = {}
  <2> HIDE DEF at
  <2> QED
    BY <1>2, <1>4
<1> QED
  BY <1>3, <1>4

(* Where a request ends that can be read.                                  *)
LEMMA EndIs ==
    ASSUME NEW r \in Requests, Readable(r)
    PROVE  End(r) \in Nat
<1>1. TextOf(r) \in Seq(Symbol) /\ HeadText(r) \in Seq(Symbol)
  BY TextStands, HeadStands
<1>2. Len(TextOf(r)) \in Nat /\ Len(HeadText(r)) \in Nat
  BY <1>1, LenProperties
<1>3. Value(r, "TE") # Chunked => Length(r) \in Nat
  <2>1. Value(r, "CL") \in Number \union {Absent}
    BY ValueIs DEF FieldNames
  <2>2. Value(r, "TE") # Chunked => Value(r, "CL") # NotANumber
    BY DEF Readable
  <2> QED
    BY <2>1, <2>2 DEF Length, Number
<1> QED
  BY <1>2, <1>3 DEF End

(* More of the text comes: the parser knows what it knew.                  *)
LEMMA MoreReads ==
    ASSUME NEW r, NEW t, NEW n, Begins(r, t, n), NEW m \in n..Len(t),
           NEW p \in Parser, Reads(r, t, n, p)
    PROVE  Reads(r, t, m, With(p, SubSeq(t, n + 1, m)))
<1> DEFINE x == SubSeq(t, n + 1, m)
           q == With(p, x)
<1>1. t \in Seq(Symbol) /\ n \in 0..Len(t) /\ n \in Nat /\ m \in Nat /\ n <= m
  BY BeginsWith
<1>2. x \in Seq(Symbol)
  BY <1>1, Piece
<1>3. Agree(q, p) /\ q.buffer = p.buffer \o x
  BY <1>2, WithFields
<1> HIDE DEF q
<1>4. ASSUME NEW c, At(p, t, n, c) PROVE At(q, t, m, c)
  BY <1>1, <1>3, <1>4, AtMore
<1>5. /\ q.state = p.state /\ q.err = p.err /\ q.chunk = p.chunk
      /\ q.headers = p.headers /\ q.body = p.body
  BY <1>3 DEF Agree
<1>6. ASSUME NEW i, HeadersRead(r, i, p) PROVE HeadersRead(r, i, q)
  BY <1>5, <1>6, Zenon DEF HeadersRead
<1>7. ASSUME NEW i, ChunksRead(r, i, p) PROVE ChunksRead(r, i, q)
  BY <1>5, <1>7 DEF ChunksRead
<1>8. ASSUME Readable(r), End(r) <= n PROVE End(r) <= m
  <2>1. End(r) \in Nat
    BY <1>8, BeginsWith, EndIs
  <2> QED
    BY <1>1, <1>8, <2>1
<1>9. Reads(r, t, m, q)
  <2>1. CASE p.state = "START_LINE"
    BY <1>4, <1>5, <1>6, <2>1 DEF Reads
  <2>2. CASE p.state = "HEADERS"
    BY <1>4, <1>5, <1>6, <2>2 DEF Reads
  <2>3. CASE p.state = "BODY"
    BY <1>4, <1>5, <1>6, <2>3 DEF Reads
  <2>4. CASE p.state = "CHUNK_SIZE"
    BY <1>4, <1>5, <1>7, <2>4 DEF Reads
  <2>5. CASE p.state = "CHUNK_DATA"
    BY <1>4, <1>5, <1>7, <2>5 DEF Reads
  <2>6. CASE p.state = "FINAL_CRLF"
    BY <1>4, <1>5, <1>7, <2>6 DEF Reads
  <2>7. CASE p.state = "COMPLETE"
    BY <1>5, <1>8, <2>7 DEF Reads
  <2>8. CASE p.state = "ERROR"
    BY <1>5, <2>8 DEF Reads
  <2> QED
    BY <2>1, <2>2, <2>3, <2>4, <2>5, <2>6, <2>7, <2>8 DEF Parser, State
<1> QED
  BY <1>9 DEF q

LEMMA FreshReads ==
    ASSUME NEW r, NEW t, Begins(r, t, 0)
    PROVE  Reads(r, t, 0, Fresh)
<1>1. t \in Seq(Symbol)
  BY BeginsWith
<1>2. At(Fresh, t, 0, 0)
  <2>1. SubSeq(t, 0 + 1, 0) = <<>>
    BY <1>1, SubSeqEmpty
  <2> QED
    BY <2>1 DEF At, Fresh
<1>3. HeadersRead(r, 0, Fresh)
  <2>1. \A j \in 1..0 : FALSE
    OBVIOUS
  <2>2. \A name \in FieldNames : Fresh.headers[name] = Absent
    BY DEF Fresh
  <2> QED
    BY <2>1, <2>2 DEF HeadersRead, LastIs
<1> QED
  BY <1>2, <1>3 DEF Reads, Fresh

(* A readable request that has all come leaves nothing to wait for.        *)
LEMMA HeadBeforeEnd ==
    ASSUME NEW r \in Requests, Readable(r)
    PROVE  /\ Len(HeadText(r)) \in Nat /\ Len(HeadText(r)) <= End(r) /\ End(r) \in Nat
           /\ Value(r, "TE") = Absent /\ Value(r, "CL") # Absent =>
                 End(r) = Len(HeadText(r)) + Value(r, "CL")
<1>1. HeadText(r) \in Seq(Symbol) /\ Len(HeadText(r)) \in Nat
  BY HeadStands, LenProperties
<1>2. End(r) \in Nat
  BY EndIs
<1>3. CASE Value(r, "TE") = Chunked
  <2>1. Stands(TextOf(r), 0, HeadText(r))
    BY TextStands
  <2>2. 0 + Len(HeadText(r)) <= Len(TextOf(r))
    BY <2>1 DEF Stands
  <2>3. End(r) = Len(TextOf(r)) /\ Value(r, "TE") # Absent
    BY <1>3 DEF End, Chunked, Absent
  <2> QED
    BY <1>1, <1>2, <2>2, <2>3
<1>4. CASE Value(r, "TE") # Chunked
  <2>1. End(r) = Len(HeadText(r)) + Length(r)
    BY <1>4 DEF End
  <2>2. Length(r) \in Nat
    <3>1. Value(r, "CL") \in Number \union {Absent}
      BY ValueIs DEF FieldNames
    <3>2. Value(r, "CL") # NotANumber
      BY <1>4 DEF Readable
    <3> QED
      BY <3>1, <3>2 DEF Length, Number
  <2>3. Value(r, "CL") # Absent => Length(r) = Value(r, "CL")
    BY DEF Length
  <2> QED
    BY <1>1, <1>2, <2>1, <2>2, <2>3
<1> QED
  BY <1>3, <1>4

LEMMA StartComes ==
    ASSUME NEW r, NEW t, NEW n, Begins(r, t, n), NEW p, Reads(r, t, n, p),
           Readable(r), End(r) <= n, p.state = "START_LINE"
    PROVE  CompleteLine(p.buffer)
<1> DEFINE y == StartSymbol(r.fault)
<1>1. r \in Requests /\ t \in Seq(Symbol) /\ n \in 0..Len(t) /\ n \in Nat /\ 0 \in 0..n
      /\ Stands(t, 0, HeadText(r)) /\ HeadText(r) \in Seq(Symbol)
  BY BeginsWith
<1>2. y \in Symbol
  <2>1. r.fault \in {0, 400, 505}
    BY <1>1, RequestIs
  <2> DEFINE f == r.fault
  <2>2. f \in {0, 400, 505}
    BY <2>1
  <2> HIDE DEF f
  <2>3. StartSymbol(f) \in Symbol
    BY <2>2, SymbolsAre
  <2> QED
    BY <2>3 DEF f
<1>3. Stands(HeadText(r), 0, Written(y))
  BY <1>1, HeadStands
<1> HIDE DEF y
<1>4. Written(y) \in Seq(Symbol) /\ Len(Written(y)) = 3
  BY <1>2, LineWritten
<1>5. Stands(t, 0, Written(y)) /\ 0 + Len(Written(y)) <= Len(HeadText(r))
  BY <1>1, <1>3, <1>4, Onward
<1>6. Len(HeadText(r)) \in Nat /\ Len(HeadText(r)) <= End(r) /\ End(r) \in Nat
  BY <1>1, HeadBeforeEnd
<1>7. 0 + 3 <= n
  BY <1>1, <1>4, <1>5, <1>6
<1>8. CompleteLine(SubSeq(t, 0 + 1, n))
  BY <1>1, <1>2, <1>5, <1>7, LineStands
<1> QED
  BY <1>8 DEF Reads, At

LEMMA HeaderComes ==
    ASSUME NEW r, NEW t, NEW n, Begins(r, t, n), NEW p, Reads(r, t, n, p),
           Readable(r), End(r) <= n, p.state = "HEADERS"
    PROVE  CompleteLine(p.buffer)
<1> DEFINE m == Len(r.fields)
<1>1. r \in Requests /\ t \in Seq(Symbol) /\ n \in 0..Len(t) /\ n \in Nat /\ m \in Nat
      /\ Stands(t, 0, HeadText(r)) /\ HeadText(r) \in Seq(Symbol)
  BY BeginsWith
<1>2. PICK i \in 0..m : At(p, t, n, FieldAt(r, i))
  BY DEF Reads
<1> DEFINE c == FieldAt(r, i)
<1>3. c \in 0..n /\ p.buffer = SubSeq(t, c + 1, n)
  BY <1>2 DEF At
<1>4. Len(HeadText(r)) \in Nat /\ Len(HeadText(r)) <= End(r) /\ End(r) \in Nat
  BY <1>1, HeadBeforeEnd
<1>5. CASE i = m
  <2>1. c + 2 = Len(HeadText(r)) /\ Stands(HeadText(r), c, CRLF)
    BY <1>1, <1>5, HeadStands
  <2>2. CRLF \in Seq(Symbol)
    BY SymbolsAre, LineWritten
  <2> HIDE DEF c
  <2>3. Stands(t, c, CRLF)
    BY <1>1, <2>1, <2>2, Onward
  <2>4. c + 2 <= n
    BY <1>1, <1>4, <2>1
  <2>5. CompleteLine(SubSeq(t, c + 1, n))
    BY <1>1, <1>3, <2>3, <2>4, EmptyLineStands
  <2> QED
    BY <1>3, <2>5
<1>6. CASE i # m
  <2> DEFINE k == i + 1
             y == r.fields[k]
  <2>1. k \in 1..m /\ k - 1 = i
    BY <1>1, <1>6
  <2>2. y \in Symbol
    <3>1. r.fields \in Seq(Symbol)
      BY <1>1, RequestIs
    <3> QED
      BY <2>1, <3>1, ElementOfSeq
  <2>3. Stands(HeadText(r), c, Written(y))
    <3>1. Stands(HeadText(r), FieldAt(r, k - 1), Written(r.fields[k]))
      BY <1>1, <2>1, HeadStands
    <3> QED
      BY <2>1, <3>1
  <2> HIDE DEF c, y, k, m
  <2>4. Written(y) \in Seq(Symbol) /\ Len(Written(y)) = 3
    BY <2>2, LineWritten
  <2>5. Stands(t, c, Written(y)) /\ c + Len(Written(y)) <= Len(HeadText(r))
    BY <1>1, <2>3, <2>4, Onward
  <2>6. c + 3 <= n
    BY <1>1, <1>3, <1>4, <2>4, <2>5
  <2>7. CompleteLine(SubSeq(t, c + 1, n))
    BY <1>1, <1>3, <2>2, <2>5, <2>6, LineStands
  <2> QED
    BY <1>3, <2>7
<1> QED
  BY <1>5, <1>6

LEMMA BodyComes ==
    ASSUME NEW r, NEW t, NEW n, Begins(r, t, n), NEW p, Good(p), Reads(r, t, n, p),
           Readable(r), End(r) <= n, p.state = "BODY",
           p.headers["TE"] = Absent, p.headers["CL"] >= 0
    PROVE  p.headers["CL"] <= Len(p.buffer)
<1> DEFINE c == Len(HeadText(r))
           cl == p.headers["CL"]
<1>1. r \in Requests /\ t \in Seq(Symbol) /\ n \in 0..Len(t) /\ n \in Nat
  BY BeginsWith
<1>2. At(p, t, n, c) /\ HeadersRead(r, Len(r.fields), p)
  BY DEF Reads
<1>3. Value(r, "TE") = Absent /\ Value(r, "CL") = cl
  BY <1>1, <1>2, HeadersAre
<1>4. cl \in Number \union {Absent}
  BY HeaderValues DEF Good
<1>5. cl \in Nat /\ cl # Absent
  BY <1>4 DEF Number, NotANumber, Absent
<1>6. c \in Nat /\ End(r) = c + cl
  BY <1>1, <1>3, <1>5, HeadBeforeEnd
<1>7. c \in 0..n /\ p.buffer = SubSeq(t, c + 1, n)
  BY <1>2 DEF At
<1> HIDE DEF c, cl
<1>8. Len(p.buffer) = n - c
  BY <1>1, <1>7, ByteAhead
<1>9. cl <= Len(p.buffer)
  BY <1>1, <1>5, <1>6, <1>8
<1> QED
  BY <1>9 DEF cl

LEMMA ChunkSizeComes ==
    ASSUME NEW r, NEW t, NEW n, Begins(r, t, n), NEW p, Reads(r, t, n, p),
           Readable(r), End(r) <= n, p.state = "CHUNK_SIZE"
    PROVE  CompleteLine(p.buffer)
<1> DEFINE m == Len(r.chunks)
<1>1. t \in Seq(Symbol) /\ n \in 0..Len(t) /\ n \in Nat
      /\ Stands(t, 0, TextOf(r)) /\ TextOf(r) \in Seq(Symbol)
  BY BeginsWith
<1>2. PICK i \in 0..m : At(p, t, n, ChunkAt(r, i))
  BY DEF Reads
<1>3. InChunks(r)
  BY DEF Reads
<1>4. /\ ChunkPlaces(r) /\ m \in Nat /\ End(r) = Len(TextOf(r))
      /\ \A j \in 1..m : Len(r.chunks[j]) \in Nat
  BY <1>3, InChunksIs
<1> DEFINE c == ChunkAt(r, i)
           l == IF i = m THEN 0 ELSE Len(r.chunks[i + 1])
<1>5. c \in 0..n /\ p.buffer = SubSeq(t, c + 1, n)
  BY <1>2 DEF At
<1>6. l \in Nat /\ Stands(TextOf(r), c, Written(SizeSymbol(l)))
  <2>1. CASE i = m
    BY <1>4, <2>1 DEF ChunkPlaces
  <2>2. CASE i # m
    <3> DEFINE k == i + 1
    <3>1. k \in 1..m /\ k - 1 = i
      BY <1>4, <2>2
    <3>2. Stands(TextOf(r), ChunkAt(r, k - 1), Written(SizeSymbol(Len(r.chunks[k]))))
          /\ Len(r.chunks[k]) \in Nat
      BY <1>4, <3>1 DEF ChunkPlaces
    <3> QED
      BY <2>2, <3>1, <3>2
  <2> QED
    BY <2>1, <2>2
<1> HIDE DEF c, l, m
<1>7. Written(SizeSymbol(l)) \in Seq(Symbol) /\ Len(Written(SizeSymbol(l))) = 3
  <2>1. SizeSymbol(l) \in Symbol
    BY <1>6, SymbolsAre
  <2> QED
    BY <2>1, LineWritten
<1>8. Stands(t, c, Written(SizeSymbol(l))) /\ c + Len(Written(SizeSymbol(l))) <= Len(TextOf(r))
  BY <1>1, <1>6, <1>7, Onward
<1>9. c + 3 <= n
  <2>1. Len(TextOf(r)) \in Nat
    BY <1>1, LenProperties
  <2> QED
    BY <1>1, <1>4, <1>5, <1>7, <1>8, <2>1
<1>10. CompleteLine(SubSeq(t, c + 1, n))
  BY <1>1, <1>5, <1>6, <1>8, <1>9, SizeStands
<1> QED
  BY <1>5, <1>10

LEMMA ChunkDataComes ==
    ASSUME NEW r, NEW t, NEW n, Begins(r, t, n), NEW p, Reads(r, t, n, p),
           Readable(r), End(r) <= n, p.state = "CHUNK_DATA"
    PROVE  p.chunk + 2 <= Len(p.buffer)
<1>1. t \in Seq(Symbol) /\ n \in 0..Len(t) /\ n \in Nat
      /\ Stands(t, 0, TextOf(r)) /\ TextOf(r) \in Seq(Symbol)
  BY BeginsWith
<1>2. PICK i \in 1..Len(r.chunks) :
         At(p, t, n, ChunkAt(r, i - 1) + 3) /\ p.chunk = Len(r.chunks[i])
  BY DEF Reads
<1>3. InChunks(r)
  BY DEF Reads
<1> DEFINE c == ChunkAt(r, i - 1) + 3
           l == Len(r.chunks[i])
<1>4. l \in Nat /\ End(r) = Len(TextOf(r)) /\ Stands(TextOf(r), c + l, CRLF)
  <2>1. ChunkPlaces(r)
    BY <1>3, InChunksIs
  <2>2. Stands(TextOf(r), c + l, CRLF)
    BY <2>1 DEF ChunkPlaces
  <2>3. l \in Nat /\ End(r) = Len(TextOf(r))
    BY <1>3, InChunksIs
  <2> QED
    BY <2>2, <2>3
<1>5. c \in 0..n /\ p.buffer = SubSeq(t, c + 1, n) /\ p.chunk = l
  BY <1>2 DEF At
<1> HIDE DEF c, l
<1>6. c + l + 2 <= Len(TextOf(r)) /\ Len(TextOf(r)) \in Nat
  <2>1. Len(CRLF) = 2
    BY SymbolsAre, LineWritten
  <2> QED
    BY <1>1, <1>4, <2>1, LenProperties DEF Stands
<1>7. Len(p.buffer) = n - c
  BY <1>1, <1>5, ByteAhead
<1>8. l + 2 <= n - c
  BY <1>1, <1>4, <1>5, <1>6
<1> QED
  BY <1>5, <1>7, <1>8

LEMMA FinalComes ==
    ASSUME NEW r, NEW t, NEW n, Begins(r, t, n), NEW p, Reads(r, t, n, p),
           Readable(r), End(r) <= n, p.state = "FINAL_CRLF"
    PROVE  CompleteLine(p.buffer)
<1> DEFINE a == ChunkAt(r, Len(r.chunks))
           c == a + 3
<1>1. t \in Seq(Symbol) /\ n \in 0..Len(t) /\ n \in Nat
      /\ Stands(t, 0, TextOf(r)) /\ TextOf(r) \in Seq(Symbol)
  BY BeginsWith
<1>2. InChunks(r) /\ At(p, t, n, c)
  BY DEF Reads
<1>3. /\ a \in Nat /\ a + 5 = End(r) /\ Stands(TextOf(r), c, CRLF)
  <2>1. ChunkPlaces(r) /\ End(r) = Len(TextOf(r))
    BY <1>2, InChunksIs
  <2> QED
    BY <2>1 DEF ChunkPlaces
<1>4. c \in 0..n /\ p.buffer = SubSeq(t, c + 1, n)
  BY <1>2 DEF At
<1>5. c + 2 <= n
  <2> HIDE DEF a
  <2> QED
    BY <1>1, <1>3
<1> HIDE DEF c
<1>6. Stands(t, c, CRLF)
  <2>1. CRLF \in Seq(Symbol)
    BY SymbolsAre, LineWritten
  <2> QED
    BY <1>1, <1>3, <2>1, Onward
<1>7. CompleteLine(SubSeq(t, c + 1, n))
  BY <1>1, <1>4, <1>5, <1>6, EmptyLineStands
<1> QED
  BY <1>4, <1>7

LEMMA AllHasCome ==
    ASSUME NEW r, NEW t, NEW n, Begins(r, t, n), NEW p, Good(p), Reads(r, t, n, p),
           Readable(r), End(r) <= n
    PROVE  ~Waits(p)
<1>1. p.state \in State /\ p.headers["CL"] \in Number \union {Absent}
      /\ Len(p.buffer) \in Nat
  <2>1. p \in Parser
    BY DEF Good
  <2>2. p.state \in State /\ p.buffer \in Seq(Symbol)
    BY <2>1 DEF Parser
  <2> QED
    BY <2>1, <2>2, HeaderValues, LenProperties
<1>2. CASE p.state = "START_LINE"
  BY <1>2, StartComes DEF Waits
<1>3. CASE p.state = "HEADERS"
  BY <1>3, HeaderComes DEF Waits
<1>4. CASE p.state = "BODY"
  <2> SUFFICES ASSUME Waits(p) PROVE FALSE
    OBVIOUS
  <2>1. p.headers["TE"] = Absent /\ p.headers["CL"] >= 0 /\ Len(p.buffer) < p.headers["CL"]
    BY <1>4 DEF Waits
  <2>2. p.headers["CL"] <= Len(p.buffer)
    BY <1>4, <2>1, BodyComes
  <2> QED
    BY <1>1, <2>1, <2>2 DEF Number, NotANumber, Absent
<1>5. CASE p.state = "CHUNK_SIZE"
  BY <1>5, ChunkSizeComes DEF Waits
<1>6. CASE p.state = "CHUNK_DATA"
  <2>1. p.chunk \in Nat
    BY <1>6 DEF Good
  <2>2. p.chunk + 2 <= Len(p.buffer)
    BY <1>6, ChunkDataComes
  <2>3. ~(Len(p.buffer) < p.chunk + 2)
    BY <1>1, <2>1, <2>2
  <2> QED
    BY <1>6, <2>3 DEF Waits
<1>7. CASE p.state = "FINAL_CRLF"
  BY <1>7, FinalComes DEF Waits
<1>8. CASE p.state \in {"COMPLETE", "ERROR"}
  BY <1>8 DEF Waits
<1> QED
  BY <1>1, <1>2, <1>3, <1>4, <1>5, <1>6, <1>7, <1>8 DEF State

-----------------------------------------------------------------------------
(* The invariant: of each request that the text begins with, the parser    *)
(* knows what it has read; and parse() has reported what it has found.     *)
Understood == \A r \in WrittenRequests : IsPrefix(TextOf(r), text) => Reads(r, text, received, parser)
Reported == ~running /\ Final(parser) => returned

Understands == Understood /\ Reported

LEMMA TextBegins ==
    ASSUME RInv, NEW r \in WrittenRequests, IsPrefix(TextOf(r), text)
    PROVE  Begins(r, text, received)
<1>1. text \in Seq(Symbol) /\ received \in 0..Len(text)
  BY TextsAssumption DEF RInv
<1>2. TextOf(r) \in Seq(Symbol)
  BY TextStands DEF WrittenRequests
<1>3. Stands(text, 0, TextOf(r))
  BY <1>1, <1>2, StandsPrefix
<1> QED
  BY <1>1, <1>3 DEF Begins

LEMMA InitUnderstands == Init => Understands
<1> SUFFICES ASSUME Init PROVE Understands
  OBVIOUS
<1>1. RInv
  BY InitInv
<1>2. parser = Fresh /\ received = 0
  BY DEF Init
<1>3. ASSUME NEW r \in WrittenRequests, IsPrefix(TextOf(r), text)
      PROVE  Reads(r, text, received, parser)
  <2>1. Begins(r, text, received)
    BY <1>1, <1>3, TextBegins
  <2> QED
    BY <1>2, <2>1, FreshReads
<1>4. ~Final(parser)
  BY <1>2 DEF Final, Fresh
<1> QED
  BY <1>3, <1>4 DEF Understands, Understood, Reported

LEMMA NextUnderstands == RInv /\ Understands /\ [Next]_vars => Understands'
<1> SUFFICES ASSUME RInv, Understands, [Next]_vars PROVE Understands'
  OBVIOUS
<1>1. Good(parser) /\ parser \in Parser /\ received \in 0..Len(text) /\ text \in Seq(Symbol)
      /\ Len(text) \in Nat
  BY TextsAssumption, LenProperties DEF RInv, Good
<1>2. ASSUME NEW r \in WrittenRequests, IsPrefix(TextOf(r), text)
      PROVE  Begins(r, text, received) /\ Reads(r, text, received, parser)
  BY <1>2, TextBegins DEF Understands, Understood
<1>3. CASE Receive
  <2>1. PICK n \in 1..Len(text) - received :
          /\ received' = received + n
          /\ parser' = With(parser, SubSeq(text, received + 1, received + n))
    BY <1>3 DEF Receive, With
  <2>2. text' = text /\ running' = TRUE
    BY <1>3 DEF Receive
  <2> DEFINE m == received + n
  <2>3. m \in received..Len(text)
    BY <1>1
  <2>4. received' = m /\ parser' = With(parser, SubSeq(text, received + 1, m))
    BY <2>1
  <2> HIDE DEF m
  <2>5. ASSUME NEW r \in WrittenRequests, IsPrefix(TextOf(r), text)
        PROVE  Reads(r, text, received', parser')
    BY <1>1, <1>2, <2>3, <2>4, <2>5, MoreReads
  <2>6. Understood'
    BY <2>2, <2>5 DEF Understood
  <2> QED
    BY <2>2, <2>6 DEF Understands, Reported
<1>4. CASE StartLine \/ Header \/ Body \/ ChunkSize \/ ChunkData \/ FinalCRLF
  <2>1. /\ running /\ ~Final(parser) /\ ~Waits(parser) /\ parser' = Dispatch(parser)
        /\ UNCHANGED <<text, received, running, returned>>
    BY <1>4, TurnIsDispatch
  <2>2. ASSUME NEW r \in WrittenRequests, IsPrefix(TextOf(r), text)
        PROVE  Reads(r, text, received, parser')
    BY <1>1, <1>2, <2>1, <2>2, DispatchReads
  <2>3. Understood'
    BY <2>1, <2>2 DEF Understood
  <2> QED
    BY <2>1, <2>3 DEF Understands, Reported
<1>5. CASE Return
  <2>1. UNCHANGED <<text, received, parser>> /\ returned' = Final(parser)
    BY <1>5 DEF Return
  <2>2. Understood'
    BY <2>1 DEF Understands, Understood
  <2>3. Final(parser') => returned'
    BY <2>1, Zenon
  <2> QED
    BY <2>2, <2>3 DEF Understands, Reported
<1>6. CASE UNCHANGED vars
  <2>1. UNCHANGED <<text, received, parser, running, returned>>
    BY <1>6 DEF vars
  <2> QED
    BY <2>1 DEF Understands, Understood, Reported
<1> QED
  BY <1>3, <1>4, <1>5, <1>6 DEF Next

LEMMA AlwaysUnderstands == Spec => [](RInv /\ Understands)
<1>1. Init => Understands
  BY InitUnderstands
<1>2. RInv /\ Understands /\ [Next]_vars => Understands'
  BY NextUnderstands
<1> QED
  BY <1>1, <1>2, Invariance, PTL DEF Spec

LEMMA UnderstandsReads == RInv /\ Understands => ReadsRequest
<1> SUFFICES ASSUME RInv, Understands, ~running,
                    NEW r \in WrittenRequests, r.fault = 0, Readable(r), IsPrefix(TextOf(r), text)
             PROVE  /\ returned <=> received >= End(r)
                    /\ returned => parser.state = "COMPLETE" /\ parser.body = BodyOf(r)
                    /\ ~parser.err
  BY DEF ReadsRequest
<1>1. Begins(r, text, received) /\ Reads(r, text, received, parser)
  BY TextBegins DEF Understands, Understood
<1>2. Good(parser) /\ (Final(parser) \/ Waits(parser)) /\ (returned => Final(parser))
      /\ (Final(parser) => returned)
  BY DEF RInv, Rested, Understands, Reported
<1>3. r \in Requests /\ received \in Nat
  BY <1>1, BeginsWith
<1>4. End(r) \in Nat
  BY <1>3, EndIs
<1>5. ~parser.err
  <2>1. parser.err # TRUE
    BY <1>1 DEF Reads
  <2>2. parser.err \in BOOLEAN
    BY <1>2 DEF Good, Parser
  <2> QED
    BY <2>1, <2>2
<1>6. Final(parser) => parser.state = "COMPLETE" /\ parser.body = BodyOf(r) /\ End(r) <= received
  BY <1>1 DEF Final, Reads
<1>7. received >= End(r) => Final(parser)
  <2>1. End(r) <= received => ~Waits(parser)
    BY <1>1, <1>2, AllHasCome
  <2> QED
    BY <1>2, <1>3, <1>4, <2>1
<1>8. Final(parser) => received >= End(r)
  BY <1>3, <1>4, <1>6
<1> QED
  BY <1>2, <1>5, <1>6, <1>7, <1>8

LEMMA UnderstandsRejects == RInv /\ Understands => RejectsFaults
<1> SUFFICES ASSUME RInv, Understands, ~running, returned,
                    NEW r \in WrittenRequests, r.fault # 0 \/ ~Readable(r), IsPrefix(TextOf(r), text)
             PROVE  parser.err
  BY DEF RejectsFaults
<1>1. Begins(r, text, received) /\ Reads(r, text, received, parser)
  BY TextBegins DEF Understands, Understood
<1>2. Good(parser) /\ Final(parser)
  BY DEF RInv
<1>3. parser.err = TRUE
  BY <1>1, <1>2 DEF Final, Reads
<1> QED
  BY <1>3

(* However recv() cuts it and whatever the client sends behind it: a       *)
(* request that is well written - with any number of header lines, and     *)
(* with a length, in chunks, or neither - is complete for parse() as soon  *)
(* as the last byte of its body is there and not before, without an error, *)
(* and its body is the one that was sent, whatever bytes that is made of.  *)
THEOREM RequestsRead == Spec => []ReadsRequest
<1>1. RInv /\ Understands => ReadsRequest
  BY UnderstandsReads
<1> QED
  BY <1>1, AlwaysUnderstands, PTL

(* A request with a fault - in its start line, a header line that is none, *)
(* no Host, a framing that cannot be used - is never handled as a good     *)
(* one: when parse() has returned true, has_error is set.                  *)
THEOREM FaultsRejected == Spec => []RejectsFaults
<1>1. RInv /\ Understands => RejectsFaults
  BY UnderstandsRejects
<1> QED
  BY <1>1, AlwaysUnderstands, PTL
==============================================================================
