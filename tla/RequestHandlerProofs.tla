------------------------ MODULE RequestHandlerProofs -------------------------
(***************************************************************************)
(* Proofs about requests, for any site, any requests and any files.        *)
(* What collapse, normalizePath, joinPath and the comparisons of           *)
(* HandlerResolver.cpp do with a path of any length, over any set of       *)
(* characters: a fold is followed along the prefixes of its sequence       *)
(* (FoldRuns), and what it does there is shown for the empty sequence and  *)
(* for one element more (Appending).                                       *)
(* What one request does to the files: an upload that was confirmed stays, *)
(* whole, until it is deleted (UploadsKept); a file that was deleted stays *)
(* away (RemovedStayGone); files change only by a method that the location *)
(* allows, and only the file that the answer is about (OnlyAllowedChange). *)
(* Where one request goes: to the deepest location that covers its path    *)
(* (MostSpecific), and to no file outside the root or the store of that    *)
(* location (Confined), while a path without ".." is not refused           *)
(* (InsideAccepted) and a CGI program is told the truth (SplitFaithful).   *)
(* The address of an upload leads back to its file (LinksLead), where the  *)
(* addresses of stores lead to the stores.                                 *)
(***************************************************************************)
EXTENDS RequestHandler, FoldProofs, SequenceTheorems, WellFoundedInduction, TLAPS

-----------------------------------------------------------------------------
(* What the folds of HandlerResolver do to the state they carry.           *)
CollapseStep(Y) ==
    [p \in Seq(Y) \X Y |-> IF p[2] = Slash /\ p[1] # <<>> /\ Last(p[1]) = Slash
                           THEN p[1] ELSE Append(p[1], p[2])]

(* Collapse takes these steps.                                              *)
LEMMA CollapseRuns ==
    ASSUME NEW Y, NEW text \in Seq(Y)
    PROVE  /\ CollapseStep(Y) \in [Seq(Y) \X Y -> Seq(Y)]
           /\ Collapse(text) = Run(CollapseStep(Y), <<>>, text)
<1> DEFINE X == Seq(Y)
           Z == Y
           op == CollapseStep(Y)
           step(done, ch) == IF ch = Slash /\ done # <<>> /\ Last(done) = Slash
                             THEN done ELSE Append(done, ch)
           Rec(it) == it = [s \in SUBSET DOMAIN text |->
                               IF s = {} THEN <<>> ELSE step(it[s \ {Max(s)}], text[Max(s)])]
           C == CHOOSE it : Rec(it)
<1>1. Collapse(text) = C[DOMAIN text]
  BY Zenon DEF Collapse, FoldLeft, MapThenFoldSet
<1>2. <<>> \in X /\ op \in [X \X Z -> X] /\ \A x \in X, y \in Z : op[<<x, y>>] = step(x, y)
  <2>1. \A x \in X, y \in Z : step(x, y) \in X
    BY AppendProperties
  <2>2. <<>> \in X
    BY EmptySeq
  <2> QED
    BY <2>1, <2>2 DEF CollapseStep
<1> HIDE DEF op, X, Z
<1>3. \E it : Rec(it)
  <2>1. PICK it \in [SUBSET DOMAIN text -> X] : Folded(it, op, <<>>, text)
    BY <1>2, FoldsExist DEF Z
  <2>2. ASSUME NEW s \in SUBSET DOMAIN text, s # {}
        PROVE  op[<<it[s \ {Max(s)}], text[Max(s)]>>] = step(it[s \ {Max(s)}], text[Max(s)])
    <3>1. text[Max(s)] \in Z
      BY <2>2, PlaceOfMax DEF Z
    <3>2. it[s \ {Max(s)}] \in X
      BY <2>1
    <3> QED
      BY <1>2, <3>1, <3>2
  <2> HIDE DEF step
  <2>3. it = [s \in SUBSET DOMAIN text |->
                 IF s = {} THEN <<>> ELSE step(it[s \ {Max(s)}], text[Max(s)])]
    BY <2>1, <2>2 DEF Folded
  <2> QED
    BY <2>3
<1> HIDE DEF step
<1>4. Rec(C)
  BY <1>3
<1> HIDE DEF C
<1>5. C[{}] = <<>>
  BY <1>4
<1>6. \A k \in 1..Len(text) : C[1..k - 1] \in X => C[1..k] = op[<<C[1..k - 1], text[k]>>]
  <2> SUFFICES ASSUME NEW k \in 1..Len(text), C[1..k - 1] \in X
               PROVE  C[1..k] = op[<<C[1..k - 1], text[k]>>]
    OBVIOUS
  <2>1. /\ 1..k \in SUBSET DOMAIN text /\ Max(1..k) = k /\ (1..k) \ {k} = 1..k - 1
        /\ 1..k # {} /\ text[k] \in Z
    BY MaxOfSegment DEF Z
  <2>2. C[1..k] = step(C[(1..k) \ {Max(1..k)}], text[Max(1..k)])
    BY <1>4, <2>1
  <2> QED
    BY <1>2, <2>1, <2>2
<1>7. C[DOMAIN text] = Run(op, <<>>, text)
  <2>1. Goes(C, X, op, <<>>, text)
    BY <1>5, <1>6 DEF Goes
  <2>2. LeadsTo(C, op, <<>>, text)
    BY <1>2, <2>1, FoldRuns DEF Z
  <2> QED
    BY <2>2 DEF LeadsTo
<1> QED
  BY <1>1, <1>2, <1>7 DEF op, X, Z

Lists(Y) == Seq(Seq(Y)) \ {<<>>}
SegmentStep(Y) ==
    [p \in Lists(Y) \X Y |-> IF p[2] = Slash THEN Append(p[1], <<>>)
                             ELSE Front(p[1]) \o <<Append(Last(p[1]), p[2])>>]

(* Segments takes these steps.                                              *)
LEMMA SegmentsRuns ==
    ASSUME NEW Y, NEW text \in Seq(Y)
    PROVE  /\ SegmentStep(Y) \in [Lists(Y) \X Y -> Lists(Y)]
           /\ Segments(text) = Run(SegmentStep(Y), <<<<>>>>, text)
<1> DEFINE X == Lists(Y)
           Z == Y
           op == SegmentStep(Y)
           step(done, ch) == IF ch = Slash THEN Append(done, <<>>)
                             ELSE Front(done) \o <<Append(Last(done), ch)>>
           Rec(it) == it = [s \in SUBSET DOMAIN text |->
                               IF s = {} THEN <<<<>>>> ELSE step(it[s \ {Max(s)}], text[Max(s)])]
           C == CHOOSE it : Rec(it)
<1>1. Segments(text) = C[DOMAIN text]
  BY Zenon DEF Segments, FoldLeft, MapThenFoldSet
<1>2. <<<<>>>> \in X /\ op \in [X \X Z -> X]
      /\ \A x \in X, y \in Z : op[<<x, y>>] = step(x, y)
  <2>1. \A x \in X, y \in Z : step(x, y) \in X
    <3> SUFFICES ASSUME NEW x \in X, NEW y \in Z PROVE step(x, y) \in X
      OBVIOUS
    <3>1. Front(x) \in Seq(Seq(Y)) /\ Last(x) \in Seq(Y)
      BY FrontAndLast DEF Lists
    <3>2. <<>> \in Seq(Y) /\ Append(Last(x), y) \in Seq(Y)
      BY <3>1, AppendProperties, EmptySeq
    <3>3. Append(x, <<>>) \in X
      <4>1. x \in Seq(Seq(Y))
        BY DEF Lists
      <4>2. Append(x, <<>>) \in Seq(Seq(Y)) /\ Append(x, <<>>) # <<>>
        BY <3>2, <4>1, AppendProperties
      <4> QED
        BY <4>2 DEF Lists
    <3>4. Front(x) \o <<Append(Last(x), y)>> \in X
      BY <3>1, <3>2, AppendIsConcat, AppendProperties DEF Lists
    <3> QED
      BY <3>3, <3>4
  <2>2. <<<<>>>> \in X
    <3>1. <<>> \in Seq(Y) /\ <<<<>>>> # <<>>
      BY EmptySeq
    <3>2. <<<<>>>> \in Seq(Seq(Y))
      BY <3>1
    <3> QED
      BY <3>1, <3>2 DEF Lists
  <2> QED
    BY <2>1, <2>2 DEF SegmentStep
<1> HIDE DEF op, X, Z
<1>3. \E it : Rec(it)
  <2>1. PICK it \in [SUBSET DOMAIN text -> X] : Folded(it, op, <<<<>>>>, text)
    BY <1>2, FoldsExist DEF Z
  <2>2. ASSUME NEW s \in SUBSET DOMAIN text, s # {}
        PROVE  op[<<it[s \ {Max(s)}], text[Max(s)]>>] = step(it[s \ {Max(s)}], text[Max(s)])
    <3>1. text[Max(s)] \in Z
      BY <2>2, PlaceOfMax DEF Z
    <3>2. it[s \ {Max(s)}] \in X
      BY <2>1
    <3> QED
      BY <1>2, <3>1, <3>2
  <2> HIDE DEF step
  <2>3. it = [s \in SUBSET DOMAIN text |->
                 IF s = {} THEN <<<<>>>> ELSE step(it[s \ {Max(s)}], text[Max(s)])]
    BY <2>1, <2>2 DEF Folded
  <2> QED
    BY <2>3
<1> HIDE DEF step
<1>4. Rec(C)
  BY <1>3
<1> HIDE DEF C
<1>5. C[{}] = <<<<>>>>
  BY <1>4
<1>6. \A k \in 1..Len(text) : C[1..k - 1] \in X => C[1..k] = op[<<C[1..k - 1], text[k]>>]
  <2> SUFFICES ASSUME NEW k \in 1..Len(text), C[1..k - 1] \in X
               PROVE  C[1..k] = op[<<C[1..k - 1], text[k]>>]
    OBVIOUS
  <2>1. /\ 1..k \in SUBSET DOMAIN text /\ Max(1..k) = k /\ (1..k) \ {k} = 1..k - 1
        /\ 1..k # {} /\ text[k] \in Z
    BY MaxOfSegment DEF Z
  <2>2. C[1..k] = step(C[(1..k) \ {Max(1..k)}], text[Max(1..k)])
    BY <1>4, <2>1
  <2> QED
    BY <1>2, <2>1, <2>2
<1>7. C[DOMAIN text] = Run(op, <<<<>>>>, text)
  <2>1. Goes(C, X, op, <<<<>>>>, text)
    BY <1>5, <1>6 DEF Goes
  <2>2. LeadsTo(C, op, <<<<>>>>, text)
    BY <1>2, <2>1, FoldRuns DEF Z
  <2> QED
    BY <2>2 DEF LeadsTo
<1> QED
  BY <1>1, <1>2, <1>7 DEF op, X, Z

NamesOf(segments) == FoldLeft(Enter, <<>>, segments)
EnterStep(Y) == [p \in Seq(Seq(Y)) \X Seq(Y) |-> Enter(p[1], p[2])]

(* So does normalizePath, over the segments.                                *)
LEMMA NamesOfRuns ==
    ASSUME NEW Y, NEW text \in Seq(Seq(Y))
    PROVE  /\ EnterStep(Y) \in [Seq(Seq(Y)) \X Seq(Y) -> Seq(Seq(Y))]
           /\ NamesOf(text) = Run(EnterStep(Y), <<>>, text)
<1> DEFINE X == Seq(Seq(Y))
           Z == Seq(Y)
           op == EnterStep(Y)
           step(done, ch) == Enter(done, ch)
           Rec(it) == it = [s \in SUBSET DOMAIN text |->
                               IF s = {} THEN <<>> ELSE step(it[s \ {Max(s)}], text[Max(s)])]
           C == CHOOSE it : Rec(it)
<1>1. NamesOf(text) = C[DOMAIN text]
  BY Zenon DEF NamesOf, FoldLeft, MapThenFoldSet
<1>2. <<>> \in X /\ op \in [X \X Z -> X] /\ \A x \in X, y \in Z : op[<<x, y>>] = step(x, y)
  <2>1. \A x \in X, y \in Z : step(x, y) \in X
    <3> SUFFICES ASSUME NEW x \in X, NEW y \in Z PROVE step(x, y) \in X
      OBVIOUS
    <3>1. x # <<>> => Front(x) \in X
      BY FrontAndLast
    <3>2. Append(x, y) \in X /\ <<>> \in X
      BY AppendProperties, EmptySeq
    <3> HIDE DEF X, Z
    <3> QED
      BY <3>1, <3>2 DEF Enter
  <2>2. <<>> \in X
    BY EmptySeq
  <2> QED
    BY <2>1, <2>2 DEF EnterStep
<1> HIDE DEF op, X, Z
<1>3. \E it : Rec(it)
  <2>1. PICK it \in [SUBSET DOMAIN text -> X] : Folded(it, op, <<>>, text)
    BY <1>2, FoldsExist DEF Z
  <2>2. ASSUME NEW s \in SUBSET DOMAIN text, s # {}
        PROVE  op[<<it[s \ {Max(s)}], text[Max(s)]>>] = step(it[s \ {Max(s)}], text[Max(s)])
    <3>1. text[Max(s)] \in Z
      BY <2>2, PlaceOfMax DEF Z
    <3>2. it[s \ {Max(s)}] \in X
      BY <2>1
    <3> QED
      BY <1>2, <3>1, <3>2
  <2> HIDE DEF step
  <2>3. it = [s \in SUBSET DOMAIN text |->
                 IF s = {} THEN <<>> ELSE step(it[s \ {Max(s)}], text[Max(s)])]
    BY <2>1, <2>2 DEF Folded
  <2> QED
    BY <2>3
<1> HIDE DEF step
<1>4. Rec(C)
  BY <1>3
<1> HIDE DEF C
<1>5. C[{}] = <<>>
  BY <1>4
<1>6. \A k \in 1..Len(text) : C[1..k - 1] \in X => C[1..k] = op[<<C[1..k - 1], text[k]>>]
  <2> SUFFICES ASSUME NEW k \in 1..Len(text), C[1..k - 1] \in X
               PROVE  C[1..k] = op[<<C[1..k - 1], text[k]>>]
    OBVIOUS
  <2>1. /\ 1..k \in SUBSET DOMAIN text /\ Max(1..k) = k /\ (1..k) \ {k} = 1..k - 1
        /\ 1..k # {} /\ text[k] \in Z
    BY MaxOfSegment DEF Z
  <2>2. C[1..k] = step(C[(1..k) \ {Max(1..k)}], text[Max(1..k)])
    BY <1>4, <2>1
  <2> QED
    BY <1>2, <2>1, <2>2
<1>7. C[DOMAIN text] = Run(op, <<>>, text)
  <2>1. Goes(C, X, op, <<>>, text)
    BY <1>5, <1>6 DEF Goes
  <2>2. LeadsTo(C, op, <<>>, text)
    BY <1>2, <2>1, FoldRuns DEF Z
  <2> QED
    BY <2>2 DEF LeadsTo
<1> QED
  BY <1>1, <1>2, <1>7 DEF op, X, Z

-----------------------------------------------------------------------------
(* The same, said of a text that is one character or one name longer.      *)
LEMMA CollapseGrows ==
    ASSUME NEW Y, NEW t \in Seq(Y)
    PROVE  /\ Collapse(<<>>) = <<>> /\ Collapse(t) \in Seq(Y)
           /\ \A c \in Y : Collapse(Append(t, c)) =
                 IF c = Slash /\ Collapse(t) # <<>> /\ Last(Collapse(t)) = Slash
                 THEN Collapse(t) ELSE Append(Collapse(t), c)
<1> DEFINE op == CollapseStep(Y)
<1>1. <<>> \in Seq(Y) /\ op \in [Seq(Y) \X Y -> Seq(Y)]
  BY EmptySeq, CollapseRuns
<1> HIDE DEF op
<1>2. Collapse(<<>>) = Run(op, <<>>, <<>>) /\ Collapse(t) = Run(op, <<>>, t)
  BY <1>1, CollapseRuns DEF op
<1>3. Collapse(<<>>) = <<>> /\ Collapse(t) \in Seq(Y)
  <2>1. Run(op, <<>>, <<>>) = <<>>
    BY RunEmpty
  <2>2. Run(op, <<>>, t) \in Seq(Y)
    BY <1>1, RunIn
  <2> QED
    BY <1>2, <2>1, <2>2
<1>4. ASSUME NEW c \in Y
      PROVE  Collapse(Append(t, c)) =
                 IF c = Slash /\ Collapse(t) # <<>> /\ Last(Collapse(t)) = Slash
                 THEN Collapse(t) ELSE Append(Collapse(t), c)
  <2>1. Append(t, c) \in Seq(Y)
    BY AppendProperties
  <2>2. Collapse(Append(t, c)) = Run(op, <<>>, Append(t, c))
    BY <2>1, CollapseRuns DEF op
  <2>3. Appended(op, <<>>, t, c)
    BY <1>1, RunAppend
  <2>4. Run(op, <<>>, Append(t, c)) = op[<<Collapse(t), c>>]
    BY <1>2, <2>3 DEF Appended
  <2> QED
    BY <1>3, <2>2, <2>4 DEF op, CollapseStep
<1> QED
  BY <1>3, <1>4

(* A slash begins a new segment, any other character goes on with the last. *)
LEMMA SegmentsGrow ==
    ASSUME NEW Y, NEW t \in Seq(Y)
    PROVE  /\ Segments(<<>>) = <<<<>>>> /\ Segments(t) \in Lists(Y)
           /\ \A c \in Y : Segments(Append(t, c)) =
                 IF c = Slash THEN Append(Segments(t), <<>>)
                 ELSE Front(Segments(t)) \o <<Append(Last(Segments(t)), c)>>
<1> DEFINE op == SegmentStep(Y)
           X  == Lists(Y)
<1>1. <<>> \in Seq(Y) /\ op \in [X \X Y -> X]
  BY EmptySeq, SegmentsRuns
<1>0. <<<<>>>> \in X
  <2>1. <<<<>>>> \in Seq(Seq(Y)) /\ <<<<>>>> # <<>>
    BY <1>1
  <2> QED
    BY <2>1 DEF Lists
<1> HIDE DEF op, X
<1>2. Segments(<<>>) = Run(op, <<<<>>>>, <<>>) /\ Segments(t) = Run(op, <<<<>>>>, t)
  BY <1>1, SegmentsRuns DEF op
<1>3. Segments(<<>>) = <<<<>>>> /\ Segments(t) \in X
  <2>1. Run(op, <<<<>>>>, <<>>) = <<<<>>>>
    BY RunEmpty
  <2>2. Run(op, <<<<>>>>, t) \in X
    BY <1>0, <1>1, RunIn
  <2> QED
    BY <1>2, <2>1, <2>2
<1>4. ASSUME NEW c \in Y
      PROVE  Segments(Append(t, c)) =
                 IF c = Slash THEN Append(Segments(t), <<>>)
                 ELSE Front(Segments(t)) \o <<Append(Last(Segments(t)), c)>>
  <2>1. Append(t, c) \in Seq(Y)
    BY AppendProperties
  <2>2. Segments(Append(t, c)) = Run(op, <<<<>>>>, Append(t, c))
    BY <2>1, SegmentsRuns DEF op
  <2>3. Appended(op, <<<<>>>>, t, c)
    BY <1>0, <1>1, RunAppend
  <2>4. Run(op, <<<<>>>>, Append(t, c)) = op[<<Segments(t), c>>]
    BY <1>2, <2>3 DEF Appended
  <2> QED
    BY <1>3, <2>2, <2>4 DEF op, SegmentStep, X
<1> QED
  BY <1>3, <1>4 DEF X

(* One segment more is entered.                                             *)
LEMMA NamesGrow ==
    ASSUME NEW Y, NEW t \in Seq(Seq(Y))
    PROVE  /\ NamesOf(<<>>) = <<>> /\ NamesOf(t) \in Seq(Seq(Y))
           /\ \A c \in Seq(Y) : NamesOf(Append(t, c)) = Enter(NamesOf(t), c)
<1> DEFINE op == EnterStep(Y)
           X  == Seq(Seq(Y))
           Z  == Seq(Y)
<1>1. <<>> \in X /\ op \in [X \X Z -> X]
  BY EmptySeq, NamesOfRuns
<1> HIDE DEF op
<1>2. NamesOf(<<>>) = Run(op, <<>>, <<>>) /\ NamesOf(t) = Run(op, <<>>, t)
  BY <1>1, NamesOfRuns DEF op
<1>3. NamesOf(<<>>) = <<>> /\ NamesOf(t) \in X
  <2>1. Run(op, <<>>, <<>>) = <<>>
    BY RunEmpty
  <2>2. Run(op, <<>>, t) \in X
    BY <1>1, RunIn
  <2> QED
    BY <1>2, <2>1, <2>2
<1>4. ASSUME NEW c \in Z PROVE NamesOf(Append(t, c)) = Enter(NamesOf(t), c)
  <2>1. Append(t, c) \in Seq(Z)
    BY AppendProperties
  <2>2. NamesOf(Append(t, c)) = Run(op, <<>>, Append(t, c))
    BY <2>1, NamesOfRuns DEF op
  <2>3. Appended(op, <<>>, t, c)
    BY <1>1, RunAppend
  <2>4. Run(op, <<>>, Append(t, c)) = op[<<NamesOf(t), c>>]
    BY <1>2, <2>3 DEF Appended
  <2> QED
    BY <1>3, <2>2, <2>4 DEF op, EnterStep
<1> QED
  BY <1>3, <1>4

-----------------------------------------------------------------------------
(* What a prefix leaves is a rest.                                          *)
LEMMA PrefixIs ==
    ASSUME NEW Y, NEW s \in Seq(Y), NEW t \in Seq(Y)
    PROVE  IsPrefix(s, t) <=> \E u \in Seq(Y) : t = s \o u
<1>1. Len(s) \in Nat /\ Len(t) \in Nat /\ SubSeq(s, 1, Len(s)) = s
  BY SubSeqFull
<1>2. ASSUME IsPrefix(s, t) PROVE \E u \in Seq(Y) : t = s \o u
  <2> DEFINE u == SubSeq(t, Len(s) + 1, Len(t))
  <2>1. Len(s) <= Len(t) /\ SubSeq(t, 1, Len(s)) = s
    BY <1>1, <1>2 DEF IsPrefix
  <2>2. /\ 1 \in 1..Len(t) + 1 /\ Len(s) \in 1 - 1..Len(t) /\ Len(t) \in Len(s)..Len(t)
        /\ Len(s) + 1 \in Int /\ Len(t) \in Int
        /\ \A i \in Len(s) + 1..Len(t) : i \in 1..Len(t)
    BY <1>1, <2>1
  <2>3. SubSeq(t, 1, Len(s)) \o u = SubSeq(t, 1, Len(t))
    BY <2>2, ConcatAdjacentSubSeq
  <2>4. \A i \in Len(s) + 1..Len(t) : t[i] \in Y
    BY <2>2, ElementOfSeq
  <2>5. u \in Seq(Y)
    BY <2>2, <2>4, SubSeqProperties
  <2>6. SubSeq(t, 1, Len(t)) = t
    BY SubSeqFull
  <2> HIDE DEF u
  <2>7. t = s \o u
    BY <2>1, <2>3, <2>6
  <2> QED
    BY <2>5, <2>7
<1>3. ASSUME NEW u \in Seq(Y), t = s \o u PROVE IsPrefix(s, t)
  <2>1. Len(t) = Len(s) + Len(u) /\ \A i \in 1..Len(s) : t[i] = s[i]
    BY <1>1, <1>3, ConcatProperties
  <2>2. Len(u) \in Nat
    OBVIOUS
  <2>3. Len(s) <= Len(t) /\ \A i \in 1..Len(s) : i \in 1..Len(t)
    BY <1>1, <2>1, <2>2
  <2>4. SubSeq(t, 1, Len(s)) \in Seq(Y) /\ Len(SubSeq(t, 1, Len(s))) = Len(s)
        /\ \A i \in 1..Len(s) : SubSeq(t, 1, Len(s))[i] = t[i]
    <3>1. \A i \in 1..Len(s) : t[i] \in Y
      BY <2>3, ElementOfSeq
    <3>2. 1 \in Int /\ Len(s) \in Int
      BY <1>1
    <3>3. /\ SubSeq(t, 1, Len(s)) \in Seq(Y)
          /\ Len(SubSeq(t, 1, Len(s))) = IF 1 <= Len(s) THEN Len(s) - 1 + 1 ELSE 0
          /\ \A i \in 1..Len(s) - 1 + 1 : SubSeq(t, 1, Len(s))[i] = t[1 + i - 1]
      BY <3>1, <3>2, SubSeqProperties
    <3> QED
      BY <1>1, <3>3
  <2>5. SubSeq(t, 1, Len(s)) = s
    <3> DEFINE p == SubSeq(t, 1, Len(s))
    <3>1. p \in Seq(Y) /\ Len(p) = Len(s) /\ \A i \in 1..Len(p) : p[i] = s[i]
      BY <2>1, <2>4
    <3> HIDE DEF p
    <3>2. p = s
      BY <3>1, SeqEqual
    <3> QED
      BY <3>2 DEF p
  <2> QED
    BY <1>1, <2>3, <2>5 DEF IsPrefix
<1> QED
  BY <1>2, <1>3
-----------------------------------------------------------------------------
(* The segments of a path, and the text of a list of names.                *)
Down(a, b) == a \o Root \o b
Text(names) == FlattenSeq([i \in DOMAIN names |-> Root \o names[i]])
Plain(Y) == Seq(Y \ {Slash})

(* Names without a slash are texts.                                         *)
LEMMA PlainIsText ==
    ASSUME NEW Y
    PROVE  Plain(Y) \subseteq Seq(Y) /\ Seq(Plain(Y)) \subseteq Seq(Seq(Y))
           /\ Lists(Y \ {Slash}) \subseteq Lists(Y)
<1>1. Plain(Y) \subseteq Seq(Y)
  BY SeqMonotonic DEF Plain
<1>2. Seq(Plain(Y)) \subseteq Seq(Seq(Y))
  BY <1>1, SeqMonotonic
<1> QED
  BY <1>1, <1>2 DEF Lists, Plain

(* No segment has a slash.                                                  *)
LEMMA SegmentsArePlain ==
    ASSUME NEW Y, NEW p \in Seq(Y)
    PROVE  Segments(p) \in Seq(Plain(Y)) /\ Segments(p) # <<>>
<1> DEFINE Z == Plain(Y)
           S == {t \in Seq(Y) : Segments(t) \in Seq(Z)}
<1>0. <<>> \in Z
  BY EmptySeq DEF Plain
<1>1. <<>> \in S
  <2>1. Segments(<<>>) = <<<<>>>> /\ <<>> \in Seq(Y)
    BY SegmentsGrow, EmptySeq
  <2> HIDE DEF Z
  <2>2. <<<<>>>> \in Seq(Z)
    BY <1>0, Singles
  <2> QED
    BY <2>1, <2>2
<1>2. ASSUME NEW t \in Seq(Y), NEW c \in Y, t \in S PROVE Append(t, c) \in S
  <2> DEFINE s == Segments(t)
  <2>1. s \in Seq(Z) /\ s # <<>> /\ Append(t, c) \in Seq(Y)
    BY <1>2, SegmentsGrow, AppendProperties DEF Lists
  <2>2. Segments(Append(t, c)) = IF c = Slash THEN Append(s, <<>>)
                                 ELSE Front(s) \o <<Append(Last(s), c)>>
    BY SegmentsGrow
  <2> HIDE DEF s, Z
  <2>3. CASE c = Slash
    <3>1. Append(s, <<>>) \in Seq(Z)
      BY <1>0, <2>1, AppendProperties
    <3> QED
      BY <2>1, <2>2, <2>3, <3>1
  <2>4. CASE c # Slash
    <3>1. Front(s) \in Seq(Z) /\ Last(s) \in Z
      BY <2>1, FrontAndLast
    <3>2. Append(Last(s), c) \in Z
      BY <2>4, <3>1, AppendProperties DEF Z, Plain
    <3>3. <<Append(Last(s), c)>> \in Seq(Z)
      BY <3>2, Singles
    <3>4. Front(s) \o <<Append(Last(s), c)>> \in Seq(Z)
      BY <3>1, <3>3, ConcatProperties
    <3> QED
      BY <2>1, <2>2, <2>4, <3>4
  <2> QED
    BY <2>3, <2>4
<1>3. Seq(Y) \subseteq S
  <2> HIDE DEF S
  <2> QED
    BY <1>1, <1>2, Appending
<1>4. Segments(p) # <<>>
  BY SegmentsGrow DEF Lists
<1> QED
  BY <1>3, <1>4

(* What is between two slashes is a segment of its own.                    *)
LEMMA SegmentsOfDown ==
    ASSUME NEW Y, Slash \in Y, NEW a \in Seq(Y), NEW b \in Seq(Y)
    PROVE  Down(a, b) \in Seq(Y) /\ Segments(Down(a, b)) = Segments(a) \o Segments(b)
<1> DEFINE d == Append(a, Slash)
           s == Segments(a)
           S == {t \in Seq(Y) : Segments(d \o t) = s \o Segments(t)}
           Z == Seq(Y)
<1>1. d \in Seq(Y) /\ \A t \in Seq(Y) : Down(a, t) = d \o t
  BY AppendProperties, AppendIsConcat DEF Down, Root
<1>2. <<>> \in Z /\ s \in Seq(Z) /\ \A t \in Seq(Y) : Segments(t) \in Seq(Z)
      /\ Segments(t) # <<>>
  BY SegmentsGrow, EmptySeq DEF Lists
<1>3. Segments(d) = Append(s, <<>>)
  BY SegmentsGrow
<1> HIDE DEF d, s, Z
<1>4. <<>> \in S
  <2>1. d \o <<>> = d /\ Segments(<<>>) = <<<<>>>> /\ <<>> \in Seq(Y)
    BY <1>1, ConcatEmptySeq, SegmentsGrow, EmptySeq
  <2>2. Append(s, <<>>) = s \o <<<<>>>>
    BY <1>2, AppendIsConcat
  <2> QED
    BY <1>3, <2>1, <2>2
<1>5. ASSUME NEW t \in Seq(Y), NEW c \in Y, t \in S PROVE Append(t, c) \in S
  <2> DEFINE u == Segments(t)
  <2>1. u \in Seq(Z) /\ u # <<>> /\ Segments(d \o t) = s \o u
    BY <1>2, <1>5
  <2>2. Append(t, c) \in Seq(Y) /\ d \o t \in Seq(Y)
        /\ d \o Append(t, c) = Append(d \o t, c)
    BY <1>1, AppendProperties, ConcatProperties, ConcatAppend
  <2>3. Segments(Append(t, c)) = IF c = Slash THEN Append(u, <<>>)
                                 ELSE Front(u) \o <<Append(Last(u), c)>>
    BY SegmentsGrow
  <2>4. Segments(Append(d \o t, c)) = IF c = Slash THEN Append(s \o u, <<>>)
                                 ELSE Front(s \o u) \o <<Append(Last(s \o u), c)>>
    BY <2>1, <2>2, SegmentsGrow
  <2> HIDE DEF u
  <2>5. CASE c = Slash
    <3>1. s \o Append(u, <<>>) = Append(s \o u, <<>>)
      BY <1>2, <2>1, ConcatAppend
    <3> QED
      BY <2>2, <2>3, <2>4, <2>5, <3>1
  <2>6. CASE c # Slash
    <3>1. Front(s \o u) = s \o Front(u) /\ Last(s \o u) = Last(u)
      BY <1>2, <2>1, ConcatParts
    <3>2. Front(u) \in Seq(Z) /\ Last(u) \in Z
      BY <2>1, FrontAndLast
    <3> DEFINE e == <<Append(Last(u), c)>>
    <3>3. e \in Seq(Z)
      BY <3>2, AppendProperties, Singles DEF Z
    <3> HIDE DEF e
    <3>4. (s \o Front(u)) \o e = s \o (Front(u) \o e)
      <4>1. Grouped(s, Front(u), e)
        BY <1>2, <3>2, <3>3, Grouping
      <4> QED
        BY <4>1 DEF Grouped
    <3>5. Segments(Append(d \o t, c)) = (s \o Front(u)) \o e
          /\ Segments(Append(t, c)) = Front(u) \o e
      BY <2>3, <2>4, <2>6, <3>1 DEF e
    <3> QED
      BY <2>2, <3>4, <3>5
  <2> QED
    BY <2>5, <2>6
<1>6. Seq(Y) \subseteq S
  <2> HIDE DEF S
  <2> QED
    BY <1>4, <1>5, Appending
<1>7. d \o b \in Seq(Y) /\ Down(a, b) = d \o b
  BY <1>1, ConcatProperties
<1> QED
  BY <1>6, <1>7 DEF s

(* A name is one segment.                                                   *)
LEMMA SegmentsOfPlain ==
    ASSUME NEW Y, NEW n \in Plain(Y)
    PROVE  Segments(n) = <<n>>
<1> DEFINE Z == Y \ {Slash}
           S == {t \in Seq(Z) : Segments(t) = <<t>>}
<1>1. <<>> \in S
  BY SegmentsGrow, EmptySeq
<1>2. ASSUME NEW t \in Seq(Z), NEW c \in Z, t \in S PROVE Append(t, c) \in S
  <2>1. Segments(Append(t, c)) = Front(<<t>>) \o <<Append(Last(<<t>>), c)>>
    BY <1>2, SegmentsGrow
  <2>2. Front(<<t>>) = <<>> /\ Last(<<t>>) = t /\ Append(t, c) \in Seq(Z)
    BY Singles, AppendProperties
  <2>3. <<Append(t, c)>> \in Seq(Seq(Z))
    BY <2>2, Singles
  <2>4. <<>> \o <<Append(t, c)>> = <<Append(t, c)>>
    BY <2>3, ConcatEmptySeq
  <2> QED
    BY <2>1, <2>2, <2>4
<1>3. Seq(Z) \subseteq S
  <2> HIDE DEF S
  <2> QED
    BY <1>1, <1>2, Appending
<1> QED
  BY <1>3 DEF Plain

-----------------------------------------------------------------------------
(* Names written one behind the other.                                     *)
Grown(text, names, n) == text = Text(names) \o (Root \o n)

(* The text of one name more.                                               *)
LEMMA TextGrows ==
    ASSUME NEW Y, Slash \in Y, NEW B \in Seq(Seq(Y))
    PROVE  /\ Text(<<>>) = <<>> /\ Text(B) \in Seq(Y)
           /\ \A n \in Seq(Y) : Grown(Text(Append(B, n)), B, n)
<1> DEFINE Z == Seq(Y)
           M(C) == [i \in DOMAIN C |-> Root \o C[i]]
<1>1. Root \in Z /\ \A n \in Z : Root \o n \in Z
  BY Singles, ConcatProperties DEF Root
<1>2. ASSUME NEW C \in Seq(Z) PROVE M(C) \in Seq(Z) /\ Len(M(C)) = Len(C)
  <2>1. DOMAIN C = 1..Len(C) /\ Len(C) \in Nat /\ \A i \in 1..Len(C) : C[i] \in Z
    BY LenProperties, ElementOfSeq
  <2> HIDE DEF Z
  <2>2. M(C) \in [1..Len(C) -> Z]
    BY <1>1, <2>1
  <2> QED
    BY <2>1, <2>2
<1>3. M(<<>>) = <<>>
  OBVIOUS
<1>4. ASSUME NEW n \in Z PROVE M(Append(B, n)) = Append(M(B), Root \o n)
  <2> DEFINE C == Append(B, n)
             k == Len(B)
  <2>1. /\ C \in Seq(Z) /\ Len(C) = k + 1 /\ k \in Nat /\ C[k + 1] = n
        /\ \A i \in 1..k : C[i] = B[i]
        /\ DOMAIN B = 1..k
    BY AppendProperties, LenProperties
  <2>2. M(C) \in Seq(Z) /\ Len(M(C)) = k + 1 /\ M(B) \in Seq(Z) /\ Len(M(B)) = k
    BY <1>2, <2>1
  <2>3. DOMAIN C = 1..k + 1
    BY <2>1, LenProperties
  <2> DEFINE e == Root \o n
             R == Append(M(B), e)
  <2>4. e \in Z
    BY <1>1
  <2>5. /\ \A i \in 1..k : M(C)[i] = M(B)[i]
        /\ M(C)[k + 1] = e
    <3> HIDE DEF C, Z
    <3>1. ASSUME NEW i \in 1..k PROVE M(C)[i] = M(B)[i]
      <4>1. i \in DOMAIN C /\ i \in DOMAIN B /\ C[i] = B[i]
        BY <2>1, <2>3
      <4>2. M(C)[i] = Root \o C[i] /\ M(B)[i] = Root \o B[i]
        BY <4>1, Zenon
      <4> QED
        BY <4>1, <4>2, Zenon
    <3>2. k + 1 \in DOMAIN C
      BY <2>1, <2>3
    <3>3. M(C)[k + 1] = Root \o C[k + 1]
      BY <3>2, Zenon
    <3> QED
      BY <2>1, <3>1, <3>3, Zenon
  <2> HIDE DEF M, Z, e, C
  <2>6. /\ R \in Seq(Z) /\ Len(R) = k + 1 /\ R[k + 1] = e /\ \A i \in 1..k : R[i] = M(B)[i]
    BY <2>2, <2>4, AppendProperties
  <2> HIDE DEF R
  <2>7. \A i \in 1..k + 1 : M(C)[i] = R[i]
    BY <2>1, <2>5, <2>6
  <2>8. M(C) = R
    BY <2>2, <2>6, <2>7, SeqEqual
  <2> QED
    BY <2>8 DEF R, e, C
<1>5. \A C : Text(C) = FlattenSeq(M(C))
  BY DEF Text
<1> HIDE DEF M
<1>6. FlattenSeq(<<>>) = <<>> /\ FlattenSeq(M(B)) \in Z
  BY <1>2, FlattenGrows
<1>7. ASSUME NEW n \in Z PROVE Grown(Text(Append(B, n)), B, n)
  <2>1. FlattenSeq(Append(M(B), Root \o n)) = FlattenSeq(M(B)) \o (Root \o n)
    BY <1>1, <1>2, FlattenGrows
  <2>2. Text(Append(B, n)) = FlattenSeq(Append(M(B), Root \o n))
    BY <1>4, <1>5
  <2> QED
    BY <1>5, <2>1, <2>2 DEF Grown
<1> QED
  BY <1>3, <1>5, <1>6, <1>7

LEMMA TextOfConcat ==
    ASSUME NEW Y, Slash \in Y, NEW A \in Seq(Seq(Y)), NEW B \in Seq(Seq(Y))
    PROVE  Text(A \o B) = Text(A) \o Text(B)
<1> DEFINE Z == Seq(Y)
           S == {C \in Seq(Z) : Text(A \o C) = Text(A) \o Text(C)}
<1>1. Text(A) \in Z /\ Text(<<>>) = <<>> /\ <<>> \in Seq(Z)
  BY TextGrows, EmptySeq
<1>2. <<>> \in S
  <2>1. A \o <<>> = A /\ Text(A) \o <<>> = Text(A)
    BY <1>1, ConcatEmptySeq
  <2> QED
    BY <1>1, <2>1
<1>3. ASSUME NEW C \in Seq(Z), NEW n \in Z, C \in S PROVE Append(C, n) \in S
  <2>1. Append(C, n) \in Seq(Z) /\ A \o C \in Seq(Z)
        /\ A \o Append(C, n) = Append(A \o C, n)
    BY AppendProperties, ConcatProperties, ConcatAppend
  <2>2. Text(C) \in Z /\ Root \in Z /\ Root \o n \in Z
    BY TextGrows, Singles, ConcatProperties DEF Root
  <2>3. Grown(Text(Append(A \o C, n)), A \o C, n) /\ Grown(Text(Append(C, n)), C, n)
    BY <2>1, TextGrows
  <2> DEFINE e == Root \o n
  <2>4. Text(Append(A \o C, n)) = (Text(A) \o Text(C)) \o e
        /\ Text(Append(C, n)) = Text(C) \o e
    BY <1>3, <2>3 DEF Grown
  <2>5. Grouped(Text(A), Text(C), e)
    BY <1>1, <2>2, Grouping
  <2> HIDE DEF e
  <2>6. Text(A \o Append(C, n)) = Text(A) \o Text(Append(C, n))
    BY <2>1, <2>4, <2>5 DEF Grouped
  <2> QED
    BY <2>1, <2>6
<1>4. Seq(Z) \subseteq S
  <2> HIDE DEF S, Z
  <2> QED
    BY <1>2, <1>3, Appending
<1> QED
  BY <1>4

LEMMA TextStartsWithSlash ==
    ASSUME NEW Y, Slash \in Y, NEW B \in Seq(Seq(Y)), B # <<>>
    PROVE  \E q \in Seq(Y) : Text(B) = Root \o q
<1> DEFINE Z == Seq(Y)
           S == {C \in Seq(Z) : C = <<>> \/ \E q \in Z : Text(C) = Root \o q}
<1>0. Root \in Z
  BY Singles DEF Root
<1>1. <<>> \in S
  BY EmptySeq
<1>2. ASSUME NEW C \in Seq(Z), NEW n \in Z, C \in S PROVE Append(C, n) \in S
  <2>1. Append(C, n) \in Seq(Z) /\ Text(C) \in Z /\ Text(<<>>) = <<>>
        /\ Grown(Text(Append(C, n)), C, n)
    BY AppendProperties, TextGrows
  <2> DEFINE e == Root \o n
  <2>2. e \in Z
    BY <1>0, ConcatProperties
  <2>3. Text(Append(C, n)) = Text(C) \o e
    BY <2>1 DEF Grown
  <2>4. CASE C = <<>>
    <3>1. Text(Append(C, n)) = e
      BY <2>1, <2>2, <2>3, <2>4, ConcatEmptySeq
    <3> QED
      BY <2>1, <3>1
  <2>5. CASE C # <<>>
    <3>1. PICK q \in Z : Text(C) = Root \o q
      BY <1>2, <2>5
    <3>2. Grouped(Root, q, e) /\ q \o e \in Z
      BY <1>0, <2>2, Grouping, ConcatProperties
    <3>3. Text(Append(C, n)) = Root \o (q \o e)
      BY <2>3, <3>1, <3>2 DEF Grouped
    <3> QED
      BY <2>1, <3>2, <3>3
  <2> QED
    BY <2>4, <2>5
<1>3. Seq(Z) \subseteq S
  <2> HIDE DEF S, Z
  <2> QED
    BY <1>1, <1>2, Appending
<1> QED
  BY <1>3

(* A path is the text of its segments.                                     *)
Spelled(p) == Text(Segments(p)) = Root \o p

(* The segments of a path spell it, behind one more slash.                  *)
LEMMA TextOfSegments ==
    ASSUME NEW Y, Slash \in Y, NEW p \in Seq(Y)
    PROVE  Spelled(p)
<1> DEFINE Z == Seq(Y)
           S == {t \in Z : Spelled(t)}
<1>0. Root \in Z /\ <<>> \in Z /\ <<>> \in Seq(Z)
  BY Singles, EmptySeq DEF Root
<1>1. <<>> \in S
  <2>1. Segments(<<>>) = <<<<>>>> /\ Append(<<>>, <<>>) = <<<<>>>>
    BY <1>0, SegmentsGrow
  <2>2. Grown(Text(Append(<<>>, <<>>)), <<>>, <<>>) /\ Text(<<>>) = <<>>
    BY <1>0, TextGrows
  <2> DEFINE e == Root \o <<>>
  <2>3. e \in Z
    BY <1>0, ConcatProperties
  <2>4. <<>> \o e = e
    BY <2>3, ConcatEmptySeq
  <2>5. Text(<<<<>>>>) = e
    BY <2>1, <2>2, <2>4 DEF Grown
  <2> QED
    BY <1>0, <2>1, <2>5 DEF Spelled
<1>2. ASSUME NEW t \in Z, NEW c \in Y, t \in S PROVE Append(t, c) \in S
  <2> DEFINE s == Segments(t)
             f == Front(s)
             l == Last(s)
  <2>1. s \in Seq(Z) /\ s # <<>> /\ Append(t, c) \in Z /\ Text(s) = Root \o t
    BY <1>2, SegmentsGrow, AppendProperties DEF Lists, Spelled
  <2>2. Segments(Append(t, c)) = IF c = Slash THEN Append(s, <<>>)
                                 ELSE f \o <<Append(l, c)>>
    BY SegmentsGrow
  <2>3. Root \o Append(t, c) = Append(Root \o t, c) /\ Root \o t \in Z
    BY <1>0, ConcatAppend, ConcatProperties
  <2> HIDE DEF s
  <2>4. f \in Seq(Z) /\ l \in Z /\ s = Append(f, l)
    BY <2>1, FrontAndLast
  <2> HIDE DEF f, l
  <2>5. CASE c = Slash
    <3>1. Grown(Text(Append(s, <<>>)), s, <<>>)
      BY <1>0, <2>1, TextGrows
    <3>2. Root \o <<>> = Root
      BY <1>0, ConcatEmptySeq
    <3>3. (Root \o t) \o Root = Append(Root \o t, c)
      BY <2>3, <2>5, AppendIsConcat DEF Root
    <3>4. Text(Append(s, <<>>)) = (Root \o t) \o Root
      BY <2>1, <3>1, <3>2 DEF Grown
    <3>5. Text(Segments(Append(t, c))) = Root \o Append(t, c)
      BY <2>2, <2>3, <2>5, <3>3, <3>4
    <3> QED
      BY <2>1, <3>5 DEF Spelled
  <2>6. CASE c # Slash
    <3> DEFINE m == Append(l, c)
    <3>1. m \in Z /\ Text(f) \in Z /\ Root \o l \in Z
      BY <1>0, <2>4, AppendProperties, TextGrows, ConcatProperties
    <3>2. Grown(Text(Append(f, m)), f, m) /\ Grown(Text(Append(f, l)), f, l)
      BY <2>4, <3>1, TextGrows
    <3>3. f \o <<m>> = Append(f, m)
      BY <2>4, <3>1, AppendIsConcat
    <3>4. Root \o m = Append(Root \o l, c)
      BY <1>0, <2>4, ConcatAppend
    <3>5. Text(f) \o Append(Root \o l, c) = Append(Text(f) \o (Root \o l), c)
      BY <3>1, ConcatAppend
    <3>6. Text(f) \o (Root \o l) = Root \o t
      BY <2>1, <2>4, <3>2 DEF Grown
    <3>7. Text(Append(f, m)) = Append(Root \o t, c)
      BY <3>2, <3>4, <3>5, <3>6 DEF Grown
    <3>8. Segments(Append(t, c)) = Append(f, m)
      BY <2>2, <2>6, <3>3
    <3>9. Text(Segments(Append(t, c))) = Root \o Append(t, c)
      BY <2>3, <3>7, <3>8
    <3> QED
      BY <2>1, <3>9 DEF Spelled
  <2> QED
    BY <2>5, <2>6
<1>3. Seq(Y) \subseteq S
  <2> HIDE DEF S
  <2> QED
    BY <1>1, <1>2, Appending
<1> QED
  BY <1>3

-----------------------------------------------------------------------------
(* Where a text goes on from another one.                                  *)
Starts(s, t) == Len(s) <= Len(t) /\ \A i \in 1..Len(s) : t[i] = s[i]

(* A prefix has the same characters at the same places.                     *)
LEMMA PrefixByPlace ==
    ASSUME NEW Y, NEW s \in Seq(Y), NEW t \in Seq(Y)
    PROVE  IsPrefix(s, t) <=> Starts(s, t)
<1> DEFINE k == Len(s)
           p == SubSeq(t, 1, k)
<1>1. k \in Nat /\ Len(t) \in Nat /\ SubSeq(s, 1, k) = s
  BY SubSeqFull
<1>2. IsPrefix(s, t) <=> k <= Len(t) /\ s = p
  BY <1>1 DEF IsPrefix
<1>3. ASSUME k <= Len(t) PROVE p \in Seq(Y) /\ Len(p) = k /\ \A i \in 1..k : p[i] = t[i]
  <2>1. \A i \in 1..k : t[i] \in Y
    <3>1. \A i \in 1..k : i \in 1..Len(t)
      BY <1>1, <1>3
    <3> QED
      BY <3>1, ElementOfSeq
  <2>2. 1 \in Int /\ k \in Int
    BY <1>1
  <2> HIDE DEF k
  <2>3. /\ p \in Seq(Y) /\ Len(p) = IF 1 <= k THEN k - 1 + 1 ELSE 0
        /\ \A i \in 1..k - 1 + 1 : p[i] = t[1 + i - 1]
    BY <2>1, <2>2, SubSeqProperties
  <2> HIDE DEF p
  <2> QED
    BY <1>1, <2>3
<1> HIDE DEF p
<1>4. ASSUME k <= Len(t), Starts(s, t) PROVE s = p
  <2>1. p \in Seq(Y) /\ Len(p) = k /\ \A i \in 1..k : s[i] = p[i]
    BY <1>3, <1>4 DEF Starts
  <2> QED
    BY <2>1, SeqEqual
<1>5. ASSUME k <= Len(t), s = p PROVE Starts(s, t)
  <2>1. \A i \in 1..k : p[i] = t[i]
    BY <1>3, <1>5
  <2> QED
    BY <1>5, <2>1 DEF Starts
<1> QED
  BY <1>2, <1>4, <1>5 DEF Starts

LEMMA PrefixesChain ==
    ASSUME NEW Y, NEW s \in Seq(Y), NEW t \in Seq(Y), NEW u \in Seq(Y),
           IsPrefix(s, t), IsPrefix(t, u)
    PROVE  IsPrefix(s, u)
<1>1. Starts(s, t) /\ Starts(t, u) /\ Len(s) \in Nat /\ Len(t) \in Nat /\ Len(u) \in Nat
  BY PrefixByPlace
<1>2. Starts(s, u)
  BY <1>1 DEF Starts
<1> QED
  BY <1>2, PrefixByPlace

(* What lies below a path, and what it leaves of the path.                 *)
LEMMA DownIs ==
    ASSUME NEW Y, Slash \in Y, NEW a \in Seq(Y), NEW b \in Seq(Y)
    PROVE  /\ Down(a, b) \in Seq(Y) /\ Len(Down(a, b)) = Len(a) + 1 + Len(b)
           /\ Down(a, b)[Len(a) + 1] = Slash
           /\ \A i \in 1..Len(a) : Down(a, b)[i] = a[i]
           /\ \A i \in 1..Len(b) : Down(a, b)[Len(a) + 1 + i] = b[i]
           /\ Down(a, b) = a \o (Root \o b)
<1> DEFINE e == Root \o b
<1>1. Root \in Seq(Y) /\ Len(Root) = 1 /\ Root[1] = Slash
  BY Singles DEF Root
<1>2. e \in Seq(Y) /\ Len(e) = 1 + Len(b) /\ e[1] = Slash
      /\ \A i \in 1..Len(b) : e[1 + i] = b[i]
  <2>1. Len(a) \in Nat /\ Len(b) \in Nat
    OBVIOUS
  <2>2. /\ e \in Seq(Y) /\ Len(e) = Len(Root) + Len(b)
        /\ \A i \in 1..Len(Root) + Len(b) : e[i] = IF i <= Len(Root) THEN Root[i] ELSE b[i - Len(Root)]
    BY <1>1, ConcatProperties
  <2> HIDE DEF e
  <2> QED
    BY <1>1, <2>1, <2>2
<1>3. Down(a, b) = a \o e
  BY <1>1, Grouping DEF Down, Grouped
<1> HIDE DEF e
<1> DEFINE d == a \o e
<1>4. /\ d \in Seq(Y) /\ Len(d) = Len(a) + Len(e)
      /\ \A i \in 1..Len(a) + Len(e) : d[i] = IF i <= Len(a) THEN a[i] ELSE e[i - Len(a)]
  <2>1. e \in Seq(Y)
    BY <1>2
  <2> QED
    BY <2>1, ConcatProperties
<1>5. Len(a) \in Nat /\ Len(b) \in Nat
  OBVIOUS
<1> HIDE DEF d
<1>6. /\ Len(d) = Len(a) + 1 + Len(b) /\ d[Len(a) + 1] = Slash
      /\ \A i \in 1..Len(a) : d[i] = a[i]
  BY <1>2, <1>4, <1>5
<1>7. ASSUME NEW i \in 1..Len(b) PROVE d[Len(a) + 1 + i] = b[i]
  <2>1. Len(a) + 1 + i \in 1..Len(a) + Len(e) /\ ~(Len(a) + 1 + i <= Len(a))
        /\ Len(a) + 1 + i - Len(a) = 1 + i
    BY <1>2, <1>5
  <2> QED
    BY <1>2, <1>4, <2>1
<1> QED
  BY <1>3, <1>4, <1>6, <1>7 DEF d, e

Descends(Y, x, a, b) ==
    /\ x \in Seq(Y) /\ Len(x) = Len(a) + 1 + Len(b) /\ x = a \o (Root \o b)
    /\ \A i \in 1..Len(a) : x[i] = a[i]
    /\ \A i \in 1..Len(b) : x[Len(a) + 1 + i] = b[i]

(* A text with a slash in it goes down there.                               *)
LEMMA DownDescends ==
    ASSUME NEW Y, Slash \in Y, NEW a \in Seq(Y), NEW b \in Seq(Y)
    PROVE  Descends(Y, Down(a, b), a, b)
<1> DEFINE x == Down(a, b)
<1>1. x \in Seq(Y) /\ Len(x) = Len(a) + 1 + Len(b)
  BY DownIs
<1>2. x = a \o (Root \o b)
  BY DownIs
<1>3. \A i \in 1..Len(a) : x[i] = a[i]
  BY DownIs
<1>4. \A i \in 1..Len(b) : x[Len(a) + 1 + i] = b[i]
  BY DownIs
<1> HIDE DEF x
<1> QED
  BY <1>1, <1>2, <1>3, <1>4 DEF Descends, x

Under(l, p) == IsStrictPrefix(l, p) /\ p[Len(l) + 1] = Slash

(* Three ways to say that a path goes on below another.                     *)
LEMMA UnderIs ==
    ASSUME NEW Y, Slash \in Y, NEW l \in Seq(Y), NEW p \in Seq(Y)
    PROVE  /\ Under(l, p) <=> \E q \in Seq(Y) : p = Down(l, q)
           /\ Under(l, p) => p = Down(l, SubSeq(p, Len(l) + 2, Len(p)))
                             /\ SubSeq(p, Len(l) + 1, Len(p)) = Root \o SubSeq(p, Len(l) + 2, Len(p))
           /\ Under(l, p) <=> Starts(l, p) /\ Len(l) < Len(p) /\ p[Len(l) + 1] = Slash
<1> DEFINE q == SubSeq(p, Len(l) + 2, Len(p))
           r == SubSeq(p, Len(l) + 1, Len(p))
<1>1. Len(l) \in Nat /\ Len(p) \in Nat
  OBVIOUS
<1>2. Under(l, p) <=> Starts(l, p) /\ Len(l) < Len(p) /\ p[Len(l) + 1] = Slash
  <2>1. IsPrefix(l, p) <=> Starts(l, p)
    BY PrefixByPlace
  <2>2. ASSUME Starts(l, p), Len(l) = Len(p) PROVE l = p
    BY <2>2, SeqEqual DEF Starts
  <2> QED
    BY <1>1, <2>1, <2>2 DEF Under, IsStrictPrefix, Starts
<1>3. ASSUME Under(l, p)
      PROVE  q \in Seq(Y) /\ r = Root \o q /\ p = Down(l, q)
  <2>1. Starts(l, p) /\ Len(l) < Len(p) /\ p[Len(l) + 1] = Slash
    BY <1>2, <1>3
  <2>2. /\ Len(l) + 1 \in 1..Len(p) /\ Len(p) \in Len(l) + 1..Len(p)
        /\ Len(l) + 2 \in Int /\ Len(p) \in Int
        /\ \A i \in Len(l) + 2..Len(p) : i \in 1..Len(p)
        /\ Len(l) + 1 + 1 = Len(l) + 2
        /\ 1 \in 1..Len(p) + 1 /\ Len(l) \in 1 - 1..Len(p) /\ Len(p) \in Len(l)..Len(p)
    BY <1>1, <2>1
  <2>3. r = <<p[Len(l) + 1]>> \o SubSeq(p, Len(l) + 1 + 1, Len(p))
    BY <2>2, SubSeqRecursiveFirst
  <2>4. r = Root \o q
    BY <2>1, <2>2, <2>3 DEF Root
  <2>5. \A i \in Len(l) + 2..Len(p) : p[i] \in Y
    BY <2>2, ElementOfSeq
  <2>6. q \in Seq(Y)
    BY <2>2, <2>5, SubSeqProperties
  <2>7. SubSeq(p, 1, Len(l)) \o r = SubSeq(p, 1, Len(p))
    BY <2>2, ConcatAdjacentSubSeq
  <2>8. SubSeq(p, 1, Len(p)) = p /\ SubSeq(l, 1, Len(l)) = l
    BY SubSeqFull
  <2>9. SubSeq(p, 1, Len(l)) = l
    <3>1. IsPrefix(l, p)
      BY <1>3 DEF Under, IsStrictPrefix
    <3> QED
      BY <2>8, <3>1 DEF IsPrefix
  <2> HIDE DEF q, r
  <2>10. p = l \o (Root \o q)
    BY <2>4, <2>7, <2>8, <2>9
  <2>11. Down(l, q) = l \o (Root \o q)
    BY <2>6, DownIs
  <2> QED
    BY <2>4, <2>6, <2>10, <2>11
<1>4. ASSUME NEW u \in Seq(Y), p = Down(l, u) PROVE Under(l, p)
  <2>1. Len(p) = Len(l) + 1 + Len(u) /\ p[Len(l) + 1] = Slash
        /\ \A i \in 1..Len(l) : p[i] = l[i]
    BY <1>4, DownIs
  <2>2. Len(u) \in Nat
    OBVIOUS
  <2>3. Starts(l, p) /\ Len(l) < Len(p)
    BY <1>1, <2>1, <2>2 DEF Starts
  <2> QED
    BY <1>2, <2>1, <2>3
<1> QED
  BY <1>2, <1>3, <1>4

(* Texts compared at a boundary are lists of names compared.               *)
LEMMA PrefixOfSegments ==
    ASSUME NEW Y, Slash \in Y, NEW l \in Seq(Y), NEW p \in Seq(Y)
    PROVE  IsPrefix(Segments(l), Segments(p)) <=> p = l \/ Under(l, p)
<1> DEFINE Z == Seq(Y)
           s == Segments(l)
           t == Segments(p)
<1>1. s \in Seq(Z) /\ t \in Seq(Z)
  BY SegmentsGrow DEF Lists
<1>2. ASSUME NEW q \in Z, p = Down(l, q) PROVE IsPrefix(s, t)
  <2>1. t = s \o Segments(q) /\ Segments(q) \in Seq(Z)
    BY <1>2, SegmentsOfDown, SegmentsGrow DEF Lists
  <2> HIDE DEF s, t, Z
  <2> QED
    BY <1>1, <2>1, PrefixIs
<1>3. ASSUME p = l PROVE IsPrefix(s, t)
  <2>1. s = t /\ Len(s) \in Nat
    BY <1>1, <1>3
  <2> HIDE DEF s, t
  <2> QED
    BY <2>1 DEF IsPrefix
<1>4. ASSUME IsPrefix(s, t) PROVE p = l \/ Under(l, p)
  <2>1. PICK u \in Seq(Z) : t = s \o u
    <3> HIDE DEF s, t, Z
    <3> QED
      BY <1>1, <1>4, PrefixIs
  <2>2. Text(s) = Root \o l /\ Text(t) = Root \o p
    BY TextOfSegments DEF Spelled
  <2>3. Text(t) = Text(s) \o Text(u)
    <3> HIDE DEF s, t
    <3>1. Text(s \o u) = Text(s) \o Text(u)
      BY <1>1, TextOfConcat
    <3> QED
      BY <2>1, <3>1
  <2>4. Text(u) \in Z /\ Text(<<>>) = <<>> /\ Root \in Z
    BY TextGrows, Singles DEF Root
  <2> HIDE DEF s, t
  <2>5. CASE u = <<>>
    <3>1. (Root \o l) \o <<>> = Root \o l
      BY <2>4, ConcatProperties, ConcatEmptySeq
    <3>2. Root \o p = Root \o l
      BY <2>2, <2>3, <2>4, <2>5, <3>1
    <3>3. p = l
      BY <2>4, <3>2, ConcatSimplifications, Zenon
    <3> QED
      BY <3>3
  <2>6. CASE u # <<>>
    <3>1. PICK q \in Z : Text(u) = Root \o q
      BY <2>6, TextStartsWithSlash
    <3> DEFINE e == Root \o q
    <3>2. e \in Z /\ l \o e \in Z /\ Grouped(Root, l, e)
      BY <2>4, ConcatProperties, Grouping
    <3> HIDE DEF e
    <3>3. Root \o p = Root \o (l \o e)
      BY <2>2, <2>3, <3>1, <3>2 DEF e, Grouped
    <3>4. p = l \o e
      BY <2>4, <3>2, <3>3, ConcatSimplifications, Zenon
    <3>5. Down(l, q) = l \o e
      BY DownIs DEF e
    <3> QED
      BY <3>4, <3>5, UnderIs
  <2> QED
    BY <2>5, <2>6
<1> QED
  BY <1>2, <1>3, <1>4, UnderIs

(* What goes on below a path has more segments.                             *)
LEMMA UnderIsDeeper ==
    ASSUME NEW Y, Slash \in Y, NEW l \in Seq(Y), NEW p \in Seq(Y), Under(l, p)
    PROVE  Len(Segments(l)) < Len(Segments(p)) /\ Len(Segments(l)) \in Nat \ {0}
           /\ Len(Segments(p)) \in Nat
<1>1. PICK q \in Seq(Y) : p = Down(l, q)
  BY UnderIs
<1> DEFINE s == Segments(l)
           t == Segments(q)
<1>2. Segments(p) = s \o t
  BY <1>1, SegmentsOfDown
<1>3. s \in Seq(Seq(Y)) /\ t \in Seq(Seq(Y)) /\ s # <<>> /\ t # <<>>
  BY SegmentsGrow DEF Lists
<1> HIDE DEF s, t
<1>4. Len(s) \in Nat \ {0} /\ Len(t) \in Nat \ {0} /\ Len(s \o t) = Len(s) + Len(t)
  BY <1>3, EmptySeq, ConcatProperties
<1> QED
  BY <1>2, <1>4 DEF s

-----------------------------------------------------------------------------
(* Names: segments that Enter keeps.                                       *)
Steps(Y)  == Plain(Y) \ {<<Dot, Dot>>}
Proper(Y) == Plain(Y) \ {<<>>, <<Dot>>, <<Dot, Dot>>}

LEMMA ProperArePlain ==
    ASSUME NEW Y
    PROVE  Seq(Proper(Y)) \subseteq Seq(Plain(Y)) /\ Seq(Plain(Y)) \subseteq Seq(Seq(Y))
           /\ Proper(Y) \subseteq Plain(Y) /\ Plain(Y) \subseteq Seq(Y) /\ <<>> \in Plain(Y)
<1>1. Proper(Y) \subseteq Plain(Y)
  BY DEF Proper
<1>2. Seq(Proper(Y)) \subseteq Seq(Plain(Y))
  BY <1>1, SeqMonotonic
<1>3. <<>> \in Plain(Y)
  BY EmptySeq DEF Plain
<1> QED
  BY <1>1, <1>2, <1>3, PlainIsText

LEMMA NamesStep ==
    ASSUME NEW Y, NEW t \in Seq(Plain(Y)), NEW c \in Plain(Y)
    PROVE  NamesOf(Append(t, c)) = Enter(NamesOf(t), c) /\ NamesOf(<<>>) = <<>>
BY NamesGrow DEF Plain

(* Neither ".", ".." nor the empty name is left over.                       *)
LEMMA NamesAreProper ==
    ASSUME NEW Y, NEW t \in Seq(Plain(Y))
    PROVE  NamesOf(t) \in Seq(Proper(Y))
<1> DEFINE Z == Plain(Y)
           P == Proper(Y)
           S == {u \in Seq(Z) : NamesOf(u) \in Seq(P)}
<1>0. <<>> \in Z /\ <<>> \in Seq(Z) /\ <<>> \in Seq(P)
  BY ProperArePlain, EmptySeq
<1>1. <<>> \in S
  BY <1>0, NamesStep
<1>2. ASSUME NEW u \in Seq(Z), NEW c \in Z, u \in S PROVE Append(u, c) \in S
  <2> DEFINE n == NamesOf(u)
             m == Enter(n, c)
  <2>1. n \in Seq(P) /\ Append(u, c) \in Seq(Z)
    BY <1>2, AppendProperties
  <2>2. NamesOf(Append(u, c)) = m
    BY NamesStep
  <2> HIDE DEF n
  <2>3. n # <<>> => Front(n) \in Seq(P)
    BY <2>1, FrontAndLast
  <2>4. c \notin {<<>>, <<Dot>>, <<Dot, Dot>>} => Append(n, c) \in Seq(P)
    <3>1. c \notin {<<>>, <<Dot>>, <<Dot, Dot>>} => c \in P
      BY DEF Proper
    <3> HIDE DEF P
    <3> QED
      BY <2>1, <3>1, AppendProperties
  <2> HIDE DEF P, Z
  <2>5. m \in Seq(P)
    BY <1>0, <2>1, <2>3, <2>4 DEF Enter
  <2> QED
    BY <2>1, <2>2, <2>5
<1>3. Seq(Z) \subseteq S
  <2> HIDE DEF S, Z
  <2> QED
    BY <1>1, <1>2, Appending
<1> QED
  BY <1>3

(* Proper names are appended.                                               *)
LEMMA NamesFollow ==
    ASSUME NEW Y, NEW s \in Seq(Plain(Y)), NEW B \in Seq(Proper(Y))
    PROVE  NamesOf(s \o B) = NamesOf(s) \o B
<1> DEFINE Z == Plain(Y)
           P == Proper(Y)
           S == {u \in Seq(P) : NamesOf(s \o u) = NamesOf(s) \o u}
<1>0. s \in Seq(Z) /\ NamesOf(s) \in Seq(P) /\ P \subseteq Z /\ Seq(P) \subseteq Seq(Z)
      /\ <<>> \in Seq(P)
  BY NamesAreProper, ProperArePlain, EmptySeq
<1>1. <<>> \in S
  <2>1. s \o <<>> = s /\ NamesOf(s) \o <<>> = NamesOf(s)
    BY <1>0, ConcatEmptySeq
  <2> QED
    BY <1>0, <2>1
<1>2. ASSUME NEW u \in Seq(P), NEW c \in P, u \in S PROVE Append(u, c) \in S
  <2>1. s \o Append(u, c) = Append(s \o u, c) /\ s \o u \in Seq(Z) /\ c \in Z
    <3> HIDE DEF Z, P
    <3>1. u \in Seq(Z) /\ c \in Z
      BY <1>0
    <3> QED
      BY <1>0, <3>1, ConcatAppend, ConcatProperties
  <2>2. NamesOf(Append(s \o u, c)) = Enter(NamesOf(s) \o u, c)
    BY <1>2, <2>1, NamesStep
  <2>3. Enter(NamesOf(s) \o u, c) = Append(NamesOf(s) \o u, c)
    <3>1. c \notin {<<>>, <<Dot>>, <<Dot, Dot>>}
      BY DEF Proper
    <3> QED
      BY <3>1 DEF Enter
  <2> HIDE DEF Z, P
  <2>4. NamesOf(s) \o Append(u, c) = Append(NamesOf(s) \o u, c) /\ Append(u, c) \in Seq(P)
    BY <1>0, ConcatAppend, AppendProperties
  <2> QED
    BY <2>1, <2>2, <2>3, <2>4
<1>3. Seq(P) \subseteq S
  <2> HIDE DEF S, P
  <2> QED
    BY <1>1, <1>2, Appending
<1> QED
  BY <1>3

(* Without "..", what came before stays.                                   *)
LEMMA NamesGoOn ==
    ASSUME NEW Y, NEW s \in Seq(Plain(Y)), NEW t \in Seq(Steps(Y))
    PROVE  \E u \in Seq(Proper(Y)) : NamesOf(s \o t) = NamesOf(s) \o u
<1> DEFINE Z == Plain(Y)
           P == Proper(Y)
           W == Steps(Y)
           n == NamesOf(s)
           S == {v \in Seq(W) : \E u \in Seq(P) : NamesOf(s \o v) = n \o u}
<1>0. s \in Seq(Z) /\ n \in Seq(P) /\ P \subseteq Z /\ Seq(P) \subseteq Seq(Z)
      /\ <<>> \in Seq(P) /\ <<>> \in Seq(W)
  BY NamesAreProper, ProperArePlain, EmptySeq
<1>1. W \subseteq Z /\ Seq(W) \subseteq Seq(Z)
  <2>1. W \subseteq Z
    BY DEF Steps
  <2> QED
    BY <2>1, SeqMonotonic
<1>2. <<>> \in S
  <2>1. s \o <<>> = s /\ n \o <<>> = n
    <3> HIDE DEF n
    <3> QED
      BY <1>0, ConcatEmptySeq
  <2> QED
    BY <1>0, <2>1
<1>3. ASSUME NEW v \in Seq(W), NEW c \in W, v \in S PROVE Append(v, c) \in S
  <2>1. PICK u \in Seq(P) : NamesOf(s \o v) = n \o u
    BY <1>3
  <2>2. s \o Append(v, c) = Append(s \o v, c) /\ s \o v \in Seq(Z) /\ c \in Z
        /\ Append(v, c) \in Seq(W)
    <3>0. Append(v, c) \in Seq(W)
      BY AppendProperties
    <3> HIDE DEF Z, P, W
    <3>1. v \in Seq(Z) /\ c \in Z
      BY <1>1
    <3> QED
      BY <1>0, <3>0, <3>1, ConcatAppend, ConcatProperties
  <2>3. NamesOf(Append(s \o v, c)) = Enter(n \o u, c)
    BY <2>1, <2>2, NamesStep
  <2>4. c # <<Dot, Dot>> /\ (c \notin {<<>>, <<Dot>>} => c \in P)
    BY DEF Steps, Proper
  <2> HIDE DEF Z, P, W, n
  <2>5. CASE c \in {<<>>, <<Dot>>}
    <3>1. Enter(n \o u, c) = n \o u
      BY <2>4, <2>5 DEF Enter
    <3> QED
      BY <2>2, <2>3, <3>1
  <2>6. CASE c \notin {<<>>, <<Dot>>}
    <3>1. Enter(n \o u, c) = Append(n \o u, c)
      BY <2>4, <2>6 DEF Enter
    <3>2. n \o Append(u, c) = Append(n \o u, c) /\ Append(u, c) \in Seq(P)
      BY <1>0, <2>4, <2>6, ConcatAppend, AppendProperties
    <3>3. NamesOf(s \o Append(v, c)) = n \o Append(u, c)
      BY <2>2, <2>3, <3>1, <3>2
    <3> QED
      BY <2>2, <3>2, <3>3
  <2> QED
    BY <2>5, <2>6
<1>4. Seq(W) \subseteq S
  <2> HIDE DEF S, W
  <2> QED
    BY <1>2, <1>3, Appending
<1> QED
  BY <1>4

(* The text of names has their segments, behind the first slash.            *)
LEMMA SegmentsOfText ==
    ASSUME NEW Y, Slash \in Y, NEW B \in Seq(Plain(Y))
    PROVE  Segments(Text(B)) = <<<<>>>> \o B
<1> DEFINE Z == Plain(Y)
           S == {C \in Seq(Z) : Segments(Text(C)) = <<<<>>>> \o C}
<1>0. <<<<>>>> \in Seq(Z) /\ <<>> \in Seq(Z) /\ Z \subseteq Seq(Y)
      /\ Seq(Z) \subseteq Seq(Seq(Y))
  <2>1. <<>> \in Z /\ Z \subseteq Seq(Y) /\ Seq(Z) \subseteq Seq(Seq(Y))
    BY ProperArePlain
  <2> HIDE DEF Z
  <2> QED
    BY <2>1, Singles, EmptySeq
<1>1. <<>> \in S
  <2>1. Text(<<>>) = <<>> /\ Segments(<<>>) = <<<<>>>> /\ <<>> \in Seq(Seq(Y))
        /\ <<>> \in Seq(Y)
    BY TextGrows, SegmentsGrow, EmptySeq
  <2>2. <<<<>>>> \o <<>> = <<<<>>>>
    BY <1>0, ConcatEmptySeq
  <2> QED
    BY <1>0, <2>1, <2>2
<1>2. ASSUME NEW C \in Seq(Z), NEW n \in Z, C \in S PROVE Append(C, n) \in S
  <2>1. C \in Seq(Seq(Y)) /\ n \in Seq(Y) /\ Append(C, n) \in Seq(Z)
    BY <1>0, AppendProperties
  <2>2. Grown(Text(Append(C, n)), C, n) /\ Text(C) \in Seq(Y)
    BY <2>1, TextGrows
  <2>3. Text(Append(C, n)) = Down(Text(C), n)
    <3>1. Down(Text(C), n) = Text(C) \o (Root \o n)
      BY <2>1, <2>2, DownIs
    <3> QED
      BY <2>2, <3>1 DEF Grown
  <2>4. Segments(Text(Append(C, n))) = (<<<<>>>> \o C) \o <<n>>
    <3>1. Segments(Down(Text(C), n)) = Segments(Text(C)) \o Segments(n)
      BY <2>1, <2>2, SegmentsOfDown
    <3>2. Segments(n) = <<n>>
      BY SegmentsOfPlain
    <3> QED
      BY <1>2, <2>3, <3>1, <3>2
  <2> HIDE DEF Z
  <2>5. Append(<<<<>>>> \o C, n) = (<<<<>>>> \o C) \o <<n>>
    BY <1>0, ConcatProperties, AppendIsConcat
  <2>6. <<<<>>>> \o Append(C, n) = Append(<<<<>>>> \o C, n)
    BY <1>0, ConcatAppend
  <2> QED
    BY <2>1, <2>4, <2>5, <2>6
<1>3. Seq(Z) \subseteq S
  <2> HIDE DEF S, Z
  <2> QED
    BY <1>1, <1>2, Appending
<1> QED
  BY <1>3

(* The names of the text of names are the names.                            *)
LEMMA NamesOfText ==
    ASSUME NEW Y, Slash \in Y, NEW B \in Seq(Proper(Y))
    PROVE  Names(Text(B)) = B
<1>1. B \in Seq(Plain(Y)) /\ <<>> \in Plain(Y) /\ <<>> \in Seq(Plain(Y))
  BY ProperArePlain, EmptySeq
<1>2. Segments(Text(B)) = <<<<>>>> \o B
  BY <1>1, SegmentsOfText
<1>3. <<<<>>>> \in Seq(Plain(Y)) /\ Append(<<>>, <<>>) = <<<<>>>>
  BY <1>1, Singles
<1>4. NamesOf(<<<<>>>>) = <<>>
  <2>1. NamesOf(Append(<<>>, <<>>)) = Enter(NamesOf(<<>>), <<>>) /\ NamesOf(<<>>) = <<>>
    BY <1>1, NamesStep
  <2> QED
    BY <1>3, <2>1 DEF Enter
<1>5. NamesOf(<<<<>>>> \o B) = <<>> \o B
  BY <1>3, <1>4, NamesFollow
<1>6. <<>> \o B = B
  BY ConcatEmptySeq
<1> QED
  BY <1>2, <1>5, <1>6 DEF Names, NamesOf

LEMMA NamesOfPath ==
    ASSUME NEW Y, NEW p \in Seq(Y)
    PROVE  Names(p) = NamesOf(Segments(p)) /\ Names(p) \in Seq(Proper(Y))
<1>1. Segments(p) \in Seq(Plain(Y))
  BY SegmentsArePlain
<1> QED
  BY <1>1, NamesAreProper DEF Names, NamesOf

(* An empty segment leads nowhere.                                          *)
LEMMA EmptyStaysSo ==
    ASSUME NEW Y, NEW t \in Seq(Plain(Y))
    PROVE  NamesOf(Append(t, <<>>)) = NamesOf(t)
<1>1. NamesOf(Append(t, <<>>)) = Enter(NamesOf(t), <<>>)
  BY ProperArePlain, NamesStep
<1> QED
  BY <1>1 DEF Enter

LEMMA NamesOfDown ==
    ASSUME NEW Y, Slash \in Y, NEW a \in Seq(Y), NEW b \in Seq(Y)
    PROVE  Names(Down(a, b)) = NamesOf(Segments(a) \o Segments(b))
<1>1. Down(a, b) \in Seq(Y) /\ Segments(Down(a, b)) = Segments(a) \o Segments(b)
  BY SegmentsOfDown
<1>2. Names(Down(a, b)) = NamesOf(Segments(Down(a, b)))
  BY <1>1, NamesOfPath
<1> QED
  BY <1>1, <1>2

(* A slash at the end changes no name.                                      *)
LEMMA SlashBehind ==
    ASSUME NEW Y, Slash \in Y, NEW a \in Seq(Y)
    PROVE  Down(a, <<>>) = Append(a, Slash) /\ Names(Append(a, Slash)) = Names(a)
<1>1. Root \in Seq(Y) /\ a \o Root \in Seq(Y)
  BY Singles, ConcatProperties DEF Root
<1>2. (a \o Root) \o <<>> = a \o Root
  BY <1>1, ConcatEmptySeq
<1>3. a \o Root = Append(a, Slash)
  BY AppendIsConcat DEF Root
<1>4. Append(a, Slash) \in Seq(Y) /\ Segments(Append(a, Slash)) = Append(Segments(a), <<>>)
  BY SegmentsGrow, AppendProperties
<1>5. Segments(a) \in Seq(Plain(Y))
  BY SegmentsArePlain
<1>6. NamesOf(Append(Segments(a), <<>>)) = NamesOf(Segments(a))
  BY <1>5, EmptyStaysSo
<1> QED
  BY <1>2, <1>3, <1>4, <1>6, NamesOfPath DEF Down

(* normalizePath keeps the names, and does nothing the second time.         *)
LEMMA NormalizeIs ==
    ASSUME NEW Y, Slash \in Y, NEW p \in Seq(Y)
    PROVE  /\ NormalizePath(p) = IF Names(p) = <<>> THEN Root ELSE Text(Names(p))
           /\ NormalizePath(p) \in Seq(Y) /\ NormalizePath(p) # <<>>
           /\ Names(NormalizePath(p)) = Names(p)
           /\ NormalizePath(NormalizePath(p)) = NormalizePath(p)
<1> DEFINE n == Names(p)
<1>1. n \in Seq(Proper(Y)) /\ n \in Seq(Seq(Y))
  BY NamesOfPath, ProperArePlain
<1>2. \A q : NormalizePath(q) = IF Names(q) = <<>> THEN Root ELSE Text(Names(q))
  BY Zenon DEF NormalizePath, Text
<1>3. Root \in Seq(Y) /\ Root # <<>> /\ Names(Root) = <<>>
  <2>1. <<>> \in Seq(Y) /\ Append(<<>>, Slash) = Root
    BY EmptySeq, Singles DEF Root
  <2>2. Names(Root) = Names(<<>>)
    BY <2>1, SlashBehind
  <2>3. Names(<<>>) = NamesOf(Append(<<>>, <<>>))
    <3>1. Segments(<<>>) = <<<<>>>> /\ Append(<<>>, <<>>) = <<<<>>>>
      BY <2>1, SegmentsGrow
    <3> QED
      BY <2>1, <3>1, NamesOfPath
  <2>4. NamesOf(Append(<<>>, <<>>)) = <<>>
    <3>1. <<>> \in Seq(Plain(Y))
      BY EmptySeq
    <3>2. NamesOf(Append(<<>>, <<>>)) = NamesOf(<<>>)
      BY <3>1, EmptyStaysSo
    <3>3. <<>> \in Plain(Y)
      BY ProperArePlain
    <3>4. NamesOf(<<>>) = <<>>
      BY <3>1, <3>3, NamesStep
    <3> QED
      BY <3>2, <3>4
  <2> QED
    BY <2>1, <2>2, <2>3, <2>4, Singles DEF Root
<1>4. n # <<>> => Text(n) \in Seq(Y) /\ Names(Text(n)) = n /\ Text(n) # <<>>
  <2> HIDE DEF n
  <2> SUFFICES ASSUME n # <<>> PROVE Text(n) \in Seq(Y) /\ Names(Text(n)) = n /\ Text(n) # <<>>
    OBVIOUS
  <2>1. Text(n) \in Seq(Y) /\ Names(Text(n)) = n
    BY <1>1, TextGrows, NamesOfText
  <2>2. Names(<<>>) = <<>>
    <3>1. <<>> \in Seq(Proper(Y)) /\ Text(<<>>) = <<>>
      BY <1>1, TextGrows, EmptySeq
    <3> QED
      BY <3>1, NamesOfText
  <2> QED
    BY <2>1, <2>2
<1> HIDE DEF n
<1>5. NormalizePath(p) = IF n = <<>> THEN Root ELSE Text(n)
  BY <1>2 DEF n
<1>6. NormalizePath(p) \in Seq(Y) /\ NormalizePath(p) # <<>> /\ Names(NormalizePath(p)) = n
  BY <1>3, <1>4, <1>5
<1>7. NormalizePath(NormalizePath(p)) = IF n = <<>> THEN Root ELSE Text(n)
  BY <1>2, <1>6
<1> QED
  BY <1>5, <1>6, <1>7 DEF n

-----------------------------------------------------------------------------
(* Below a directory.                                                      *)
LEMMA PrefixOfItself ==
    ASSUME NEW Y, NEW s \in Seq(Y)
    PROVE  IsPrefix(s, s) /\ IsPrefix(<<>>, s)
<1>1. Starts(s, s) /\ <<>> \in Seq(Y)
  BY EmptySeq DEF Starts
<1>2. Starts(<<>>, s)
  BY DEF Starts
<1> QED
  BY <1>1, <1>2, PrefixByPlace

(* The comparison of texts that keeps a file below a root.                 *)
LEMMA InsideIs ==
    ASSUME NEW Y, Slash \in Y, NEW f \in Seq(Y), NEW d \in Seq(Y)
    PROVE  Inside(f, d) <=> f = d \/ Under(d, f)
<1>1. Len(f) \in Nat /\ Len(d) \in Nat
  OBVIOUS
<1>2. IsPrefix(d, f) <=> Starts(d, f)
  BY PrefixByPlace
<1>3. Under(d, f) <=> Starts(d, f) /\ Len(d) < Len(f) /\ f[Len(d) + 1] = Slash
  BY UnderIs
<1>4. ASSUME Starts(d, f), Len(d) = Len(f) PROVE f = d
  BY <1>4, SeqEqual DEF Starts
<1>5. f = d => Starts(d, f) /\ ~(Len(f) > Len(d))
  BY <1>1 DEF Starts
<1>6. Starts(d, f) => Len(d) <= Len(f)
  BY DEF Starts
<1>7. Inside(f, d) <=> Starts(d, f) /\ (Len(f) > Len(d) => f[Len(d) + 1] = Slash)
  BY <1>2 DEF Inside
<1> QED
  BY <1>1, <1>3, <1>4, <1>5, <1>6, <1>7

(* Below a canonical directory, its names come first.                       *)
LEMMA CanonicalPrefix ==
    ASSUME NEW Y, Slash \in Y, NEW d \in Seq(Y), NEW f \in Seq(Y),
           NormalizePath(d) = d, NormalizePath(f) = f, d = Root \/ f = d \/ Under(d, f)
    PROVE  IsPrefix(Names(d), Names(f))
<1> DEFINE A == Names(d)
           B == Names(f)
           Z == Seq(Y)
<1>1. A \in Seq(Proper(Y)) /\ B \in Seq(Proper(Y)) /\ A \in Seq(Z) /\ B \in Seq(Z)
  BY NamesOfPath, ProperArePlain
<1>2. /\ d = IF A = <<>> THEN Root ELSE Text(A)
      /\ f = IF B = <<>> THEN Root ELSE Text(B)
      /\ d # <<>> /\ f # <<>>
  BY NormalizeIs
<1>3. d = Root => A = <<>>
  <2>1. ASSUME d = Root PROVE A = <<>>
    <3>1. <<>> \in Seq(Y) /\ Append(<<>>, Slash) = Root
      BY EmptySeq, Singles DEF Root
    <3>2. Names(Root) = Names(<<>>)
      BY <3>1, SlashBehind
    <3>3. <<>> \in Seq(Proper(Y)) /\ Text(<<>>) = <<>>
      BY <1>1, TextGrows, EmptySeq
    <3>4. Names(<<>>) = <<>>
      BY <3>3, NamesOfText
    <3> QED
      BY <2>1, <3>2, <3>4
  <2> QED
    BY <2>1
<1> HIDE DEF A, B
<1>4. CASE A = <<>>
  BY <1>1, <1>4, PrefixOfItself DEF A, B
<1>5. CASE f = d
  <2>1. A = B
    BY <1>5 DEF A, B
  <2> QED
    BY <1>1, <2>1, PrefixOfItself DEF A, B
<1>6. CASE A # <<>> /\ f # d
  <2>1. Under(d, f)
    BY <1>3, <1>6
  <2>2. PICK q \in Z : f = Down(d, q)
    BY <2>1, UnderIs
  <2>3. B # <<>>
    <3>1. Len(d) \in Nat \ {0} /\ Len(f) \in Nat /\ Len(d) < Len(f)
      BY <1>2, <2>1, EmptySeq, UnderIs
    <3>2. Len(Root) = 1
      BY DEF Root
    <3> QED
      BY <1>2, <3>1, <3>2
  <2> DEFINE one == <<<<>>>>
             t == Segments(q)
  <2>4. Segments(d) = one \o A /\ Segments(f) = one \o B
    <3>1. A \in Seq(Plain(Y)) /\ B \in Seq(Plain(Y))
      BY <1>1, ProperArePlain
    <3>2. Segments(Text(A)) = one \o A /\ Segments(Text(B)) = one \o B
      BY <3>1, SegmentsOfText
    <3> QED
      BY <1>2, <1>6, <2>3, <3>2
  <2>5. Segments(f) = Segments(d) \o t
    BY <2>2, SegmentsOfDown
  <2>6. one \in Seq(Z) /\ t \in Seq(Z)
    BY Singles, EmptySeq, SegmentsGrow DEF Lists
  <2> HIDE DEF one, t, Z
  <2>7. A \o t \in Seq(Z) /\ Grouped(one, A, t)
    BY <1>1, <2>6, ConcatProperties, Grouping
  <2>8. one \o B = one \o (A \o t)
    BY <2>4, <2>5, <2>7 DEF Grouped
  <2>9. B = A \o t
    BY <1>1, <2>6, <2>7, <2>8, ConcatSimplifications, Zenon
  <2>10. IsPrefix(A, B)
    BY <1>1, <2>6, <2>9, PrefixIs
  <2> QED
    BY <2>10 DEF A, B
<1> QED
  BY <1>4, <1>5, <1>6

(* The comparison of texts lets through what has the names of a root in front. *)
LEMMA TextInside ==
    ASSUME NEW Y, Slash \in Y, NEW A \in Seq(Proper(Y)), NEW U \in Seq(Proper(Y))
    PROVE  Inside(Text(A \o U), Text(A))
<1> DEFINE Z == Seq(Y)
           a == Text(A)
<1>1. A \in Seq(Z) /\ U \in Seq(Z)
  BY ProperArePlain
<1>2. a \in Z /\ Text(U) \in Z /\ Text(A \o U) = a \o Text(U)
  BY <1>1, TextGrows, TextOfConcat
<1> HIDE DEF a
<1>3. CASE U = <<>>
  <2>1. Text(<<>>) = <<>>
    BY <1>1, TextGrows
  <2>2. Text(A \o U) = a
    BY <1>2, <1>3, <2>1, ConcatEmptySeq
  <2> QED
    BY <1>2, <2>2, InsideIs DEF a
<1>4. CASE U # <<>>
  <2>1. PICK q \in Z : Text(U) = Root \o q
    BY <1>1, <1>4, TextStartsWithSlash
  <2>2. Down(a, q) = a \o (Root \o q) /\ Down(a, q) \in Z
    BY <1>2, DownIs
  <2>3. Text(A \o U) = Down(a, q)
    BY <1>2, <2>1, <2>2
  <2>4. Under(a, Down(a, q))
    BY <1>2, <2>2, UnderIs
  <2>5. Inside(Down(a, q), a)
    BY <1>2, <2>2, <2>4, InsideIs
  <2> QED
    BY <2>3, <2>5 DEF a
<1> QED
  BY <1>3, <1>4

-----------------------------------------------------------------------------
(* Paths put together.                                                     *)
LEMMA HeadAndTail ==
    ASSUME NEW Y, NEW s \in Seq(Y), s # <<>>
    PROVE  s = <<Head(s)>> \o Tail(s) /\ Tail(s) \in Seq(Y) /\ Head(s) = s[1]
           /\ Head(s) \in Y
<1>1. Len(s) \in Nat \ {0}
  BY EmptySeq
<1>2. 1 \in 1..Len(s) /\ Len(s) \in 1..Len(s)
  BY <1>1
<1>3. SubSeq(s, 1, Len(s)) = <<s[1]>> \o SubSeq(s, 1 + 1, Len(s))
  BY <1>2, SubSeqRecursiveFirst
<1>4. Tail(s) = SubSeq(s, 2, Len(s)) /\ SubSeq(s, 1, Len(s)) = s
  BY TailIsSubSeq, SubSeqFull
<1>5. Tail(s) \in Seq(Y) /\ Head(s) \in Y
  BY HeadTailProperties
<1>6. Head(s) = s[1]
  OBVIOUS
<1> QED
  BY <1>3, <1>4, <1>5, <1>6

LEMMA HeadOfConcat ==
    ASSUME NEW Y, NEW a \in Seq(Y), a # <<>>, NEW b \in Seq(Y)
    PROVE  a \o b \in Seq(Y) /\ a \o b # <<>> /\ Head(a \o b) = Head(a)
<1> DEFINE s == a \o b
<1>1. Len(a) \in Nat \ {0} /\ Len(b) \in Nat
  BY EmptySeq
<1>2. /\ s \in Seq(Y) /\ Len(s) = Len(a) + Len(b)
      /\ \A i \in 1..Len(a) + Len(b) : s[i] = IF i <= Len(a) THEN a[i] ELSE b[i - Len(a)]
  BY ConcatProperties
<1> HIDE DEF s
<1>3. s # <<>> /\ s[1] = a[1]
  BY <1>1, <1>2
<1>4. Head(s) = s[1] /\ Head(a) = a[1]
  BY <1>2, <1>3, HeadAndTail
<1> QED
  BY <1>2, <1>3, <1>4 DEF s

(* A joined path: the first part without a slash at its end, and the       *)
(* second without one at its start.                                        *)
Joined(Y, a, b, c, e) ==
    /\ c \in Seq(Y) /\ e \in Seq(Y)
    /\ JoinPath(a, b) = Down(c, e)
    /\ a = c \/ a = Append(c, Slash)
    /\ b = IF Head(b) = Slash THEN Root \o e ELSE e

(* joinPath puts one slash between its parts.                               *)
LEMMA JoinIs ==
    ASSUME NEW Y, Slash \in Y, NEW a \in Seq(Y), a # <<>>, NEW b \in Seq(Y), b # <<>>
    PROVE  /\ \E c, e : Joined(Y, a, b, c, e)
           /\ JoinPath(a, b) \in Seq(Y) /\ JoinPath(a, b) # <<>>
           /\ Head(JoinPath(a, b)) = Head(a)
<1> DEFINE c == IF Last(a) = Slash THEN Front(a) ELSE a
           e == IF Head(b) = Slash THEN Tail(b) ELSE b
<1>1. b = <<Head(b)>> \o Tail(b) /\ Tail(b) \in Seq(Y)
  BY HeadAndTail
<1>2. Front(a) \in Seq(Y) /\ a = Append(Front(a), Last(a))
  BY FrontAndLast
<1>3. Append(Front(a), Slash) = Front(a) \o Root
  BY <1>2, AppendIsConcat DEF Root
<1>4. c \in Seq(Y) /\ e \in Seq(Y) /\ (a = c \/ a = Append(c, Slash))
      /\ b = IF Head(b) = Slash THEN Root \o e ELSE e
  BY <1>1, <1>2 DEF Root
<1>5. Root \in Seq(Y) /\ Down(c, e) = c \o (Root \o e) /\ Down(c, e) \in Seq(Y)
  BY <1>4, DownIs, Singles DEF Root
<1>6. JoinPath(a, b) = Down(c, e)
  <2>1. CASE Last(a) = Slash /\ Head(b) = Slash
    <3>1. JoinPath(a, b) = a \o Tail(b)
      BY <2>1 DEF JoinPath
    <3>2. a = c \o Root
      BY <1>2, <1>3, <2>1
    <3> QED
      BY <2>1, <3>1, <3>2 DEF Down
  <2>2. CASE Last(a) # Slash /\ Head(b) # Slash
    BY <2>2 DEF JoinPath, Down
  <2>3. CASE Last(a) = Slash /\ Head(b) # Slash
    <3>1. JoinPath(a, b) = a \o b
      BY <2>3 DEF JoinPath
    <3>2. a = c \o Root
      BY <1>2, <1>3, <2>3
    <3> QED
      BY <2>3, <3>1, <3>2 DEF Down
  <2>4. CASE Last(a) # Slash /\ Head(b) = Slash
    <3>1. JoinPath(a, b) = a \o b
      BY <2>4 DEF JoinPath
    <3>2. c = a /\ b = Root \o e
      BY <1>4, <2>4
    <3> HIDE DEF c, e
    <3> QED
      BY <1>5, <3>1, <3>2
  <2> QED
    BY <2>1, <2>2, <2>3, <2>4
<1> HIDE DEF c, e
<1>7. Joined(Y, a, b, c, e)
  BY <1>4, <1>6 DEF Joined
<1>8. \E x \in Seq(Y) : Down(c, e) = a \o x
  <2>1. CASE a = c
    <3>1. Root \o e \in Seq(Y)
      BY <1>4, <1>5, ConcatProperties
    <3> QED
      BY <1>5, <2>1, <3>1
  <2>2. CASE a = Append(c, Slash)
    <3>1. a = c \o Root
      BY <1>4, <2>2, AppendIsConcat DEF Root
    <3> QED
      BY <1>4, <3>1 DEF Down
  <2> QED
    BY <1>4, <2>1, <2>2
<1>9. JoinPath(a, b) # <<>> /\ Head(JoinPath(a, b)) = Head(a)
  <2>1. PICK x \in Seq(Y) : JoinPath(a, b) = a \o x
    BY <1>6, <1>8
  <2> QED
    BY <2>1, HeadOfConcat
<1> QED
  BY <1>5, <1>6, <1>7, <1>9

(* The same for the absolute path that it stands for.                      *)
JoinedAbsolute(Y, a, b, c, e) ==
    /\ c \in Seq(Y) /\ e \in Seq(Y)
    /\ Absolute(JoinPath(a, b)) = Down(c, e)
    /\ Names(c) = Names(Absolute(a))
    /\ b = IF Head(b) = Slash THEN Root \o e ELSE e

(* A relative path starts at the working directory.                         *)
LEMMA AbsoluteIs ==
    ASSUME NEW Y, Slash \in Y, Cwd \in Seq(Y), NEW a \in Seq(Y)
    PROVE  /\ Absolute(a) \in Seq(Y)
           /\ a # <<>> /\ Head(a) = Slash => Absolute(a) = a
           /\ a # <<>> /\ Head(a) # Slash => Absolute(a) = Down(Cwd, a)
<1>1. Down(Cwd, a) \in Seq(Y) /\ Down(Cwd, a) = Cwd \o Root \o a
  BY DownIs DEF Down
<1> QED
  BY <1>1 DEF Absolute

(* The same for a joined path made absolute.                                *)
LEMMA JoinAbsoluteIs ==
    ASSUME NEW Y, Slash \in Y, Cwd \in Seq(Y),
           NEW a \in Seq(Y), a # <<>>, NEW b \in Seq(Y), b # <<>>
    PROVE  \E c, e : JoinedAbsolute(Y, a, b, c, e)
<1>1. PICK c, e : Joined(Y, a, b, c, e)
  BY JoinIs
<1>2. /\ c \in Seq(Y) /\ e \in Seq(Y) /\ JoinPath(a, b) = Down(c, e)
      /\ a = c \/ a = Append(c, Slash)
      /\ b = IF Head(b) = Slash THEN Root \o e ELSE e
  BY <1>1 DEF Joined
<1>3. JoinPath(a, b) \in Seq(Y) /\ JoinPath(a, b) # <<>> /\ Head(JoinPath(a, b)) = Head(a)
  BY JoinIs
<1>4. CASE Head(a) = Slash
  <2>1. Absolute(JoinPath(a, b)) = JoinPath(a, b) /\ Absolute(a) = a
    BY <1>3, <1>4, AbsoluteIs
  <2>2. Names(Append(c, Slash)) = Names(c)
    BY <1>2, SlashBehind
  <2>3. Names(c) = Names(a)
    BY <1>2, <2>2
  <2>4. JoinedAbsolute(Y, a, b, c, e)
    BY <1>2, <2>1, <2>3 DEF JoinedAbsolute
  <2> QED
    BY <2>4
<1>5. CASE Head(a) # Slash
  <2> DEFINE g == Down(Cwd, c)
             h == Root \o e
  <2>1. Absolute(JoinPath(a, b)) = Down(Cwd, Down(c, e)) /\ Absolute(a) = Down(Cwd, a)
    BY <1>2, <1>3, <1>5, AbsoluteIs
  <2>2. /\ g \in Seq(Y) /\ Down(g, e) = g \o h /\ Down(c, e) = c \o h
        /\ Down(c, e) \in Seq(Y)
        /\ Down(Cwd, Down(c, e)) = Cwd \o (Root \o Down(c, e))
        /\ Down(Cwd, c) = Cwd \o (Root \o c)
        /\ Root \in Seq(Y) /\ h \in Seq(Y) /\ Root \o c \in Seq(Y)
    <3>1. g \in Seq(Y) /\ Root \in Seq(Y) /\ h \in Seq(Y) /\ Root \o c \in Seq(Y)
      BY <1>2, DownIs, Singles, ConcatProperties DEF Root
    <3>2. Down(c, e) \in Seq(Y) /\ Down(c, e) = c \o h /\ g = Cwd \o (Root \o c)
      BY <1>2, DownIs
    <3>3. Down(Cwd, Down(c, e)) = Cwd \o (Root \o Down(c, e))
      <4> DEFINE x == Down(c, e)
      <4>1. x \in Seq(Y)
        BY <3>2
      <4> HIDE DEF x
      <4>2. Down(Cwd, x) = Cwd \o (Root \o x)
        BY <4>1, DownIs
      <4> QED
        BY <4>2 DEF x
    <3>4. Down(g, e) = g \o h
      <4> HIDE DEF g
      <4> QED
        BY <1>2, <3>1, DownIs
    <3> QED
      BY <3>1, <3>2, <3>3, <3>4
  <2> HIDE DEF h
  <2>3. Down(Cwd, Down(c, e)) = Down(g, e)
    <3>1. Grouped(Root, c, h)
      BY <1>2, <2>2, Grouping
    <3> DEFINE rc == Root \o c
    <3>2. rc \in Seq(Y) /\ rc \o h = Root \o (c \o h)
      BY <2>2, <3>1 DEF Grouped
    <3> HIDE DEF rc
    <3>3. Grouped(Cwd, rc, h)
      BY <2>2, <3>2, Grouping
    <3>4. g = Cwd \o rc
      BY <2>2 DEF rc
    <3> HIDE DEF g
    <3>5. Down(Cwd, Down(c, e)) = Cwd \o (rc \o h)
      BY <2>2, <3>2
    <3> QED
      BY <2>2, <3>3, <3>4, <3>5 DEF Grouped
  <2>4. Names(g) = Names(Down(Cwd, a))
    <3>1. CASE a = c
      BY <3>1
    <3>2. CASE a = Append(c, Slash)
      <4>1. Root \o Append(c, Slash) = Append(Root \o c, Slash)
        <5>1. Root \in Seq(Y) /\ c \in Seq(Y)
          BY <1>2, <2>2
        <5> QED
          BY <5>1, ConcatAppend
      <4>2. Cwd \o Append(Root \o c, Slash) = Append(Cwd \o (Root \o c), Slash)
        <5> DEFINE t == Root \o c
        <5>1. Cwd \in Seq(Y) /\ t \in Seq(Y)
          BY <2>2
        <5> HIDE DEF t
        <5>2. Cwd \o Append(t, Slash) = Append(Cwd \o t, Slash)
          BY <5>1, ConcatAppend
        <5> QED
          BY <5>2 DEF t
      <4>3. Down(Cwd, a) = Cwd \o (Root \o a)
        <5>1. Descends(Y, Down(Cwd, a), Cwd, a)
          BY DownDescends
        <5> QED
          BY <5>1 DEF Descends
      <4>4. Down(Cwd, a) = Append(g, Slash)
        BY <2>2, <3>2, <4>1, <4>2, <4>3
      <4> HIDE DEF g
      <4>5. Names(Append(g, Slash)) = Names(g)
        BY <2>2, SlashBehind
      <4> QED
        BY <4>4, <4>5
    <3> QED
      BY <1>2, <3>1, <3>2
  <2> HIDE DEF g
  <2>5. JoinedAbsolute(Y, a, b, g, e)
    BY <1>2, <2>1, <2>2, <2>3, <2>4 DEF JoinedAbsolute
  <2> QED
    BY <2>5
<1> QED
  BY <1>4, <1>5

-----------------------------------------------------------------------------
(* A name put below a directory.                                           *)
LEMMA ProperName ==
    ASSUME NEW Y, NEW n \in Proper(Y)
    PROVE  n \in Plain(Y) /\ n \in Seq(Y) /\ n # <<>> /\ Head(n) # Slash
           /\ \A i \in 1..Len(n) : n[i] # Slash
<1>1. n \in Plain(Y) /\ n \in Seq(Y) /\ n # <<>>
  BY ProperArePlain DEF Proper
<1>2. n \in Seq(Y \ {Slash})
  BY <1>1 DEF Plain
<1>3. Head(n) \in Y \ {Slash}
  BY <1>1, <1>2, HeadAndTail
<1>4. \A i \in 1..Len(n) : n[i] \in Y \ {Slash}
  BY <1>2, ElementOfSeq
<1> QED
  BY <1>1, <1>3, <1>4

(* A name that is joined to a directory is the last of its names.           *)
LEMMA NamesOfJoined ==
    ASSUME NEW Y, Slash \in Y, Cwd \in Seq(Y),
           NEW store \in Seq(Y), store # <<>>, NEW name \in Proper(Y)
    PROVE  /\ Absolute(JoinPath(store, name)) \in Seq(Y)
           /\ Names(Absolute(JoinPath(store, name))) = Append(Names(Absolute(store)), name)
<1>1. name \in Plain(Y) /\ name \in Seq(Y) /\ name # <<>> /\ Head(name) # Slash
  BY ProperName
<1>2. PICK c, e : JoinedAbsolute(Y, store, name, c, e)
  BY <1>1, JoinAbsoluteIs
<1>3. /\ c \in Seq(Y) /\ e = name /\ Absolute(JoinPath(store, name)) = Down(c, name)
      /\ Names(c) = Names(Absolute(store))
  BY <1>1, <1>2 DEF JoinedAbsolute
<1> DEFINE s == Segments(c)
<1>4. s \in Seq(Plain(Y)) /\ NamesOf(s) = Names(c) /\ NamesOf(s) \in Seq(Proper(Y))
  BY <1>3, SegmentsArePlain, NamesOfPath
<1>5. Down(c, name) \in Seq(Y) /\ Names(Down(c, name)) = NamesOf(s \o Segments(name))
      /\ Segments(name) = <<name>>
  BY <1>1, <1>3, DownIs, NamesOfDown, SegmentsOfPlain
<1> HIDE DEF s
<1>6. <<name>> \in Seq(Proper(Y))
  BY Singles
<1>7. NamesOf(s \o <<name>>) = NamesOf(s) \o <<name>>
  BY <1>4, <1>6, NamesFollow
<1>8. Append(NamesOf(s), name) = NamesOf(s) \o <<name>>
  BY <1>4, AppendIsConcat
<1> QED
  BY <1>3, <1>4, <1>5, <1>7, <1>8

(* A file with such a name in a directory can be reached.                  *)
LEMMA LeadsBelow ==
    ASSUME NEW Y, Slash \in Y, NEW d \in Seq(Y), NormalizePath(d) = d, d \in Dirs, Leads(d),
           NEW name \in Proper(Y)
    PROVE  Leads(Text(Append(Names(d), name)))
<1> DEFINE A == Names(d)
           g == Text(A)
           f == Text(Append(A, name))
<1>1. A \in Seq(Proper(Y)) /\ A \in Seq(Seq(Y)) /\ name \in Seq(Y)
      /\ \A i \in 1..Len(name) : name[i] # Slash
  BY NamesOfPath, ProperArePlain, ProperName
<1>2. d = IF A = <<>> THEN Root ELSE g
  BY NormalizeIs
<1> HIDE DEF A
<1>3. g \in Seq(Y) /\ f = Down(g, name)
  <2>1. g \in Seq(Y) /\ Grown(Text(Append(A, name)), A, name)
    BY <1>1, TextGrows
  <2>2. Down(g, name) = g \o (Root \o name)
    BY <1>1, <2>1, DownIs
  <2> QED
    BY <2>1, <2>2 DEF Grown
<1>4. A = <<>> => g = <<>>
  BY <1>1, TextGrows
<1>5. NormalizePath(g) = d
  <2>1. CASE A # <<>>
    BY <1>2, <2>1
  <2>2. CASE A = <<>>
    <3>1. Names(g) = A
      BY <1>1, NamesOfText
    <3>2. NormalizePath(g) = IF Names(g) = <<>> THEN Root ELSE Text(Names(g))
      BY <1>3, NormalizeIs
    <3> QED
      BY <1>2, <2>2, <3>1, <3>2
  <2> QED
    BY <2>1, <2>2
<1>6. \A i \in DOMAIN g : g[i] = Slash => NormalizePath(SubSeq(g, 1, i - 1)) \in Dirs
  <2>1. CASE A # <<>>
    BY <1>2, <2>1 DEF Leads
  <2>2. CASE A = <<>>
    BY <1>4, <2>2
  <2> QED
    BY <2>1, <2>2
<1> HIDE DEF g, f
<1>7. /\ f \in Seq(Y) /\ Len(f) = Len(g) + 1 + Len(name) /\ f = g \o (Root \o name)
      /\ \A i \in 1..Len(g) : f[i] = g[i]
      /\ \A i \in 1..Len(name) : f[Len(g) + 1 + i] = name[i]
      /\ Len(g) \in Nat /\ Len(name) \in Nat /\ DOMAIN g = 1..Len(g) /\ DOMAIN f = 1..Len(f)
      /\ Root \o name \in Seq(Y)
  <2>1. Root \in Seq(Y)
    BY Singles DEF Root
  <2>2. Root \o name \in Seq(Y)
    BY <1>1, <2>1, ConcatProperties
  <2>3. /\ f \in Seq(Y) /\ Len(f) = Len(g) + 1 + Len(name) /\ f = g \o (Root \o name)
        /\ \A i \in 1..Len(g) : f[i] = g[i]
        /\ \A i \in 1..Len(name) : f[Len(g) + 1 + i] = name[i]
    <3>1. g \in Seq(Y) /\ name \in Seq(Y)
      BY <1>1, <1>3
    <3>2. Descends(Y, Down(g, name), g, name)
      BY <3>1, DownDescends
    <3> QED
      BY <1>3, <3>2, Zenon DEF Descends
  <2> QED
    BY <1>1, <1>3, <2>2, <2>3, LenProperties
<1>8. \A k \in 0..Len(g) : SubSeq(f, 1, k) = SubSeq(g, 1, k)
  <2> SUFFICES ASSUME NEW k \in 0..Len(g) PROVE SubSeq(f, 1, k) = SubSeq(g, 1, k)
    OBVIOUS
  <2>1. CASE k = 0
    <3>1. 1 \in Int /\ 0 \in Int /\ 0 < 1
      OBVIOUS
    <3>2. SubSeq(f, 1, 0) = <<>> /\ SubSeq(g, 1, 0) = <<>>
      BY <3>1, SubSeqEmpty
    <3> QED
      BY <2>1, <3>2
  <2>2. CASE k # 0
    <3> DEFINE e == Root \o name
    <3>1. e \in Seq(Y) /\ f = g \o e /\ 1 \in 1..Len(g) /\ k \in 1..Len(g)
      BY <1>7, <2>2
    <3> HIDE DEF e
    <3>2. SubSeq(g \o e, 1, k) = SubSeq(g, 1, k)
      BY <1>3, <3>1, SubSeqOfConcat1
    <3> QED
      BY <3>1, <3>2
  <2> QED
    BY <2>1, <2>2
<1>9. ASSUME NEW i \in DOMAIN f, f[i] = Slash
      PROVE  NormalizePath(SubSeq(f, 1, i - 1)) \in Dirs
  <2>1. i \in 1..Len(g) + 1 + Len(name)
    BY <1>7
  <2>2. CASE i <= Len(g)
    <3>1. i \in DOMAIN g /\ i - 1 \in 0..Len(g) /\ f[i] = g[i]
      BY <1>7, <2>1, <2>2
    <3> QED
      BY <1>6, <1>8, <1>9, <3>1
  <2>3. CASE i = Len(g) + 1
    <3>1. i - 1 = Len(g) /\ Len(g) \in 0..Len(g)
      BY <1>7, <2>3
    <3>2. SubSeq(f, 1, i - 1) = g
      BY <1>3, <1>8, <3>1, SubSeqFull
    <3> QED
      BY <1>5, <3>2
  <2>4. CASE i > Len(g) + 1
    <3> DEFINE k == i - (Len(g) + 1)
    <3>1. k \in 1..Len(name) /\ Len(g) + 1 + k = i
      BY <1>7, <2>1, <2>4
    <3> HIDE DEF k
    <3>2. f[i] = name[k]
      BY <1>7, <3>1
    <3> QED
      BY <1>1, <1>9, <3>1, <3>2
  <2>5. i <= Len(g) \/ i = Len(g) + 1 \/ i > Len(g) + 1
    <3>1. Len(g) \in Nat /\ Len(name) \in Nat
      BY <1>7
    <3> QED
      BY <2>1, <3>1
  <2> QED
    BY <2>2, <2>3, <2>4, <2>5, Zenon
<1> QED
  BY <1>9 DEF Leads, f, A

-----------------------------------------------------------------------------
(* Sequences over part of a set.                                           *)
LEMMA OverPart ==
    ASSUME NEW Y, NEW W, NEW s \in Seq(Y)
    PROVE  s \in Seq(W) <=> \A i \in 1..Len(s) : s[i] \in W
<1>1. Len(s) \in Nat /\ s = [i \in 1..Len(s) |-> s[i]]
  BY LenProperties
<1>2. s \in Seq(W) => \A i \in 1..Len(s) : s[i] \in W
  BY ElementOfSeq
<1>3. ASSUME \A i \in 1..Len(s) : s[i] \in W PROVE s \in Seq(W)
  <2>1. s \in [1..Len(s) -> W]
    BY <1>1, <1>3
  <2> QED
    BY <1>1, <2>1, SeqDef
<1> QED
  BY <1>2, <1>3

LEMMA PartsOver ==
    ASSUME NEW Y, NEW W, NEW a \in Seq(Y), NEW b \in Seq(Y), a \o b \in Seq(W)
    PROVE  a \in Seq(W) /\ b \in Seq(W)
<1> DEFINE s == a \o b
<1>1. /\ s \in Seq(Y) /\ Len(s) = Len(a) + Len(b) /\ Len(a) \in Nat /\ Len(b) \in Nat
      /\ \A i \in 1..Len(a) + Len(b) : s[i] = IF i <= Len(a) THEN a[i] ELSE b[i - Len(a)]
  BY ConcatProperties
<1>2. s \in Seq(W)
  OBVIOUS
<1> HIDE DEF s
<1>3. \A i \in 1..Len(s) : s[i] \in W
  BY <1>2, ElementOfSeq
<1>4. ASSUME NEW i \in 1..Len(a) PROVE a[i] \in W
  <2>1. i \in 1..Len(a) + Len(b) /\ i <= Len(a)
    BY <1>1
  <2> QED
    BY <1>1, <1>3, <2>1
<1>5. ASSUME NEW i \in 1..Len(b) PROVE b[i] \in W
  <2>1. Len(a) + i \in 1..Len(a) + Len(b) /\ ~(Len(a) + i <= Len(a))
        /\ Len(a) + i - Len(a) = i
    BY <1>1
  <2> QED
    BY <1>1, <1>3, <2>1
<1> QED
  BY <1>4, <1>5, OverPart

LEMMA AppendOver ==
    ASSUME NEW Y, NEW W, NEW s \in Seq(Y), NEW c \in Y
    PROVE  Append(s, c) \in Seq(W) <=> s \in Seq(W) /\ c \in W
<1>1. s \o <<c>> = Append(s, c) /\ <<c>> \in Seq(Y)
  BY AppendIsConcat, Singles
<1>2. ASSUME Append(s, c) \in Seq(W) PROVE s \in Seq(W) /\ c \in W
  <2>1. s \in Seq(W) /\ <<c>> \in Seq(W)
    BY <1>1, <1>2, PartsOver
  <2>2. \A i \in 1..Len(<<c>>) : <<c>>[i] \in W
    BY <2>1, ElementOfSeq
  <2> QED
    BY <2>1, <2>2
<1>3. s \in Seq(W) /\ c \in W => Append(s, c) \in Seq(W)
  BY AppendProperties
<1> QED
  BY <1>2, <1>3

LEMMA WithoutOne ==
    ASSUME NEW Y, NEW s \in Seq(Y), NEW e
    PROVE  e \notin ToSet(s) <=> s \in Seq(Y \ {e})
<1>1. DOMAIN s = 1..Len(s) /\ \A i \in 1..Len(s) : s[i] \in Y
  BY LenProperties, ElementOfSeq
<1>2. e \notin ToSet(s) <=> \A i \in 1..Len(s) : s[i] \in Y \ {e}
  BY <1>1 DEF ToSet
<1> QED
  BY <1>2, OverPart

-----------------------------------------------------------------------------
(* Collapsing slashes.                                                     *)
LEMMA CollapseHead ==
    ASSUME NEW Y, NEW p \in Seq(Y), p # <<>>
    PROVE  Collapse(p) \in Seq(Y) /\ Collapse(p) # <<>> /\ Head(Collapse(p)) = Head(p)
<1> DEFINE Fine(t) == t = <<>> \/ (Collapse(t) # <<>> /\ Head(Collapse(t)) = Head(t))
           S == {t \in Seq(Y) : Fine(t)}
<1>1. <<>> \in S
  BY EmptySeq
<1>2. ASSUME NEW t \in Seq(Y), NEW c \in Y, t \in S PROVE Append(t, c) \in S
  <2> DEFINE u == Collapse(t)
  <2>1. /\ u \in Seq(Y) /\ Collapse(<<>>) = <<>>
        /\ Collapse(Append(t, c)) = IF c = Slash /\ u # <<>> /\ Last(u) = Slash THEN u ELSE Append(u, c)
    BY CollapseGrows
  <2>2. Append(t, c) \in Seq(Y) /\ Head(Append(t, c)) = IF t = <<>> THEN c ELSE Head(t)
    BY AppendProperties, HeadTailAppend
  <2>3. Head(Append(u, c)) = (IF u = <<>> THEN c ELSE Head(u)) /\ Append(u, c) # <<>>
    BY <2>1, HeadTailAppend, AppendProperties
  <2>4. t = <<>> => u = <<>>
    BY <2>1
  <2>5. t # <<>> => u # <<>> /\ Head(u) = Head(t)
    BY <1>2
  <2> HIDE DEF u
  <2> QED
    BY <2>1, <2>2, <2>3, <2>4, <2>5
<1>3. Seq(Y) \subseteq S
  <2> HIDE DEF S
  <2> QED
    BY <1>1, <1>2, Appending
<1> QED
  BY <1>3, CollapseGrows

(* It makes no segments but drops empty ones.                              *)
SameSteps(W, s, t) ==
    Last(s) = Last(t) /\ (Front(s) \in Seq(W) => Front(t) \in Seq(W))

(* Collapsing slashes brings no new segment.                                *)
LEMMA CollapseSteps ==
    ASSUME NEW Y, NEW p \in Seq(Y), NEW W, <<>> \in W, Segments(p) \in Seq(W)
    PROVE  Segments(Collapse(p)) \in Seq(W)
<1> DEFINE Z == Seq(Y)
           S == {t \in Z : SameSteps(W, Segments(t), Segments(Collapse(t)))}
<1>0. \A t \in Z : Segments(t) \in Seq(Z) /\ Segments(t) # <<>> /\ Collapse(t) \in Z
  BY SegmentsGrow, CollapseGrows DEF Lists
<1>1. <<>> \in S
  <2>1. Collapse(<<>>) = <<>> /\ <<>> \in Z
    BY EmptySeq, CollapseGrows
  <2> QED
    BY <2>1 DEF SameSteps
<1>2. ASSUME NEW t \in Z, NEW c \in Y, t \in S PROVE Append(t, c) \in S
  <2> DEFINE u == Collapse(t)
             s == Segments(t)
             v == Segments(u)
  <2>1. /\ u \in Z /\ s \in Seq(Z) /\ s # <<>> /\ v \in Seq(Z) /\ v # <<>>
        /\ Append(t, c) \in Z /\ <<>> \in Z
    BY <1>0, AppendProperties, EmptySeq
  <2>2. SameSteps(W, s, v)
    BY <1>2
  <2>3. Collapse(Append(t, c)) = IF c = Slash /\ u # <<>> /\ Last(u) = Slash THEN u ELSE Append(u, c)
    BY CollapseGrows
  <2>4. Segments(Append(t, c)) = IF c = Slash THEN Append(s, <<>>)
                                 ELSE Front(s) \o <<Append(Last(s), c)>>
    BY SegmentsGrow
  <2>5. Segments(Append(u, c)) = IF c = Slash THEN Append(v, <<>>)
                                 ELSE Front(v) \o <<Append(Last(v), c)>>
    BY <2>1, SegmentsGrow
  <2>6. Front(s) \in Seq(Z) /\ Last(s) \in Z /\ Front(v) \in Seq(Z) /\ Last(v) \in Z
        /\ s = Append(Front(s), Last(s)) /\ v = Append(Front(v), Last(v))
    BY <2>1, FrontAndLast
  <2>7. Front(Append(s, <<>>)) = s /\ Last(Append(s, <<>>)) = <<>>
        /\ Front(Append(v, <<>>)) = v /\ Last(Append(v, <<>>)) = <<>>
    BY <2>1, AppendParts
  <2>8. /\ Append(Front(s), Last(s)) \in Seq(W) <=> Front(s) \in Seq(W) /\ Last(s) \in W
        /\ Append(Front(v), Last(v)) \in Seq(W) <=> Front(v) \in Seq(W) /\ Last(v) \in W
    BY <2>6, AppendOver
  <2>9. s \in Seq(W) => v \in Seq(W)
    BY <2>2, <2>6, <2>8 DEF SameSteps
  <2>10. CASE c = Slash /\ u # <<>> /\ Last(u) = Slash
    <3>1. Last(v) = <<>>
      <4>1. Front(u) \in Z /\ u = Append(Front(u), Slash)
        BY <2>1, <2>10, FrontAndLast
      <4> DEFINE w == Front(u)
      <4>2. w \in Z /\ Slash \in Y
        BY <2>10, <4>1
      <4>3. u = Append(w, Slash)
        BY <4>1
      <4> HIDE DEF w, u
      <4>4. v = Append(Segments(w), <<>>)
        BY <4>2, <4>3, SegmentsGrow
      <4> DEFINE x == Segments(w)
      <4>5. x \in Seq(Z) /\ v = Append(x, <<>>)
        BY <1>0, <4>2, <4>4
      <4> HIDE DEF x, v
      <4>6. Last(Append(x, <<>>)) = <<>>
        BY <2>1, <4>5, AppendParts
      <4> QED
        BY <4>5, <4>6
    <3>2. SameSteps(W, Append(s, <<>>), v)
      BY <2>6, <2>7, <2>8, <2>9, <3>1 DEF SameSteps
    <3> QED
      BY <2>1, <2>3, <2>4, <2>10, <3>2
  <2>11. CASE c = Slash /\ ~(u # <<>> /\ Last(u) = Slash)
    <3>1. SameSteps(W, Append(s, <<>>), Append(v, <<>>))
      BY <2>7, <2>9 DEF SameSteps
    <3> QED
      BY <2>1, <2>3, <2>4, <2>5, <2>11, <3>1
  <2>12. CASE c # Slash
    <3> DEFINE e == Append(Last(s), c)
    <3>1. e \in Z /\ Last(v) = Last(s)
      BY <2>2, <2>6, AppendProperties DEF SameSteps
    <3> HIDE DEF e, Z
    <3>2. Front(s) \o <<e>> = Append(Front(s), e) /\ Front(v) \o <<e>> = Append(Front(v), e)
      BY <2>6, <3>1, AppendIsConcat
    <3>3. Front(Append(Front(s), e)) = Front(s) /\ Last(Append(Front(s), e)) = e
          /\ Front(Append(Front(v), e)) = Front(v) /\ Last(Append(Front(v), e)) = e
      BY <2>6, <3>1, AppendParts
    <3>4. Segments(Append(t, c)) = Append(Front(s), e)
          /\ Segments(Append(u, c)) = Append(Front(v), e)
      BY <2>4, <2>5, <2>12, <3>1, <3>2 DEF e
    <3>5. SameSteps(W, Append(Front(s), e), Append(Front(v), e))
      BY <2>2, <3>3 DEF SameSteps
    <3> HIDE DEF u, s, v
    <3>6. Collapse(Append(t, c)) = Append(u, c)
      BY <2>3, <2>12
    <3> QED
      BY <2>1, <3>4, <3>5, <3>6
  <2> QED
    BY <2>10, <2>11, <2>12
<1>3. Seq(Y) \subseteq S
  <2> HIDE DEF S
  <2> QED
    BY <1>1, <1>2, Appending
<1> DEFINE s == Segments(p)
           v == Segments(Collapse(p))
<1>4. SameSteps(W, s, v) /\ s \in Seq(Z) /\ s # <<>> /\ v \in Seq(Z) /\ v # <<>>
      /\ s \in Seq(W)
  BY <1>0, <1>3
<1> HIDE DEF s, v
<1>5. Front(s) \in Seq(W) /\ Last(s) \in W
  BY <1>4, FrontAndLast
<1>6. v = Append(Front(v), Last(v))
  BY <1>4, FrontAndLast
<1>7. Append(Front(v), Last(v)) \in Seq(W)
  BY <1>4, <1>5, AppendProperties DEF SameSteps
<1> QED
  BY <1>6, <1>7 DEF v

-----------------------------------------------------------------------------
(* string::find.                                                           *)
(* The places where a text has a part, from some place on.                 *)
Places(text, part, from) ==
    {i \in from..Len(text) - Len(part) + 1 : SubSeq(text, i, i + Len(part) - 1) = part}

LEMMA PlacesAre ==
    ASSUME NEW text, Len(text) \in Nat, NEW part, Len(part) \in Nat, NEW from \in Nat \ {0}
    PROVE  /\ FindFrom(text, part, from)
                = IF Places(text, part, from) = {} THEN 0 ELSE Min(Places(text, part, from))
           /\ Places(text, part, from) \in SUBSET Nat
           /\ \A i : i \in Places(text, part, from) <=>
                 /\ i \in from..Len(text) - Len(part) + 1
                 /\ SubSeq(text, i, i + Len(part) - 1) = part
<1>1. FindFrom(text, part, from)
         = IF Places(text, part, from) = {} THEN 0 ELSE Min(Places(text, part, from))
  BY Zenon DEF FindFrom, Places
<1>2. \A i : i \in Places(text, part, from) <=>
         /\ i \in from..Len(text) - Len(part) + 1
         /\ SubSeq(text, i, i + Len(part) - 1) = part
  BY Zenon DEF Places
<1>3. \A i \in from..Len(text) - Len(part) + 1 : i \in Nat
  OBVIOUS
<1> QED
  BY <1>1, <1>2, <1>3, Zenon

FirstPlace(text, part, from, k) ==
    /\ Len(text) \in Nat /\ Len(part) \in Nat /\ from \in Nat \ {0}
    /\ k \in from..Len(text) - Len(part) + 1
    /\ SubSeq(text, k, k + Len(part) - 1) = part
    /\ \A j \in from..k - 1 : SubSeq(text, j, j + Len(part) - 1) # part

(* The first place is what is found.                                        *)
LEMMA FoundFirst ==
    ASSUME NEW text, NEW part, NEW from, NEW k, FirstPlace(text, part, from, k)
    PROVE  FindFrom(text, part, from) = k
<1> USE DEF FirstPlace
<1> DEFINE at == Places(text, part, from)
<1>1. at \in SUBSET Nat /\ k \in at
  BY PlacesAre
<1>2. \A j \in at : j \in from..Len(text) - Len(part) + 1 /\ j \notin from..k - 1
  BY PlacesAre, Zenon
<1>3. Min(at) \in at /\ \A j \in at : Min(at) <= j
  BY <1>1, SmallestNumber
<1>4. FindFrom(text, part, from) = Min(at)
  BY <1>1, PlacesAre
<1> DEFINE m  == Min(at)
           to == Len(text) - Len(part) + 1
<1>5. m \in from..to /\ m \notin from..k - 1 /\ m <= k /\ k \in from..to
  BY <1>1, <1>2, <1>3, Zenon
<1> HIDE DEF at, m
<1>6. m = k
  BY <1>5
<1> QED
  BY <1>4, <1>6, Zenon DEF m

LEMMA FindIsFirst ==
    ASSUME NEW text, Len(text) \in Nat, NEW part, Len(part) \in Nat,
           NEW from \in Nat \ {0}, FindFrom(text, part, from) # 0
    PROVE  LET k == FindFrom(text, part, from)
           IN  /\ k \in from..Len(text) - Len(part) + 1
               /\ SubSeq(text, k, k + Len(part) - 1) = part
               /\ \A j \in from..k - 1 : SubSeq(text, j, j + Len(part) - 1) # part
<1> DEFINE at == Places(text, part, from)
           k  == FindFrom(text, part, from)
           to == Len(text) - Len(part) + 1
<1>1. at \in SUBSET Nat /\ at # {} /\ k = Min(at)
  BY PlacesAre
<1>2. k \in at /\ \A j \in at : k <= j
  BY <1>1, SmallestNumber
<1>3. k \in from..to /\ SubSeq(text, k, k + Len(part) - 1) = part
  BY <1>2, PlacesAre, Zenon
<1>4. ASSUME NEW j \in from..k - 1 PROVE j \in from..to /\ j \notin at
  <2> HIDE DEF at, k
  <2>1. to \in Int
    OBVIOUS
  <2> HIDE DEF to
  <2> QED
    BY <1>2, <1>3, <2>1
<1>5. \A j \in from..k - 1 : SubSeq(text, j, j + Len(part) - 1) # part
  BY <1>4, PlacesAre, Zenon
<1> QED
  BY <1>3, <1>5, Zenon

(* What is not found from the start is not found from a later place.       *)
LEMMA NotFoundLater ==
    ASSUME NEW text, Len(text) \in Nat, NEW part, Len(part) \in Nat,
           NEW from \in Nat \ {0}, FindFrom(text, part, 1) = 0
    PROVE  FindFrom(text, part, from) = 0
<1> DEFINE all == Places(text, part, 1)
           to  == Len(text) - Len(part) + 1
<1>0. 1 \in Nat \ {0}
  OBVIOUS
<1>1. all \in SUBSET Nat /\ FindFrom(text, part, 1) = IF all = {} THEN 0 ELSE Min(all)
  BY PlacesAre
<1>2. \A i : i \in all <=> i \in 1..to /\ SubSeq(text, i, i + Len(part) - 1) = part
  BY <1>0, PlacesAre, Zenon
<1>3. all = {}
  <2> HIDE DEF all
  <2>1. CASE all # {}
    <3>1. Min(all) \in all
      BY <1>1, <2>1, SmallestNumber
    <3> QED
      BY <1>1, <1>2, <2>1, <3>1
  <2> QED
    BY <2>1
<1>4. \A i \in from..to : i \in 1..to
  OBVIOUS
<1>5. \A i : i \notin Places(text, part, from)
  <2>1. \A i : i \in Places(text, part, from) =>
           i \in from..to /\ SubSeq(text, i, i + Len(part) - 1) = part
    BY PlacesAre, Zenon
  <2> HIDE DEF all, to
  <2> QED
    BY <1>2, <1>3, <1>4, <2>1, Zenon
<1> QED
  BY <1>5, PlacesAre

-----------------------------------------------------------------------------
(* A text with something before and something behind it.                   *)
LEMMA Window ==
    ASSUME NEW T, NEW a \in Seq(T), NEW mid \in Seq(T), NEW z \in Seq(T),
           NEW i \in 1..Len(mid), NEW j \in 1..Len(mid)
    PROVE  SubSeq(a \o mid \o z, Len(a) + i, Len(a) + j) = SubSeq(mid, i, j)
<1>1. a \o mid \in Seq(T) /\ Len(a \o mid) = Len(a) + Len(mid) /\ Len(a) \in Nat
      /\ Len(mid) \in Nat
  BY ConcatProperties, LenProperties
<1>2. Len(a) + i \in 1..Len(a \o mid) /\ Len(a) + j \in 1..Len(a \o mid)
  BY <1>1
<1>3. SubSeq(a \o mid \o z, Len(a) + i, Len(a) + j) = SubSeq(a \o mid, Len(a) + i, Len(a) + j)
  BY <1>1, <1>2, SubSeqOfConcat1
<1>4. Len(a) + i \in Len(a) + 1..Len(a) + Len(mid)
      /\ Len(a) + j \in Len(a) + 1..Len(a) + Len(mid)
  BY <1>1
<1>5. SubSeq(a \o mid, Len(a) + i, Len(a) + j) = SubSeq(mid, Len(a) + i - Len(a), Len(a) + j - Len(a))
  BY <1>4, SubSeqOfConcat2
<1>6. Len(a) + i - Len(a) = i /\ Len(a) + j - Len(a) = j
  BY <1>1
<1> QED
  BY <1>3, <1>5, <1>6

FoundBehind(a, mid, z, part) ==
    FindFrom(a \o mid \o z, part, Len(a) + 1) = Len(a) + FindFrom(mid, part, 1)

(* What is found in a part is found in the whole, from there on.            *)
LEMMA FindInWindow ==
    ASSUME NEW T, NEW a \in Seq(T), NEW mid \in Seq(T), NEW z \in Seq(T),
           NEW part \in Seq(T), part # <<>>, FindFrom(mid, part, 1) # 0
    PROVE  FoundBehind(a, mid, z, part)
<1> DEFINE text == a \o mid \o z
           k    == FindFrom(mid, part, 1)
<1>1. /\ Len(a) \in Nat /\ Len(mid) \in Nat /\ Len(z) \in Nat /\ Len(part) \in Nat \ {0}
      /\ Len(text) = Len(a) + Len(mid) + Len(z)
  BY LenProperties, ConcatProperties, EmptySeq
<1>2. /\ k \in 1..Len(mid) - Len(part) + 1
      /\ SubSeq(mid, k, k + Len(part) - 1) = part
      /\ \A j \in 1..k - 1 : SubSeq(mid, j, j + Len(part) - 1) # part
  BY <1>1, FindIsFirst
<1>3. ASSUME NEW j \in 1..k
      PROVE  SubSeq(text, Len(a) + j, Len(a) + j + Len(part) - 1) = SubSeq(mid, j, j + Len(part) - 1)
  <2>1. j \in 1..Len(mid) /\ j + Len(part) - 1 \in 1..Len(mid)
    BY <1>1, <1>2
  <2>2. SubSeq(text, Len(a) + j, Len(a) + (j + Len(part) - 1)) = SubSeq(mid, j, j + Len(part) - 1)
    BY <2>1, Window
  <2>3. Len(a) + (j + Len(part) - 1) = Len(a) + j + Len(part) - 1
    BY <1>1, <1>2
  <2> QED
    BY <2>2, <2>3
<1> HIDE DEF text, k
<1>4. SubSeq(text, Len(a) + k, Len(a) + k + Len(part) - 1) = part
  <2>1. k \in 1..k
    BY <1>1, <1>2
  <2> QED
    BY <1>2, <1>3, <2>1, Zenon
<1>5. ASSUME NEW j \in Len(a) + 1..(Len(a) + k) - 1
      PROVE  SubSeq(text, j, j + Len(part) - 1) # part
  <2> DEFINE i == j - Len(a)
  <2>1. i \in 1..k - 1 /\ i \in 1..k /\ Len(a) + i = j
    BY <1>1, <1>2
  <2> HIDE DEF i
  <2> QED
    BY <1>2, <1>3, <2>1
<1>6. Len(a) + k \in Len(a) + 1..Len(text) - Len(part) + 1 /\ Len(a) + 1 \in Nat \ {0}
      /\ Len(text) \in Nat
  BY <1>1, <1>2
<1>7. FindFrom(text, part, Len(a) + 1) = Len(a) + k
  <2> DEFINE from == Len(a) + 1
             at   == Len(a) + k
  <2>0. Len(part) \in Nat
    BY <1>1
  <2>1. Len(text) \in Nat /\ from \in Nat \ {0} /\ at \in from..Len(text) - Len(part) + 1
    BY <1>6, Zenon
  <2>2. SubSeq(text, at, at + Len(part) - 1) = part
    BY <1>4, Zenon
  <2>4. \A j \in from..at - 1 : SubSeq(text, j, j + Len(part) - 1) # part
    BY <1>5, Zenon
  <2> HIDE DEF from, at
  <2>5. FirstPlace(text, part, from, at)
    BY <2>0, <2>1, <2>2, <2>4, Zenon DEF FirstPlace
  <2>3. FindFrom(text, part, from) = at
    BY <2>5, FoundFirst
  <2> QED
    BY <2>3, Zenon DEF from, at
<1> QED
  BY <1>7, Zenon DEF text, k, FoundBehind

-----------------------------------------------------------------------------
(* Reading a form.                                                         *)
LEMMA Parts ==
    ASSUME NEW T, CR \in T, LF \in T, NEW d \in T
    PROVE  /\ CRLF \in Seq(T) /\ Len(CRLF) = 2 /\ CRLF[1] = CR /\ CRLF[2] = LF
           /\ <<d>> \in Seq(T) /\ Len(<<d>>) = 1 /\ <<d>>[1] = d
           /\ CRLF \o CRLF \in Seq(T) /\ Len(CRLF \o CRLF) = 4
           /\ CRLF \o <<d>> \in Seq(T) /\ Len(CRLF \o <<d>>) = 3
  BY DEF CRLF

(* The end of a content is the first place where what closes it begins.    *)
LEMMA ContentEnds ==
    ASSUME NEW T, CR \in T, LF \in T, NEW d \in T, NEW content \in Seq(T),
           d \notin ToSet(content), d # CR, d # LF
    PROVE  FindFrom(content \o CRLF \o <<d>>, CRLF \o <<d>>, 1) = Len(content) + 1
<1> DEFINE text == content \o CRLF \o <<d>>
           part == CRLF \o <<d>>
           c    == Len(content)
<1>1. c \in Nat /\ text = content \o part /\ part \in Seq(T) /\ Len(part) = 3
  BY Parts, LenProperties, ConcatAssociative
<1>2. text \in Seq(T) /\ Len(text) = c + 3
  BY <1>1, ConcatProperties
<1>3. SubSeq(text, c + 1, c + 3) = part
  <2>1. SubSeq(content \o part, c + 1, c + 3) = SubSeq(part, 1, 3)
    <3>1. c + 1 \in c + 1..c + Len(part) /\ c + 3 \in c + 1..c + Len(part)
      BY <1>1
    <3>2. SubSeq(content \o part, c + 1, c + 3) = SubSeq(part, c + 1 - c, c + 3 - c)
      BY <1>1, <3>1, SubSeqOfConcat2
    <3>3. c + 1 - c = 1 /\ c + 3 - c = 3
      BY <1>1
    <3> QED
      BY <3>2, <3>3
  <2>2. SubSeq(part, 1, 3) = part
    BY <1>1, SubSeqFull
  <2> QED
    BY <1>1, <2>1, <2>2
<1>4. ASSUME NEW j \in 1..c PROVE SubSeq(text, j, j + 2) # part
  <2>1. SubSeq(text, j, j + 2)[3] = text[j + 2]
    BY <1>1, <1>2
  <2>2. part[3] = d
    BY DEF CRLF
  <2>3. text[j + 2] = IF j + 2 <= c THEN content[j + 2] ELSE part[j + 2 - c]
    BY <1>1, ConcatProperties
  <2>4. CASE j + 2 <= c
    BY <2>1, <2>2, <2>3, <2>4, <1>1 DEF ToSet
  <2>5. CASE j + 2 > c
    <3>1. j + 2 - c \in {1, 2}
      BY <2>5, <1>1
    <3>2. part[1] = CR /\ part[2] = LF
      BY DEF CRLF
    <3>3. part[j + 2 - c] \in {CR, LF}
      BY <3>1, <3>2, Zenon
    <3>4. text[j + 2] = part[j + 2 - c]
      <4>1. ~(j + 2 <= c)
        BY <1>1, <2>5
      <4> QED
        BY <2>3, <4>1, Zenon
    <3> QED
      BY <2>1, <2>2, <3>3, <3>4, Zenon
  <2>6. j + 2 <= c \/ j + 2 > c
    BY <1>1
  <2> QED
    BY <2>4, <2>5, <2>6, Zenon
<1>9. c \in Nat /\ Len(text) = c + 3 /\ Len(part) = 3
  BY <1>1, <1>2
<1> HIDE DEF text, part, c
<1>5. c + 1 \in 1..Len(text) - Len(part) + 1 /\ 1 \in Nat \ {0} /\ Len(text) \in Nat
      /\ Len(part) \in Nat
  BY <1>9
<1>6. SubSeq(text, c + 1, c + 1 + Len(part) - 1) = part
  <2>1. c + 1 + Len(part) - 1 = c + 3
    BY <1>9
  <2> QED
    BY <1>3, <2>1, Zenon
<1>7. \A j \in 1..(c + 1) - 1 : SubSeq(text, j, j + Len(part) - 1) # part
  <2>1. \A j \in 1..(c + 1) - 1 : j \in 1..c /\ j + Len(part) - 1 = j + 2
    BY <1>9
  <2> QED
    BY <1>4, <2>1, Zenon
<1> DEFINE at == c + 1
<1> HIDE DEF at
<1>8. at \in 1..Len(text) - Len(part) + 1 /\ SubSeq(text, at, at + Len(part) - 1) = part
  BY <1>5, <1>6, Zenon DEF at
<1>10. \A j \in 1..at - 1 : SubSeq(text, j, j + Len(part) - 1) # part
  BY <1>7, Zenon DEF at
<1>11. FindFrom(text, part, 1) = at
  <2>1. FirstPlace(text, part, 1, at)
    BY <1>5, <1>8, <1>10, Zenon DEF FirstPlace
  <2> QED
    BY <2>1, FoundFirst
<1> QED
  BY <1>11, Zenon DEF text, part, c, at

Bracketed(a, b, c, e) == a \o b \o c \o e = a \o (b \o c \o e)

LEMMA Assoc ==
    ASSUME NEW T, NEW a \in Seq(T), NEW b \in Seq(T), NEW c \in Seq(T), NEW e \in Seq(T)
    PROVE  Bracketed(a, b, c, e)
<1> DEFINE bc == b \o c
<1>1. bc \in Seq(T)
  BY ConcatProperties
<1>2. a \o b \o c = a \o bc
  BY ConcatAssociative, SMTT(30)
<1> HIDE DEF bc
<1>3. (a \o bc) \o e = a \o (bc \o e)
  BY <1>1, ConcatAssociative, SMTT(30)
<1>4. a \o b \o c \o e = (a \o bc) \o e
  BY <1>2
<1> QED
  BY <1>3, <1>4, Zenon DEF bc, Bracketed

(* A form is its first line, its headers, its content and the rest.        *)
FormParts(T, body, d, content, headers, rest) ==
    /\ headers \in Seq(T) /\ rest \in Seq(T)
    /\ body = (<<d>> \o CRLF) \o (headers \o CRLF \o CRLF)
              \o ((content \o CRLF \o <<d>>) \o rest)
    /\ body = ((<<d>> \o CRLF) \o (headers \o CRLF \o CRLF))
              \o (content \o CRLF \o <<d>>) \o rest
    /\ FindFrom(headers \o CRLF \o CRLF, CRLF \o CRLF, 1) = Len(headers) + 1
    /\ d \notin {CR, LF} \union ToSet(content)

LEMMA FormHasParts ==
    ASSUME NEW T, CR \in T, LF \in T, NEW d \in T, NEW body \in Seq(T), NEW content \in Seq(T),
           IsForm(body, d, content)
    PROVE  \E headers, rest : FormParts(T, body, d, content, headers, rest)
<1>1. PICK h \in 0..Len(body) - 3 :
          LET headers == SubSeq(body, 4, h + 3)
          IN  /\ IsPrefix(<<d>> \o CRLF \o headers \o CRLF \o CRLF \o content \o CRLF \o <<d>>, body)
              /\ FindFrom(headers \o CRLF \o CRLF, CRLF \o CRLF, 1) = h + 1
              /\ d \notin {CR, LF} \union ToSet(content)
  BY Zenon DEF IsForm
<1> DEFINE headers == SubSeq(body, 4, h + 3)
           a       == <<d>> \o CRLF
           top     == headers \o CRLF \o CRLF
           end     == content \o CRLF \o <<d>>
           start   == <<d>> \o CRLF \o headers \o CRLF \o CRLF \o content \o CRLF \o <<d>>
           rest    == SubSeq(body, Len(start) + 1, Len(body))
<1>2. headers \in Seq(T) /\ Len(headers) = h
  <2>1. \A i \in 4..h + 3 : body[i] \in T
    BY ElementOfSeq, LenProperties
  <2>2. h + 3 \in Int /\ 4 \in Int
    OBVIOUS
  <2> HIDE DEF headers
  <2>3. headers \in Seq(T) /\ Len(headers) = IF 4 <= h + 3 THEN h + 3 - 4 + 1 ELSE 0
    BY <2>1, <2>2, SubSeqProperties DEF headers
  <2> QED
    BY <2>3
<1>3. IsPrefix(start, body)
  BY <1>1, Zenon
<1>4. FindFrom(top, CRLF \o CRLF, 1) = Len(headers) + 1
  BY <1>1, <1>2, Zenon
<1> HIDE DEF headers
<1>5. a \in Seq(T) /\ top \in Seq(T) /\ end \in Seq(T) /\ a \o top \in Seq(T)
      /\ CRLF \in Seq(T) /\ <<d>> \in Seq(T)
  BY <1>2, Parts, ConcatProperties
<1> DEFINE before == a \o top
           first  == <<d>>
<1> HIDE DEF a, before, first
<1>6. a \o headers \o CRLF \o CRLF = before
  <2>1. a \in Seq(T) /\ headers \in Seq(T) /\ CRLF \in Seq(T)
    BY <1>2, <1>5
  <2>2. Bracketed(a, headers, CRLF, CRLF)
    BY <2>1, Assoc, Zenon
  <2> QED
    BY <2>2, Zenon DEF Bracketed, before
<1> HIDE DEF top
<1>7. before \o content \o CRLF \o first = before \o (content \o CRLF \o first)
  <2>1. before \in Seq(T) /\ CRLF \in Seq(T) /\ first \in Seq(T)
    BY <1>5, Zenon DEF before, first
  <2>2. Bracketed(before, content, CRLF, first)
    BY <2>1, Assoc, Zenon
  <2> QED
    BY <2>2, Zenon DEF Bracketed
<1>8. start = before \o end
  BY <1>6, <1>7, Zenon DEF a, first
<1> HIDE DEF end
<1>9. before \in Seq(T) /\ end \in Seq(T) /\ start \in Seq(T)
  <2>1. before \in Seq(T) /\ end \in Seq(T)
    BY <1>5, Zenon DEF before
  <2> QED
    BY <1>8, <2>1, ConcatProperties
<1> HIDE DEF start
<1>10. rest \in Seq(T) /\ body = start \o rest
  <2>1. Len(start) \in Nat /\ Len(body) \in Nat /\ Len(start) <= Len(body)
        /\ SubSeq(start, 1, Len(start)) = SubSeq(body, 1, Len(start))
    BY <1>3, <1>9, LenProperties DEF IsPrefix
  <2>2. SubSeq(body, 1, Len(start)) = start
    BY <1>9, <2>1, SubSeqFull
  <2>3. SubSeq(body, 1, Len(start)) \o rest = SubSeq(body, 1, Len(body))
    <3>1. 1 \in 1..Len(body) + 1 /\ Len(start) \in 1 - 1..Len(body)
          /\ Len(body) \in Len(start)..Len(body)
      BY <2>1
    <3> QED
      BY <3>1, ConcatAdjacentSubSeq
  <2>4. rest \in Seq(T)
    <3>1. \A i \in Len(start) + 1..Len(body) : body[i] \in T
      BY <2>1, ElementOfSeq, LenProperties
    <3>2. Len(start) + 1 \in Int /\ Len(body) \in Int
      BY <2>1
    <3> QED
      BY <3>1, <3>2, SubSeqProperties
  <2> QED
    BY <2>2, <2>3, <2>4, SubSeqFull
<1> HIDE DEF rest
<1>11. body = before \o end \o rest
  BY <1>8, <1>10, Zenon
<1>12. before \o end \o rest = before \o (end \o rest)
  BY <1>9, <1>10, ConcatAssociative, SMTT(30)
<1>13. body = before \o (end \o rest)
  BY <1>11, <1>12, Zenon
<1>14. d \notin {CR, LF} \union ToSet(content)
  BY <1>1, Zenon
<1>15. headers \in Seq(T) /\ rest \in Seq(T)
  BY <1>2, <1>10
<1>16. FormParts(T, body, d, content, headers, rest)
  BY <1>4, <1>11, <1>13, <1>14, <1>15, Zenon DEF FormParts, a, top, end, before
<1> QED
  BY <1>16, Zenon

(* The first thing in a form is the delimiter, with its line break.        *)
LEMMA FormStart ==
    ASSUME NEW T, CR \in T, LF \in T, NEW d \in T, NEW body, NEW content \in Seq(T),
           NEW headers, NEW rest, FormParts(T, body, d, content, headers, rest)
    PROVE  /\ Len(body) \in Nat
           /\ FindFrom(body, <<d>>, 1) = 1
           /\ Skip(body, LF, Skip(body, CR, 2)) = 4
<1> DEFINE a    == <<d>> \o CRLF
           tail == (headers \o CRLF \o CRLF) \o ((content \o CRLF \o <<d>>) \o rest)
<1>1. /\ a \in Seq(T) /\ Len(a) = 3 /\ a[1] = d /\ a[2] = CR /\ a[3] = LF
      /\ CRLF \in Seq(T) /\ <<d>> \in Seq(T)
  BY DEF CRLF
<1>2. headers \in Seq(T) /\ rest \in Seq(T)
  BY Zenon DEF FormParts
<1> HIDE DEF a
<1>3. tail \in Seq(T)
  <2>1. headers \o CRLF \o CRLF \in Seq(T) /\ content \o CRLF \o <<d>> \in Seq(T)
    BY <1>1, <1>2, ConcatProperties
  <2>2. (content \o CRLF \o <<d>>) \o rest \in Seq(T)
    BY <1>2, <2>1, ConcatProperties
  <2> QED
    BY <2>1, <2>2, ConcatProperties
<1>4. body = a \o tail
  <2>1. body = a \o (headers \o CRLF \o CRLF) \o ((content \o CRLF \o <<d>>) \o rest)
    BY Zenon DEF FormParts, a
  <2>2. headers \o CRLF \o CRLF \in Seq(T) /\ (content \o CRLF \o <<d>>) \o rest \in Seq(T)
    BY <1>1, <1>2, ConcatProperties
  <2> DEFINE top == headers \o CRLF \o CRLF
             end == (content \o CRLF \o <<d>>) \o rest
  <2>3. body = a \o top \o end /\ top \in Seq(T) /\ end \in Seq(T)
    BY <2>1, <2>2, Zenon
  <2> HIDE DEF top, end
  <2>4. a \o top \o end = a \o (top \o end)
    BY <1>1, <2>3, ConcatAssociative, SMTT(30)
  <2> QED
    BY <2>3, <2>4, Zenon DEF top, end
<1> HIDE DEF tail
<1>5. /\ Len(body) \in Nat /\ Len(body) >= 3 /\ DOMAIN body = 1..Len(body)
      /\ body[1] = d /\ body[2] = CR /\ body[3] = LF
  BY <1>1, <1>3, <1>4, ConcatProperties, LenProperties
<1>6. FirstPlace(body, <<d>>, 1, 1)
  <2>1. SubSeq(body, 1, 1) = <<d>>
    <3>1. body \in Seq(T)
      BY <1>1, <1>3, <1>4, ConcatProperties
    <3>2. SubSeq(body, 1, 1) \in Seq(T) /\ Len(SubSeq(body, 1, 1)) = 1
          /\ SubSeq(body, 1, 1)[1] = d
      BY <1>5, <3>1, SubSeqProperties
    <3> DEFINE one == SubSeq(body, 1, 1)
               two == <<d>>
    <3>3. /\ one \in Seq(T) /\ two \in Seq(T) /\ Len(one) = Len(two)
          /\ \A i \in 1..Len(one) : one[i] = two[i]
      BY <1>1, <3>2
    <3> HIDE DEF one, two
    <3>4. one = two
      BY <3>3, SeqEqual
    <3> QED
      BY <3>4, Zenon DEF one, two
  <2>2. Len(<<d>>) = 1 /\ 1 \in 1..(Len(body) - 1) + 1 /\ 1..(1 - 1) = {} /\ (1 + 1) - 1 = 1
    BY <1>5
  <2> QED
    BY <1>5, <2>1, <2>2 DEF FirstPlace
<1>7. Skip(body, CR, 2) = 3
  BY <1>5 DEF Skip
<1>8. Skip(body, LF, 3) = 4
  BY <1>5 DEF Skip
<1> QED
  BY <1>5, <1>6, <1>7, <1>8, FoundFirst, Zenon

LEMMA FormHeaders ==
    ASSUME NEW T, CR \in T, LF \in T, NEW d \in T, NEW body, NEW content \in Seq(T),
           NEW headers, NEW rest, FormParts(T, body, d, content, headers, rest)
    PROVE  FindFrom(body, CRLF \o CRLF, 4) = Len(headers) + 4
<1> DEFINE a    == <<d>> \o CRLF
           top  == headers \o CRLF \o CRLF
           tail == (content \o CRLF \o <<d>>) \o rest
           part == CRLF \o CRLF
<1>1. a \in Seq(T) /\ Len(a) = 3 /\ part \in Seq(T) /\ part # <<>>
      /\ CRLF \in Seq(T) /\ <<d>> \in Seq(T)
  BY DEF CRLF
<1>2. headers \in Seq(T) /\ rest \in Seq(T)
  BY Zenon DEF FormParts
<1>3. top \in Seq(T) /\ tail \in Seq(T)
  BY <1>1, <1>2, ConcatProperties
<1>4. body = a \o top \o tail /\ FindFrom(top, part, 1) = Len(headers) + 1
  BY Zenon DEF FormParts
<1>5. Len(headers) \in Nat
  BY <1>2, LenProperties
<1> HIDE DEF a, top, tail, part
<1>6. FindFrom(top, part, 1) # 0
  BY <1>4, <1>5
<1>7. FoundBehind(a, top, tail, part)
  BY <1>1, <1>3, <1>6, FindInWindow, Zenon
<1>8. Len(a) + 1 = 4 /\ Len(a) + (Len(headers) + 1) = Len(headers) + 4
  BY <1>1, <1>5
<1> QED
  BY <1>4, <1>7, <1>8, Zenon DEF part, FoundBehind

ContentFound(body, d, content, at) ==
    /\ FindFrom(body, CRLF \o <<d>>, at) = at + Len(content)
    /\ SubSeq(body, at, (at + Len(content)) - 1) = content

LEMMA FormContent ==
    ASSUME NEW T, CR \in T, LF \in T, NEW d \in T, NEW body, NEW content \in Seq(T),
           NEW headers, NEW rest, FormParts(T, body, d, content, headers, rest)
    PROVE  ContentFound(body, d, content, Len(headers) + 8)
<1> DEFINE a    == (<<d>> \o CRLF) \o (headers \o CRLF \o CRLF)
           end  == content \o CRLF \o <<d>>
           part == CRLF \o <<d>>
           c    == Len(content)
           at   == Len(headers) + 8
<1>1. /\ part \in Seq(T) /\ part # <<>> /\ Len(CRLF) = 2 /\ Len(<<d>>) = 1
      /\ CRLF \in Seq(T) /\ <<d>> \in Seq(T) /\ Len(part) = 3
  BY DEF CRLF
<1>2. headers \in Seq(T) /\ rest \in Seq(T) /\ d \notin ToSet(content) /\ d # CR /\ d # LF
  BY Zenon DEF FormParts
<1>3. Len(headers) \in Nat /\ c \in Nat
  BY <1>2, LenProperties
<1>4. a \in Seq(T) /\ Len(a) = Len(headers) + 7
  <2>1. headers \o CRLF \o CRLF \in Seq(T)
        /\ Len(headers \o CRLF \o CRLF) = Len(headers) + 4
    <3>1. headers \o CRLF \in Seq(T) /\ Len(headers \o CRLF) = Len(headers) + 2
      BY <1>1, <1>2, ConcatProperties
    <3> QED
      BY <1>1, <1>3, <3>1, ConcatProperties
  <2>2. <<d>> \o CRLF \in Seq(T) /\ Len(<<d>> \o CRLF) = 3
    BY <1>1, ConcatProperties
  <2> QED
    BY <1>3, <2>1, <2>2, ConcatProperties
<1>5. end \in Seq(T) /\ Len(end) = c + 3
  <2>1. content \o CRLF \in Seq(T) /\ Len(content \o CRLF) = c + 2
    BY <1>1, ConcatProperties
  <2> QED
    BY <1>1, <1>3, <2>1, ConcatProperties
<1>6. body = a \o end \o rest
  BY Zenon DEF FormParts
<1>7. FindFrom(end, part, 1) = c + 1
  BY <1>2, ContentEnds
<1>8. c > 0 => SubSeq(end, 1, c) = content
  <2>1. content \o part = end
    BY <1>1, ConcatAssociative, SMTT(30)
  <2>2. ASSUME c > 0 PROVE SubSeq(content \o part, 1, c) = content
    <3>1. 1 \in 1..c /\ c \in 1..c
      BY <1>3, <2>2
    <3>2. SubSeq(content \o part, 1, c) = SubSeq(content, 1, c)
      BY <1>1, <3>1, SubSeqOfConcat1
    <3> QED
      BY <3>2, SubSeqFull
  <2> QED
    BY <2>1, <2>2
<1>9. c = 0 => content = <<>>
  BY EmptySeq
<1> HIDE DEF a, end, part, c
<1>10. FindFrom(body, part, Len(a) + 1) = Len(a) + (c + 1)
  <2>1. FindFrom(end, part, 1) # 0
    BY <1>3, <1>7
  <2>2. FoundBehind(a, end, rest, part)
    BY <1>1, <1>2, <1>4, <1>5, <2>1, FindInWindow, Zenon
  <2> QED
    BY <1>6, <1>7, <2>2, Zenon DEF FoundBehind
<1>11. Len(a) + 1 = at /\ Len(a) + (c + 1) = at + c
  BY <1>3, <1>4
<1>12. SubSeq(body, at, (at + c) - 1) = content
  <2>1. CASE c = 0
    <3>1. body \in Seq(T) /\ (at + c) - 1 < at /\ at \in Int /\ (at + c) - 1 \in Int
      BY <1>2, <1>3, <1>4, <1>5, <1>6, <2>1, ConcatProperties
    <3> QED
      BY <1>9, <2>1, <3>1
  <2>2. CASE c > 0
    <3>1. 1 \in 1..Len(end) /\ c \in 1..Len(end)
      BY <1>3, <1>5, <2>2
    <3>2. SubSeq(body, Len(a) + 1, Len(a) + c) = SubSeq(end, 1, c)
      BY <1>2, <1>4, <1>5, <1>6, <3>1, Window
    <3>3. Len(a) + c = (at + c) - 1
      BY <1>3, <1>4
    <3> QED
      BY <1>8, <1>11, <2>2, <3>2, <3>3, Zenon
  <2> QED
    BY <1>3, <2>1, <2>2
<1> QED
  BY <1>10, <1>11, <1>12, Zenon DEF part, c, ContentFound

(* What parseMultipartFirstFile finds, by name.                            *)
Found(body, d)      == FindFrom(body, <<d>>, 1)
Start(body, d)      == Skip(body, LF, Skip(body, CR, Found(body, d) + 1))
HeadersEnd(body, d) == FindFrom(body, CRLF \o CRLF, Start(body, d))
ContentEnd(body, d) == FindFrom(body, CRLF \o <<d>>, HeadersEnd(body, d) + 4)

LEMMA WhatIsParsed ==
    ASSUME NEW body, NEW d
    PROVE  LET parsed == ParseMultipartFirstFile(body, d)
           IN  IF Found(body, d) = 0 \/ HeadersEnd(body, d) = 0 \/ ContentEnd(body, d) = 0
               THEN ~parsed.valid
               ELSE /\ parsed.valid
                    /\ parsed.content = SubSeq(body, HeadersEnd(body, d) + 4, ContentEnd(body, d) - 1)
BY Zenon DEF ParseMultipartFirstFile, Found, Start, HeadersEnd, ContentEnd, Invalid,
   EndDelimiter

(* A form is read as its client wrote it.                                  *)
LEMMA FormRead ==
    ASSUME NEW T, CR \in T, LF \in T, NEW d \in T, NEW body \in Seq(T), NEW content \in Seq(T),
           IsForm(body, d, content)
    PROVE  /\ ParseMultipartFirstFile(body, d).valid
           /\ ParseMultipartFirstFile(body, d).content = content
<1>1. PICK headers, rest : FormParts(T, body, d, content, headers, rest)
  BY FormHasParts, Zenon
<1> DEFINE at == Len(headers) + 8
<1>2. Len(headers) \in Nat /\ Len(content) \in Nat
  <2>1. headers \in Seq(T)
    BY <1>1, Zenon DEF FormParts
  <2> QED
    BY <2>1, LenProperties
<1>3. FindFrom(body, <<d>>, 1) = 1 /\ Skip(body, LF, Skip(body, CR, 2)) = 4
  BY <1>1, FormStart, Zenon
<1>4. Found(body, d) = 1 /\ Start(body, d) = 4
  <2>1. 1 + 1 = 2
    OBVIOUS
  <2> QED
    BY <1>3, <2>1, Zenon DEF Found, Start
<1>5. HeadersEnd(body, d) = Len(headers) + 4
  <2>1. FindFrom(body, CRLF \o CRLF, 4) = Len(headers) + 4
    BY <1>1, FormHeaders
  <2> QED
    BY <1>4, <2>1, Zenon DEF HeadersEnd
<1>6. HeadersEnd(body, d) + 4 = at
  BY <1>2, <1>5
<1>7. ContentFound(body, d, content, at)
  BY <1>1, FormContent, Zenon
<1>8. ContentEnd(body, d) = at + Len(content)
  BY <1>6, <1>7, Zenon DEF ContentEnd, ContentFound
<1>9. Found(body, d) # 0 /\ HeadersEnd(body, d) # 0 /\ ContentEnd(body, d) # 0
  BY <1>2, <1>4, <1>5, <1>8
<1> QED
  BY <1>6, <1>7, <1>8, <1>9, WhatIsParsed, Zenon DEF ContentFound

(* Where a form begins can be looked for from.                             *)
LEMMA StartsInside ==
    ASSUME NEW body, Len(body) \in Nat, NEW d
    PROVE  Found(body, d) \in Nat /\ Start(body, d) \in Nat \ {0}
<1>1. Found(body, d) \in Nat
  <2>1. Len(<<d>>) = 1 /\ 1 \in Nat \ {0}
    OBVIOUS
  <2>2. CASE Found(body, d) # 0
    <3>1. Found(body, d) \in 1..(Len(body) - Len(<<d>>)) + 1
      BY <2>1, <2>2, FindIsFirst DEF Found
    <3> QED
      BY <2>1, <3>1
  <2> QED
    BY <2>2
<1>2. \A i \in Nat \ {0} : \A ch : Skip(body, ch, i) \in Nat \ {0}
  BY DEF Skip
<1>3. Found(body, d) + 1 \in Nat \ {0}
  BY <1>1
<1> QED
  BY <1>1, <1>2, <1>3, Zenon DEF Start

(* What is no form is not read.                                            *)
LEMMA NoFormRead ==
    ASSUME NEW T, NEW body \in Seq(T), NEW d, IsNoForm(body, d)
    PROVE  ~ParseMultipartFirstFile(body, d).valid
<1>1. /\ Len(body) \in Nat
      /\ Len(<<d>>) \in Nat /\ Len(CRLF \o CRLF) \in Nat /\ Len(CRLF \o <<d>>) \in Nat
  <2>1. Len(body) \in Nat
    BY LenProperties
  <2> QED
    BY <2>1 DEF CRLF
<1>2. Start(body, d) \in Nat \ {0}
  BY <1>1, StartsInside
<1>3. PICK part \in {<<d>>, CRLF \o CRLF, CRLF \o <<d>>} : FindFrom(body, part, 1) = 0
  BY Zenon DEF IsNoForm
<1>4. CASE part = <<d>>
  BY <1>3, <1>4, WhatIsParsed, Zenon DEF Found
<1>5. CASE part = CRLF \o CRLF
  <2>1. HeadersEnd(body, d) = 0
    BY <1>1, <1>2, <1>3, <1>5, NotFoundLater, Zenon DEF HeadersEnd
  <2> QED
    BY <2>1, WhatIsParsed, Zenon
<1>6. CASE part = CRLF \o <<d>>
  <2> DEFINE from == HeadersEnd(body, d) + 4
  <2>1. HeadersEnd(body, d) # 0 => from \in Nat \ {0}
    <3>1. ASSUME HeadersEnd(body, d) # 0
          PROVE  HeadersEnd(body, d) \in Start(body, d)..(Len(body) - Len(CRLF \o CRLF)) + 1
      BY <1>1, <1>2, <3>1, FindIsFirst DEF HeadersEnd
    <3> QED
      BY <1>1, <1>2, <3>1
  <2>2. HeadersEnd(body, d) # 0 => ContentEnd(body, d) = 0
    BY <1>1, <1>3, <1>6, <2>1, NotFoundLater, Zenon DEF ContentEnd
  <2> QED
    BY <2>2, WhatIsParsed, Zenon
<1> QED
  BY <1>3, <1>4, <1>5, <1>6, Zenon

(* What is received of a request is what its client sent.                  *)
LEMMA ReceivedIsSent ==
    ASSUME NEW r \in Posted
    PROVE  /\ Received(r.type, r.delimiter, r.body).content = r.sent
           /\ r.sent \in Seq(STRING)
<1> DEFINE parsed == ParseMultipartFirstFile(r.body, r.delimiter)
           got    == Received(r.type, r.delimiter, r.body).content
           Chars  == STRING \union {CR, LF}
<1>1. /\ r.delimiter \in STRING /\ r.body \in Seq(STRING) /\ r.sent \in Seq(STRING)
      /\ IF Readable(r.type, r.delimiter) /\ ~IsNoForm(r.body, r.delimiter)
         THEN IsForm(r.body, r.delimiter, r.sent)
         ELSE r.sent = r.body
  BY RequestsAssumption, Zenon
<1>2. /\ CR \in Chars /\ LF \in Chars /\ r.delimiter \in Chars
      /\ r.body \in Seq(Chars) /\ r.sent \in Seq(Chars)
  <2>1. STRING \subseteq Chars
    OBVIOUS
  <2>2. r.body \in Seq(Chars) /\ r.sent \in Seq(Chars)
    BY <1>1, <2>1, SeqMonotonic, Zenon
  <2> QED
    BY <1>1, <2>2
<1>3. IF Readable(r.type, r.delimiter) /\ parsed.valid THEN got = parsed.content ELSE got = r.body
  <2>1. CASE Readable(r.type, r.delimiter)
    BY <2>1, Zenon DEF Received
  <2>2. CASE ~Readable(r.type, r.delimiter)
    <3>1. Invalid.valid = FALSE
      BY Zenon DEF Invalid
    <3> QED
      BY <2>2, <3>1, Zenon DEF Received
  <2> QED
    BY <2>1, <2>2, Zenon
<1> HIDE DEF parsed, got, Chars
<1>4. CASE Readable(r.type, r.delimiter) /\ ~IsNoForm(r.body, r.delimiter)
  <2>1. parsed.valid /\ parsed.content = r.sent
    BY <1>1, <1>2, <1>4, FormRead, Zenon DEF parsed
  <2> QED
    BY <1>1, <1>3, <1>4, <2>1, Zenon DEF got
<1>5. CASE Readable(r.type, r.delimiter) /\ IsNoForm(r.body, r.delimiter)
  <2>1. ~parsed.valid
    BY <1>2, <1>5, NoFormRead, Zenon DEF parsed
  <2> QED
    BY <1>1, <1>3, <1>5, <2>1, Zenon DEF got
<1>6. CASE ~Readable(r.type, r.delimiter)
  BY <1>1, <1>3, <1>6, Zenon DEF got
<1> QED
  BY <1>4, <1>5, <1>6, Zenon

-----------------------------------------------------------------------------
(* Routing: what a request is routed to is a location of the site.         *)
LEMMA OneIsLongest ==
    ASSUME NEW n \in Nat, NEW S \in SUBSET (1..n), S # {},
           NEW len, \A i \in S : len[i] \in Nat
    PROVE  \E i \in S : \A j \in S : len[j] <= len[i]
<1> DEFINE Upto(i, k) == \A j \in S : j <= k => len[j] <= len[i]
           P == {k \in 0..n : \E i \in S : Upto(i, k)}
<1>1. 0 \in P
  <2>1. PICK i \in S : TRUE
    OBVIOUS
  <2>2. Upto(i, 0)
    OBVIOUS
  <2> QED
    BY <2>2
<1>2. Max(P) \in P /\ \A k \in P : k <= Max(P)
  <2>1. P \in SUBSET (0..n) /\ P # {}
    BY <1>1
  <2> HIDE DEF P
  <2> QED
    BY <2>1, LargestNumber
<1> DEFINE m == Max(P)
<1>3. PICK i \in S : m \in 0..n /\ Upto(i, m)
  BY <1>2
<1>4. m = n
  <2> SUFFICES ASSUME m # n PROVE FALSE
    OBVIOUS
  <2> HIDE DEF m
  <2>1. m + 1 \in 0..n /\ m + 1 \in Nat
    BY <1>3
  <2>4. m + 1 \notin P
    <3>1. \A k \in P : k <= m
      BY <1>2, Zenon DEF m
    <3> QED
      BY <1>3, <3>1
  <2>2. CASE m + 1 \in S /\ len[i] < len[m + 1]
    <3>1. Upto(m + 1, m + 1)
      BY <1>3, <2>1, <2>2
    <3>2. m + 1 \in P
      BY <2>1, <2>2, <3>1
    <3> QED
      BY <2>4, <3>2
  <2>3. CASE ~(m + 1 \in S /\ len[i] < len[m + 1])
    <3>1. Upto(i, m + 1)
      BY <1>3, <2>1, <2>3
    <3>2. m + 1 \in P
      BY <1>3, <2>1, <3>1
    <3> QED
      BY <2>4, <3>2
  <2> QED
    BY <2>2, <2>3
<1> HIDE DEF P, m
<1> QED
  BY <1>3, <1>4

(* The location that is chosen: it matches, and every other one that does  *)
(* has a shorter path, or the same length and an earlier place.            *)
HasLocations(locations) ==
    /\ Len(locations) \in Nat /\ DOMAIN locations = 1..Len(locations)
    /\ \A l \in DOMAIN locations : IsLocation(locations[l])

BestMatch(path, locations, l) ==
    /\ l \in DOMAIN locations
    /\ IsPrefixMatch(path, locations[l].path)
    /\ \A i \in DOMAIN locations : IsPrefixMatch(path, locations[i].path) =>
          \/ Len(locations[i].path) < Len(locations[l].path)
          \/ Len(locations[i].path) = Len(locations[l].path) /\ i <= l

LEMMA PathLengths ==
    ASSUME NEW locations, HasLocations(locations)
    PROVE  \A i \in DOMAIN locations : Len(locations[i].path) \in Nat /\ i \in Nat
<1>1. \A i \in DOMAIN locations : locations[i].path \in Seq(STRING)
      /\ i \in 1..Len(locations)
  BY Zenon DEF HasLocations, IsLocation
<1>2. Len(locations) \in Nat
  BY Zenon DEF HasLocations
<1> QED
  BY <1>1, <1>2, LenProperties

(* matchLocation answers the best match, if there is one.                   *)
LEMMA MatchIsBest ==
    ASSUME NEW path, NEW locations, HasLocations(locations)
    PROVE  LET l == MatchLocation(path, locations)
           IN  IF \A i \in DOMAIN locations : ~IsPrefixMatch(path, locations[i].path)
               THEN l = 0 ELSE BestMatch(path, locations, l)
<1> DEFINE fits    == {i \in DOMAIN locations : IsPrefixMatch(path, locations[i].path)}
           len     == [i \in DOMAIN locations |-> Len(locations[i].path)]
           lengths == {Len(locations[i].path) : i \in fits}
           longest == Max(lengths)
           best    == {i \in fits : Len(locations[i].path) = longest}
           n       == Len(locations)
           l       == MatchLocation(path, locations)
<1>1. CASE fits = {}
  <2>1. l = 0
    BY <1>1, Zenon DEF MatchLocation
  <2> QED
    BY <1>1, <2>1
<1>2. CASE fits # {}
  <2>1. l = Max(best)
    BY <1>2, Zenon DEF MatchLocation
  <2>2. fits \in SUBSET (1..n) /\ n \in Nat
    BY DEF HasLocations
  <2>3. \A i \in fits : len[i] = Len(locations[i].path) /\ len[i] \in Nat
    BY PathLengths
  <2> HIDE DEF fits, len, n, l
  <2>4. PICK i \in fits : \A j \in fits : len[j] <= len[i]
    BY <1>2, <2>2, <2>3, OneIsLongest
  <2>5. len[i] \in lengths /\ \A x \in lengths : len[i] >= x
    BY <2>3, <2>4
  <2>6. longest \in lengths /\ \A x \in lengths : longest >= x
    <3> HIDE DEF lengths
    <3> QED
      BY <2>5 DEF Max
  <2>7. best # {} /\ best \in SUBSET (0..n)
    <3>1. PICK k \in fits : Len(locations[k].path) = longest
      BY <2>6, Zenon
    <3>2. k \in best
      BY <3>1, Zenon
    <3>3. best \subseteq fits /\ \A x \in 1..n : x \in 0..n
      OBVIOUS
    <3> HIDE DEF best
    <3> QED
      BY <2>2, <3>2, <3>3, Zenon
  <2>8. Max(best) \in best /\ \A x \in best : x <= Max(best)
    <3> HIDE DEF best
    <3> QED
      BY <2>2, <2>7, LargestNumber
  <2>9. l \in fits /\ Len(locations[l].path) = longest
    BY <2>1, <2>8
  <2>10. ASSUME NEW j \in fits
         PROVE  \/ Len(locations[j].path) < Len(locations[l].path)
                \/ Len(locations[j].path) = Len(locations[l].path) /\ j <= l
    <3>1. Len(locations[j].path) \in lengths /\ Len(locations[j].path) \in Nat
          /\ longest \in Nat
      BY <2>3, <2>6
    <3>2. Len(locations[j].path) <= longest
      BY <2>6, <3>1
    <3>3. Len(locations[j].path) = longest => j <= l
      <4>1. Len(locations[j].path) = longest => j \in best
        OBVIOUS
      <4> QED
        BY <2>1, <2>8, <4>1
    <3> HIDE DEF longest
    <3> QED
      BY <2>9, <3>1, <3>2, <3>3
  <2>11. BestMatch(path, locations, l)
    BY <2>9, <2>10, Zenon DEF BestMatch, fits
  <2> QED
    BY <1>2, <2>11, Zenon DEF fits, l
<1> QED
  BY <1>1, <1>2

(* There is only one best match.                                            *)
LEMMA BestIsMatch ==
    ASSUME NEW path, NEW locations, HasLocations(locations), NEW l, BestMatch(path, locations, l)
    PROVE  MatchLocation(path, locations) = l
<1> DEFINE m == MatchLocation(path, locations)
<1>1. BestMatch(path, locations, m)
  BY MatchIsBest, Zenon DEF BestMatch
<1> HIDE DEF m
<1>2. /\ l \in Nat /\ Len(locations[l].path) \in Nat
      /\ m \in Nat /\ Len(locations[m].path) \in Nat
  BY <1>1, PathLengths, Zenon DEF BestMatch
<1>3. \/ Len(locations[m].path) < Len(locations[l].path)
      \/ Len(locations[m].path) = Len(locations[l].path) /\ m <= l
  BY <1>1, Zenon DEF BestMatch
<1>4. \/ Len(locations[l].path) < Len(locations[m].path)
      \/ Len(locations[l].path) = Len(locations[m].path) /\ l <= m
  BY <1>1, Zenon DEF BestMatch
<1> QED
  BY <1>2, <1>3, <1>4 DEF m

(* Routing, step by step.                                                  *)
LEMMA FoundServer ==
    ASSUME NEW host
    PROVE  FindServer(host) \in DOMAIN Servers
           /\ HasLocations(Servers[FindServer(host)].locations)
<1> DEFINE named  == {i \in DOMAIN Servers : host \in Servers[i].names}
           server == FindServer(host)
<1>1. Len(Servers) \in Nat \ {0} /\ DOMAIN Servers = 1..Len(Servers)
  BY SiteAssumption, Zenon DEF IsSite
<1>2. CASE named = {}
  <2>1. server = 1
    BY <1>2, Zenon DEF FindServer
  <2>2. server \in DOMAIN Servers
    BY <1>1, <2>1
  <2> QED
    BY <2>2, SiteAssumption, Zenon DEF IsSite, HasLocations
<1>3. CASE named # {}
  <2>1. server = Min(named)
    BY <1>3, Zenon DEF FindServer
  <2>2. named \in SUBSET Nat /\ named \subseteq DOMAIN Servers
    BY <1>1
  <2>3. server \in DOMAIN Servers
    <3> HIDE DEF named, server
    <3> QED
      BY <1>3, <2>1, <2>2, SmallestNumber
  <2> QED
    BY <2>3, SiteAssumption, Zenon DEF IsSite, HasLocations
<1> QED
  BY <1>2, <1>3

Split(r) ==
    ResolveCgiPathInfo(Collapse(r.path), Location(Routed(r)), DOMAIN files)

(* What Routed says, field by field.                                        *)
LEMMA RouteIs ==
    ASSUME NEW r
    PROVE  LET route     == Routed(r)
               locations == Servers[route.server].locations
           IN  /\ route.server \in DOMAIN Servers /\ HasLocations(locations)
               /\ route.loc = MatchLocation(Collapse(r.path), locations)
               /\ route.loc = 0 => route.file = Absent
               /\ route.loc # 0 =>
                     /\ route.script = Split(r).script /\ route.info = Split(r).info
                     /\ route.file = ResolvePath(Split(r).script, Location(route))
<1> DEFINE server    == FindServer(r.host)
           locations == Servers[server].locations
           l         == MatchLocation(Collapse(r.path), locations)
           split     == ResolveCgiPathInfo(Collapse(r.path), locations[l], DOMAIN files)
<1>1. server \in DOMAIN Servers /\ HasLocations(locations)
  BY FoundServer, Zenon
<1>2. CASE l = 0
  <2>1. Routed(r) = [server |-> server, loc |-> 0, script |-> Collapse(r.path),
                     info |-> Absent, file |-> Absent]
    BY <1>2, Zenon DEF Routed
  <2> HIDE DEF server, l
  <2>2. Routed(r).server = server /\ Routed(r).loc = l /\ Routed(r).file = Absent
    BY <1>2, <2>1
  <2> QED
    BY <1>1, <1>2, <2>2, Zenon DEF l
<1>3. CASE l # 0
  <2> DEFINE file == ResolvePath(split.script, locations[l])
  <2>1. Routed(r) = [server |-> server, loc |-> l, script |-> split.script,
                     info |-> split.info, file |-> file]
    BY <1>3, Zenon DEF Routed
  <2> HIDE DEF server, l, split, file
  <2>2. /\ Routed(r).server = server /\ Routed(r).loc = l /\ Routed(r).file = file
        /\ Routed(r).script = split.script /\ Routed(r).info = split.info
    BY <2>1
  <2>3. Location(Routed(r)) = locations[l]
    BY <2>2, Zenon DEF Location
  <2>4. Split(r) = split
    BY <2>3, Zenon DEF Split, split
  <2> QED
    BY <1>1, <1>3, <2>2, <2>3, <2>4, Zenon DEF l, file
<1> QED
  BY <1>2, <1>3

LEMMA RoutedBest ==
    ASSUME NEW r, Routed(r).loc # 0
    PROVE  /\ BestMatch(Collapse(r.path), Servers[Routed(r).server].locations, Routed(r).loc)
           /\ Location(Routed(r)) \in Locations /\ IsLocation(Location(Routed(r)))
<1> DEFINE route     == Routed(r)
           locations == Servers[route.server].locations
<1>1. /\ route.server \in DOMAIN Servers /\ HasLocations(locations)
      /\ route.loc = MatchLocation(Collapse(r.path), locations)
  BY RouteIs, Zenon
<1> HIDE DEF route
<1>2. BestMatch(Collapse(r.path), locations, route.loc)
  BY <1>1, MatchIsBest, Zenon DEF route
<1>3. route.loc \in DOMAIN locations /\ Location(route) = locations[route.loc]
  BY <1>2, Zenon DEF BestMatch, Location
<1>4. IsLocation(Location(route))
  BY <1>1, <1>3, Zenon DEF HasLocations
<1> DEFINE At(s) == {Servers[s].locations[k] : k \in DOMAIN Servers[s].locations}
<1>5. Location(route) \in At(route.server)
  BY <1>3, Zenon
<1>6. Locations = UNION {At(s) : s \in DOMAIN Servers}
  BY Zenon DEF Locations
<1> HIDE DEF At
<1>7. Location(route) \in Locations
  BY <1>1, <1>5, <1>6
<1> QED
  BY <1>2, <1>4, <1>7, Zenon DEF route

(* What the characters of a path and of the location have in common is     *)
(* what their names have in common.                                        *)
LEMMA SlashIsText == Slash \in STRING
BY TextsAssumption, Zenon

(* The comparison of texts is the comparison of names.                      *)
LEMMA MatchCovers ==
    ASSUME NEW path \in Seq(STRING), path # <<>>, Head(path) = Slash,
           NEW l \in Seq(STRING), l # <<>>
    PROVE  /\ IsPrefixMatch(path, l) <=> Covers(l, path)
           /\ IsPrefixMatch(path, l) => Starts(l, path) /\ Len(l) \in Nat \ {0}
           /\ IsPrefixMatch(path, l) <=> path = l \/ l = Root \/ Under(l, path)
<1>1. IsPrefixMatch(path, l) <=> path = l \/ l = Root \/ Under(l, path)
  BY Zenon DEF IsPrefixMatch, Under
<1>2. Covers(l, path) <=> l = Root \/ path = l \/ Under(l, path)
  <2>1. IsPrefix(Segments(l), Segments(path)) <=> path = l \/ Under(l, path)
    BY SlashIsText, PrefixOfSegments
  <2> QED
    BY <2>1, Zenon DEF Covers
<1>3. Len(l) \in Nat \ {0} /\ Len(path) \in Nat \ {0}
  BY LenProperties, EmptySeq
<1>4. path = l => Starts(l, path)
  BY <1>3 DEF Starts
<1>5. l = Root => Starts(l, path)
  <2>1. path[1] = Slash
    BY HeadAndTail
  <2> QED
    BY <1>3, <2>1 DEF Starts, Root
<1>6. Under(l, path) => Starts(l, path)
  BY SlashIsText, UnderIs
<1> QED
  BY <1>1, <1>2, <1>3, <1>4, <1>5, <1>6, Zenon

LEMMA RootIsShortest ==
    ASSUME NEW l \in Seq(STRING), Len(l) > 1
    PROVE  l # Root
<1> SUFFICES ASSUME l = Root PROVE FALSE
  OBVIOUS
<1>1. Len(Root) = 1
  BY DEF Root
<1>2. Len(l) = Len(Root)
  BY Zenon
<1> QED
  BY <1>1, <1>2

(* Of two matches, the longer text has more names.                          *)
LEMMA LongerIsDeeper ==
    ASSUME NEW path \in Seq(STRING), path # <<>>, Head(path) = Slash,
           NEW k \in Seq(STRING), k # <<>>, IsPrefixMatch(path, k),
           NEW l \in Seq(STRING), l # <<>>, IsPrefixMatch(path, l)
    PROVE  /\ Len(k) < Len(l) => Depth(k) < Depth(l)
           /\ Len(k) = Len(l) => k = l
<1>1. /\ Starts(k, path) /\ Len(k) \in Nat \ {0}
      /\ Starts(l, path) /\ Len(l) \in Nat \ {0}
      /\ Len(path) \in Nat
  BY MatchCovers, LenProperties
<1>2. ASSUME Len(k) < Len(l) PROVE Depth(k) < Depth(l)
  <2>1. l # Root /\ Depth(l) = Len(Segments(l)) /\ Len(Segments(l)) \in Nat \ {0}
    <3>1. l # Root
      BY <1>1, <1>2, RootIsShortest
    <3>2. Segments(l) \in Seq(Plain(STRING)) /\ Segments(l) # <<>>
      BY SegmentsArePlain
    <3>3. Len(Segments(l)) \in Nat \ {0}
      BY <3>2, LenProperties, EmptySeq
    <3> QED
      BY <3>1, <3>3, Zenon DEF Depth
  <2>2. CASE k = Root
    <3>1. Depth(k) = 0
      BY <2>2, Zenon DEF Depth
    <3> QED
      BY <2>1, <3>1
  <2>3. CASE k # Root
    <3>1. k # path
      BY <1>1, <1>2 DEF Starts
    <3>2. Under(k, path)
      BY <2>3, <3>1, MatchCovers
    <3>3. path[Len(k) + 1] = Slash
      BY <3>2 DEF Under
    <3>4. l[Len(k) + 1] = Slash /\ Starts(k, l)
      <4>1. \A i \in 1..Len(l) : path[i] = l[i]
        BY <1>1 DEF Starts
      <4>2. Len(k) + 1 \in 1..Len(l) /\ \A i \in 1..Len(k) : i \in 1..Len(l)
        BY <1>1, <1>2
      <4>3. \A i \in 1..Len(k) : path[i] = k[i]
        BY <1>1 DEF Starts
      <4>4. \A i \in 1..Len(k) : l[i] = k[i]
        BY <4>1, <4>2, <4>3, Zenon
      <4>5. Len(k) <= Len(l)
        BY <1>1, <1>2
      <4> QED
        BY <3>3, <4>1, <4>2, <4>4, <4>5, Zenon DEF Starts
    <3>5. Under(k, l)
      BY <1>2, <3>4, SlashIsText, UnderIs
    <3>6. Len(Segments(k)) < Len(Segments(l))
      BY <3>5, SlashIsText, UnderIsDeeper
    <3>7. Depth(k) = Len(Segments(k))
      BY <2>3, Zenon DEF Depth
    <3> QED
      BY <2>1, <3>6, <3>7
  <2> QED
    BY <2>2, <2>3
<1>3. ASSUME Len(k) = Len(l) PROVE k = l
  <2>1. \A i \in 1..Len(k) : k[i] = l[i]
    BY <1>1, <1>3 DEF Starts
  <2> QED
    BY <1>3, <2>1, SeqEqual
<1> QED
  BY <1>2, <1>3

(* The paths of requests, when they come to be routed.                     *)
LEMMA RequestPath ==
    ASSUME NEW r \in Requests \union Probes
    PROVE  /\ Collapse(r.path) \in Seq(STRING) /\ Collapse(r.path) # <<>>
           /\ Head(Collapse(r.path)) = Slash
<1>1. r.path \in Seq(STRING) /\ r.path # <<>> /\ Head(r.path) = Slash
  BY PathsAssumption, Zenon
<1> QED
  BY <1>1, CollapseHead

Specific(r, route) ==
    LET locations == Servers[route.server].locations
        path      == Collapse(r.path)
        covering  == {i \in DOMAIN locations : Covers(locations[i].path, path)}
        l         == route.loc
    IN  IF covering = {} THEN l = 0
        ELSE /\ l \in covering
             /\ \A i \in covering :
                   \/ Depth(locations[i].path) < Depth(locations[l].path)
                   \/ locations[i].path = locations[l].path /\ i <= l

(* What is said by MostSpecific, of any request.                            *)
LEMMA RoutedIsSpecific ==
    ASSUME NEW r \in Requests \union Probes
    PROVE  Specific(r, Routed(r))
<1> DEFINE route     == Routed(r)
           locations == Servers[route.server].locations
           path      == Collapse(r.path)
           covering  == {i \in DOMAIN locations : Covers(locations[i].path, path)}
           l         == route.loc
<1>1. path \in Seq(STRING) /\ path # <<>> /\ Head(path) = Slash
  BY RequestPath, Zenon
<1>2. HasLocations(locations) /\ l = MatchLocation(path, locations)
  BY RouteIs, Zenon
<1> HIDE DEF path, locations, l
<1>3. \A i \in DOMAIN locations : locations[i].path \in Seq(STRING)
      /\ locations[i].path # <<>>
  BY <1>2, Zenon DEF HasLocations, IsLocation
<1>4. \A i \in DOMAIN locations :
         IsPrefixMatch(path, locations[i].path) <=> Covers(locations[i].path, path)
  BY <1>1, <1>3, MatchCovers, Zenon
<1>5. CASE covering = {}
  <2>1. \A i \in DOMAIN locations : ~IsPrefixMatch(path, locations[i].path)
    BY <1>4, <1>5, Zenon
  <2>2. l = 0
    BY <1>2, <2>1, MatchIsBest, Zenon
  <2> QED
    BY <1>5, <2>2, Zenon DEF Specific, path, locations, l
<1>6. CASE covering # {}
  <2>1. BestMatch(path, locations, l)
    BY <1>2, <1>4, <1>6, MatchIsBest, Zenon
  <2>2. l \in covering /\ l \in DOMAIN locations /\ IsPrefixMatch(path, locations[l].path)
    BY <1>4, <2>1, Zenon DEF BestMatch
  <2>3. ASSUME NEW i \in covering
        PROVE  \/ Depth(locations[i].path) < Depth(locations[l].path)
               \/ locations[i].path = locations[l].path /\ i <= l
    <3>1. i \in DOMAIN locations /\ IsPrefixMatch(path, locations[i].path)
      BY <1>4, <2>3, Zenon
    <3>2. \/ Len(locations[i].path) < Len(locations[l].path)
          \/ Len(locations[i].path) = Len(locations[l].path) /\ i <= l
      BY <2>1, <3>1, Zenon DEF BestMatch
    <3> DEFINE a == locations[i].path
               b == locations[l].path
    <3>3. a \in Seq(STRING) /\ a # <<>> /\ b \in Seq(STRING) /\ b # <<>>
      BY <1>3, <2>2, <3>1, Zenon
    <3> HIDE DEF a, b
    <3>4. (Len(a) < Len(b) => Depth(a) < Depth(b)) /\ (Len(a) = Len(b) => a = b)
      <4>1. IsPrefixMatch(path, a) /\ IsPrefixMatch(path, b)
        BY <2>2, <3>1, Zenon DEF a, b
      <4> QED
        BY <1>1, <3>3, <4>1, LongerIsDeeper
    <3> QED
      BY <3>2, <3>4, Zenon DEF a, b
  <2> HIDE DEF covering
  <2>4. \A i \in covering :
           \/ Depth(locations[i].path) < Depth(locations[l].path)
           \/ locations[i].path = locations[l].path /\ i <= l
    BY <2>3, Zenon
  <2> QED
    BY <1>6, <2>2, <2>4, Zenon DEF Specific, covering, path, locations, l
<1> QED
  BY <1>5, <1>6

(* A path that is cut at its end or before a slash.                        *)
Ends(path, cut) == cut \in 1..Len(path) /\ (cut = Len(path) \/ path[cut + 1] = Slash)

CutsOff(path, cut, script, info) ==
    /\ script \in Seq(STRING) /\ info \in Seq(STRING)
    /\ script \o info = path
    /\ Len(script) = cut /\ \A i \in 1..cut : script[i] = path[i]
    /\ info # <<>> => Head(info) = Slash
    /\ path = script \/ Under(script, path)

LEMMA CutAtEnds ==
    ASSUME NEW path \in Seq(STRING), NEW cut, Ends(path, cut)
    PROVE  CutsOff(path, cut, SubSeq(path, 1, cut), SubSeq(path, cut + 1, Len(path)))
<1> DEFINE n      == Len(path)
           script == SubSeq(path, 1, cut)
           info   == SubSeq(path, cut + 1, n)
<1>1. n \in Nat /\ cut \in 1..n /\ cut \in Int /\ n \in Int /\ 1 \in Int /\ cut + 1 \in Int
      /\ (cut = n \/ path[cut + 1] = Slash)
  BY LenProperties DEF Ends
<1>2. \A i \in 1..n : path[i] \in STRING
  BY ElementOfSeq
<1>3. /\ script \in Seq(STRING) /\ Len(script) = cut
      /\ \A i \in 1..cut : script[i] = path[i]
  <2>1. \A i \in 1..cut : path[i] \in STRING
    BY <1>1, <1>2
  <2>2. /\ SubSeq(path, 1, cut) \in Seq(STRING) /\ Len(SubSeq(path, 1, cut)) = IF 1 <= cut THEN cut - 1 + 1 ELSE 0
        /\ \A i \in 1..cut - 1 + 1 : SubSeq(path, 1, cut)[i] = path[1 + i - 1]
    BY <1>1, <2>1, SubSeqProperties
  <2> HIDE DEF script, n
  <2>3. script \in Seq(STRING) /\ Len(script) = cut
    BY <1>1, <2>2 DEF script
  <2>4. \A i \in 1..cut : i \in 1..cut - 1 + 1 /\ 1 + i - 1 = i
    BY <1>1
  <2>5. \A i \in 1..cut : script[i] = path[i]
    BY <2>2, <2>4, Zenon DEF script
  <2> QED
    BY <2>3, <2>5
<1>4. info \in Seq(STRING) /\ (cut < n => info[1] = path[cut + 1])
  <2>1. \A i \in cut + 1..n : path[i] \in STRING
    BY <1>1, <1>2
  <2>2. /\ SubSeq(path, cut + 1, n) \in Seq(STRING)
        /\ \A i \in 1..n - (cut + 1) + 1 : SubSeq(path, cut + 1, n)[i] = path[(cut + 1) + i - 1]
    BY <1>1, <2>1, SubSeqProperties
  <2> HIDE DEF n
  <2>3. cut < n => 1 \in 1..n - (cut + 1) + 1 /\ (cut + 1) + 1 - 1 = cut + 1
    BY <1>1
  <2> QED
    BY <2>2, <2>3, Zenon
<1>5. cut = n => info = <<>>
  BY <1>1, SubSeqEmpty
<1>6. script \o info = path
  <2>1. 1 \in 1..n + 1 /\ cut \in 1 - 1..n /\ n \in cut..n
    BY <1>1
  <2>2. SubSeq(path, 1, cut) \o SubSeq(path, cut + 1, n) = SubSeq(path, 1, n)
    BY <2>1, ConcatAdjacentSubSeq
  <2>3. SubSeq(path, 1, n) = path
    BY SubSeqFull
  <2> QED
    BY <2>2, <2>3
<1> HIDE DEF script, info
<1>7. info # <<>> => Head(info) = Slash
  <2>1. info # <<>> => Head(info) = info[1]
    BY <1>4, HeadAndTail
  <2>2. info # <<>> => cut < n
    BY <1>1, <1>5
  <2> QED
    BY <1>1, <1>4, <2>1, <2>2
<1>8. path = script \/ Under(script, path)
  <2>1. CASE cut = n
    <3>1. script = path
      BY <1>3, <1>5, <1>6, <2>1, ConcatEmptySeq
    <3> QED
      BY <3>1
  <2>2. CASE cut < n
    <3>1. Starts(script, path) /\ Len(script) < Len(path) /\ path[Len(script) + 1] = Slash
      BY <1>1, <1>3, <2>2 DEF Starts
    <3> QED
      BY <1>3, <3>1, SlashIsText, UnderIs
  <2> QED
    BY <1>1, <2>1, <2>2
<1> QED
  BY <1>3, <1>4, <1>6, <1>7, <1>8, Zenon DEF CutsOff, script, info

(* What is left of a path without the path of its location.                *)
LEMMA Stripped ==
    ASSUME NEW path \in Seq(STRING), path # <<>>, Head(path) = Slash,
           NEW l \in Seq(STRING), l # <<>>, IsPrefixMatch(path, l)
    PROVE  LET suffix == StripLocationPrefix(path, l)
           IN  /\ suffix \in Seq(STRING) /\ suffix # <<>> /\ Head(suffix) = Slash
               /\ Len(suffix) \in 1..Len(path)
               /\ \/ l = Root /\ suffix = path
                  \/ path = l /\ Len(suffix) = 1
                  \/ /\ Under(l, path) /\ Len(suffix) = Len(path) - Len(l)
                     /\ \A i \in 1..Len(suffix) : suffix[i] = path[Len(l) + i]
<1> DEFINE suffix == StripLocationPrefix(path, l)
           n      == Len(path)
<1>1. /\ Len(l) \in Nat \ {0} /\ n \in Nat \ {0} /\ Starts(l, path)
      /\ path = l \/ l = Root \/ Under(l, path)
  BY MatchCovers, LenProperties, EmptySeq
<1>2. CASE l = Root
  <2>1. suffix = path
    BY <1>2, Zenon DEF StripLocationPrefix
  <2> QED
    BY <1>1, <1>2, <2>1
<1>3. CASE l # Root /\ path = l
  <2>1. suffix = Root
    BY <1>3, Zenon DEF StripLocationPrefix
  <2>2. Root \in Seq(STRING) /\ Root # <<>> /\ Head(Root) = Slash /\ Len(Root) = 1
    <3>1. Root \in Seq(STRING) /\ Root # <<>>
      BY SlashIsText, Singles DEF Root
    <3>2. Len(Root) = 1 /\ Root[1] = Slash
      BY DEF Root
    <3>3. Head(Root) = Root[1]
      BY <3>1, HeadAndTail
    <3> QED
      BY <3>1, <3>2, <3>3
  <2> HIDE DEF suffix, n
  <2>3. suffix \in Seq(STRING) /\ suffix # <<>> /\ Head(suffix) = Slash /\ Len(suffix) = 1
    BY <2>1, <2>2, Zenon
  <2>4. 1 \in 1..n
    BY <1>1
  <2>5. Len(suffix) \in 1..n
    BY <2>3, <2>4, Zenon
  <2> QED
    BY <1>3, <2>3, <2>5, Zenon DEF suffix, n
<1>4. CASE l # Root /\ path # l
  <2>1. Under(l, path)
    BY <1>1, <1>4
  <2>2. suffix = SubSeq(path, Len(l) + 1, n)
    BY <1>4, Zenon DEF StripLocationPrefix
  <2>3. Starts(l, path) /\ Len(l) < n /\ path[Len(l) + 1] = Slash
    BY <2>1, SlashIsText, UnderIs
  <2> DEFINE m == Len(l)
  <2>4. m \in Nat \ {0} /\ n \in Nat /\ m < n /\ m + 1 \in Int /\ n \in Int
    BY <1>1, <2>3
  <2>5. \A i \in m + 1..n : path[i] \in STRING
    <3>1. \A i \in m + 1..n : i \in 1..n
      BY <2>4
    <3> QED
      BY <3>1, ElementOfSeq
  <2> HIDE DEF m, n, suffix
  <2>6. /\ suffix \in Seq(STRING) /\ Len(suffix) = IF m + 1 <= n THEN n - (m + 1) + 1 ELSE 0
        /\ \A i \in 1..n - (m + 1) + 1 : suffix[i] = path[(m + 1) + i - 1]
    BY <2>2, <2>4, <2>5, SubSeqProperties DEF m
  <2>7. Len(suffix) = n - m /\ Len(suffix) \in 1..n /\ 1 \in 1..n - (m + 1) + 1
        /\ (m + 1) + 1 - 1 = m + 1
    BY <2>4, <2>6
  <2>8. \A i \in 1..Len(suffix) : i \in 1..n - (m + 1) + 1 /\ (m + 1) + i - 1 = m + i
    BY <2>4, <2>7
  <2>9. \A i \in 1..Len(suffix) : suffix[i] = path[m + i]
    BY <2>6, <2>8
  <2>10. suffix # <<>> /\ Head(suffix) = Slash
    <3>1. suffix # <<>>
      BY <2>7
    <3>2. Head(suffix) = suffix[1]
      BY <2>6, <3>1, HeadAndTail
    <3> QED
      BY <2>3, <2>6, <2>7, <3>1, <3>2 DEF m
  <2> QED
    BY <2>1, <2>6, <2>7, <2>9, <2>10, Zenon DEF m, n, suffix
<1> QED
  BY <1>2, <1>3, <1>4

(* resolveCgiPathInfo: the script is the path up to its end or to a slash, *)
(* and stays in the location of the path.                                  *)
IsSplit(path, l, script, info) ==
    /\ \E cut : Ends(path, cut) /\ CutsOff(path, cut, script, info)
    /\ IsPrefixMatch(script, l)

LEMMA WholePath ==
    ASSUME NEW path \in Seq(STRING), path # <<>>
    PROVE  Ends(path, Len(path)) /\ CutsOff(path, Len(path), path, <<>>)
<1>1. Len(path) \in Nat \ {0}
  BY LenProperties, EmptySeq
<1>2. Ends(path, Len(path)) /\ <<>> \in Seq(STRING) /\ path \o <<>> = path
  BY <1>1, EmptySeq, ConcatEmptySeq DEF Ends
<1> QED
  BY <1>2 DEF CutsOff

(* resolveCgiPathInfo cuts before a slash, behind the location.             *)
LEMMA SplitIs ==
    ASSUME NEW path \in Seq(STRING), path # <<>>, Head(path) = Slash,
           NEW loc, loc.path \in Seq(STRING), loc.path # <<>>, IsPrefixMatch(path, loc.path), NEW fs
    PROVE  LET split == ResolveCgiPathInfo(path, loc, fs)
           IN  IsSplit(path, loc.path, split.script, split.info)
<1> DEFINE l       == loc.path
           suffix  == StripLocationPrefix(path, l)
           scripts == Scripts(suffix, loc, fs)
           cut     == Len(path) - Len(suffix) + Min(scripts)
           split   == ResolveCgiPathInfo(path, loc, fs)
<1>1. CASE scripts = {}
  <2>1. split = [script |-> path, info |-> <<>>]
    BY <1>1, Zenon DEF ResolveCgiPathInfo, Absent
  <2> HIDE DEF split
  <2>2. split.script = path /\ split.info = <<>>
    BY <2>1
  <2> QED
    BY <2>2, WholePath, Zenon DEF IsSplit, split
<1>2. CASE scripts # {}
  <2> DEFINE n == Len(path)
             k == Len(suffix)
             m == Min(scripts)
  <2>1. split = [script |-> SubSeq(path, 1, cut), info |-> SubSeq(path, cut + 1, Len(path))]
    BY <1>2, Zenon DEF ResolveCgiPathInfo
  <2>2. split.script = SubSeq(path, 1, cut) /\ split.info = SubSeq(path, cut + 1, Len(path))
    <3> HIDE DEF split, cut
    <3> QED
      BY <2>1
  <2>3. /\ suffix \in Seq(STRING) /\ k \in 1..n
        /\ \/ l = Root /\ suffix = path
           \/ path = l /\ k = 1
           \/ /\ Under(l, path) /\ k = n - Len(l)
              /\ \A i \in 1..k : suffix[i] = path[Len(l) + i]
    BY Stripped, Zenon
  <2>4. n \in Nat \ {0} /\ k \in Nat /\ Len(l) \in Nat \ {0} /\ DOMAIN suffix = 1..k
    BY <2>3, LenProperties, EmptySeq
  <2> HIDE DEF l, split, suffix, n, k
  <2>5. scripts \subseteq 1..k /\ \A i \in scripts : i = k \/ suffix[i + 1] = Slash
    BY <2>4 DEF Scripts, k
  <2>6. m \in 1..k /\ (m = k \/ suffix[m + 1] = Slash)
    <3>1. scripts \in SUBSET Nat
      BY <2>4, <2>5
    <3> HIDE DEF scripts
    <3>2. m \in scripts
      BY <1>2, <3>1, SmallestNumber
    <3> QED
      BY <2>5, <3>2
  <2> HIDE DEF m, scripts
  <2>7. cut = (n - k) + m /\ cut \in 1..n
    <3>1. cut = (n - k) + m
      BY DEF n, k, m
    <3> QED
      BY <2>3, <2>4, <2>6, <3>1
  <2> HIDE DEF cut
  <2>8. cut = n \/ path[cut + 1] = Slash
    <3>1. CASE m = k
      BY <2>4, <2>7, <3>1
    <3>2. CASE m # k
      <4>1. suffix[m + 1] = Slash /\ m + 1 \in 1..k
        BY <2>4, <2>6, <3>2
      <4>2. CASE suffix = path
        <5>1. k = n
          BY <4>2 DEF k, n
        <5>2. cut = m
          BY <2>4, <2>6, <2>7, <5>1
        <5> QED
          BY <4>1, <4>2, <5>2
      <4>3. CASE k = 1
        BY <2>6, <3>2, <4>3
      <4>4. CASE k = n - Len(l) /\ \A i \in 1..k : suffix[i] = path[Len(l) + i]
        <5>1. Len(l) + (m + 1) = cut + 1
          BY <2>4, <2>6, <2>7, <4>4
        <5>2. suffix[m + 1] = path[Len(l) + (m + 1)]
          BY <4>1, <4>4
        <5> QED
          BY <4>1, <5>1, <5>2
      <4> QED
        BY <2>3, <4>2, <4>3, <4>4
    <3> QED
      BY <3>1, <3>2
  <2>9. Ends(path, cut)
    BY <2>7, <2>8 DEF Ends, n
  <2>10. CutsOff(path, cut, split.script, split.info)
    BY <2>2, <2>9, CutAtEnds
  <2> DEFINE script == split.script
  <2> HIDE DEF script
  <2>11. script \in Seq(STRING) /\ Len(script) = cut
         /\ \A i \in 1..cut : script[i] = path[i]
    BY <2>10, Zenon DEF CutsOff, script
  <2>12. l \in Seq(STRING)
    BY DEF l
  <2>13. IsPrefixMatch(script, l)
    <3>1. CASE l = Root
      BY <3>1, Zenon DEF IsPrefixMatch
    <3>2. CASE path = l /\ k = 1
      <4>1. cut = n
        BY <2>4, <2>6, <2>7, <3>2
      <4>2. script = path
        BY <2>11, <4>1, SeqEqual DEF n
      <4> QED
        BY <3>2, <4>2, Zenon DEF IsPrefixMatch
    <3>3. CASE Under(l, path) /\ k = n - Len(l)
      <4>1. Starts(l, path) /\ Len(l) < n /\ path[Len(l) + 1] = Slash
        BY <2>12, <3>3, SlashIsText, UnderIs DEF n
      <4>2. Len(l) + 1 <= cut /\ Len(l) + 1 \in 1..cut /\ \A i \in 1..Len(l) : i \in 1..cut
        BY <2>4, <2>6, <2>7, <3>3
      <4>3. \A i \in 1..Len(l) : path[i] = l[i]
        BY <4>1 DEF Starts
      <4>4. \A i \in 1..Len(l) : script[i] = l[i]
        BY <2>11, <4>2, <4>3, Zenon
      <4>5. Len(l) < Len(script)
        BY <2>4, <2>7, <2>11, <4>2
      <4>6. Starts(l, script) /\ script[Len(l) + 1] = Slash
        <5>1. Len(l) <= Len(script)
          BY <2>4, <2>7, <2>11, <4>2
        <5> QED
          BY <2>11, <4>1, <4>2, <4>4, <5>1, Zenon DEF Starts
      <4>7. Under(l, script)
        BY <2>11, <2>12, <4>5, <4>6, SlashIsText, UnderIs
      <4> QED
        BY <4>7, Zenon DEF IsPrefixMatch, Under
    <3> QED
      BY <2>3, <3>1, <3>2, <3>3
  <2> QED
    BY <2>9, <2>10, <2>13, Zenon DEF IsSplit, script, split, l
<1> QED
  BY <1>1, <1>2

(* What matches the script matches the path.                                *)
LEMMA MatchesFollow ==
    ASSUME NEW path \in Seq(STRING), NEW script \in Seq(STRING),
           path = script \/ Under(script, path),
           NEW l \in Seq(STRING), IsPrefixMatch(script, l)
    PROVE  IsPrefixMatch(path, l)
<1>1. CASE path = script \/ l = Root
  BY <1>1, Zenon DEF IsPrefixMatch
<1>2. CASE Under(script, path) /\ script = l
  BY <1>2, Zenon DEF IsPrefixMatch, Under
<1>3. CASE Under(script, path) /\ Under(l, script)
  <2>1. Starts(script, path) /\ Len(script) < Len(path)
    BY <1>3, SlashIsText, UnderIs
  <2>2. Starts(l, script) /\ Len(l) < Len(script) /\ script[Len(l) + 1] = Slash
    BY <1>3, SlashIsText, UnderIs
  <2>3. Len(l) \in Nat /\ Len(script) \in Nat /\ Len(path) \in Nat
    BY LenProperties
  <2>4. \A i \in 1..Len(l) + 1 : i \in 1..Len(script)
    BY <2>2, <2>3
  <2>5. \A i \in 1..Len(l) + 1 : path[i] = script[i]
    BY <2>1, <2>4, Zenon DEF Starts
  <2>6. Len(l) + 1 \in 1..Len(l) + 1 /\ \A i \in 1..Len(l) : i \in 1..Len(l) + 1
    BY <2>3
  <2>7. \A i \in 1..Len(l) : path[i] = l[i]
    BY <2>2, <2>5, <2>6, Zenon DEF Starts
  <2>8. Len(l) <= Len(path) /\ Len(l) < Len(path)
    BY <2>1, <2>2, <2>3
  <2>9. Starts(l, path) /\ path[Len(l) + 1] = Slash
    BY <2>2, <2>5, <2>6, <2>7, <2>8, Zenon DEF Starts
  <2>10. Under(l, path)
    BY <2>8, <2>9, SlashIsText, UnderIs
  <2> QED
    BY <2>10, Zenon DEF IsPrefixMatch, Under
<1> QED
  BY <1>1, <1>2, <1>3, Zenon DEF IsPrefixMatch, Under

(* The script has the location of the path.                                 *)
LEMMA SplitMatch ==
    ASSUME NEW path \in Seq(STRING), NEW script \in Seq(STRING),
           path = script \/ Under(script, path),
           NEW locations, HasLocations(locations), NEW l, BestMatch(path, locations, l),
           IsPrefixMatch(script, locations[l].path)
    PROVE  MatchLocation(script, locations) = l
<1>1. \A i \in DOMAIN locations : locations[i].path \in Seq(STRING)
  BY Zenon DEF HasLocations, IsLocation
<1>2. \A i \in DOMAIN locations :
         IsPrefixMatch(script, locations[i].path) => IsPrefixMatch(path, locations[i].path)
  BY <1>1, MatchesFollow
<1>3. BestMatch(script, locations, l)
  BY <1>2, Zenon DEF BestMatch
<1> QED
  BY <1>3, BestIsMatch

(* What a CGI program is told, and the file behind it.                     *)
LEMMA RoutedSplit ==
    ASSUME NEW r \in Requests \union Probes, Routed(r).loc # 0
    PROVE  LET route == Routed(r)
           IN  /\ IsSplit(Collapse(r.path), Location(route).path, route.script, route.info)
               /\ MatchLocation(route.script, Servers[route.server].locations) = route.loc
               /\ route.file = ResolvePath(route.script, Location(route))
<1> DEFINE route     == Routed(r)
           locations == Servers[route.server].locations
           path      == Collapse(r.path)
           loc       == Location(route)
           l         == route.loc
           split     == ResolveCgiPathInfo(path, loc, DOMAIN files)
<1>1. path \in Seq(STRING) /\ path # <<>> /\ Head(path) = Slash
  BY RequestPath, Zenon
<1>2. /\ HasLocations(locations)
      /\ route.script = split.script /\ route.info = split.info
      /\ route.file = ResolvePath(split.script, loc)
  BY RouteIs, Zenon DEF Split
<1>3. BestMatch(path, locations, l) /\ IsLocation(loc)
  BY RoutedBest, Zenon
<1>4. loc = locations[l]
  BY Zenon DEF Location
<1> HIDE DEF route, path, loc, l, split, locations
<1>5. loc.path \in Seq(STRING) /\ loc.path # <<>> /\ IsPrefixMatch(path, loc.path)
  BY <1>3, <1>4, Zenon DEF IsLocation, BestMatch
<1>6. IsSplit(path, loc.path, split.script, split.info)
  BY <1>1, <1>5, SplitIs, Zenon DEF split
<1>7. /\ split.script \in Seq(STRING) /\ (path = split.script \/ Under(split.script, path))
      /\ IsPrefixMatch(split.script, loc.path)
  BY <1>6, Zenon DEF IsSplit, CutsOff
<1>8. MatchLocation(split.script, locations) = l
  BY <1>1, <1>2, <1>3, <1>4, <1>7, SplitMatch
<1> QED
  BY <1>2, <1>6, <1>8, Zenon DEF route, path, loc, l, locations

(* ResolvePath gives a canonical path below the real root, or none.        *)
Below(d, f) ==
    /\ d \in Seq(STRING) /\ NormalizePath(d) = d
    /\ f \in Seq(STRING) /\ NormalizePath(f) = f
    /\ f = d \/ Under(d, f)

(* What realpath() answers is a canonical directory.                        *)
LEMMA RealRoot ==
    ASSUME NEW root \in Seq(STRING), RealPath(root) # Absent
    PROVE  /\ RealPath(root) \in Seq(STRING) /\ RealPath(root) \in Dirs
           /\ RealPath(root) = NormalizePath(Absolute(root))
           /\ NormalizePath(RealPath(root)) = RealPath(root)
           /\ Names(RealPath(root)) = Names(Absolute(root))
<1> DEFINE p == Absolute(root)
<1>1. Cwd \in Seq(STRING)
  BY TreeAssumption, Zenon
<1>2. p \in Seq(STRING)
  BY <1>1, SlashIsText, AbsoluteIs
<1>3. RealPath(root) = NormalizePath(p) /\ RealPath(root) \in Dirs
  BY Zenon DEF RealPath
<1> HIDE DEF p
<1>4. /\ NormalizePath(p) \in Seq(STRING)
      /\ NormalizePath(NormalizePath(p)) = NormalizePath(p)
      /\ Names(NormalizePath(p)) = Names(p)
  BY <1>2, SlashIsText, NormalizeIs
<1> QED
  BY <1>3, <1>4, Zenon DEF p

LEMMA StripIsText ==
    ASSUME NEW path \in Seq(STRING), NEW l \in Seq(STRING)
    PROVE  StripLocationPrefix(path, l) \in Seq(STRING)
<1>1. Root \in Seq(STRING)
  BY SlashIsText, Singles DEF Root
<1>2. SubSeq(path, Len(l) + 1, Len(path)) \in Seq(STRING)
  <2>1. Len(l) + 1 \in Int /\ Len(path) \in Int
        /\ \A i \in Len(l) + 1..Len(path) : i \in 1..Len(path)
    BY LenProperties
  <2>2. \A i \in Len(l) + 1..Len(path) : path[i] \in STRING
    BY <2>1, ElementOfSeq
  <2> QED
    BY <2>1, <2>2, SubSeqProperties
<1> QED
  BY <1>1, <1>2, Zenon DEF StripLocationPrefix

LEMMA JoinIsText ==
    ASSUME NEW a \in Seq(STRING), a # <<>>, NEW b \in Seq(STRING)
    PROVE  /\ JoinPath(a, b) \in Seq(STRING)
           /\ Absolute(JoinPath(a, b)) \in Seq(STRING)
<1>1. JoinPath(a, b) \in Seq(STRING)
  <2>1. CASE b = <<>>
    BY <2>1, Zenon DEF JoinPath
  <2>2. CASE b # <<>>
    BY <2>2, SlashIsText, JoinIs
  <2> QED
    BY <2>1, <2>2
<1>2. Cwd \in Seq(STRING)
  BY TreeAssumption, Zenon
<1> QED
  BY <1>1, <1>2, SlashIsText, AbsoluteIs

(* A path that is resolved is below the real root of its location.          *)
LEMMA ResolvedBelow ==
    ASSUME NEW script \in Seq(STRING), NEW loc, IsLocation(loc), ~loc.hasReturn,
           ResolvePath(script, loc) # Absent
    PROVE  RealPath(loc.root) # Absent
           /\ Below(RealPath(loc.root), ResolvePath(script, loc))
<1> DEFINE p    == Absolute(JoinPath(loc.root, StripLocationPrefix(script, loc.path)))
           file == NormalizePath(p)
           d    == RealPath(loc.root)
<1>1. /\ loc.root \in Seq(STRING) /\ loc.root # <<>> /\ loc.path \in Seq(STRING)
  BY Zenon DEF IsLocation
<1>2. ResolvePath(script, loc) = file /\ d # Absent /\ Inside(file, d)
  BY Zenon DEF ResolvePath
<1>3. p \in Seq(STRING)
  BY <1>1, StripIsText, JoinIsText
<1> HIDE DEF p
<1>4. file \in Seq(STRING) /\ NormalizePath(file) = file
  BY <1>3, SlashIsText, NormalizeIs
<1>5. d \in Seq(STRING) /\ NormalizePath(d) = d
  BY <1>1, <1>2, RealRoot
<1> HIDE DEF file, d
<1>6. file = d \/ Under(d, file)
  BY <1>2, <1>4, <1>5, SlashIsText, InsideIs
<1> QED
  BY <1>2, <1>4, <1>5, <1>6, Zenon DEF Below, d

(* Without "..", a path leads to what is below its start.                  *)
LEMMA EmptyIsStep == <<>> \in Steps(STRING)
<1>1. <<>> \in Plain(STRING) /\ <<>> # <<Dot, Dot>>
  BY ProperArePlain
<1> QED
  BY <1>1 DEF Steps

Clean(p) == Segments(p) \in Seq(Steps(STRING))

(* The parts of a path without ".." have none.                              *)
LEMMA CleanParts ==
    ASSUME NEW a \in Seq(STRING), NEW b \in Seq(STRING), Clean(Down(a, b))
    PROVE  Clean(a) /\ Clean(b)
<1>1. /\ Segments(Down(a, b)) = Segments(a) \o Segments(b)
      /\ Segments(a) \in Seq(Plain(STRING)) /\ Segments(b) \in Seq(Plain(STRING))
  BY SlashIsText, SegmentsOfDown, SegmentsArePlain
<1>2. Segments(a) \o Segments(b) \in Seq(Steps(STRING))
  BY <1>1, Zenon DEF Clean
<1> DEFINE s == Segments(a)
           t == Segments(b)
<1> HIDE DEF s, t
<1>3. s \in Seq(Steps(STRING)) /\ t \in Seq(Steps(STRING))
  <2>1. s \in Seq(Plain(STRING)) /\ t \in Seq(Plain(STRING))
        /\ s \o t \in Seq(Steps(STRING))
    BY <1>1, <1>2, Zenon DEF s, t
  <2> QED
    BY <2>1, PartsOver
<1> QED
  BY <1>3, Zenon DEF Clean, s, t

LEMMA CleanRequest ==
    ASSUME NEW p \in Seq(STRING), <<Dot, Dot>> \notin ToSet(Segments(p))
    PROVE  Clean(Collapse(p))
<1>1. Segments(p) \in Seq(Plain(STRING))
  BY SegmentsArePlain
<1>2. Segments(p) \in Seq(Plain(STRING) \ {<<Dot, Dot>>})
  BY <1>1, WithoutOne
<1>3. Segments(p) \in Seq(Steps(STRING))
  BY <1>2 DEF Steps
<1>4. <<>> \in Steps(STRING)
  BY EmptyIsStep
<1> QED
  BY <1>3, <1>4, CollapseSteps DEF Clean

(* What is below a path, and the slash in front of it.                      *)
LEMMA RestOf ==
    ASSUME NEW l \in Seq(STRING), NEW p \in Seq(STRING), Under(l, p)
    PROVE  LET q == SubSeq(p, Len(l) + 2, Len(p))
           IN  /\ q \in Seq(STRING) /\ p = Down(l, q)
               /\ SubSeq(p, Len(l) + 1, Len(p)) = Root \o q
<1> DEFINE q == SubSeq(p, Len(l) + 2, Len(p))
<1>1. p = Down(l, q) /\ SubSeq(p, Len(l) + 1, Len(p)) = Root \o q
  BY SlashIsText, UnderIs
<1>2. q \in Seq(STRING)
  <2>1. Len(l) + 2 \in Int /\ Len(p) \in Int
        /\ \A i \in Len(l) + 2..Len(p) : i \in 1..Len(p)
    BY LenProperties
  <2>2. \A i \in Len(l) + 2..Len(p) : p[i] \in STRING
    BY <2>1, ElementOfSeq
  <2> QED
    BY <2>1, <2>2, SubSeqProperties
<1> QED
  BY <1>1, <1>2

(* Neither has the script, nor what is joined to the root.                  *)
LEMMA CleanScript ==
    ASSUME NEW path \in Seq(STRING), NEW script \in Seq(STRING), Clean(path),
           path = script \/ Under(script, path)
    PROVE  Clean(script)
<1>1. CASE path = script
  BY <1>1
<1>2. CASE Under(script, path)
  <2> DEFINE q == SubSeq(path, Len(script) + 2, Len(path))
  <2>1. q \in Seq(STRING) /\ path = Down(script, q)
    BY <1>2, RestOf
  <2> HIDE DEF q
  <2>2. Clean(Down(script, q))
    BY <2>1
  <2> QED
    BY <2>1, <2>2, CleanParts
<1> QED
  BY <1>1, <1>2

LEMMA SameRest ==
    ASSUME NEW e \in Seq(STRING), NEW q \in Seq(STRING), Root \o e = Root \o q
    PROVE  e = q
<1>1. Root \in Seq(STRING)
  BY SlashIsText, Singles DEF Root
<1> QED
  BY <1>1, ConcatSimplifications, Zenon

LEMMA CleanSuffix ==
    ASSUME NEW script \in Seq(STRING), NEW l \in Seq(STRING), NEW e \in Seq(STRING), Clean(script),
           script = l \/ l = Root \/ Under(l, script),
           StripLocationPrefix(script, l) = Root \o e
    PROVE  Clean(e)
<1>1. CASE l = Root
  <2>1. script = Root \o e
    BY <1>1, Zenon DEF StripLocationPrefix
  <2>2. <<>> \in Seq(STRING) /\ Root \o e \in Seq(STRING) /\ <<>> \o (Root \o e) = Root \o e
    <3>1. <<>> \in Seq(STRING) /\ Root \o e \in Seq(STRING)
      BY <2>1, EmptySeq
    <3> QED
      BY <3>1, ConcatEmptySeq
  <2>3. Down(<<>>, e) = <<>> \o (Root \o e)
    BY <2>2, SlashIsText, DownIs
  <2>4. Clean(Down(<<>>, e))
    BY <2>1, <2>2, <2>3
  <2> QED
    BY <2>2, <2>4, CleanParts
<1>2. CASE l # Root /\ script = l
  <2>1. Root \o e = Root /\ Root \o <<>> = Root
    <3>1. Root \in Seq(STRING)
      BY SlashIsText, Singles DEF Root
    <3> QED
      BY <1>2, <3>1, ConcatEmptySeq, Zenon DEF StripLocationPrefix
  <2>2. e = <<>>
    BY <2>1, EmptySeq, SameRest
  <2>3. Segments(<<>>) = <<<<>>>>
    BY SegmentsGrow
  <2>4. <<<<>>>> \in Seq(Steps(STRING))
    BY EmptyIsStep, Singles
  <2> QED
    BY <2>2, <2>3, <2>4 DEF Clean
<1>3. CASE l # Root /\ script # l
  <2> DEFINE q == SubSeq(script, Len(l) + 2, Len(script))
  <2>1. Under(l, script)
    BY <1>3
  <2>2. q \in Seq(STRING) /\ script = Down(l, q)
        /\ SubSeq(script, Len(l) + 1, Len(script)) = Root \o q
    BY <2>1, RestOf
  <2>3. StripLocationPrefix(script, l) = SubSeq(script, Len(l) + 1, Len(script))
    BY <1>3, Zenon DEF StripLocationPrefix
  <2> HIDE DEF q
  <2>5. e = q
    BY <2>2, <2>3, SameRest
  <2>6. Clean(Down(l, q))
    BY <2>2
  <2> QED
    BY <2>2, <2>5, <2>6, CleanParts
<1> QED
  BY <1>1, <1>2, <1>3

(* The comparison of texts lets through what is below a root that is not   *)
(* "/".                                                                    *)
LEMMA CleanIsInside ==
    ASSUME NEW loc, IsLocation(loc), ~loc.hasReturn,
           NEW script \in Seq(STRING), script # <<>>, Head(script) = Slash, Clean(script),
           IsPrefixMatch(script, loc.path),
           RealPath(loc.root) \notin {Absent, Root}
    PROVE  ResolvePath(script, loc) # Absent
<1> DEFINE l      == loc.path
           root   == loc.root
           suffix == StripLocationPrefix(script, l)
           p      == Absolute(JoinPath(root, suffix))
           file   == NormalizePath(p)
           d      == RealPath(root)
           A      == Names(Absolute(root))
<1>1. root \in Seq(STRING) /\ root # <<>> /\ l \in Seq(STRING) /\ l # <<>>
  BY Zenon DEF IsLocation
<1>2. /\ suffix \in Seq(STRING) /\ suffix # <<>> /\ Head(suffix) = Slash
      /\ script = l \/ l = Root \/ Under(l, script)
  BY <1>1, Stripped, MatchCovers
<1>3. ResolvePath(script, loc) = IF Inside(file, d) THEN file ELSE Absent
  BY Zenon DEF ResolvePath
<1>4. Cwd \in Seq(STRING)
  BY TreeAssumption, Zenon
<1>5. Absolute(root) \in Seq(STRING)
  BY <1>1, <1>4, SlashIsText, AbsoluteIs
<1>6. A \in Seq(Proper(STRING))
  BY <1>5, NamesOfPath
<1>7. A # <<>> /\ d = Text(A)
  <2>1. d = NormalizePath(Absolute(root)) /\ d # Root
    BY <1>1, RealRoot
  <2>2. NormalizePath(Absolute(root)) = IF A = <<>> THEN Root ELSE Text(A)
    BY <1>5, SlashIsText, NormalizeIs
  <2> HIDE DEF A, d
  <2> QED
    BY <2>1, <2>2
<1> HIDE DEF suffix, A
<1>8. PICK c, e : JoinedAbsolute(STRING, root, suffix, c, e)
  <2> HIDE DEF root
  <2> QED
    BY <1>1, <1>2, <1>4, SlashIsText, JoinAbsoluteIs
<1>9. /\ c \in Seq(STRING) /\ e \in Seq(STRING) /\ p = Down(c, e)
      /\ Names(c) = A /\ suffix = Root \o e
  BY <1>2, <1>8 DEF JoinedAbsolute, A
<1>10. Clean(e)
  <2> HIDE DEF l
  <2> QED
    BY <1>1, <1>2, <1>9, CleanSuffix DEF suffix
<1>11. Segments(c) \in Seq(Plain(STRING)) /\ NamesOf(Segments(c)) = A
  BY <1>9, SegmentsArePlain, NamesOfPath
<1>12. PICK u \in Seq(Proper(STRING)) : NamesOf(Segments(c) \o Segments(e)) = NamesOf(Segments(c)) \o u
  BY <1>10, <1>11, NamesGoOn DEF Clean
<1>13. p \in Seq(STRING) /\ Names(p) = A \o u
  <2>1. Down(c, e) \in Seq(STRING)
        /\ Names(Down(c, e)) = NamesOf(Segments(c) \o Segments(e))
    BY <1>9, SlashIsText, DownIs, NamesOfDown
  <2> QED
    BY <1>9, <1>11, <1>12, <2>1
<1>14. A \o u # <<>>
  <2>1. Len(A \o u) = Len(A) + Len(u) /\ Len(A) \in Nat \ {0} /\ Len(u) \in Nat
    BY <1>6, <1>7, ConcatProperties, LenProperties, EmptySeq
  <2> QED
    BY <2>1
<1> HIDE DEF p
<1>15. file = Text(A \o u) /\ file # <<>>
  BY <1>13, <1>14, SlashIsText, NormalizeIs
<1>16. Inside(file, d)
  BY <1>6, <1>7, <1>15, SlashIsText, TextInside
<1> QED
  BY <1>3, <1>15, <1>16 DEF Absent

(* A request that is given a file has a location.                           *)
LEMMA RouteHasLocation ==
    ASSUME NEW r, Routed(r).file # Absent
    PROVE  /\ Location(Routed(r)) \in Locations /\ IsLocation(Location(Routed(r)))
           /\ Routed(r).loc # 0
BY RouteIs, RoutedBest, Zenon

(* The lines of a text are texts.                                          *)
Reads(Y) == [lines : Seq(Seq(Y)), line : Seq(Y)]

ReadStep(s, ch) ==
    IF ch = LF /\ s.line # <<>> /\ Last(s.line) = CR
    THEN [lines |-> Append(s.lines, Front(s.line)), line |-> <<>>]
    ELSE [s EXCEPT !.line = Append(@, ch)]

LEMMA ReadStepReads ==
    ASSUME NEW Y, NEW s \in Reads(Y), NEW ch \in Y
    PROVE  ReadStep(s, ch) \in Reads(Y)
<1>1. s.lines \in Seq(Seq(Y)) /\ s.line \in Seq(Y)
  BY DEF Reads
<1>2. CASE ch = LF /\ s.line # <<>> /\ Last(s.line) = CR
  <2> DEFINE a == Append(s.lines, Front(s.line))
  <2>1. Front(s.line) \in Seq(Y) /\ <<>> \in Seq(Y)
    BY <1>1, <1>2, FrontAndLast, EmptySeq
  <2>2. a \in Seq(Seq(Y))
    BY <1>1, <2>1, AppendProperties
  <2>3. ReadStep(s, ch) = [lines |-> a, line |-> <<>>]
    BY <1>2, Zenon DEF ReadStep
  <2> HIDE DEF a
  <2> QED
    BY <2>1, <2>2, <2>3 DEF Reads
<1>3. CASE ~(ch = LF /\ s.line # <<>> /\ Last(s.line) = CR)
  <2> DEFINE b == Append(s.line, ch)
  <2>1. b \in Seq(Y)
    BY <1>1, AppendProperties
  <2>2. ReadStep(s, ch) = [s EXCEPT !.line = b]
    BY <1>3, Zenon DEF ReadStep
  <2> HIDE DEF b
  <2> QED
    BY <2>1, <2>2 DEF Reads
<1> QED
  BY <1>2, <1>3

LEMMA LinesAreTexts ==
    ASSUME NEW Y, NEW text \in Seq(Y)
    PROVE  Lines(text) \in Seq(Seq(Y)) /\ Lines(text) # <<>>
<1> DEFINE X    == Reads(Y)
           base == [lines |-> <<>>, line |-> <<>>]
           op   == [p \in X \X Y |-> ReadStep(p[1], p[2])]
           Rec(it) == it = [s \in SUBSET DOMAIN text |->
                               IF s = {} THEN base ELSE ReadStep(it[s \ {Max(s)}], text[Max(s)])]
           C    == CHOOSE it : Rec(it)
           read == C[DOMAIN text]
<1>1. Lines(text) = Append(read.lines, read.line)
  BY Zenon DEF Lines, FoldLeft, MapThenFoldSet, ReadStep
<1>2. base \in X /\ op \in [X \X Y -> X]
      /\ \A x \in X, y \in Y : op[<<x, y>>] = ReadStep(x, y)
  <2>1. \A x \in X, y \in Y : ReadStep(x, y) \in X
    BY ReadStepReads
  <2>2. base \in X
    <3>1. <<>> \in Seq(Y) /\ <<>> \in Seq(Seq(Y))
      BY EmptySeq
    <3> QED
      BY <3>1 DEF Reads
  <2> QED
    BY <2>1, <2>2
<1> HIDE DEF op, X, base
<1>3. \E it : Rec(it)
  <2>1. PICK it \in [SUBSET DOMAIN text -> X] : Folded(it, op, base, text)
    BY <1>2, FoldsExist
  <2>2. ASSUME NEW s \in SUBSET DOMAIN text, s # {}
        PROVE  op[<<it[s \ {Max(s)}], text[Max(s)]>>] = ReadStep(it[s \ {Max(s)}], text[Max(s)])
    <3>1. text[Max(s)] \in Y
      BY <2>2, PlaceOfMax
    <3>2. it[s \ {Max(s)}] \in X
      BY <2>1
    <3> QED
      BY <1>2, <3>1, <3>2
  <2>3. it = [s \in SUBSET DOMAIN text |->
                 IF s = {} THEN base ELSE ReadStep(it[s \ {Max(s)}], text[Max(s)])]
    BY <2>1, <2>2 DEF Folded
  <2> QED
    BY <2>3
<1>4. Rec(C)
  BY <1>3
<1> HIDE DEF C
<1>5. C[{}] = base
  BY <1>4
<1>6. \A k \in 1..Len(text) : C[1..k - 1] \in X => C[1..k] = op[<<C[1..k - 1], text[k]>>]
  <2> SUFFICES ASSUME NEW k \in 1..Len(text), C[1..k - 1] \in X
               PROVE  C[1..k] = op[<<C[1..k - 1], text[k]>>]
    OBVIOUS
  <2>1. /\ 1..k \in SUBSET DOMAIN text /\ Max(1..k) = k /\ (1..k) \ {k} = 1..k - 1
        /\ 1..k # {} /\ text[k] \in Y
    BY MaxOfSegment
  <2>2. C[1..k] = ReadStep(C[(1..k) \ {Max(1..k)}], text[Max(1..k)])
    BY <1>4, <2>1
  <2> QED
    BY <1>2, <2>1, <2>2
<1>7. read \in X
  <2>1. Goes(C, X, op, base, text)
    BY <1>5, <1>6 DEF Goes
  <2>2. LeadsTo(C, op, base, text)
    BY <1>2, <2>1, FoldRuns
  <2>3. Run(op, base, text) \in X
    BY <1>2, RunIn
  <2> QED
    BY <2>2, <2>3 DEF LeadsTo
<1> HIDE DEF read
<1>8. read.lines \in Seq(Seq(Y)) /\ read.line \in Seq(Y)
  BY <1>7 DEF X, Reads
<1> QED
  BY <1>1, <1>8, AppendParts

(* A filename has no slash: extractFilenameFromDisposition cuts it behind  *)
(* the last one.                                                           *)
LEMMA FilenameHasNoSlash ==
    ASSUME NEW Y, NEW line \in Seq(Y), line # <<>>
    PROVE  Filename(line) \in Seq(Y \ {Slash})
<1> DEFINE slashes == {1} \union {i \in DOMAIN line : line[i] = Slash}
           m       == Max(slashes)
           n       == Len(line)
<1>1. n \in Nat \ {0} /\ DOMAIN line = 1..n
  BY LenProperties, EmptySeq
<1>2. slashes \in SUBSET (0..n) /\ slashes \subseteq 1..n /\ 1 \in slashes
  BY <1>1
<1>3. m \in 1..n /\ \A i \in slashes : i <= m
  <2> HIDE DEF slashes, n
  <2>1. m \in slashes /\ \A i \in slashes : i <= m
    BY <1>1, <1>2, LargestNumber
  <2> QED
    BY <1>2, <2>1
<1>4. \A i \in 1..n : i > m => line[i] \in Y \ {Slash}
  <2> SUFFICES ASSUME NEW i \in 1..n, i > m PROVE line[i] \in Y \ {Slash}
    OBVIOUS
  <2>1. i \notin slashes
    <3> HIDE DEF slashes, n
    <3> QED
      BY <1>3
  <2>2. line[i] \in Y
    BY ElementOfSeq
  <2> QED
    BY <1>1, <2>1, <2>2
<1>5. Filename(line) = SubSeq(Tail(line), m, n - 1)
  BY Zenon DEF Filename
<1> HIDE DEF slashes, m, n
<1>6. Tail(line) \in Seq(Y) /\ Len(Tail(line)) = n - 1
      /\ \A i \in 1..n - 1 : Tail(line)[i] = line[i + 1]
  BY HeadTailProperties DEF n
<1>7. \A i \in m..n - 1 : Tail(line)[i] \in Y \ {Slash}
  <2> SUFFICES ASSUME NEW i \in m..n - 1 PROVE Tail(line)[i] \in Y \ {Slash}
    OBVIOUS
  <2>1. i \in 1..n - 1 /\ i + 1 \in 1..n /\ i + 1 > m
    BY <1>1, <1>3
  <2> QED
    BY <1>4, <1>6, <2>1
<1>8. m \in Int /\ n - 1 \in Int
  BY <1>1, <1>3
<1> DEFINE Z == Y \ {Slash}
           t == Tail(line)
           k == n - 1
<1>9. m \in Int /\ k \in Int /\ \A i \in m..k : t[i] \in Z
  BY <1>7, <1>8
<1> HIDE DEF Z, t, k
<1>10. SubSeq(t, m, k) \in Seq(Z)
  BY <1>9, SubSeqProperties
<1> QED
  BY <1>5, <1>10 DEF Z, t, k

LEMMA FilenameOfLines ==
    ASSUME NEW Y, NEW lines \in Seq(Seq(Y))
    PROVE  FilenameOf(lines) \in Seq(Y \ {Slash})
<1> DEFINE named == {i \in DOMAIN lines : ContentDisposition \in ToSet(lines[i])}
           n     == Len(lines)
<1>1. CASE named = {}
  <2>1. FilenameOf(lines) = <<>>
    BY <1>1, Zenon DEF FilenameOf
  <2> QED
    BY <2>1, EmptySeq
<1>2. CASE named # {}
  <2>1. FilenameOf(lines) = Filename(lines[Max(named)])
    BY <1>2, Zenon DEF FilenameOf
  <2>2. n \in Nat /\ named \subseteq 1..n /\ named \in SUBSET (0..n)
    BY LenProperties
  <2>3. \A i \in named : ContentDisposition \in ToSet(lines[i])
    OBVIOUS
  <2> HIDE DEF named, n
  <2>4. Max(named) \in named
    BY <1>2, <2>2, LargestNumber
  <2> DEFINE line == lines[Max(named)]
  <2>5. line \in Seq(Y)
    <3>1. Max(named) \in 1..n
      BY <2>2, <2>4
    <3> QED
      BY <3>1, ElementOfSeq DEF n
  <2>6. ToSet(line) # {}
    BY <2>3, <2>4
  <2> HIDE DEF line
  <2>7. line # <<>>
    BY <2>6 DEF ToSet
  <2> QED
    BY <2>1, <2>5, <2>7, FilenameHasNoSlash DEF line
<1> QED
  BY <1>1, <1>2

(* An extension is a part of its filename.                                  *)
LEMMA ExtensionIsPart ==
    ASSUME NEW Z, NEW filename \in Seq(Z)
    PROVE  GetExtensionFromFilename(filename) \in Seq(Z)
<1> DEFINE dots == {i \in DOMAIN filename : filename[i] = Dot}
           m    == Max(dots)
           n    == Len(filename)
           ext  == SubSeq(filename, m, n)
<1>1. CASE dots \subseteq {1} \/ ToSet(ext) \intersect Signs # {}
  <2>1. GetExtensionFromFilename(filename) = <<>>
    BY <1>1, Zenon DEF GetExtensionFromFilename
  <2> QED
    BY <2>1, EmptySeq
<1>2. CASE ~(dots \subseteq {1} \/ ToSet(ext) \intersect Signs # {})
  <2>1. GetExtensionFromFilename(filename) = ext
    BY <1>2, Zenon DEF GetExtensionFromFilename
  <2>2. n \in Nat /\ dots \in SUBSET (0..n) /\ dots \subseteq 1..n
    BY LenProperties
  <2>3. dots # {}
    BY <1>2
  <2>4. m \in 1..n
    <3> HIDE DEF dots, n
    <3> QED
      BY <2>2, <2>3, LargestNumber
  <2> HIDE DEF m, n
  <2>5. m \in Int /\ n \in Int /\ \A i \in m..n : i \in 1..n
    BY <2>2, <2>4
  <2>6. \A i \in m..n : filename[i] \in Z
    BY <2>5, ElementOfSeq DEF n
  <2>7. ext \in Seq(Z)
    BY <2>5, <2>6, SubSeqProperties
  <2> QED
    BY <2>1, <2>7
<1> QED
  BY <1>1, <1>2

NoSlash == Seq(STRING \ {Slash})

LEMMA NoSlashIs ==
    ASSUME NEW s \in Seq(STRING), \A i \in 1..Len(s) : s[i] # Slash
    PROVE  s \in NoSlash
<1>1. \A i \in 1..Len(s) : s[i] \in STRING \ {Slash}
  BY ElementOfSeq
<1> QED
  BY <1>1, OverPart DEF NoSlash

LEMMA WrittenExtensions ==
    ASSUME NEW r \in Posted
    PROVE  ExtensionFromContentType(r.type) \in NoSlash /\ Bin \in NoSlash
<1>1. \A i \in 1..Len(Bin) : Bin[i] # Slash
  BY DEF Bin, Dot, Slash
<1>2. Bin \in NoSlash
  BY <1>1, TextsAssumption, NoSlashIs
<1> DEFINE e == ExtensionFromContentType(r.type)
<1>3. e \in Seq(STRING)
  BY TextsAssumption, Zenon
<1>4. \/ e = <<Dot, "j", "p", "g">> \/ e = <<Dot, "p", "n", "g">> \/ e = <<Dot, "g", "i", "f">>
      \/ e = <<Dot, "t", "x", "t">> \/ e = <<Dot, "h", "t", "m", "l">> \/ e = <<Dot, "p", "d", "f">>
      \/ e = <<Dot, "j", "s", "o", "n">> \/ e = Bin
  BY DEF ExtensionFromContentType
<1> HIDE DEF e
<1>5. ASSUME NEW a, NEW b, NEW c, a # Slash, b # Slash, c # Slash, e = <<Dot, a, b, c>>
      PROVE  \A i \in 1..Len(e) : e[i] # Slash
  BY <1>5 DEF Dot, Slash
<1>6. ASSUME NEW a, NEW b, NEW c, NEW d, a # Slash, b # Slash, c # Slash, d # Slash, e = <<Dot, a, b, c, d>>
      PROVE  \A i \in 1..Len(e) : e[i] # Slash
  BY <1>6 DEF Dot, Slash
<1>7. \A i \in 1..Len(e) : e[i] # Slash
  <2>1. /\ "j" # Slash /\ "p" # Slash /\ "g" # Slash /\ "n" # Slash /\ "i" # Slash
        /\ "f" # Slash
        /\ "t" # Slash /\ "x" # Slash /\ "h" # Slash /\ "m" # Slash /\ "l" # Slash
        /\ "d" # Slash
        /\ "s" # Slash /\ "o" # Slash
    BY DEF Slash
  <2>2. e = Bin => \A i \in 1..Len(e) : e[i] # Slash
    BY <1>1, Zenon
  <2> QED
    BY <1>4, <1>5, <1>6, <2>1, <2>2, Zenon
<1>8. e \in NoSlash
  BY <1>3, <1>7, NoSlashIs
<1> QED
  BY <1>2, <1>8 DEF e

LEMMA ParsedFilename ==
    ASSUME NEW body \in Seq(STRING), NEW d, ParseMultipartFirstFile(body, d).valid
    PROVE  ParseMultipartFirstFile(body, d).filename \in NoSlash
<1> DEFINE start   == Start(body, d)
           end     == HeadersEnd(body, d)
           headers == SubSeq(body, start, end - 1)
           parsed  == ParseMultipartFirstFile(body, d)
<1>1. end # 0 /\ parsed.filename = FilenameOf(Lines(headers))
  BY Zenon DEF ParseMultipartFirstFile, Found, Start, HeadersEnd, ContentEnd, Invalid,
     EndDelimiter
<1>2. Len(body) \in Nat /\ start \in Nat \ {0}
  BY LenProperties, StartsInside
<1>3. Len(CRLF \o CRLF) = 4
  <2> DEFINE T == {CR, LF, d}
  <2>1. CR \in T /\ LF \in T /\ d \in T
    OBVIOUS
  <2> HIDE DEF T
  <2> QED
    BY <2>1, Parts
<1>4. end \in start..Len(body) - 4 + 1
  <2>1. Len(CRLF \o CRLF) \in Nat /\ FindFrom(body, CRLF \o CRLF, start) # 0
    BY <1>1, <1>3 DEF HeadersEnd
  <2> HIDE DEF start
  <2>2. FindFrom(body, CRLF \o CRLF, start) \in start..Len(body) - Len(CRLF \o CRLF) + 1
    BY <1>2, <2>1, FindIsFirst
  <2> QED
    BY <1>3, <2>2 DEF HeadersEnd, start
<1> HIDE DEF start, end, parsed
<1>5. start \in Int /\ end - 1 \in Int /\ \A i \in start..end - 1 : i \in 1..Len(body)
  BY <1>2, <1>4
<1>6. \A i \in start..end - 1 : body[i] \in STRING
  BY <1>5, ElementOfSeq
<1>7. headers \in Seq(STRING)
  BY <1>5, <1>6, SubSeqProperties
<1> HIDE DEF headers
<1>8. Lines(headers) \in Seq(Seq(STRING))
  BY <1>7, LinesAreTexts
<1> QED
  BY <1>1, <1>8, FilenameOfLines DEF parsed, NoSlash

(* The extension of an upload has no slash, wherever it comes from.        *)
LEMMA ReceivedExtension ==
    ASSUME NEW r \in Posted
    PROVE  Received(r.type, r.delimiter, r.body).ext \in NoSlash
<1> DEFINE parsed == ParseMultipartFirstFile(r.body, r.delimiter)
           part   == IF Readable(r.type, r.delimiter) THEN parsed ELSE Invalid
           ext    == GetExtensionFromFilename(part.filename)
           got    == Received(r.type, r.delimiter, r.body).ext
<1>1. got = ExtensionFromContentType(r.type) \/ got = Bin \/ (part.valid /\ got = ext)
  BY Zenon DEF Received
<1>2. part.valid => ext \in NoSlash
  <2> SUFFICES ASSUME part.valid PROVE ext \in NoSlash
    OBVIOUS
  <2>1. part = parsed /\ parsed.valid
    <3>1. ~Invalid.valid
      BY Zenon DEF Invalid
    <3> QED
      BY <3>1, Zenon
  <2>2. r.body \in Seq(STRING)
    BY RequestsAssumption, Zenon
  <2>3. part.filename \in NoSlash
    BY <2>1, <2>2, ParsedFilename
  <2> HIDE DEF part
  <2> QED
    BY <2>3, ExtensionIsPart DEF NoSlash
<1> HIDE DEF got, ext, part
<1> QED
  BY <1>1, <1>2, WrittenExtensions, Zenon DEF got

(* The file of an upload is a new name straight below its store.           *)
LEMMA UploadName ==
    ASSUME NEW n \in 1..Len(UploadNames), NEW ext \in NoSlash
    PROVE  /\ UploadNames[n] \o ext \in Proper(STRING)
           /\ UploadNames[n] \o ext \in Seq(STRING) /\ UploadNames[n] \o ext # <<>>
<1> DEFINE u    == UploadNames[n]
           name == u \o ext
<1>1. u \in Seq(STRING) /\ Slash \notin ToSet(u) /\ u # <<>> /\ Head(u) # Dot
  BY NamesAssumption, Zenon
<1> HIDE DEF u
<1>2. u \in NoSlash /\ ext \in Seq(STRING)
  <2>1. u \in NoSlash
    BY <1>1, WithoutOne DEF NoSlash
  <2>2. STRING \ {Slash} \subseteq STRING
    OBVIOUS
  <2> QED
    BY <2>1, <2>2, SeqMonotonic DEF NoSlash
<1>3. name \in NoSlash
  BY <1>2, ConcatProperties DEF NoSlash
<1>4. name \in Seq(STRING) /\ name # <<>> /\ Head(name) = Head(u)
  BY <1>1, <1>2, HeadOfConcat
<1> HIDE DEF name
<1>5. name # <<Dot>> /\ name # <<Dot, Dot>>
  <2>1. Head(<<Dot>>) = Dot /\ Head(<<Dot, Dot>>) = Dot
    OBVIOUS
  <2> QED
    BY <1>1, <1>4, <2>1, Zenon
<1>6. name \in Proper(STRING)
  BY <1>3, <1>4, <1>5 DEF NoSlash, Proper, Plain
<1> QED
  BY <1>4, <1>6 DEF name, u

(* It has the names of the store in front, and leads there.                 *)
LEMMA StoredIs ==
    ASSUME NEW n \in 1..Len(UploadNames), NEW ext \in NoSlash,
           NEW store \in Seq(STRING), store # <<>>
    PROVE  LET file == StoredAt(store, n, ext)
               dir  == NormalizePath(Absolute(store))
           IN  /\ file \in Seq(STRING) /\ NormalizePath(file) = file /\ file # <<>>
               /\ Front(Names(file)) = Names(Absolute(store))
               /\ dir \in Dirs => Leads(file)
<1> DEFINE name == UploadNames[n] \o ext
           p    == Absolute(JoinPath(store, name))
           q    == Absolute(store)
           A    == Names(q)
           file == NormalizePath(p)
           dir  == NormalizePath(q)
<1>1. name \in Proper(STRING)
  BY UploadName
<1>2. Cwd \in Seq(STRING)
  BY TreeAssumption, Zenon
<1>3. StoredAt(store, n, ext) = file
  BY Zenon DEF StoredAt
<1> HIDE DEF name
<1>4. p \in Seq(STRING) /\ Names(p) = Append(A, name)
  BY <1>1, <1>2, SlashIsText, NamesOfJoined
<1>5. q \in Seq(STRING)
  BY <1>2, SlashIsText, AbsoluteIs
<1> HIDE DEF p, q
<1>6. A \in Seq(Proper(STRING))
  BY <1>5, NamesOfPath
<1>7. Append(A, name) # <<>> /\ Front(Append(A, name)) = A
  <2> HIDE DEF A
  <2> QED
    BY <1>1, <1>6, AppendParts
<1>8. /\ file = Text(Append(A, name)) /\ file \in Seq(STRING) /\ file # <<>>
      /\ Names(file) = Append(A, name) /\ NormalizePath(file) = file
  <2>1. NormalizePath(p) = IF Names(p) = <<>> THEN Root ELSE Text(Names(p))
    BY <1>4, SlashIsText, NormalizeIs
  <2>2. /\ NormalizePath(p) \in Seq(STRING) /\ NormalizePath(p) # <<>>
        /\ Names(NormalizePath(p)) = Names(p)
        /\ NormalizePath(NormalizePath(p)) = NormalizePath(p)
    BY <1>4, SlashIsText, NormalizeIs
  <2> QED
    BY <1>4, <1>7, <2>1, <2>2
<1>9. dir \in Dirs => Leads(file)
  <2> SUFFICES ASSUME dir \in Dirs PROVE Leads(file)
    OBVIOUS
  <2>1. dir \in Seq(STRING) /\ NormalizePath(dir) = dir /\ Leads(dir)
    BY TreeAssumption, Zenon DEF IsPlace
  <2>2. Names(dir) = A
    BY <1>5, SlashIsText, NormalizeIs
  <2> HIDE DEF dir
  <2>3. Leads(Text(Append(Names(dir), name)))
    BY <1>1, <2>1, SlashIsText, LeadsBelow
  <2> QED
    BY <1>8, <2>2, <2>3
<1> HIDE DEF file, dir
<1>10. Front(Names(file)) = A
  BY <1>7, <1>8
<1> QED
  BY <1>3, <1>8, <1>9, <1>10, Zenon DEF A, file, dir, q

(* What a root and a store have in common is the beginning of the store.   *)
LEMMA CommonBeginning ==
    ASSUME NEW root \in Seq(STRING), NEW store \in Seq(STRING)
    PROVE  Len(LongestCommonPrefix({root, store})) \in 0..Len(store)
<1> DEFINE S == CommonPrefixes({root, store})
           lengths == {Len(p) : p \in S}
           n == Len(store)
<1>1. n \in Nat
  BY LenProperties
<1>2. \A p \in S : p \in Seq(STRING) /\ Len(p) \in 0..n
  <2> SUFFICES ASSUME NEW p \in S PROVE p \in Seq(STRING) /\ Len(p) \in 0..n
    OBVIOUS
  <2>1. PICK s \in {root, store} : p \in Prefixes(s)
    BY Zenon DEF CommonPrefixes
  <2>2. IsPrefix(p, store)
    BY Zenon DEF CommonPrefixes
  <2>3. PICK k \in 0..Len(s) : p = SubSeq(s, 1, k)
    BY <2>1 DEF Prefixes
  <2>4. p \in Seq(STRING)
    <3>1. s \in Seq(STRING) /\ 1 \in Int /\ k \in Int /\ \A i \in 1..k : i \in 1..Len(s)
      <4>1. s \in Seq(STRING)
        OBVIOUS
      <4>2. Len(s) \in Nat
        BY <4>1, LenProperties
      <4> QED
        BY <4>1, <4>2
    <3>2. \A i \in 1..k : s[i] \in STRING
      BY <3>1, ElementOfSeq
    <3> QED
      BY <2>3, <3>1, <3>2, SubSeqProperties
  <2>5. Starts(p, store)
    BY <2>2, <2>4, PrefixByPlace
  <2>6. Len(p) \in Nat
    BY <2>4, LenProperties
  <2> QED
    BY <1>1, <2>4, <2>5, <2>6 DEF Starts
<1>3. <<>> \in S
  <2>1. <<>> \in Prefixes(root)
    <3>1. SubSeq(root, 1, 0) = <<>> /\ 0 \in 0..Len(root)
      BY SubSeqEmpty, LenProperties
    <3> QED
      BY <3>1 DEF Prefixes
  <2>2. IsPrefix(<<>>, root) /\ IsPrefix(<<>>, store)
    BY PrefixOfItself
  <2>3. root \in {root, store} /\ \A t \in {root, store} : IsPrefix(<<>>, t)
    BY <2>2
  <2> QED
    BY <2>1, <2>3 DEF CommonPrefixes
<1> HIDE DEF S, n
<1>4. lengths \in SUBSET (0..n) /\ lengths # {}
  BY <1>2, <1>3
<1>5. Max(lengths) \in lengths /\ \A x \in lengths : x <= Max(lengths)
  <2> HIDE DEF lengths
  <2> QED
    BY <1>1, <1>4, LargestNumber
<1>6. PICK p \in S : Len(p) = Max(lengths)
  BY <1>5
<1>7. \A q \in S : Len(q) <= Len(p)
  BY <1>5, <1>6
<1>8. LongestCommonPrefix({root, store}) \in S
  BY <1>7 DEF LongestCommonPrefix, S
<1> QED
  BY <1>2, <1>8 DEF n

(* The address of a store starts with a slash.                              *)
LEMMA AddressIs ==
    ASSUME NEW root \in Seq(STRING), NEW store \in Seq(STRING)
    PROVE  LET uri == DeriveUriFromStore(root, store)
           IN  uri \in Seq(STRING) /\ uri # <<>> /\ Head(uri) = Slash
<1> DEFINE common == LongestCommonPrefix({root, store})
           rest   == SubSeq(store, Len(common) + 1, Len(store))
           uri    == DeriveUriFromStore(root, store)
<1>1. rest \in Seq(STRING)
  <2>1. Len(common) \in 0..Len(store) /\ Len(store) \in Nat
    BY CommonBeginning, LenProperties
  <2> DEFINE m == Len(common) + 1
             n == Len(store)
  <2>2. m \in Int /\ n \in Int /\ \A i \in m..n : i \in 1..Len(store)
    BY <2>1
  <2>3. \A i \in m..n : store[i] \in STRING
    BY <2>2, ElementOfSeq
  <2> HIDE DEF m, n
  <2>4. SubSeq(store, m, n) \in Seq(STRING)
    BY <2>2, <2>3, SubSeqProperties
  <2> QED
    BY <2>4 DEF m, n
<1>2. \/ uri = Root \o rest
      \/ uri = rest /\ rest # <<>> /\ Head(rest) = Slash
  BY Zenon DEF DeriveUriFromStore
<1>3. Root \in Seq(STRING) /\ Root # <<>> /\ Head(Root) = Slash
  <2>1. Root \in Seq(STRING) /\ Root # <<>>
    BY SlashIsText, Singles DEF Root
  <2>2. Head(Root) = Slash
    BY DEF Root
  <2> QED
    BY <2>1, <2>2
<1> HIDE DEF rest, uri
<1>4. Root \o rest \in Seq(STRING) /\ Root \o rest # <<>> /\ Head(Root \o rest) = Slash
  BY <1>1, <1>3, HeadOfConcat
<1>5. uri \in Seq(STRING) /\ uri # <<>> /\ Head(uri) = Slash
  BY <1>1, <1>2, <1>4
<1> QED
  BY <1>5 DEF uri

(* The address of an upload has at least a slash.                           *)
LEMMA LinkIsNotEmpty ==
    ASSUME NEW root \in Seq(STRING), NEW store \in Seq(STRING), NEW name \in Seq(STRING)
    PROVE  DeriveUriFromStore(root, store) \o Root \o name # Absent
<1> DEFINE uri == DeriveUriFromStore(root, store)
<1>1. uri \in Seq(STRING)
  BY AddressIs
<1> HIDE DEF uri
<1>2. Down(uri, name) \in Seq(STRING) /\ Len(Down(uri, name)) = Len(uri) + 1 + Len(name)
  BY <1>1, SlashIsText, DownIs
<1>3. Len(uri) \in Nat /\ Len(name) \in Nat
  BY <1>1, LenProperties
<1>4. Down(uri, name) # <<>>
  BY <1>2, <1>3
<1> QED
  BY <1>4 DEF Down, uri, Absent

-----------------------------------------------------------------------------
(* The invariant: every file, there or removed, was there at the start or  *)
(* has one of the names that were given out, so that the next name stands  *)
(* for none of them.                                                       *)
Counted == counter \in 0..Len(UploadNames) /\ (last = NoRequest => counter = 0)
Origin(f, count) == f \in DOMAIN FirstFiles \/ \E n \in 1..count : f \in Targets(n)
Origins == \A f \in DOMAIN files \union removed : Origin(f, counter)

FInv == Counted /\ Origins /\ RemovedStayGone /\ UploadsKept

LEMMA InitiallyF == Init => FInv
<1> SUFFICES ASSUME Init PROVE FInv
  OBVIOUS
<1>1. Counted
  BY NamesAssumption DEF Init, Counted
<1>2. Origins /\ RemovedStayGone /\ UploadsKept
  BY Zenon DEF Init, Origins, Origin, RemovedStayGone, UploadsKept
<1> QED
  BY <1>1, <1>2, Zenon DEF FInv

AnswerIs(r, route, file, status) ==
    \/ Answered(r, route, file, status)
    \/ Failed(r, route, file, status)
    \/ FailedAmong(DOMAIN files', r, route, file, status)

LEMMA ARequestIsNotNone ==
    ASSUME NEW r, NEW route, NEW file, NEW status, AnswerIs(r, route, file, status)
    PROVE  last' # NoRequest
<1>1. PICK page : last' = [req |-> r, route |-> route, file |-> file, status |-> status, page |-> page]
  BY Zenon DEF AnswerIs, Answered, Failed, FailedAmong
<1>2. "req" \in DOMAIN last'
  BY <1>1
<1>3. "req" \notin DOMAIN NoRequest
  BY DEF NoRequest
<1> QED
  BY <1>2, <1>3, Zenon

(* A request is answered by one of the handlers, and all of them but two   *)
(* leave the files alone.                                                  *)
Leaves == UNCHANGED <<files, counter, uploads, removed>> /\ last' # NoRequest

LEMMA HandlersLeave ==
    ASSUME NEW r, NEW route,
           \/ Unresolved(r, route) \/ RunCgi(r, route) \/ Redirect(r, route)
           \/ Refuse(r, route) \/ Get(r, route) \/ RefuseUpload(r, route)
    PROVE  Leaves
<1>1. CASE Unresolved(r, route)
  <2>1. \E status : AnswerIs(r, route, Absent, status)
    BY <1>1, Zenon DEF Unresolved, AnswerIs
  <2> QED
    BY <1>1, <2>1, ARequestIsNotNone, Zenon DEF Unresolved, Unchanged, Leaves
<1>2. CASE RunCgi(r, route)
  <2>1. \E status : AnswerIs(r, route, route.file, status)
    BY <1>2, Zenon DEF RunCgi, Launch, AnswerIs
  <2> QED
    BY <1>2, <2>1, ARequestIsNotNone, Zenon DEF RunCgi, Unchanged, Leaves
<1>3. CASE Redirect(r, route)
  <2>1. AnswerIs(r, route, Absent, Location(route).code)
    BY <1>3, Zenon DEF Redirect, AnswerIs
  <2> QED
    BY <1>3, <2>1, ARequestIsNotNone, Zenon DEF Redirect, Unchanged, Leaves
<1>4. CASE Refuse(r, route)
  <2>1. AnswerIs(r, route, Absent, CheckMethod(r, route))
    BY <1>4, Zenon DEF Refuse, AnswerIs
  <2> QED
    BY <1>4, <2>1, ARequestIsNotNone, Zenon DEF Refuse, Unchanged, Leaves
<1>5. CASE Get(r, route)
  <2>1. ASSUME NEW file, ServeFile(r, route, file)
        PROVE  \E status : AnswerIs(r, route, file, status)
    BY <2>1, Zenon DEF ServeFile, AnswerIs
  <2>2. ASSUME NEW dir, ServeDirectory(r, route, dir)
        PROVE  \E file, status : AnswerIs(r, route, file, status)
    BY <2>1, <2>2, Zenon DEF ServeDirectory, AnswerIs
  <2>3. \E file, status : AnswerIs(r, route, file, status)
    BY <1>5, <2>1, <2>2, Zenon DEF Get, AnswerIs
  <2> QED
    BY <1>5, <2>3, ARequestIsNotNone, Zenon DEF Get, Unchanged, Leaves
<1>6. CASE RefuseUpload(r, route)
  <2>1. AnswerIs(r, route, Absent, CheckUpload(r, route))
    BY <1>6, Zenon DEF RefuseUpload, AnswerIs
  <2> QED
    BY <1>6, <2>1, ARequestIsNotNone, Zenon DEF RefuseUpload, Unchanged, Leaves
<1> QED
  BY <1>1, <1>2, <1>3, <1>4, <1>5, <1>6, Zenon

LEMMA LeavesKeepsF ==
    ASSUME FInv, Leaves
    PROVE  FInv'
BY Zenon DEF FInv, Leaves, Counted, Origins, Origin, RemovedStayGone, UploadsKept

LEMMA StutterKeepsF ==
    ASSUME FInv, UNCHANGED vars
    PROVE  FInv'
BY Zenon DEF FInv, vars, Counted, Origins, Origin, RemovedStayGone, UploadsKept

(* A removed file leaves the files, and the uploads with it.               *)
LEMMA DeleteKeepsF ==
    ASSUME FInv, NEW r, NEW route, Delete(r, route)
    PROVE  FInv'
<1> DEFINE file == route.file
<1>1. last' # NoRequest /\ counter' = counter
  <2>1. \E status : AnswerIs(r, route, file, status)
    BY Zenon DEF Delete, AnswerIs
  <2> QED
    BY <2>1, ARequestIsNotNone, Zenon DEF Delete
<1>2. CASE UNCHANGED <<files, uploads, removed>>
  BY <1>1, <1>2, LeavesKeepsF, Zenon DEF Leaves
<1>3. CASE /\ file \in DOMAIN files
           /\ files' = Without(file)
           /\ uploads' = {u \in uploads : u.file # file}
           /\ removed' = removed \union {file}
  <2>1. DOMAIN files' = DOMAIN files \ {file}
        /\ \A f \in DOMAIN files' : files'[f] = files[f]
    BY <1>3, Zenon DEF Without
  <2>2. Counted'
    BY <1>1, Zenon DEF FInv, Counted
  <2>3. Origins'
    <3>1. DOMAIN files' \union removed' \subseteq DOMAIN files \union removed
      BY <1>3, <2>1
    <3> QED
      BY <1>1, <3>1, Zenon DEF FInv, Origins, Origin
  <2>4. RemovedStayGone'
    BY <1>3, <2>1 DEF FInv, RemovedStayGone
  <2>5. UploadsKept'
    BY <1>3, <2>1, Zenon DEF FInv, UploadsKept
  <2> QED
    BY <2>2, <2>3, <2>4, <2>5, Zenon DEF FInv
<1> QED
  BY <1>2, <1>3, Zenon DEF Delete

(* The file of an upload has a name that nothing has had.                  *)
LEMMA NextNameIsNew ==
    ASSUME FInv, NEW r \in Posted, NEW store, NEW ext,
           \E loc \in Locations : store = loc.store, ext \in Extensions,
           counter < Len(UploadNames)
    PROVE  LET file == StoredAt(store, counter + 1, ext)
           IN  /\ file \notin DOMAIN files \union removed
               /\ file \in Targets(counter + 1)
<1> DEFINE file == StoredAt(store, counter + 1, ext)
<1>1. file \in Targets(counter + 1)
  <2>1. PICK loc \in Locations : store = loc.store
    OBVIOUS
  <2> DEFINE n == counter + 1
  <2> HIDE DEF n
  <2>2. StoredAt(loc.store, n, ext) \in Targets(n)
    BY DEF Targets
  <2> QED
    BY <2>1, <2>2, Zenon DEF n
<1>2. counter \in Nat /\ Len(UploadNames) \in Nat /\ counter + 1 \in 1..Len(UploadNames)
      /\ (counter + 1) - 1 = counter
  BY NamesAssumption DEF FInv, Counted
<1>3. /\ Targets(counter + 1) \intersect (Dirs \union DOMAIN FirstFiles) = {}
      /\ \A m \in 1..counter : Targets(m) \intersect Targets(counter + 1) = {}
  BY <1>2, NamesAssumption, Zenon
<1> HIDE DEF file
<1>4. ~Origin(file, counter)
  <2>1. file \notin DOMAIN FirstFiles
    BY <1>1, <1>3
  <2>2. \A m \in 1..counter : file \notin Targets(m)
    BY <1>1, <1>3
  <2> QED
    BY <2>1, <2>2, Zenon DEF Origin
<1>5. file \notin DOMAIN files \union removed
  BY <1>4, Zenon DEF FInv, Origins
<1> QED
  BY <1>1, <1>5, Zenon DEF file

(* What writing a file changes.                                            *)
OneMore(new, map, key, value) ==
    /\ DOMAIN new = DOMAIN map \union {key}
    /\ new[key] = value
    /\ \A k \in DOMAIN map \ {key} : new[k] = map[k]

LEMMA WithOneMore ==
    ASSUME NEW map, NEW key, NEW value
    PROVE  OneMore(With(map, key, value), map, key, value)
BY DEF With, OneMore

(* An upload writes a new file, or none: all of it, or its beginning.      *)
Written(file, content, r) ==
    \/ UNCHANGED <<files, uploads>>
    \/ \E part : files' = With(files, file, part) /\ UNCHANGED uploads
    \/ /\ files' = With(files, file, content)
       /\ \E u : /\ u.file = file /\ u.sent = r.sent
                 /\ uploads' = uploads \union {u}

LEMMA UploadWrites ==
    ASSUME NEW r, NEW route, Upload(r, route)
    PROVE  LET received == Received(r.type, r.delimiter, r.body)
           IN  /\ Written(StoredAt(Location(route).store, counter + 1, received.ext),
                          received.content, r)
               /\ last' # NoRequest /\ counter' = counter + 1 /\ UNCHANGED removed
<1> DEFINE received == Received(r.type, r.delimiter, r.body)
           file     == StoredAt(Location(route).store, counter + 1, received.ext)
<1>1. Store(r, route, received) /\ counter' = counter + 1 /\ UNCHANGED removed
  BY Zenon DEF Upload, NextCounter
<1>2. \E status : AnswerIs(r, route, file, status)
  BY <1>1, Zenon DEF Store, AnswerIs
<1>3. last' # NoRequest
  BY <1>2, ARequestIsNotNone, Zenon
<1>4. Written(file, received.content, r)
  <2>1. \A link : LET u == [file |-> file, sent |-> r.sent, host |-> r.host, link |-> link]
                  IN  u.file = file /\ u.sent = r.sent
    OBVIOUS
  <2> QED
    BY <1>1, <2>1, Zenon DEF Store, Written
<1> QED
  BY <1>1, <1>3, <1>4, Zenon

(* There is a name for every upload that is explored.                       *)
LEMMA UploadIsCounted ==
    ASSUME FInv, NEW r \in Explored, Upload(r, Routed(r))
    PROVE  /\ r \in Posted /\ counter < Len(UploadNames)
           /\ counter + 1 \in 1..Len(UploadNames)
<1>1. r.method = "POST" /\ counter \in Nat /\ Len(UploadNames) \in Nat
  <2>1. r.method = "POST"
    BY Zenon DEF Upload, Serves
  <2> QED
    BY <2>1, NamesAssumption DEF FInv, Counted
<1>2. r \in Posted /\ counter < Len(UploadNames)
  <2>1. CASE r \in Requests /\ counter < Len(UploadNames)
    BY <1>1, <2>1, Zenon DEF Posted
  <2>2. CASE r \in Probes /\ last = NoRequest
    <3>1. counter = 0 /\ Len(UploadNames) > 0
      BY <1>1, <2>2, NamesAssumption DEF FInv, Counted
    <3> QED
      BY <1>1, <2>2, <3>1 DEF Posted
  <2> QED
    BY <1>1, <2>1, <2>2, Zenon DEF Explored
<1> QED
  BY <1>1, <1>2

(* An upload takes a new name and writes nothing else.                      *)
LEMMA UploadKeepsF ==
    ASSUME FInv, NEW r \in Explored, Upload(r, Routed(r))
    PROVE  FInv'
<1> DEFINE received == Received(r.type, r.delimiter, r.body)
           loc      == Location(Routed(r))
           file     == StoredAt(loc.store, counter + 1, received.ext)
<1>1. ForHandler(Routed(r)) /\ counter \in Nat /\ Len(UploadNames) \in Nat
  <2>1. ForHandler(Routed(r))
    BY Zenon DEF Upload, Serves
  <2> QED
    BY <2>1, NamesAssumption DEF FInv, Counted
<1>2. r \in Posted /\ counter < Len(UploadNames)
  BY UploadIsCounted, Zenon
<1>3. /\ Written(file, received.content, r)
      /\ last' # NoRequest /\ counter' = counter + 1 /\ UNCHANGED removed
  BY UploadWrites, Zenon
<1>4. received.content = r.sent
  BY <1>2, ReceivedIsSent, Zenon
<1>5. file \notin DOMAIN files \union removed /\ file \in Targets(counter + 1)
  <2>1. loc \in Locations
    BY <1>1, RouteHasLocation, Zenon DEF ForHandler
  <2>2. received.ext \in Extensions
    BY <1>2, Zenon DEF Extensions
  <2> QED
    BY <1>2, <2>1, <2>2, NextNameIsNew, Zenon
<1> HIDE DEF file, received
<1>6. Counted'
  BY <1>1, <1>2, <1>3, NamesAssumption DEF FInv, Counted
<1>7. \A f : Origin(f, counter) => Origin(f, counter')
  BY <1>1, <1>3 DEF Origin
<1>8. Origin(file, counter')
  BY <1>1, <1>3, <1>5 DEF Origin
<1>9. DOMAIN files' \subseteq DOMAIN files \union {file}
      /\ \A f \in DOMAIN files : f \in DOMAIN files' /\ files'[f] = files[f]
  <2>1. CASE files' = files
    BY <2>1, Zenon
  <2>2. ASSUME NEW part, files' = With(files, file, part)
        PROVE  <1>9!1 /\ <1>9!2
    <3>1. OneMore(files', files, file, part)
      BY <2>2, WithOneMore, Zenon
    <3> QED
      BY <1>5, <3>1 DEF OneMore
  <2> QED
    BY <1>3, <2>1, <2>2, Zenon DEF Written
<1>10. Origins'
  <2>1. \A f \in DOMAIN files' \union removed' : f \in DOMAIN files \union removed \/ f = file
    BY <1>3, <1>9
  <2>2. \A f \in DOMAIN files' \union removed' : Origin(f, counter')
    BY <1>7, <1>8, <2>1, Zenon DEF FInv, Origins
  <2> QED
    BY <2>2, Zenon DEF Origins, Origin
<1>11. RemovedStayGone'
  BY <1>3, <1>5, <1>9 DEF FInv, RemovedStayGone
<1>12. UploadsKept'
  <2>1. \A u \in uploads : u.file \in DOMAIN files' /\ files'[u.file] = u.sent
    BY <1>9, Zenon DEF FInv, UploadsKept
  <2>2. CASE UNCHANGED uploads
    BY <2>1, <2>2, Zenon DEF UploadsKept
  <2>3. ASSUME files' = With(files, file, received.content),
               NEW new, new.file = file, new.sent = r.sent, uploads' = uploads \union {new}
        PROVE  UploadsKept'
    <3>1. file \in DOMAIN files' /\ files'[file] = r.sent
      <4>1. OneMore(files', files, file, received.content)
        BY <2>3, WithOneMore, Zenon
      <4> QED
        BY <1>4, <4>1 DEF OneMore
    <3>2. \A u \in uploads' : u \in uploads \/ (u.file = file /\ u.sent = r.sent)
      <4>1. \A u \in uploads' : u \in uploads \/ u = new
        BY <2>3
      <4> QED
        BY <2>3, <4>1, Zenon
    <3> QED
      BY <2>1, <3>1, <3>2, Zenon DEF UploadsKept
  <2> QED
    BY <1>3, <2>2, <2>3, Zenon DEF Written
<1> QED
  BY <1>6, <1>10, <1>11, <1>12, Zenon DEF FInv

LEMMA StepKeepsF ==
    ASSUME FInv, [Next]_vars
    PROVE  FInv'
<1>1. CASE Next
  <2>1. PICK r \in Explored :
            \/ Unresolved(r, Routed(r)) \/ RunCgi(r, Routed(r)) \/ Redirect(r, Routed(r))
            \/ Refuse(r, Routed(r)) \/ Get(r, Routed(r)) \/ RefuseUpload(r, Routed(r))
            \/ Delete(r, Routed(r)) \/ Upload(r, Routed(r))
    BY <1>1, Zenon DEF Next
  <2>2. CASE Delete(r, Routed(r))
    BY <2>2, DeleteKeepsF, Zenon
  <2>3. CASE Upload(r, Routed(r))
    BY <2>3, UploadKeepsF, Zenon
  <2>4. CASE Leaves
    BY <2>4, LeavesKeepsF, Zenon
  <2> QED
    BY <2>1, <2>2, <2>3, <2>4, HandlersLeave, Zenon
<1>2. CASE UNCHANGED vars
  BY <1>2, StutterKeepsF, Zenon
<1> QED
  BY <1>1, <1>2

-----------------------------------------------------------------------------
(* What an answer is about: the file of the route, the index of that       *)
(* directory, the file of an upload, or none.                              *)
AboutRoute(r, route, file) ==
    /\ file = route.file /\ route.file # Absent
    /\ r.method = "POST" => ForCgi(route)
AboutIndex(r, route, file) ==
    /\ r.method = "GET" /\ route.file # Absent /\ ~Location(route).hasReturn
    /\ file \in DOMAIN files
    /\ file = JoinPath(route.file, Head(Location(route).index))
AboutUpload(r, route, file, status) ==
    /\ status \in {201, 500}
    /\ ForHandler(route) /\ CheckUpload(r, route) = 0 /\ r.method = "POST"
    /\ \E ext \in NoSlash, n \in 1..Len(UploadNames) :
          file = StoredAt(Location(route).store, n, ext)
AboutFile(r, route, file, status) ==
    \/ file = Absent
    \/ AboutRoute(r, route, file)
    \/ AboutIndex(r, route, file)
    \/ AboutUpload(r, route, file, status)

Statuses == {Running} \union 100..599

FitStatus(route, file, status) ==
    /\ status \in Statuses
    /\ status = Running => file = route.file /\ route.file # Absent

Answers(r, route) ==
    \E file, status :
        AnswerIs(r, route, file, status) /\ AboutFile(r, route, file, status)
        /\ FitStatus(route, file, status)

LEMMA AnAnswer ==
    ASSUME NEW r, NEW route, NEW file, NEW status, AnswerIs(r, route, file, status),
           AboutFile(r, route, file, status), status \in 100..599
    PROVE  Answers(r, route)
<1>1. FitStatus(route, file, status)
  BY DEF FitStatus, Statuses, Running
<1> QED
  BY <1>1, Zenon DEF Answers

(* An upload that is accepted has a store that is a directory.              *)
LEMMA UploadChecked ==
    ASSUME NEW r, NEW route, CheckUpload(r, route) = 0
    PROVE  /\ Location(route).upload /\ Location(route).store # Absent
           /\ NormalizePath(Absolute(Location(route).store)) \in Dirs
<1>1. 413 # 0 /\ 405 # 0 /\ 500 # 0
  OBVIOUS
<1> QED
  BY <1>1, Zenon DEF CheckUpload

(* Every handler answers with such a file and such a status.                *)
LEMMA HandlersAnswer ==
    ASSUME NEW r, NEW route, route = Routed(r),
           \/ Unresolved(r, route) \/ RunCgi(r, route) \/ Redirect(r, route)
           \/ Refuse(r, route) \/ Get(r, route) \/ RefuseUpload(r, route) \/ Delete(r, route)
    PROVE  Answers(r, route)
<1> DEFINE file == route.file
<1>1. \A status : AboutFile(r, route, Absent, status)
  BY Zenon DEF AboutFile
<1>2. CASE Unresolved(r, route)
  <2>1. PICK status \in {400, 500} : AnswerIs(r, route, Absent, status)
    BY <1>2, Zenon DEF Unresolved, AnswerIs
  <2>2. status \in 100..599
    OBVIOUS
  <2> QED
    BY <1>1, <2>1, <2>2, AnAnswer
<1>3. CASE RunCgi(r, route)
  <2>1. ForCgi(route) /\ file # Absent
    BY <1>3, Zenon DEF RunCgi, ForCgi
  <2>2. \A status : AboutFile(r, route, file, status)
    BY <2>1, Zenon DEF AboutFile, AboutRoute
  <2>3. Launch(r, route)
    BY <1>3, Zenon DEF RunCgi
  <2>4. \/ AnswerIs(r, route, file, 413) \/ AnswerIs(r, route, file, 404)
        \/ AnswerIs(r, route, file, Running) \/ AnswerIs(r, route, file, 500)
    BY <2>3, Zenon DEF Launch, AnswerIs
  <2>5. FitStatus(route, file, Running)
    BY <2>1 DEF FitStatus, Statuses
  <2> HIDE DEF file
  <2>6. CASE AnswerIs(r, route, file, Running)
    BY <2>2, <2>5, <2>6, Zenon DEF Answers
  <2>7. 413 \in 100..599 /\ 404 \in 100..599 /\ 500 \in 100..599
    OBVIOUS
  <2>8. ASSUME NEW status \in 100..599, AnswerIs(r, route, file, status) PROVE Answers(r, route)
    BY <2>2, <2>8, AnAnswer
  <2> QED
    BY <2>4, <2>6, <2>7, <2>8, Zenon
<1>4. CASE Redirect(r, route)
  <2>1. route.file # Absent /\ Location(route).hasReturn
    BY <1>4, Zenon DEF Redirect, ForHandler
  <2>2. Location(route).code \in 100..599
    BY <2>1, RouteHasLocation, Zenon DEF IsLocation
  <2>3. AnswerIs(r, route, Absent, Location(route).code)
    BY <1>4, Zenon DEF Redirect, AnswerIs
  <2> QED
    BY <1>1, <2>2, <2>3, AnAnswer
<1>5. CASE Refuse(r, route)
  <2>1. AnswerIs(r, route, Absent, CheckMethod(r, route)) /\ CheckMethod(r, route) # 0
    BY <1>5, Zenon DEF Refuse, AnswerIs
  <2>2. CheckMethod(r, route) \in 100..599
    BY <2>1 DEF CheckMethod
  <2> QED
    BY <1>1, <2>1, <2>2, AnAnswer
<1>6. CASE RefuseUpload(r, route)
  <2>1. AnswerIs(r, route, Absent, CheckUpload(r, route)) /\ CheckUpload(r, route) # 0
    BY <1>6, Zenon DEF RefuseUpload, AnswerIs
  <2>2. CheckUpload(r, route) \in 100..599
    BY <2>1 DEF CheckUpload
  <2> QED
    BY <1>1, <2>1, <2>2, AnAnswer
<1>7. ASSUME NEW f, ServeFile(r, route, f), \A status : AboutFile(r, route, f, status)
      PROVE  Answers(r, route)
  <2>1. PICK status \in {403, 200, 500} : AnswerIs(r, route, f, status)
    <3>1. \/ Failed(r, route, f, 403) \/ Answered(r, route, f, 200) \/ Failed(r, route, f, 500)
      BY <1>7, Zenon DEF ServeFile
    <3>2. AnswerIs(r, route, f, 403) \/ AnswerIs(r, route, f, 200) \/ AnswerIs(r, route, f, 500)
      BY <3>1, Zenon DEF AnswerIs
    <3> QED
      BY <3>2, Zenon
  <2>2. status \in 100..599
    OBVIOUS
  <2> QED
    BY <1>7, <2>1, <2>2, AnAnswer
<1>8. ASSUME r.method # "POST", file # Absent PROVE \A status : AboutFile(r, route, file, status)
  BY <1>8, Zenon DEF AboutFile, AboutRoute
<1>9. CASE Get(r, route)
  <2>1. r.method = "GET" /\ file # Absent /\ ~Location(route).hasReturn
    BY <1>9, Zenon DEF Get, Serves, ForHandler
  <2>2. \A status : AboutFile(r, route, file, status)
    <3>1. "GET" # "POST"
      OBVIOUS
    <3> QED
      BY <1>8, <2>1, <3>1, Zenon
  <2>3. ASSUME NEW f, f = JoinPath(file, Head(Location(route).index)), f \in DOMAIN files
        PROVE  \A status : AboutFile(r, route, f, status)
    BY <2>1, <2>3, Zenon DEF AboutFile, AboutIndex
  <2>4. \/ ServeFile(r, route, file)
        \/ \E f : /\ f = JoinPath(file, Head(Location(route).index)) /\ f \in DOMAIN files
                  /\ ServeFile(r, route, f)
        \/ AnswerIs(r, route, file, 403) \/ AnswerIs(r, route, file, 200)
        \/ AnswerIs(r, route, file, 404)
    BY <1>9, Zenon DEF Get, ServeDirectory, AnswerIs
  <2>5. 403 \in 100..599 /\ 200 \in 100..599 /\ 404 \in 100..599
    OBVIOUS
  <2> HIDE DEF file
  <2>6. ASSUME NEW status \in 100..599, AnswerIs(r, route, file, status) PROVE Answers(r, route)
    BY <2>2, <2>6, AnAnswer
  <2>7. ServeFile(r, route, file) => Answers(r, route)
    BY <1>7, <2>2, Zenon
  <2>8. ASSUME NEW f, f = JoinPath(file, Head(Location(route).index)), f \in DOMAIN files,
               ServeFile(r, route, f)
        PROVE  Answers(r, route)
    BY <1>7, <2>3, <2>8, Zenon
  <2> QED
    BY <2>4, <2>5, <2>6, <2>7, <2>8, Zenon
<1>10. CASE Delete(r, route)
  <2>1. r.method = "DELETE" /\ file # Absent
    BY <1>10, Zenon DEF Delete, Serves, ForHandler
  <2>2. \A status : AboutFile(r, route, file, status)
    <3>1. "DELETE" # "POST"
      OBVIOUS
    <3> QED
      BY <1>8, <2>1, <3>1, Zenon
  <2> DEFINE none == IF file \in DOMAIN files \union Dirs THEN 403 ELSE 404
  <2>3. none \in 100..599 /\ 500 \in 100..599 /\ 204 \in 100..599
    OBVIOUS
  <2>4. AnswerIs(r, route, file, none) \/ AnswerIs(r, route, file, 500) \/ AnswerIs(r, route, file, 204)
    BY <1>10, Zenon DEF Delete, AnswerIs
  <2> HIDE DEF file, none
  <2>5. ASSUME NEW status \in 100..599, AnswerIs(r, route, file, status) PROVE Answers(r, route)
    BY <2>2, <2>5, AnAnswer
  <2> QED
    BY <2>3, <2>4, <2>5, Zenon
<1> QED
  BY <1>2, <1>3, <1>4, <1>5, <1>6, <1>9, <1>10, Zenon

LEMMA UploadAnswers ==
    ASSUME FInv, NEW r \in Explored, Upload(r, Routed(r))
    PROVE  Answers(r, Routed(r))
<1> DEFINE route    == Routed(r)
           received == Received(r.type, r.delimiter, r.body)
           file     == StoredAt(Location(route).store, counter + 1, received.ext)
<1>1. r \in Posted /\ counter + 1 \in 1..Len(UploadNames)
  BY UploadIsCounted, Zenon
<1>2. received.ext \in NoSlash
  BY <1>1, ReceivedExtension, Zenon
<1>3. ForHandler(route) /\ CheckUpload(r, route) = 0 /\ r.method = "POST"
  BY Zenon DEF Upload, Serves
<1>4. PICK status \in {201, 500} : AnswerIs(r, route, file, status)
  BY Zenon DEF Upload, Store, AnswerIs
<1>5. AboutFile(r, route, file, status)
  <2> DEFINE n   == counter + 1
             ext == received.ext
  <2>1. n \in 1..Len(UploadNames) /\ ext \in NoSlash
        /\ file = StoredAt(Location(route).store, n, ext)
    BY <1>1, <1>2, Zenon
  <2> HIDE DEF n, ext, file, route
  <2>2. AboutUpload(r, route, file, status)
    BY <1>3, <1>4, <2>1, Zenon DEF AboutUpload
  <2> QED
    BY <2>2, Zenon DEF AboutFile
<1>6. status \in 100..599
  OBVIOUS
<1> HIDE DEF route, file
<1> QED
  BY <1>4, <1>5, <1>6, AnAnswer DEF route

(* So does every step.                                                      *)
LEMMA EveryAnswer ==
    ASSUME FInv, Next
    PROVE  \E r \in Requests \union Probes : Answers(r, Routed(r))
<1>1. PICK r \in Explored :
          \/ Unresolved(r, Routed(r)) \/ RunCgi(r, Routed(r)) \/ Redirect(r, Routed(r))
          \/ Refuse(r, Routed(r)) \/ Get(r, Routed(r)) \/ RefuseUpload(r, Routed(r))
          \/ Delete(r, Routed(r)) \/ Upload(r, Routed(r))
  BY Zenon DEF Next
<1>2. r \in Requests \union Probes
  <2>1. r \in Requests \/ r \in Probes
    BY Zenon DEF Explored
  <2> QED
    BY <2>1, Zenon
<1>3. Answers(r, Routed(r))
  <2>1. CASE Upload(r, Routed(r))
    BY <2>1, UploadAnswers
  <2>2. CASE ~Upload(r, Routed(r))
    BY <1>1, <2>2, HandlersAnswer, Zenon
  <2> QED
    BY <2>1, <2>2
<1> QED
  BY <1>2, <1>3

(* last says what was answered.                                             *)
LEMMA LastIs ==
    ASSUME NEW r, NEW route, NEW file, NEW status, AnswerIs(r, route, file, status)
    PROVE  /\ last'.req = r /\ last'.route = route /\ last'.file = file
           /\ last'.status = status
           /\ last' # NoRequest
<1>1. PICK page : last' = [req |-> r, route |-> route, file |-> file, status |-> status, page |-> page]
  BY Zenon DEF AnswerIs, Answered, Failed, FailedAmong
<1>2. last' # NoRequest
  BY ARequestIsNotNone
<1> QED
  BY <1>1, <1>2

-----------------------------------------------------------------------------
(* The answer to a request is in last.                                     *)
Answering(r) ==
    /\ last' # NoRequest /\ last'.req = r /\ last'.route = Routed(r)
    /\ AboutFile(r, Routed(r), last'.file, last'.status)
    /\ FitStatus(Routed(r), last'.file, last'.status)

LEMMA EveryLast ==
    ASSUME FInv, Next
    PROVE  \E r \in Requests \union Probes : Answering(r)
<1>1. PICK r \in Requests \union Probes : Answers(r, Routed(r))
  BY EveryAnswer, Zenon
<1> DEFINE route == Routed(r)
<1>2. PICK file, status : /\ AnswerIs(r, route, file, status)
                          /\ AboutFile(r, route, file, status)
                          /\ FitStatus(route, file, status)
  BY <1>1, Zenon DEF Answers
<1>3. /\ last'.req = r /\ last'.route = route /\ last'.file = file /\ last'.status = status
      /\ last' # NoRequest
  <2> HIDE DEF route
  <2> QED
    BY <1>2, LastIs
<1>4. Answering(r)
  BY <1>2, <1>3, Zenon DEF Answering
<1> QED
  BY <1>4

(* The properties of the last request, after any step.                      *)
LEMMA SpecificStep ==
    ASSUME FInv, Next
    PROVE  MostSpecific'
<1>1. PICK r \in Requests \union Probes : Answering(r)
  BY EveryLast, Zenon
<1>2. Specific(r, Routed(r))
  BY RoutedIsSpecific, Zenon
<1>3. Specific(last'.req, last'.route)
  BY <1>1, <1>2, Zenon DEF Answering
<1> QED
  BY <1>3, Zenon DEF MostSpecific, Specific

(* What CGI programs are told.                                             *)
Faithful(r, route, file) ==
    /\ route.script \o route.info = Collapse(r.path)
    /\ route.info # Absent => Head(route.info) = Slash
    /\ MatchLocation(route.script, Servers[route.server].locations) = route.loc
    /\ ResolvePath(route.script, Location(route)) = file

LEMMA FaithfulStep ==
    ASSUME FInv, Next
    PROVE  SplitFaithful'
<1>1. PICK r \in Requests \union Probes : Answering(r)
  BY EveryLast, Zenon
<1> DEFINE route == Routed(r)
           path  == Collapse(r.path)
<1>2. ASSUME last'.status = Running PROVE Faithful(r, route, last'.file)
  <2>1. last'.file = route.file /\ route.file # Absent
    BY <1>1, <1>2, Zenon DEF Answering, FitStatus
  <2>2. route.loc # 0
    BY <2>1, RouteHasLocation, Zenon
  <2>3. /\ IsSplit(path, Location(route).path, route.script, route.info)
        /\ MatchLocation(route.script, Servers[route.server].locations) = route.loc
        /\ route.file = ResolvePath(route.script, Location(route))
    BY <2>2, RoutedSplit, Zenon
  <2>4. route.script \o route.info = path /\ (route.info # <<>> => Head(route.info) = Slash)
    BY <2>3, Zenon DEF IsSplit, CutsOff
  <2> QED
    BY <2>1, <2>3, <2>4, Zenon DEF Faithful, Absent
<1>3. last'.status = Running => Faithful(last'.req, last'.route, last'.file)
  BY <1>1, <1>2, Zenon DEF Answering
<1> QED
  BY <1>3, Zenon DEF SplitFaithful, Faithful, LastLocation, Location

(* Paths without ".." are not refused.                                     *)
Accepted(r, route) ==
    /\ route.loc # 0 /\ ~Location(route).hasReturn
    /\ RealPath(Location(route).root) \notin {Absent, Root}
    /\ <<Dot, Dot>> \notin ToSet(Segments(r.path))
    => route.file # Absent

(* A path without ".." is resolved, whatever its request.                   *)
LEMMA RequestAccepted ==
    ASSUME NEW r \in Requests \union Probes
    PROVE  Accepted(r, Routed(r))
<1> DEFINE route == Routed(r)
           path  == Collapse(r.path)
           loc   == Location(route)
           script == route.script
<1> SUFFICES ASSUME route.loc # 0, ~loc.hasReturn, RealPath(loc.root) \notin {Absent, Root},
                    <<Dot, Dot>> \notin ToSet(Segments(r.path))
             PROVE  route.file # Absent
  BY Zenon DEF Accepted
<1>1. /\ IsSplit(path, loc.path, script, route.info)
      /\ route.file = ResolvePath(script, loc)
  BY RoutedSplit, Zenon
<1>2. IsLocation(loc)
  BY RoutedBest, Zenon
<1>3. path \in Seq(STRING) /\ path # <<>> /\ Head(path) = Slash
  BY RequestPath, Zenon
<1>4. r.path \in Seq(STRING)
  BY PathsAssumption, Zenon
<1>5. Clean(path)
  BY <1>4, CleanRequest, Zenon
<1>6. PICK cut : Ends(path, cut) /\ CutsOff(path, cut, script, route.info)
  BY <1>1, Zenon DEF IsSplit
<1> HIDE DEF route, path, loc, script
<1>7. /\ script \in Seq(STRING) /\ Len(script) = cut /\ cut \in 1..Len(path)
      /\ \A i \in 1..cut : script[i] = path[i]
      /\ path = script \/ Under(script, path)
  BY <1>6, Zenon DEF CutsOff, Ends
<1>8. script # <<>> /\ Head(script) = Slash
  <2>1. Len(script) >= 1 /\ 1 \in 1..cut
    BY <1>3, <1>7, LenProperties
  <2>2. script # <<>> /\ script[1] = path[1]
    BY <1>7, <2>1
  <2> QED
    BY <1>3, <1>7, <2>2, HeadAndTail
<1>9. Clean(script)
  BY <1>3, <1>5, <1>7, CleanScript, Zenon
<1>10. IsPrefixMatch(script, loc.path)
  BY <1>1, Zenon DEF IsSplit
<1>11. ResolvePath(script, loc) # Absent
  <2> DEFINE s == script
  <2> HIDE DEF s
  <2>1. s \in Seq(STRING) /\ s # <<>> /\ Head(s) = Slash /\ Clean(s)
        /\ IsPrefixMatch(s, loc.path)
    BY <1>7, <1>8, <1>9, <1>10, Zenon DEF s
  <2>2. IsLocation(loc) /\ ~loc.hasReturn /\ RealPath(loc.root) \notin {Absent, Root}
    BY <1>2, Zenon DEF loc
  <2>3. ResolvePath(s, loc) # Absent
    BY <2>1, <2>2, CleanIsInside, Zenon
  <2> QED
    BY <2>3, Zenon DEF s
<1> QED
  BY <1>1, <1>11, Zenon

LEMMA AcceptedStep ==
    ASSUME FInv, Next
    PROVE  InsideAccepted'
<1>1. PICK r \in Requests \union Probes : Answering(r)
  BY EveryLast, Zenon
<1>2. Accepted(r, Routed(r))
  BY RequestAccepted, Zenon
<1>3. Accepted(last'.req, last'.route)
  BY <1>1, <1>2, Zenon DEF Answering
<1> QED
  BY <1>3, Zenon DEF InsideAccepted, Accepted, LastFound, LastLocation, Location

-----------------------------------------------------------------------------
(* A canonical path has no slash at its end, but for the root.             *)
LEMMA NoSlashAtEnd ==
    ASSUME NEW c \in Seq(STRING), NEW d \in Seq(STRING), d = Append(c, Slash), NormalizePath(d) = d
    PROVE  d = Root
<1> DEFINE N == Names(d)
<1>1. N \in Seq(Proper(STRING))
  BY NamesOfPath
<1>2. d = IF N = <<>> THEN Root ELSE Text(N)
  BY SlashIsText, NormalizeIs
<1>3. CASE N # <<>>
  <2>1. d = Down(c, <<>>)
    BY SlashIsText, SlashBehind
  <2>2. Segments(<<>>) = <<<<>>>>
    BY SegmentsGrow, EmptySeq
  <2>3. Segments(d) = Segments(c) \o <<<<>>>>
    BY <2>1, <2>2, SlashIsText, EmptySeq, SegmentsOfDown
  <2>4. N \in Seq(Plain(STRING)) /\ Seq(Plain(STRING)) \subseteq Seq(Seq(STRING))
    BY <1>1, ProperArePlain
  <2>5. Segments(d) = <<<<>>>> \o N
    BY <1>2, <1>3, <2>4, SlashIsText, SegmentsOfText
  <2>6. N \in Seq(Seq(STRING)) /\ Segments(c) \in Seq(Seq(STRING))
        /\ <<<<>>>> \in Seq(Seq(STRING))
        /\ <<<<>>>> # <<>> /\ Last(<<<<>>>>) = <<>>
    BY <2>4, SegmentsGrow, EmptySeq, Singles DEF Lists
  <2> HIDE DEF N
  <2>7. Last(<<<<>>>> \o N) = Last(N)
    BY <1>3, <2>6, ConcatParts
  <2>8. Last(Segments(c) \o <<<<>>>>) = <<>>
    BY <2>6, ConcatParts
  <2>9. Last(N) = <<>>
    BY <2>3, <2>5, <2>7, <2>8, Zenon
  <2>10. Last(N) \in Proper(STRING)
    BY <1>1, <1>3, FrontAndLast
  <2>11. <<>> \notin Proper(STRING)
    BY DEF Proper
  <2> QED
    BY <2>9, <2>10, <2>11, Zenon
<1> QED
  BY <1>2, <1>3

LEMMA BelowIsPrefix ==
    ASSUME NEW d, NEW f, Below(d, f)
    PROVE  IsPrefix(Names(d), Names(f))
BY SlashIsText, CanonicalPrefix DEF Below

(* The index of a directory is below it.                                   *)
LEMMA IndexBelow ==
    ASSUME NEW d \in Seq(STRING), d # <<>>, NormalizePath(d) = d,
           NEW index \in Seq(STRING), index # <<>>,
           JoinPath(d, index) \in Seq(STRING),
           NormalizePath(JoinPath(d, index)) = JoinPath(d, index)
    PROVE  IsPrefix(Names(d), Names(JoinPath(d, index)))
<1> DEFINE f == JoinPath(d, index)
<1>1. PICK c, e : Joined(STRING, d, index, c, e)
  BY SlashIsText, JoinIs
<1>2. /\ c \in Seq(STRING) /\ e \in Seq(STRING) /\ f = Down(c, e)
      /\ d = c \/ d = Append(c, Slash)
  BY <1>1 DEF Joined
<1> HIDE DEF f
<1>3. d = Root \/ Under(d, f)
  <2>1. CASE d = c
    <3>1. \E q \in Seq(STRING) : f = Down(d, q)
      BY <1>2, <2>1, Zenon
    <3>2. f \in Seq(STRING)
      BY DEF f
    <3> QED
      BY <3>1, <3>2, SlashIsText, UnderIs
  <2>2. CASE d = Append(c, Slash)
    BY <1>2, <2>2, NoSlashAtEnd
  <2> QED
    BY <1>2, <2>1, <2>2
<1>4. f \in Seq(STRING) /\ NormalizePath(f) = f
  BY DEF f
<1>5. IsPrefix(Names(d), Names(f))
  BY <1>3, <1>4, SlashIsText, CanonicalPrefix
<1> QED
  BY <1>5 DEF f

LEMMA PrefixChain ==
    ASSUME NEW a \in Seq(STRING), NEW b \in Seq(STRING), NEW c \in Seq(STRING),
           IsPrefix(Names(a), Names(b)), IsPrefix(Names(b), Names(c))
    PROVE  IsPrefix(Names(a), Names(c))
<1>1. /\ Names(a) \in Seq(Proper(STRING)) /\ Names(b) \in Seq(Proper(STRING))
      /\ Names(c) \in Seq(Proper(STRING))
  BY NamesOfPath
<1> QED
  BY <1>1, PrefixesChain

(* The file of an answer is below the root, or straight in the store.      *)
FilesPlaced ==
    \A f \in DOMAIN files : files[f] \in Seq(STRING) /\ IsPlace(f) /\ f \notin Dirs

Within(r, route, file, status) ==
    route.loc # 0 /\ ~Location(route).hasReturn /\ file # Absent =>
        IF r.method = "POST" /\ status \in {201, 500} /\ Location(route).upload /\ ~ForCgi(route)
        THEN Front(Names(file)) = Names(Absolute(Location(route).store))
        ELSE IsPrefix(Names(RealPath(Location(route).root)), Names(file))

(* The file of a route is below the root of its location.                   *)
LEMMA RouteBelow ==
    ASSUME NEW r \in Requests \union Probes, Routed(r).file # Absent,
           ~Location(Routed(r)).hasReturn
    PROVE  Below(RealPath(Location(Routed(r)).root), Routed(r).file)
<1> DEFINE route == Routed(r)
           loc   == Location(route)
<1>1. route.loc # 0 /\ IsLocation(loc)
  BY RouteHasLocation, Zenon
<1>2. /\ IsSplit(Collapse(r.path), loc.path, route.script, route.info)
      /\ route.file = ResolvePath(route.script, loc)
  BY <1>1, RoutedSplit, Zenon
<1>3. route.script \in Seq(STRING)
  BY <1>2, Zenon DEF IsSplit, CutsOff
<1> QED
  BY <1>1, <1>2, <1>3, ResolvedBelow, Zenon

(* So is the file of an answer, or straight in the store.                   *)
LEMMA AnswerWithin ==
    ASSUME FilesPlaced, NEW r \in Requests \union Probes, NEW file, NEW status,
           AboutFile(r, Routed(r), file, status)
    PROVE  Within(r, Routed(r), file, status)
<1> DEFINE route == Routed(r)
           loc   == Location(route)
           d     == RealPath(loc.root)
           upload == r.method = "POST" /\ status \in {201, 500} /\ loc.upload /\ ~ForCgi(route)
<1> SUFFICES ASSUME route.loc # 0, ~loc.hasReturn, file # Absent
             PROVE  IF upload THEN Front(Names(file)) = Names(Absolute(loc.store))
                    ELSE IsPrefix(Names(d), Names(file))
  BY Zenon DEF Within
<1>1. CASE AboutRoute(r, route, file)
  <2>1. ~upload /\ file = route.file /\ route.file # Absent
    BY <1>1, Zenon DEF AboutRoute
  <2>2. Below(d, file)
    BY <2>1, RouteBelow, Zenon
  <2> HIDE DEF d
  <2>3. IsPrefix(Names(d), Names(file))
    BY <2>2, BelowIsPrefix
  <2> QED
    BY <2>1, <2>3, Zenon
<1>2. CASE AboutIndex(r, route, file)
  <2> DEFINE dir   == route.file
             index == Head(loc.index)
  <2>1. /\ r.method = "GET" /\ dir # Absent
        /\ file \in DOMAIN files /\ file = JoinPath(dir, index)
    BY <1>2, Zenon DEF AboutIndex
  <2>2. ~upload
    <3>1. "GET" # "POST"
      OBVIOUS
    <3> QED
      BY <2>1, <3>1, Zenon
  <2>3. Below(d, dir)
    BY <2>1, RouteBelow, Zenon
  <2>4. index \in Seq(STRING) /\ index # <<>>
    BY <1>2, RouteHasLocation, Zenon DEF IsLocation, AboutIndex
  <2>5. file \in Seq(STRING) /\ NormalizePath(file) = file
    BY <2>1, Zenon DEF FilesPlaced, IsPlace
  <2> HIDE DEF d, dir, index
  <2>6. d \in Seq(STRING) /\ dir \in Seq(STRING) /\ NormalizePath(dir) = dir
    BY <2>3, Zenon DEF Below
  <2>7. IsPrefix(Names(d), Names(dir))
    BY <2>3, BelowIsPrefix
  <2>8. IsPrefix(Names(dir), Names(file))
    BY <2>1, <2>4, <2>5, <2>6, IndexBelow DEF Absent
  <2>9. IsPrefix(Names(d), Names(file))
    BY <2>5, <2>6, <2>7, <2>8, PrefixChain
  <2> QED
    BY <2>2, <2>9, Zenon
<1>3. CASE AboutUpload(r, route, file, status)
  <2>1. /\ ForHandler(route) /\ CheckUpload(r, route) = 0 /\ r.method = "POST"
        /\ status \in {201, 500}
    BY <1>3, Zenon DEF AboutUpload
  <2>2. PICK ext \in NoSlash, n \in 1..Len(UploadNames) : file = StoredAt(loc.store, n, ext)
    BY <1>3, Zenon DEF AboutUpload
  <2>3. loc.upload /\ loc.store # Absent
    <3>1. CheckUpload(r, route) = 0
      BY <2>1
    <3> HIDE DEF route
    <3> QED
      BY <3>1, UploadChecked DEF loc
  <2>4. loc.store \in Seq(STRING)
    BY <2>1, RouteHasLocation, Zenon DEF ForHandler, IsLocation
  <2>5. upload
    BY <2>1, <2>3, Zenon DEF ForHandler
  <2> DEFINE store == loc.store
  <2> HIDE DEF store
  <2>6. store \in Seq(STRING) /\ store # <<>>
    BY <2>3, <2>4, Zenon DEF store, Absent
  <2>7. Front(Names(StoredAt(store, n, ext))) = Names(Absolute(store))
    BY <2>6, StoredIs
  <2> QED
    BY <2>2, <2>5, <2>7, Zenon DEF store
<1> QED
  BY <1>1, <1>2, <1>3, Zenon DEF AboutFile

LEMMA ConfinedStep ==
    ASSUME FInv, FilesPlaced, Next
    PROVE  Confined'
<1>1. PICK r \in Requests \union Probes : Answering(r)
  BY EveryLast, Zenon
<1>2. Within(r, Routed(r), last'.file, last'.status)
  BY <1>1, AnswerWithin, Zenon DEF Answering
<1>3. Within(last'.req, last'.route, last'.file, last'.status)
  BY <1>1, <1>2, Zenon DEF Answering
<1> QED
  BY <1>3, Zenon DEF Confined, Within, LastFound, LastLocation, Location, ForCgi,
     MatchCgiExtension

-----------------------------------------------------------------------------
(* Types: the files stay texts under canonical paths that lead to them.    *)
LastTyped ==
    last # NoRequest =>
        last.req \in Requests \union Probes /\ last.status \in Statuses
Linked == \A u \in uploads : u.link # Absent

LEMMA TypesAre == TypeOK <=>
    FilesPlaced /\ counter \in 0..Len(UploadNames) /\ LastTyped /\ Linked
BY Zenon DEF TypeOK, FilesPlaced, LastTyped, Linked, Statuses

LEMMA InitiallyTyped == Init => TypeOK
<1> SUFFICES ASSUME Init PROVE TypeOK
  OBVIOUS
<1>1. FilesPlaced
  BY TreeAssumption, Zenon DEF Init, FilesPlaced
<1>2. counter \in 0..Len(UploadNames)
  BY NamesAssumption DEF Init
<1>3. LastTyped /\ Linked
  BY DEF Init, LastTyped, Linked
<1> QED
  BY <1>1, <1>2, <1>3, TypesAre, Zenon

LEMMA LastStep ==
    ASSUME FInv, Next
    PROVE  LastTyped'
<1>1. PICK r \in Requests \union Probes : Answering(r)
  BY EveryLast, Zenon
<1>2. last'.req = r /\ last'.status \in Statuses
  BY <1>1, Zenon DEF Answering, FitStatus
<1> QED
  BY <1>1, <1>2, Zenon DEF LastTyped, Statuses

LEMMA LeavesTyped ==
    ASSUME FilesPlaced, Linked, UNCHANGED <<files, uploads>>
    PROVE  FilesPlaced' /\ Linked'
BY Zenon DEF FilesPlaced, Linked

LEMMA DeleteTyped ==
    ASSUME FilesPlaced, Linked, NEW r, NEW route, Delete(r, route)
    PROVE  FilesPlaced' /\ Linked'
<1> DEFINE file == route.file
<1>1. CASE UNCHANGED <<files, uploads>>
  BY <1>1, LeavesTyped
<1>2. CASE files' = Without(file) /\ uploads' = {u \in uploads : u.file # file}
  <2>1. DOMAIN files' \subseteq DOMAIN files
        /\ \A f \in DOMAIN files' : files'[f] = files[f]
    BY <1>2 DEF Without
  <2>2. FilesPlaced'
    BY <2>1, Zenon DEF FilesPlaced
  <2>3. Linked'
    BY <1>2, Zenon DEF Linked
  <2> QED
    BY <2>2, <2>3
<1> QED
  BY <1>1, <1>2, Zenon DEF Delete

(* One file more, and all are still typed.                                  *)
LEMMA FileAdded ==
    ASSUME FilesPlaced, NEW file, IsPlace(file), file \notin Dirs,
           NEW part \in Seq(STRING), files' = With(files, file, part)
    PROVE  FilesPlaced'
<1>1. OneMore(files', files, file, part)
  BY WithOneMore, Zenon
<1>2. ASSUME NEW f \in DOMAIN files'
      PROVE  files'[f] \in Seq(STRING) /\ IsPlace(f) /\ f \notin Dirs
  <2>1. CASE f = file
    BY <1>1, <2>1, Zenon DEF OneMore
  <2>2. CASE f # file
    <3>1. f \in DOMAIN files /\ files'[f] = files[f]
      BY <1>1, <1>2, <2>2 DEF OneMore
    <3> QED
      BY <3>1, Zenon DEF FilesPlaced
  <2> QED
    BY <2>1, <2>2
<1> QED
  BY <1>2, Zenon DEF FilesPlaced

(* A new file is in a directory, and is none itself.                       *)
LEMMA UploadPlace ==
    ASSUME FInv, NEW r \in Explored, Upload(r, Routed(r))
    PROVE  LET received == Received(r.type, r.delimiter, r.body)
               loc      == Location(Routed(r))
               file     == StoredAt(loc.store, counter + 1, received.ext)
           IN  IsPlace(file) /\ file \notin Dirs
<1> DEFINE received == Received(r.type, r.delimiter, r.body)
           route    == Routed(r)
           loc      == Location(route)
           ext      == received.ext
           n        == counter + 1
<1>1. r \in Posted /\ n \in 1..Len(UploadNames)
  BY UploadIsCounted, Zenon
<1>2. ext \in NoSlash /\ ext \in Extensions
  BY <1>1, ReceivedExtension, Zenon DEF Extensions
<1>3. ForHandler(route) /\ CheckUpload(r, route) = 0
  BY Zenon DEF Upload, Serves
<1>4. loc \in Locations /\ loc.store \in Seq(STRING)
  BY <1>3, RouteHasLocation, Zenon DEF ForHandler, IsLocation
<1>5. loc.store # Absent /\ NormalizePath(Absolute(loc.store)) \in Dirs
  <2> HIDE DEF route
  <2> QED
    BY <1>3, UploadChecked
<1> DEFINE store == loc.store
           file  == StoredAt(store, n, ext)
<1>6. file \in Targets(n)
  <2>1. store = loc.store
    OBVIOUS
  <2> HIDE DEF n, ext, store, loc
  <2> QED
    BY <1>2, <1>4, <2>1 DEF Targets
<1>7. Targets(n) \intersect (Dirs \union DOMAIN FirstFiles) = {}
  BY <1>1, NamesAssumption, Zenon
<1>8. IsPlace(file)
  <2>1. store \in Seq(STRING) /\ store # <<>> /\ NormalizePath(Absolute(store)) \in Dirs
    BY <1>4, <1>5, Zenon DEF Absent
  <2> HIDE DEF n, ext, store
  <2>2. /\ StoredAt(store, n, ext) \in Seq(STRING) /\ Leads(StoredAt(store, n, ext))
        /\ NormalizePath(StoredAt(store, n, ext)) = StoredAt(store, n, ext)
    BY <1>1, <1>2, <2>1, StoredIs
  <2> QED
    BY <2>2, Zenon DEF IsPlace
<1> HIDE DEF file
<1>9. file \notin Dirs
  BY <1>6, <1>7
<1> QED
  BY <1>8, <1>9, Zenon DEF file

(* What an upload writes is all of what was sent, or its beginning.        *)
LEMMA BeginningIsText ==
    ASSUME NEW content \in Seq(STRING), NEW n \in 0..Len(content) - 1
    PROVE  SubSeq(content, 1, n) \in Seq(STRING)
<1>1. n \in Int /\ 1 \in Int /\ \A i \in 1..n : i \in 1..Len(content)
  BY LenProperties
<1>2. \A i \in 1..n : content[i] \in STRING
  BY <1>1, ElementOfSeq
<1> QED
  BY <1>1, <1>2, SubSeqProperties

(* An upload writes a text into a place of its own.                         *)
LEMMA UploadTyped ==
    ASSUME FInv, FilesPlaced, Linked, NEW r \in Explored, Upload(r, Routed(r))
    PROVE  FilesPlaced' /\ Linked'
<1> DEFINE received == Received(r.type, r.delimiter, r.body)
           route    == Routed(r)
           loc      == Location(route)
           name     == UploadNames[counter + 1] \o received.ext
           file     == StoredAt(loc.store, counter + 1, received.ext)
           content  == received.content
           link     == DeriveUriFromStore(loc.root, loc.store) \o Root \o name
           entry    == [file |-> file, sent |-> r.sent, host |-> r.host, link |-> link]
<1>1. r \in Posted /\ counter + 1 \in 1..Len(UploadNames)
  BY UploadIsCounted, Zenon
<1>2. content \in Seq(STRING)
  BY <1>1, ReceivedIsSent, RequestsAssumption, Zenon
<1>3. IsPlace(file) /\ file \notin Dirs
  BY UploadPlace, Zenon
<1>4. Store(r, route, received)
  BY Zenon DEF Upload
<1>5. link # Absent
  <2> DEFINE n == counter + 1
             ext == received.ext
             root == loc.root
             store == loc.store
  <2>1. ext \in NoSlash
    BY <1>1, ReceivedExtension, Zenon
  <2>2. n \in 1..Len(UploadNames)
    BY <1>1
  <2>3. ForHandler(route)
    BY Zenon DEF Upload, Serves
  <2>4. root \in Seq(STRING) /\ store \in Seq(STRING)
    BY <2>3, RouteHasLocation, Zenon DEF ForHandler, IsLocation
  <2> HIDE DEF n, ext, root, store
  <2>5. UploadNames[n] \o ext \in Seq(STRING)
    BY <2>1, <2>2, UploadName
  <2>6. DeriveUriFromStore(root, store) \o Root \o (UploadNames[n] \o ext) # Absent
    BY <2>4, <2>5, LinkIsNotEmpty
  <2> QED
    BY <2>6, Zenon DEF n, ext, root, store
<1>6. entry.link # Absent
  <2> HIDE DEF link, file
  <2> QED
    BY <1>5
<1>7. /\ \/ UNCHANGED files
         \/ \E n \in 0..Len(content) - 1 : files' = With(files, file, SubSeq(content, 1, n))
         \/ files' = With(files, file, content)
      /\ UNCHANGED uploads \/ uploads' = uploads \union {entry}
  BY <1>4, Zenon DEF Store
<1> HIDE DEF file, content, entry
<1>8. FilesPlaced'
  <2>1. CASE UNCHANGED files
    BY <2>1, Zenon DEF FilesPlaced
  <2>2. ASSUME NEW n \in 0..Len(content) - 1, files' = With(files, file, SubSeq(content, 1, n))
        PROVE  FilesPlaced'
    <3>1. SubSeq(content, 1, n) \in Seq(STRING)
      BY <1>2, BeginningIsText
    <3> QED
      BY <1>3, <2>2, <3>1, FileAdded, Zenon
  <2>3. CASE files' = With(files, file, content)
    BY <1>2, <1>3, <2>3, FileAdded, Zenon
  <2> QED
    BY <1>7, <2>1, <2>2, <2>3, Zenon
<1>9. Linked'
  <2>1. \A u \in uploads' : u \in uploads \/ u = entry
    BY <1>7
  <2> QED
    BY <1>6, <2>1, Zenon DEF Linked
<1> QED
  BY <1>8, <1>9

LEMMA StepTyped ==
    ASSUME FInv, TypeOK, Next
    PROVE  TypeOK' /\ FilesPlaced
<1>1. FilesPlaced /\ Linked
  BY TypesAre, Zenon
<1>2. PICK r \in Explored :
          \/ Unresolved(r, Routed(r)) \/ RunCgi(r, Routed(r)) \/ Redirect(r, Routed(r))
          \/ Refuse(r, Routed(r)) \/ Get(r, Routed(r)) \/ RefuseUpload(r, Routed(r))
          \/ Delete(r, Routed(r)) \/ Upload(r, Routed(r))
  BY Zenon DEF Next
<1>3. FilesPlaced' /\ Linked'
  <2>1. CASE Delete(r, Routed(r))
    BY <1>1, <2>1, DeleteTyped, Zenon
  <2>2. CASE Upload(r, Routed(r))
    BY <1>1, <2>2, UploadTyped, Zenon
  <2>3. CASE Leaves
    BY <1>1, <2>3, LeavesTyped, Zenon DEF Leaves
  <2> QED
    BY <1>2, <2>1, <2>2, <2>3, HandlersLeave, Zenon
<1>4. LastTyped'
  BY LastStep, Zenon
<1>5. FInv'
  BY StepKeepsF, Zenon
<1>6. (counter \in 0..Len(UploadNames))'
  BY <1>5, Zenon DEF FInv, Counted
<1>7. TypeOK' <=> FilesPlaced' /\ (counter \in 0..Len(UploadNames))' /\ LastTyped'
      /\ Linked'
  BY Zenon DEF TypeOK, FilesPlaced, LastTyped, Linked, Statuses
<1> QED
  BY <1>1, <1>3, <1>4, <1>6, <1>7, Zenon

-----------------------------------------------------------------------------
(* What is said of the last request alone.                                 *)
LastInv == MostSpecific /\ SplitFaithful /\ InsideAccepted /\ Confined

RInv == FInv /\ TypeOK /\ LastInv

(* Every step keeps the whole invariant.                                    *)
LEMMA StepKeepsR ==
    ASSUME RInv, [Next]_vars
    PROVE  RInv'
<1> USE DEF RInv
<1>1. CASE Next
  <2>1. FInv' /\ TypeOK' /\ FilesPlaced
    BY <1>1, StepKeepsF, StepTyped, Zenon
  <2>2. MostSpecific' /\ SplitFaithful' /\ InsideAccepted' /\ Confined'
    BY <1>1, <2>1, SpecificStep, FaithfulStep, AcceptedStep, ConfinedStep, Zenon
  <2> QED
    BY <2>1, <2>2, Zenon DEF LastInv
<1>2. CASE UNCHANGED vars
  <2>1. FInv'
    BY <1>2, StepKeepsF, Zenon
  <2>2. TypeOK'
    BY <1>2, Zenon DEF vars, TypeOK
  <2>3. LastInv'
    <3>1. last' = last
      BY <1>2, Zenon DEF vars
    <3>2. MostSpecific'
      BY <3>1, Zenon DEF LastInv, MostSpecific
    <3>3. SplitFaithful'
      BY <3>1, Zenon DEF LastInv, SplitFaithful, LastLocation, Location
    <3>4. InsideAccepted'
      BY <3>1, Zenon DEF LastInv, InsideAccepted, LastFound, LastLocation, Location
    <3>5. Confined'
      BY <3>1, Zenon DEF LastInv, Confined, LastFound, LastLocation, Location, ForCgi,
         MatchCgiExtension
    <3> QED
      BY <3>2, <3>3, <3>4, <3>5, Zenon DEF LastInv
  <2> QED
    BY <2>1, <2>2, <2>3
<1> QED
  BY <1>1, <1>2

LEMMA InitiallyR == Init => RInv
<1> SUFFICES ASSUME Init PROVE RInv
  OBVIOUS
<1>1. LastInv
  <2>1. last = NoRequest /\ NoRequest.status # Running
    BY DEF Init, NoRequest, Running
  <2> QED
    BY <2>1, Zenon DEF LastInv, MostSpecific, SplitFaithful, InsideAccepted, Confined,
       LastFound
<1> QED
  BY <1>1, InitiallyF, InitiallyTyped, Zenon DEF RInv

-----------------------------------------------------------------------------
(* Where the address of an upload leads: joinPath puts the name at the end *)
(* of the path, whether the path is collapsed, stripped of its location,   *)
(* or joined to a root before or after that.                               *)

(* A name behind a path goes behind the collapsed path.                     *)
LEMMA CollapseDown ==
    ASSUME NEW Y, Slash \in Y, NEW p \in Seq(Y), p # <<>>, NEW n \in Plain(Y), n # <<>>
    PROVE  Collapse(p \o Root \o n) = JoinPath(Collapse(p), n)
<1> DEFINE c == Collapse(p)
           d == IF Last(c) = Slash THEN c ELSE Append(c, Slash)
           q == Append(p, Slash)
           S == {t \in Plain(Y) : Collapse(q \o t) = d \o t}
<1>1. c \in Seq(Y) /\ c # <<>>
  BY CollapseHead
<1>2. q \in Seq(Y) /\ Collapse(q) = d
  <2>1. Collapse(q) = IF Slash = Slash /\ c # <<>> /\ Last(c) = Slash THEN c ELSE Append(c, Slash)
    BY CollapseGrows
  <2> HIDE DEF c
  <2> QED
    BY <1>1, <2>1, AppendProperties
<1>3. d \in Seq(Y)
  BY <1>2, CollapseGrows
<1>4. n \in Seq(Y) /\ Head(n) # Slash
  <2>1. n \in Seq(Y \ {Slash})
    BY DEF Plain
  <2>2. Head(n) \in Y \ {Slash}
    BY <2>1, HeadAndTail
  <2> QED
    BY <2>2, PlainIsText
<1>5. q = p \o Root
  BY AppendIsConcat DEF Root
<1>6. JoinPath(c, n) = d \o n
  <2> HIDE DEF c
  <2>1. CASE Last(c) = Slash
    BY <1>1, <1>4, <2>1, Zenon DEF JoinPath
  <2>2. CASE Last(c) # Slash
    <3>1. JoinPath(c, n) = c \o Root \o n
      BY <1>1, <1>4, <2>2, Zenon DEF JoinPath
    <3>2. Append(c, Slash) = c \o Root
      BY <1>1, AppendIsConcat DEF Root
    <3> QED
      BY <2>2, <3>1, <3>2
  <2> QED
    BY <2>1, <2>2
<1> HIDE DEF c, d, q
<1>7. <<>> \in S
  <2>1. <<>> \in Plain(Y) /\ q \o <<>> = q /\ d \o <<>> = d
    BY <1>2, <1>3, EmptySeq, ConcatEmptySeq DEF Plain
  <2> QED
    BY <1>2, <2>1
<1>8. ASSUME NEW t \in Seq(Y \ {Slash}), NEW ch \in Y \ {Slash}, t \in S
      PROVE  Append(t, ch) \in S
  <2>1. t \in Seq(Y) /\ Append(t, ch) \in Plain(Y)
    BY PlainIsText, AppendProperties DEF Plain
  <2>2. q \o Append(t, ch) = Append(q \o t, ch) /\ d \o Append(t, ch) = Append(d \o t, ch)
    BY <1>2, <1>3, <2>1, ConcatAppend
  <2>3. q \o t \in Seq(Y) /\ Collapse(q \o t) = d \o t
    BY <1>2, <1>8, <2>1, ConcatProperties
  <2>4. Collapse(Append(q \o t, ch)) = Append(d \o t, ch)
    <3> DEFINE x == q \o t
    <3> HIDE DEF x
    <3>1. Collapse(Append(x, ch)) =
             IF ch = Slash /\ Collapse(x) # <<>> /\ Last(Collapse(x)) = Slash
             THEN Collapse(x) ELSE Append(Collapse(x), ch)
      BY <2>3, CollapseGrows DEF x
    <3> QED
      BY <2>3, <3>1 DEF x
  <2> QED
    BY <2>1, <2>2, <2>4
<1>9. Seq(Y \ {Slash}) \subseteq S
  <2> HIDE DEF S
  <2> QED
    BY <1>7, <1>8, Appending
<1>10. Collapse(q \o n) = d \o n
  BY <1>9 DEF Plain
<1> QED
  BY <1>5, <1>6, <1>10 DEF c

(* joinPath with a name.                                                    *)
IsName(n) == n \in Seq(STRING) /\ n # <<>> /\ Head(n) # Slash

LEMMA JoinName ==
    ASSUME NEW a \in Seq(STRING), a # <<>>, NEW n, IsName(n)
    PROVE  JoinPath(a, n) = IF Last(a) = Slash THEN a \o n ELSE a \o (Root \o n)
<1>1. n \in Seq(STRING) /\ n # <<>> /\ Head(n) # Slash
  BY DEF IsName
<1>2. CASE Last(a) = Slash
  BY <1>1, <1>2, Zenon DEF JoinPath
<1>3. CASE Last(a) # Slash
  <2>1. JoinPath(a, n) = a \o Root \o n
    BY <1>1, <1>3, Zenon DEF JoinPath
  <2>2. Root \in Seq(STRING)
    BY SlashIsText, Singles DEF Root
  <2>3. (a \o Root) \o n = a \o (Root \o n)
    BY <1>1, <2>2, Grouping DEF Grouped
  <2> QED
    BY <1>3, <2>1, <2>3
<1> QED
  BY <1>2, <1>3

(* What is in front of the path to which a name is joined stays in front.  *)
LEMMA JoinBehind ==
    ASSUME NEW a \in Seq(STRING), NEW b \in Seq(STRING), b # <<>>, NEW n, IsName(n)
    PROVE  JoinPath(a \o b, n) = a \o JoinPath(b, n)
<1>1. a \o b \in Seq(STRING) /\ a \o b # <<>> /\ Last(a \o b) = Last(b)
  BY ConcatProperties, ConcatParts
<1>2. n \in Seq(STRING) /\ Root \in Seq(STRING)
  BY SlashIsText, Singles DEF IsName, Root
<1>3. Root \o n \in Seq(STRING)
  BY <1>2, ConcatProperties
<1>4. /\ JoinPath(a \o b, n) = IF Last(b) = Slash THEN (a \o b) \o n ELSE (a \o b) \o (Root \o n)
      /\ JoinPath(b, n) = IF Last(b) = Slash THEN b \o n ELSE b \o (Root \o n)
  BY <1>1, JoinName
<1>5. (a \o b) \o n = a \o (b \o n)
  BY <1>2, Grouping DEF Grouped
<1>6. (a \o b) \o (Root \o n) = a \o (b \o (Root \o n))
  <2> DEFINE m == Root \o n
  <2>1. m \in Seq(STRING)
    BY <1>3
  <2> HIDE DEF m
  <2>2. (a \o b) \o m = a \o (b \o m)
    BY <2>1, Grouping DEF Grouped
  <2> QED
    BY <2>2 DEF m
<1> QED
  BY <1>4, <1>5, <1>6

(* What follows the same beginning of the same text is the same.           *)
LEMMA CancelLeft ==
    ASSUME NEW s \in Seq(STRING), NEW t \in Seq(STRING), NEW v \in Seq(STRING), s \o t = s \o v
    PROVE  t = v
BY ConcatSimplifications

(* A path that starts with a slash.                                         *)
LEMMA SlashFirst ==
    ASSUME NEW b \in Seq(STRING), b # <<>>, Head(b) = Slash
    PROVE  b = Root \o Tail(b) /\ Tail(b) \in Seq(STRING)
BY HeadAndTail DEF Root

(* Names are put behind a path before or after it is joined to a root.      *)
LEMMA JoinTwice ==
    ASSUME NEW a \in Seq(STRING), a # <<>>, NEW b \in Seq(STRING), b # <<>>, Head(b) = Slash,
           NEW n, IsName(n)
    PROVE  JoinPath(JoinPath(a, b), n) = JoinPath(a, JoinPath(b, n))
<1> DEFINE B == JoinPath(b, n)
           e == Tail(b)
<1>1. n \in Seq(STRING) /\ n # <<>> /\ Head(n) # Slash
  BY DEF IsName
<1>2. B \in Seq(STRING) /\ B # <<>> /\ Head(B) = Slash
  BY <1>1, SlashIsText, JoinIs
<1>3. b = Root \o e /\ e \in Seq(STRING) /\ B = Root \o Tail(B) /\ Tail(B) \in Seq(STRING)
  <2> HIDE DEF B
  <2> QED
    BY <1>2, SlashFirst
<1>4. Root \in Seq(STRING) /\ Root # <<>>
  BY SlashIsText, Singles DEF Root
<1>5. CASE Last(a) # Slash
  <2>1. JoinPath(a, b) = a \o b
    BY <1>5, Zenon DEF JoinPath
  <2>2. JoinPath(a, B) = a \o B
    <3> HIDE DEF B
    <3> QED
      BY <1>2, <1>5, Zenon DEF JoinPath
  <2> QED
    BY <2>1, <2>2, JoinBehind
<1>6. CASE Last(a) = Slash
  <2>1. JoinPath(a, b) = a \o e
    BY <1>6, Zenon DEF JoinPath
  <2>2. JoinPath(a, B) = a \o Tail(B)
    <3> HIDE DEF B
    <3> QED
      BY <1>2, <1>6, Zenon DEF JoinPath
  <2>3. CASE e = <<>>
    <3>1. b = Root
      BY <1>3, <1>4, <2>3, ConcatEmptySeq
    <3>2. Last(Root) = Slash
      BY SlashIsText, Singles DEF Root
    <3>3. B = Root \o n
      BY <1>4, <3>1, <3>2, JoinName
    <3>4. Tail(B) = n
      <4> HIDE DEF B
      <4> QED
        BY <1>1, <1>3, <1>4, <3>3, CancelLeft
    <3>5. a \o e = a
      BY <2>3, ConcatEmptySeq
    <3>6. JoinPath(a, n) = a \o n
      BY <1>6, JoinName
    <3> QED
      BY <2>1, <2>2, <3>4, <3>5, <3>6
  <2>4. CASE e # <<>>
    <3> HIDE DEF e
    <3>1. /\ JoinPath(Root \o e, n) = Root \o JoinPath(e, n)
          /\ JoinPath(a \o e, n) = a \o JoinPath(e, n)
      <4>1. e \in Seq(STRING) /\ e # <<>>
        BY <1>3, <2>4
      <4>2. \A x \in Seq(STRING) : JoinPath(x \o e, n) = x \o JoinPath(e, n)
        BY <4>1, JoinBehind
      <4> QED
        BY <1>4, <4>2, Zenon
    <3>2. JoinPath(e, n) \in Seq(STRING)
      BY <1>1, <1>3, <2>4, JoinIsText
    <3>3. B = Root \o JoinPath(e, n)
      BY <1>3, <3>1
    <3>4. Tail(B) = JoinPath(e, n)
      <4> HIDE DEF B
      <4> QED
        BY <1>3, <1>4, <3>2, <3>3, CancelLeft
    <3> QED
      BY <2>1, <2>2, <3>1, <3>4
  <2> QED
    BY <2>3, <2>4
<1> QED
  BY <1>5, <1>6

(* The path below a location has the name at its end, too.                  *)
LEMMA StripDown ==
    ASSUME NEW p \in Seq(STRING), p # <<>>, Head(p) = Slash,
           NEW l \in Seq(STRING), l # <<>>, NEW n, IsName(n),
           IsPrefixMatch(p, l), IsPrefixMatch(JoinPath(p, n), l)
    PROVE  StripLocationPrefix(JoinPath(p, n), l) = JoinPath(StripLocationPrefix(p, l), n)
<1> DEFINE q == JoinPath(p, n)
           k == Len(l)
           s == SubSeq(q, k + 2, Len(q))
<1>1. n \in Seq(STRING) /\ n # <<>> /\ Head(n) # Slash /\ Root \in Seq(STRING) /\ Root # <<>>
      /\ Last(Root) = Slash
  BY SlashIsText, Singles DEF IsName, Root
<1>2. q \in Seq(STRING) /\ q = IF Last(p) = Slash THEN p \o n ELSE p \o (Root \o n)
  BY <1>1, JoinIsText, JoinName
<1>3. q # p
  <2>1. Root \o n \in Seq(STRING) /\ Root \o n # <<>>
    BY <1>1, HeadOfConcat
  <2>2. \A x \in Seq(STRING) : p \o x = p => x = <<>>
    BY ConcatEqualIffEmpty
  <2> HIDE DEF q
  <2> QED
    BY <1>1, <1>2, <2>1, <2>2, Zenon
<1> HIDE DEF q
<1>4. Under(l, q) => /\ SubSeq(q, k + 1, Len(q)) = Root \o s
                     /\ q = l \o (Root \o s) /\ s \in Seq(STRING)
  <2> SUFFICES ASSUME Under(l, q)
               PROVE  /\ SubSeq(q, k + 1, Len(q)) = Root \o s
                      /\ q = l \o (Root \o s) /\ s \in Seq(STRING)
    OBVIOUS
  <2>1. /\ q = Down(l, s) /\ SubSeq(q, k + 1, Len(q)) = Root \o s
    BY <1>2, SlashIsText, UnderIs
  <2>2. s \in Seq(STRING)
    <3>1. k + 2 \in Int /\ Len(q) \in Int /\ \A i \in k + 2..Len(q) : i \in 1..Len(q)
      BY <1>2, LenProperties
    <3>2. \A i \in k + 2..Len(q) : q[i] \in STRING
      BY <1>2, <3>1, ElementOfSeq
    <3> QED
      BY <1>2, <3>1, <3>2, SubSeqProperties
  <2> HIDE DEF s
  <2>3. Down(l, s) = l \o (Root \o s)
    BY <2>2, SlashIsText, DownIs
  <2> QED
    BY <2>1, <2>2, <2>3
<1> HIDE DEF s
<1>5. /\ p = l \/ l = Root \/ Under(l, p)
      /\ q = l \/ l = Root \/ Under(l, q)
  BY Zenon DEF IsPrefixMatch, Under, q
<1>6. CASE l = Root
  BY <1>6, Zenon DEF StripLocationPrefix, q
<1>7. CASE l # Root /\ p = l
  <2>1. Under(l, q)
    BY <1>3, <1>5, <1>7
  <2>2. StripLocationPrefix(q, l) = Root \o s
    BY <1>3, <1>4, <1>7, <2>1, Zenon DEF StripLocationPrefix, k
  <2>3. Root \o s \in Seq(STRING) /\ Head(Root \o s) = Slash
    <3>1. Head(Root) = Slash
      BY DEF Root
    <3> QED
      BY <1>1, <1>4, <2>1, <3>1, HeadOfConcat
  <2>4. q = p \o (Root \o s)
    BY <1>4, <1>7, <2>1
  <2>5. CASE Last(p) = Slash
    <3>1. p \o n = p \o (Root \o s)
      BY <1>2, <2>4, <2>5
    <3>2. n = Root \o s
      BY <1>1, <2>3, <3>1, CancelLeft
    <3> QED
      BY <1>1, <2>3, <3>2
  <2>6. CASE Last(p) # Slash
    <3>1. p \o (Root \o n) = p \o (Root \o s) /\ Root \o n \in Seq(STRING)
      BY <1>1, <1>2, <2>4, <2>6, ConcatProperties
    <3>2. Root \o n = Root \o s
      BY <2>3, <3>1, CancelLeft
    <3>3. JoinPath(Root, n) = Root \o n
      BY <1>1, JoinName
    <3>4. StripLocationPrefix(p, l) = Root
      BY <1>7, Zenon DEF StripLocationPrefix
    <3> QED
      BY <2>2, <3>2, <3>3, <3>4, Zenon DEF q
  <2> QED
    BY <2>5, <2>6
<1>8. CASE l # Root /\ Under(l, p)
  <2> DEFINE f == SubSeq(p, k + 1, Len(p))
             B == JoinPath(f, n)
  <2>1. /\ Starts(l, p) /\ k < Len(p) /\ p = Down(l, SubSeq(p, k + 2, Len(p)))
        /\ f = Root \o SubSeq(p, k + 2, Len(p))
    BY <1>8, SlashIsText, UnderIs
  <2>2. SubSeq(p, k + 2, Len(p)) \in Seq(STRING)
    <3>1. k + 2 \in Int /\ Len(p) \in Int /\ \A i \in k + 2..Len(p) : i \in 1..Len(p)
      BY LenProperties
    <3>2. \A i \in k + 2..Len(p) : p[i] \in STRING
      BY <3>1, ElementOfSeq
    <3> QED
      BY <3>1, <3>2, SubSeqProperties
  <2>3. p # l
    BY <2>1
  <2>4. StripLocationPrefix(p, l) = f
    BY <1>8, <2>3, Zenon DEF StripLocationPrefix, k
  <2>5. p = l \o f /\ f \in Seq(STRING) /\ f # <<>> /\ Head(f) = Slash
    <3> DEFINE t == SubSeq(p, k + 2, Len(p))
    <3> HIDE DEF t
    <3>1. t \in Seq(STRING) /\ p = Down(l, t) /\ f = Root \o t
      BY <2>1, <2>2 DEF t
    <3>2. Down(l, t) = l \o (Root \o t)
      BY <3>1, SlashIsText, DownIs
    <3>3. Root \o t \in Seq(STRING) /\ Root \o t # <<>> /\ Head(Root \o t) = Slash
      <4>1. Head(Root) = Slash
        BY DEF Root
      <4> QED
        BY <1>1, <3>1, <4>1, HeadOfConcat
    <3> QED
      BY <3>1, <3>2, <3>3
  <2> HIDE DEF f
  <2>6. q = l \o B
    BY <2>5, JoinBehind DEF q
  <2>7. B \in Seq(STRING) /\ B # <<>> /\ Head(B) = Slash
    BY <1>1, <2>5, SlashIsText, JoinIs
  <2> HIDE DEF B
  <2>8. q # l
    <3>1. l \o B = l => B = <<>>
      BY <2>7, ConcatEqualIffEmpty
    <3> QED
      BY <2>6, <2>7, <3>1
  <2>9. Under(l, q)
    BY <1>5, <1>8, <2>8
  <2>10. StripLocationPrefix(q, l) = Root \o s
    BY <1>4, <1>8, <2>8, <2>9, Zenon DEF StripLocationPrefix, k
  <2>11. l \o (Root \o s) = l \o B /\ Root \o s \in Seq(STRING)
    BY <1>1, <1>4, <2>6, <2>9, ConcatProperties
  <2>12. Root \o s = B
    BY <2>7, <2>11, CancelLeft
  <2> QED
    BY <2>4, <2>10, <2>12, Zenon DEF B, q
<1> QED
  BY <1>5, <1>6, <1>7, <1>8

(* What is in a directory that a path resolves to is resolved, too.         *)
LEMMA ResolvedDown ==
    ASSUME NEW p \in Seq(STRING), p # <<>>, Head(p) = Slash,
           NEW n \in Proper(STRING), NEW loc, IsLocation(loc), ~loc.hasReturn,
           IsPrefixMatch(p, loc.path), IsPrefixMatch(JoinPath(p, n), loc.path),
           RealPath(loc.root) # Root, ResolvePath(p, loc) # Absent
    PROVE  ResolvePath(JoinPath(p, n), loc) = Text(Append(Names(ResolvePath(p, loc)), n))
<1> DEFINE sfx  == StripLocationPrefix(p, loc.path)
           J    == JoinPath(loc.root, sfx)
           dir  == ResolvePath(p, loc)
           d    == RealPath(loc.root)
           path == Absolute(JoinPath(J, n))
           A    == Names(d)
<1>1. /\ loc.root \in Seq(STRING) /\ loc.root # <<>>
      /\ loc.path \in Seq(STRING) /\ loc.path # <<>>
  BY Zenon DEF IsLocation
<1>2. IsName(n) /\ Cwd \in Seq(STRING)
  BY ProperName, TreeAssumption DEF IsName
<1>3. sfx \in Seq(STRING) /\ sfx # <<>> /\ Head(sfx) = Slash
  BY <1>1, Stripped
<1>4. StripLocationPrefix(JoinPath(p, n), loc.path) = JoinPath(sfx, n)
  BY <1>1, <1>2, StripDown
<1>5. dir = NormalizePath(Absolute(J)) /\ d # Absent
  BY Zenon DEF ResolvePath
<1> HIDE DEF sfx
<1>6. J \in Seq(STRING) /\ J # <<>> /\ Absolute(J) \in Seq(STRING)
  <2>1. J \in Seq(STRING) /\ J # <<>>
    BY <1>1, <1>3, SlashIsText, JoinIs
  <2>2. Absolute(J) \in Seq(STRING)
    BY <1>1, <1>3, JoinIsText
  <2> QED
    BY <2>1, <2>2
<1>7. JoinPath(loc.root, JoinPath(sfx, n)) = JoinPath(J, n)
  BY <1>1, <1>2, <1>3, JoinTwice
<1>8. path \in Seq(STRING) /\ Names(path) = Append(Names(Absolute(J)), n)
  <2> HIDE DEF J
  <2> QED
    BY <1>2, <1>6, SlashIsText, NamesOfJoined
<1>9. Names(dir) = Names(Absolute(J)) /\ Names(dir) \in Seq(Proper(STRING))
  <2>1. Names(NormalizePath(Absolute(J))) = Names(Absolute(J))
    BY <1>6, SlashIsText, NormalizeIs
  <2>2. Names(Absolute(J)) \in Seq(Proper(STRING))
    BY <1>6, NamesOfPath
  <2> QED
    BY <1>5, <2>1, <2>2
<1>10. IsPrefix(A, Names(dir)) /\ d \in Seq(STRING) /\ NormalizePath(d) = d
  <2>1. p \in Seq(STRING) /\ Below(d, dir)
    BY ResolvedBelow
  <2> QED
    BY <2>1, BelowIsPrefix DEF Below
<1> HIDE DEF path, J, dir, d
<1>11. NormalizePath(path) = Text(Append(Names(dir), n))
  <2>1. NormalizePath(path) = IF Names(path) = <<>> THEN Root ELSE Text(Names(path))
    BY <1>8, SlashIsText, NormalizeIs
  <2>2. Append(Names(dir), n) # <<>>
    BY <1>9, AppendProperties
  <2> QED
    BY <1>8, <1>9, <2>1, <2>2
<1>12. A \in Seq(Proper(STRING)) /\ d = Text(A)
  <2>1. A \in Seq(Proper(STRING))
    BY <1>10, NamesOfPath
  <2>2. d = IF A = <<>> THEN Root ELSE Text(A)
    <3>1. NormalizePath(d) = IF Names(d) = <<>> THEN Root ELSE Text(Names(d))
      BY <1>10, SlashIsText, NormalizeIs
    <3> QED
      BY <1>10, <3>1
  <2>3. d # Root
    BY DEF d
  <2> QED
    BY <2>1, <2>2, <2>3
<1>13. Inside(Text(Append(Names(dir), n)), d)
  <2> HIDE DEF A
  <2>1. PICK U \in Seq(Proper(STRING)) : Names(dir) = A \o U
    BY <1>9, <1>10, <1>12, PrefixIs
  <2>2. Append(Names(dir), n) = A \o Append(U, n) /\ Append(U, n) \in Seq(Proper(STRING))
    <3>1. A \o Append(U, n) = Append(A \o U, n)
      BY <1>12, <2>1, ConcatAppend
    <3>2. Append(U, n) \in Seq(Proper(STRING))
      BY <2>1, AppendProperties
    <3> QED
      BY <2>1, <3>1, <3>2
  <2>3. Inside(Text(A \o Append(U, n)), Text(A))
    BY <1>12, <2>2, SlashIsText, TextInside
  <2> QED
    BY <1>12, <2>2, <2>3
<1>14. ResolvePath(JoinPath(p, n), loc) = NormalizePath(path)
  <2>1. d # Absent /\ Inside(NormalizePath(path), d)
    BY <1>5, <1>11, <1>13
  <2> QED
    BY <1>4, <1>7, <2>1, Zenon DEF ResolvePath, path, d
<1> QED
  BY <1>11, <1>14 DEF dir

-----------------------------------------------------------------------------
(* Where an upload was stored, and what its client was told.                *)
StoredIn(u, loc, n, ext) ==
    /\ HasStore(loc)
    /\ u.file = StoredAt(loc.store, n, ext)
    /\ u.link = DeriveUriFromStore(loc.root, loc.store) \o Root \o (UploadNames[n] \o ext)

Offered(u) ==
    \E loc \in ToSet(Servers[FindServer(u.host)].locations) :
        \E n \in 1..Len(UploadNames), ext \in Extensions : StoredIn(u, loc, n, ext)

AllOffered == \A u \in uploads : Offered(u)

(* An address that leads to a store leads to what is stored there.          *)
LEMMA AddressLeads ==
    ASSUME NEW locations, HasLocations(locations), NEW loc \in ToSet(locations), HasStore(loc),
           Addressed(locations, loc),
           NEW n \in 1..Len(UploadNames), NEW ext \in Extensions
    PROVE  LET uri == DeriveUriFromStore(loc.root, loc.store)
               path == Collapse(uri \o Root \o (UploadNames[n] \o ext))
               l    == MatchLocation(path, locations)
           IN  /\ l \in DOMAIN locations /\ ~locations[l].hasCgi
               /\ ResolvePath(path, locations[l]) = StoredAt(loc.store, n, ext)
<1> DEFINE uri  == DeriveUriFromStore(loc.root, loc.store)
           name == UploadNames[n] \o ext
           p    == Collapse(uri)
           path == Collapse(uri \o Root \o name)
           l    == MatchLocation(p, locations)
           loc2 == locations[l]
           q    == Absolute(loc.store)
           dir  == NormalizePath(q)
<1>1. IsLocation(loc)
  BY DEF HasLocations, ToSet
<1>2. loc.root \in Seq(STRING) /\ loc.store \in Seq(STRING) /\ loc.store # <<>>
  BY <1>1, Zenon DEF IsLocation, HasStore, Absent
<1>3. ext \in NoSlash
  BY ReceivedExtension DEF Extensions
<1>4. name \in Proper(STRING)
  BY <1>3, UploadName
<1>5. name \in Plain(STRING) /\ name # <<>> /\ name \in Seq(STRING)
  BY <1>4, ProperName
<1>6. uri \in Seq(STRING) /\ uri # <<>> /\ Head(uri) = Slash
  BY <1>2, AddressIs
<1>7. /\ l # 0 /\ ~loc2.hasReturn /\ ~loc2.hasCgi
      /\ RealPath(loc2.root) # Root
      /\ ResolvePath(p, loc2) = dir
      /\ MatchLocation(path, locations) = l
  BY Zenon DEF Addressed
<1> HIDE DEF name, uri
<1>8. p \in Seq(STRING) /\ p # <<>> /\ Head(p) = Slash
  BY <1>6, CollapseHead
<1>9. path = JoinPath(p, name)
  BY <1>5, <1>6, SlashIsText, CollapseDown
<1> HIDE DEF p, path
<1>10. BestMatch(p, locations, l)
  BY <1>7, MatchIsBest, Zenon
<1>11. BestMatch(path, locations, l)
  BY <1>7, MatchIsBest, Zenon
<1>12. l \in DOMAIN locations /\ IsLocation(loc2)
       /\ IsPrefixMatch(p, loc2.path) /\ IsPrefixMatch(path, loc2.path)
  BY <1>10, <1>11, Zenon DEF BestMatch, HasLocations
<1>13. q \in Seq(STRING)
  BY <1>2, TreeAssumption, SlashIsText, AbsoluteIs
<1>14. dir # Absent /\ Names(dir) = Names(q)
  BY <1>13, SlashIsText, NormalizeIs DEF Absent
<1> HIDE DEF l, loc2, dir, q
<1>15. ResolvePath(path, loc2) = Text(Append(Names(dir), name))
  <2>1. ResolvePath(p, loc2) # Absent
    BY <1>7, <1>14
  <2> QED
    BY <1>4, <1>7, <1>8, <1>9, <1>12, <2>1, ResolvedDown
<1>16. StoredAt(loc.store, n, ext) = Text(Append(Names(q), name))
  <2> DEFINE f == Absolute(JoinPath(loc.store, name))
  <2>1. StoredAt(loc.store, n, ext) = NormalizePath(f)
    BY Zenon DEF StoredAt, name
  <2>2. Cwd \in Seq(STRING)
    BY TreeAssumption, Zenon
  <2>3. f \in Seq(STRING) /\ Names(f) = Append(Names(q), name)
    BY <1>2, <1>4, <2>2, SlashIsText, NamesOfJoined DEF q
  <2>4. Names(q) \in Seq(Proper(STRING))
    BY <1>13, NamesOfPath
  <2> HIDE DEF f
  <2>5. NormalizePath(f) = IF Names(f) = <<>> THEN Root ELSE Text(Names(f))
    BY <2>3, SlashIsText, NormalizeIs
  <2>6. Append(Names(q), name) # <<>>
    BY <1>4, <2>4, AppendProperties
  <2> QED
    BY <2>1, <2>3, <2>5, <2>6
<1>17. ResolvePath(path, loc2) = StoredAt(loc.store, n, ext)
  BY <1>14, <1>15, <1>16
<1> QED
  BY <1>7, <1>12, <1>17, Zenon DEF path, name, uri, loc2, l

(* So does the link of an upload, which no CGI program takes over.         *)
LEMMA OfferedLeads ==
    ASSUME StoresAddressed, NEW u, Offered(u)
    PROVE  Routed([host |-> u.host, path |-> u.link, method |-> "GET"]).file = u.file
<1> DEFINE r == [host |-> u.host, path |-> u.link, method |-> "GET"]
           s == FindServer(u.host)
           locations == Servers[s].locations
<1>1. r.host = u.host /\ r.path = u.link
  OBVIOUS
<1>2. s \in DOMAIN Servers /\ HasLocations(locations)
  BY FoundServer
<1>3. PICK loc \in ToSet(locations), n \in 1..Len(UploadNames), ext \in Extensions :
              StoredIn(u, loc, n, ext)
  BY Zenon DEF Offered
<1>4. Addressed(locations, loc) /\ HasStore(loc)
  BY <1>2, <1>3, Zenon DEF StoresAddressed, StoredIn
<1> DEFINE path == Collapse(u.link)
           l    == MatchLocation(path, locations)
<1> HIDE DEF r, s
<1>5. /\ l \in DOMAIN locations /\ ~locations[l].hasCgi
      /\ ResolvePath(path, locations[l]) = u.file
  <2> DEFINE at == Collapse(DeriveUriFromStore(loc.root, loc.store)
                             \o Root \o (UploadNames[n] \o ext))
             k  == MatchLocation(at, locations)
  <2>1. at = path /\ u.file = StoredAt(loc.store, n, ext)
    BY <1>3, Zenon DEF StoredIn
  <2> HIDE DEF locations
  <2>2. /\ k \in DOMAIN locations /\ ~locations[k].hasCgi
        /\ ResolvePath(at, locations[k]) = StoredAt(loc.store, n, ext)
    BY <1>2, <1>4, AddressLeads
  <2> HIDE DEF at
  <2> QED
    BY <2>1, <2>2, Zenon
<1>6. l # 0
  BY <1>2, <1>5 DEF HasLocations
<1>7. ResolveCgiPathInfo(path, locations[l], DOMAIN files).script = path
  <2>1. Scripts(StripLocationPrefix(path, locations[l].path), locations[l], DOMAIN files) = {}
    BY <1>5 DEF Scripts
  <2>2. ResolveCgiPathInfo(path, locations[l], DOMAIN files) = [script |-> path, info |-> Absent]
    BY <2>1, Zenon DEF ResolveCgiPathInfo
  <2> QED
    BY <2>2
<1>8. Routed(r).file = ResolvePath(path, locations[l])
  <2> DEFINE split == ResolveCgiPathInfo(path, locations[l], DOMAIN files)
             route == [server |-> s, loc |-> l, script |-> split.script, info |-> split.info,
                       file |-> ResolvePath(split.script, locations[l])]
  <2>1. Routed(r) = route
    BY <1>1, <1>6, Zenon DEF Routed, s
  <2>2. route.file = ResolvePath(split.script, locations[l])
    OBVIOUS
  <2> QED
    BY <1>7, <2>1, <2>2, Zenon
<1> QED
  BY <1>5, <1>8 DEF r

(* An upload that is answered 201 is offered by the location it went to.   *)
LEMMA UploadOffers ==
    ASSUME FInv, AllOffered, NEW r \in Explored, Upload(r, Routed(r))
    PROVE  AllOffered'
<1> DEFINE route    == Routed(r)
           loc      == Location(route)
           received == Received(r.type, r.delimiter, r.body)
           n        == counter + 1
           ext      == received.ext
           name     == UploadNames[n] \o ext
           file     == StoredAt(loc.store, n, ext)
           link     == DeriveUriFromStore(loc.root, loc.store) \o Root \o name
           entry    == [file |-> file, sent |-> r.sent, host |-> r.host, link |-> link]
<1>1. r \in Posted /\ n \in 1..Len(UploadNames)
  BY UploadIsCounted, Zenon
<1>2. ext \in Extensions
  BY <1>1 DEF Extensions
<1>3. HasStore(loc)
  <2>1. CheckUpload(r, route) = 0
    BY Zenon DEF Upload
  <2>2. 413 # 0 /\ 405 # 0 /\ 500 # 0 /\ 403 # 0
    OBVIOUS
  <2>3. loc.upload /\ loc.store # Absent
        /\ NormalizePath(Absolute(loc.store)) \in Dirs
        /\ NormalizePath(Absolute(loc.store)) \notin Locked
    BY <2>1, <2>2, Zenon DEF CheckUpload
  <2> QED
    BY <2>3, Zenon DEF HasStore
<1>4. loc \in ToSet(Servers[FindServer(r.host)].locations)
  <2>1. route.loc # 0
    BY RouteHasLocation, Zenon DEF Upload, Serves, ForHandler
  <2>2. route.loc \in DOMAIN Servers[route.server].locations
    BY <2>1, RoutedBest, Zenon DEF BestMatch
  <2>3. route.server = FindServer(r.host)
    BY DEF Routed
  <2> QED
    BY <2>2, <2>3 DEF ToSet, Location
<1>5. Store(r, route, received)
  BY Zenon DEF Upload
<1>6. UNCHANGED uploads \/ uploads' = uploads \union {entry}
  BY <1>5, Zenon DEF Store
<1>7. entry.host = r.host /\ entry.file = file /\ entry.link = link
  OBVIOUS
<1> HIDE DEF entry
<1>8. StoredIn(entry, loc, n, ext)
  BY <1>3, <1>7, Zenon DEF StoredIn
<1>9. Offered(entry)
  BY <1>1, <1>2, <1>4, <1>7, <1>8, Zenon DEF Offered
<1>10. \A u \in uploads' : u \in uploads \/ u = entry
  BY <1>6
<1>11. \A u \in uploads' : Offered(u)
  BY <1>9, <1>10, Zenon DEF AllOffered
<1>12. \A u : Offered(u)' <=> Offered(u)
  BY Zenon DEF Offered, StoredIn
<1> QED
  BY <1>11, <1>12, Zenon DEF AllOffered

(* The invariant for the addresses: every upload was stored by a location  *)
(* that is there, and its link was made for that store.                    *)
LInv == FInv /\ AllOffered

(* Only an upload adds a link.                                             *)
LEMMA StepKeepsL ==
    ASSUME LInv, [Next]_vars
    PROVE  LInv'
<1>1. FInv /\ FInv' /\ AllOffered
  BY StepKeepsF, Zenon DEF LInv
<1>2. ASSUME uploads' \subseteq uploads PROVE AllOffered'
  BY <1>1, <1>2 DEF AllOffered, Offered, StoredIn
<1>3. ASSUME Next PROVE AllOffered'
  <2>1. PICK r \in Explored :
          \/ Unresolved(r, Routed(r)) \/ RunCgi(r, Routed(r)) \/ Redirect(r, Routed(r))
          \/ Refuse(r, Routed(r)) \/ Get(r, Routed(r)) \/ RefuseUpload(r, Routed(r))
          \/ Delete(r, Routed(r)) \/ Upload(r, Routed(r))
    BY <1>3, Zenon DEF Next
  <2>2. CASE Upload(r, Routed(r))
    BY <1>1, <2>2, UploadOffers
  <2>3. CASE Delete(r, Routed(r))
    <3>1. UNCHANGED uploads \/ uploads' = {u \in uploads : u.file # Routed(r).file}
      BY <2>3, Zenon DEF Delete
    <3> QED
      BY <1>2, <3>1
  <2>4. CASE Leaves
    BY <1>2, <2>4 DEF Leaves
  <2> QED
    BY <2>1, <2>2, <2>3, <2>4, HandlersLeave, Zenon
<1>4. ASSUME UNCHANGED vars PROVE AllOffered'
  BY <1>2, <1>4 DEF vars
<1> QED
  BY <1>1, <1>3, <1>4, Zenon DEF LInv

(* Nothing has been uploaded at the start.                                 *)
LEMMA InitiallyL == Init => LInv
<1>1. Init => AllOffered
  BY Zenon DEF Init, AllOffered
<1> QED
  BY <1>1, InitiallyF, Zenon DEF LInv

-----------------------------------------------------------------------------
(* The theorems.                                                           *)

(* RInv holds in every state.                                              *)
THEOREM RequestsInvariant == Spec => []RInv
BY InitiallyR, StepKeepsR, PTL DEF Spec

(* Files are texts under canonical paths that lead to them and are none of *)
(* the directories, names for uploads are counted, an answer has the       *)
(* status of a request that was made, and no upload is answered without an *)
(* address (UploadHandler.cpp, RequestHandler::handleDELETE).              *)
THEOREM RequestTypeCorrect == Spec => []TypeOK
<1>1. RInv => TypeOK
  BY Zenon DEF RInv, LastInv
<1> QED
  BY <1>1, RequestsInvariant, PTL

(* A request goes to the deepest location that covers its path name by     *)
(* name, although matchLocation compares texts (HandlerResolver.cpp).      *)
THEOREM RoutedToTheDeepest == Spec => []MostSpecific
<1>1. RInv => MostSpecific
  BY Zenon DEF RInv, LastInv
<1> QED
  BY <1>1, RequestsInvariant, PTL

(* Whatever dots and slashes a path has, what is served, deleted or run is *)
(* below the root of its location, and an upload goes straight into its    *)
(* store (HandlerResolver::resolvePath, UploadHandler::handle).            *)
THEOREM StaysBelowRoot == Spec => []Confined
<1>1. RInv => Confined
  BY Zenon DEF RInv, LastInv
<1> QED
  BY <1>1, RequestsInvariant, PTL

(* A path without ".." is not refused as one that leaves its root.         *)
THEOREM PlainPathsAccepted == Spec => []InsideAccepted
<1>1. RInv => InsideAccepted
  BY Zenon DEF RInv, LastInv
<1> QED
  BY <1>1, RequestsInvariant, PTL

(* What a CGI program is told of its script and of the path behind it is   *)
(* what the request said (HandlerResolver::resolveCgiPathInfo).            *)
THEOREM CgiIsToldThePath == Spec => []SplitFaithful
<1>1. RInv => SplitFaithful
  BY Zenon DEF RInv, LastInv
<1> QED
  BY <1>1, RequestsInvariant, PTL

(* FInv holds in every state.                                              *)
THEOREM FilesInvariant == Spec => []FInv
BY InitiallyF, StepKeepsF, PTL DEF Spec

(* For any site, requests and files: an upload that was answered 201 is in *)
(* its file, whole and as sent, until a DELETE of that file is answered    *)
(* 204 (UploadHandler.cpp, RequestHandler::handleDELETE).                  *)
THEOREM UploadsStay == Spec => []UploadsKept
<1>1. FInv => UploadsKept
  BY Zenon DEF FInv
<1> QED
  BY <1>1, FilesInvariant, PTL

(* A file whose removal was answered 204 does not come back: no upload     *)
(* takes the name of one that was there before (makeUploadFilename).       *)
THEOREM RemovedStay == Spec => []RemovedStayGone
<1>1. FInv => RemovedStayGone
  BY Zenon DEF FInv
<1> QED
  BY <1>1, FilesInvariant, PTL

(* Files change only by a request whose method its location allows, and    *)
(* only the file that the answer is about (RequestHandler::checkMethod).   *)
THEOREM ChangesAllowed == Spec => OnlyAllowedChange
<1> DEFINE Allowed ==
        files' # files =>
            /\ LastLocation'.methods = {} \/ last'.req.method \in LastLocation'.methods
            /\ \A f \in (DOMAIN files \union DOMAIN files') \ {last'.file} :
                  f \in DOMAIN files /\ f \in DOMAIN files' /\ files'[f] = files[f]
<1>1. ASSUME Next PROVE Allowed
  <2> SUFFICES ASSUME files' # files PROVE Allowed
    OBVIOUS
  <2>1. PICK r : Delete(r, Routed(r)) \/ Upload(r, Routed(r))
    BY <1>1, HandlersLeave, Zenon DEF Next, Leaves
  <2> DEFINE route == Routed(r)
  <2>2. CheckMethod(r, route) = 0
    BY <2>1, Zenon DEF Delete, Upload, Serves
  <2>3. Location(route).methods = {} \/ r.method \in Location(route).methods
    BY <2>2 DEF CheckMethod
  <2>4. PICK file :
           /\ \E status : AnswerIs(r, route, file, status)
           /\ \A f \in (DOMAIN files \union DOMAIN files') \ {file} :
                 f \in DOMAIN files /\ f \in DOMAIN files' /\ files'[f] = files[f]
    <3>1. CASE Delete(r, route)
      <4>1. \E status : AnswerIs(r, route, route.file, status)
        BY <3>1, Zenon DEF Delete, AnswerIs
      <4>2. files' = Without(route.file)
        BY <3>1, Zenon DEF Delete
      <4> QED
        BY <4>1, <4>2 DEF Without
    <3>2. CASE Upload(r, route)
      <4> DEFINE received == Received(r.type, r.delimiter, r.body)
                 file     == StoredAt(Location(route).store, counter + 1, received.ext)
      <4>1. \E status : AnswerIs(r, route, file, status)
        BY <3>2, Zenon DEF Upload, Store, AnswerIs
      <4>2. Written(file, received.content, r)
        BY <3>2, UploadWrites, Zenon
      <4> HIDE DEF file, received
      <4>3. PICK part : files' = With(files, file, part)
        BY <4>2, Zenon DEF Written
      <4>4. OneMore(files', files, file, part)
        BY <4>3, WithOneMore, Zenon
      <4>5. \A f \in (DOMAIN files \union DOMAIN files') \ {file} :
               f \in DOMAIN files /\ f \in DOMAIN files' /\ files'[f] = files[f]
        BY <4>4 DEF OneMore
      <4> QED
        BY <4>1, <4>5, Zenon
    <3> QED
      BY <2>1, <3>1, <3>2, Zenon
  <2>5. last'.file = file /\ last'.req = r /\ last'.route = route
    BY <2>4 DEF AnswerIs, Answered, Failed, FailedAmong
  <2>6. LastLocation' = Location(route)
    BY <2>5, Zenon DEF LastLocation, Location
  <2> QED
    BY <2>3, <2>4, <2>5, <2>6, Zenon
<1>2. ASSUME UNCHANGED vars PROVE Allowed
  BY <1>2, Zenon DEF vars
<1> QED
  BY <1>1, PTL DEF Spec, OnlyAllowedChange

(* On every site where the addresses of the stores lead to the stores      *)
(* (StoresAddressed, which the configuration and the directories decide),  *)
(* for any files, requests and names: the Location header of a 201 leads   *)
(* back to the file that was stored, by the location that answers for it   *)
(* (UploadHandler.cpp, deriveUriFromStore; HandlerResolver.cpp).           *)
THEOREM LinksLeadBack ==
    ASSUME StoresAddressed
    PROVE  Spec => []LinksLead
<1>1. LInv => LinksLead
  BY OfferedLeads, Zenon DEF LInv, AllOffered, LinksLead
<1> QED
  BY <1>1, InitiallyL, StepKeepsL, PTL DEF Spec
=============================================================================
