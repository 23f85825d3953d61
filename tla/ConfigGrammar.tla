---------------------------- MODULE ConfigGrammar ----------------------------
(***************************************************************************)
(* What a configuration file says, apart from how it is parsed: the        *)
(* grammar of src/grammar.md as predicates on sequences of tokens, and     *)
(* the ways in which a sequence of tokens may be laid out in a file.       *)
(***************************************************************************)
EXTENDS ConfigParser

(* A sequence that splits into parts of which each is a P.                 *)
Star(P(_), ts) ==
    LET splits[i \in 1..Len(ts) + 1] ==
            \/ i = Len(ts) + 1
            \/ \E j \in i..Len(ts) : P(SubSeq(ts, i, j)) /\ splits[j + 1]
    IN  splits[1]

(* directive -> WORD WORD* ";"                                             *)
IsDirective(ts) ==
    Len(ts) >= 2 /\ Last(ts) = Semicolon /\ \A t \in ToSet(Front(ts)) : IsWord(t)

(* location -> "location" WORD "{" directive* "}"                          *)
IsLocation(ts) ==
    /\ Len(ts) >= 4 /\ ts[1] = LocationWord /\ IsWord(ts[2]) /\ ts[3] = LBrace
    /\ Last(ts) = RBrace
    /\ Star(IsDirective, SubSeq(ts, 4, Len(ts) - 1))

(* server -> "server" "{" (directive | location)* "}", where what begins   *)
(* with "location" is a location.                                          *)
IsItem(ts) ==
    \/ IsLocation(ts)
    \/ ts[1] # LocationWord /\ IsDirective(ts)
IsServer(ts) ==
    /\ Len(ts) >= 3 /\ ts[1] = ServerWord /\ ts[2] = LBrace /\ Last(ts) = RBrace
    /\ Star(IsItem, SubSeq(ts, 3, Len(ts) - 1))

(* config -> server*                                                       *)
IsConfig(ts) == Star(IsServer, ts)

-----------------------------------------------------------------------------
(* A tree written down: the directives of a block before its locations, or *)
(* after them.                                                             *)
DirectivesText(ds) == FlattenSeq([i \in DOMAIN ds |-> <<ds[i].name>> \o ds[i].args \o <<Semicolon>>])
LocationsText(ls) ==
    FlattenSeq([i \in DOMAIN ls |->
        <<LocationWord, ls[i].path, LBrace>> \o DirectivesText(ls[i].directives) \o <<RBrace>>])
ServerText(s, first) ==
    <<ServerWord, LBrace>>
    \o (IF first = "directives" THEN DirectivesText(s.directives) \o LocationsText(s.locations)
        ELSE LocationsText(s.locations) \o DirectivesText(s.directives))
    \o <<RBrace>>
Orders == {"directives", "locations"}
Sentence(ast, first) == FlattenSeq([i \in DOMAIN ast |-> ServerText(ast[i], first)])

(* Layouts: what stands between two tokens.  Only between two words must   *)
(* there be something at all.                                              *)
Layouts == {"tight", "lines", "remarks"}
Gap(layout, left, right) ==
    CASE layout = "tight"   -> IF IsWord(left) /\ IsWord(right) THEN <<" ">> ELSE <<>>
      [] layout = "lines"   -> <<NewLine>>
      [] layout = "remarks" -> <<Hash, "{", NewLine>>
LayOut(ts, layout) ==
    FlattenSeq([i \in DOMAIN ts |->
        IF i = 1 THEN ts[1] ELSE Gap(layout, ts[i - 1], ts[i]) \o ts[i]])

(* A tree that can be written down has words without a character that ends *)
(* a word, and no directive of a server is called "location".              *)
PlainWords ==
    {w \in Seq(STRING) : w # <<>> /\ ToSet(w) \intersect (Blanks \union Delimiters \union {Hash}) = {}}
PlainDirectives == [name : PlainWords, args : Seq(PlainWords)]
PlainLocations  == [path : PlainWords, directives : Seq(PlainDirectives)]
PlainServers ==
    {s \in [directives : Seq(PlainDirectives), locations : Seq(PlainLocations)] :
        \A i \in DOMAIN s.directives : s.directives[i].name # LocationWord}

StandsFor(text, tree) ==
    /\ tree \in Seq(PlainServers)
    /\ \E first \in Orders, layout \in Layouts : text = LayOut(Sentence(tree, first), layout)
=============================================================================
