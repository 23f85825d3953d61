---------------------------- MODULE ConfigParser ----------------------------
(***************************************************************************)
(* The configuration file, from its characters to a tree                   *)
(* (src/src/config/Tokenizer.cpp and ConfigParser.cpp).                    *)
(*                                                                         *)
(* A text is a sequence of characters; a keyword or a name whose letters   *)
(* do not matter is one symbol.  A token is the sequence of its            *)
(* characters: no word contains a delimiter, so that the type of a token   *)
(* shows in its first one.                                                 *)
(***************************************************************************)
EXTENDS Integers, SequencesExt, FiniteSetsExt

Delimiters == {"{", "}", ";"}
NewLine    == "\n"
Blanks     == {" ", NewLine}
Hash       == "#"

LBrace    == <<"{">>
RBrace    == <<"}">>
Semicolon == <<";">>
IsWord(token) == Head(token) \notin Delimiters

ServerWord   == <<"server">>
LocationWord == <<"location">>

-----------------------------------------------------------------------------
(* Tokenizer.  A remark goes on to the end of its line; skipWhitespace and *)
(* the reading of a word start at the position i.                          *)
InRemark(text, i, j) ==
    \E k \in i..j : text[k] = Hash /\ NewLine \notin ToSet(SubSeq(text, k, j))

SkipWhitespace(text, i) ==
    Min({j \in i..Len(text) : text[j] \notin Blanks /\ ~InRemark(text, i, j)}
        \union {Len(text) + 1})

WordEndKeepsHash(text, i) ==    \* mutant: a remark starts only after a blank
    Min({j \in i..Len(text) : text[j] \in Blanks \union Delimiters} \union {Len(text) + 1})
WordEnd(text, i) ==
    Min({j \in i..Len(text) : text[j] \in Blanks \union Delimiters \union {Hash}}
        \union {Len(text) + 1})

Tokens(text) ==
    LET from[i \in 1..Len(text) + 1] ==
            LET start == SkipWhitespace(text, i)
                next  == IF text[start] \in Delimiters THEN start + 1 ELSE WordEnd(text, start)
            IN  IF start > Len(text) THEN <<>>
                ELSE <<SubSeq(text, start, next - 1)>> \o from[next]
    IN  from[1]

-----------------------------------------------------------------------------
(* ConfigParser.  The tree is a sequence of servers [directives,           *)
(* locations]; a directive is [name, args], a location [path, directives]. *)
(* A parse is [level, words, ast]: the block that is open, the words since *)
(* the last directive or brace, and the tree up to here.                   *)
Directive(words) == [name |-> Head(words), args |-> Tail(words)]

Fail(p)       == [p EXCEPT !.level = "error"]
Word(p, t)    == [p EXCEPT !.words = Append(@, t)]
Enter(level, ast) == [level |-> level, words |-> <<>>, ast |-> ast]
Close(p, level)   == Enter(level, p.ast)

InConfig(p, t) ==
    CASE p.words = <<>> /\ t = ServerWord -> Word(p, t)
      [] p.words # <<>> /\ t = LBrace ->
            Enter("server", Append(p.ast, [directives |-> <<>>, locations |-> <<>>]))
      [] OTHER -> Fail(p)

InServer(p, t) ==
    LET n       == Len(p.ast)
        locates == p.words # <<>> /\ Head(p.words) = LocationWord   \* in parseLocation
    IN  CASE IsWord(t) /\ (locates => Len(p.words) < 2) -> Word(p, t)
          [] t = LBrace /\ locates /\ Len(p.words) = 2 ->
                Enter("location",
                      [p.ast EXCEPT ![n].locations =
                         Append(@, [path |-> p.words[2], directives |-> <<>>])])
          [] t = Semicolon /\ p.words # <<>> /\ ~locates ->
                Enter("server", [p.ast EXCEPT ![n].directives = Append(@, Directive(p.words))])
          [] t = RBrace /\ p.words = <<>> -> Close(p, "config")
          [] OTHER -> Fail(p)

InLocation(p, t) ==
    LET n == Len(p.ast)
        l == Len(p.ast[n].locations)
    IN  CASE IsWord(t) -> Word(p, t)
          [] t = Semicolon /\ p.words # <<>> ->
                Enter("location",
                      [p.ast EXCEPT ![n].locations[l].directives = Append(@, Directive(p.words))])
          [] t = RBrace /\ p.words = <<>> -> Close(p, "server")
          [] OTHER -> Fail(p)

ParseToken(p, t) ==
    CASE p.level = "config"   -> InConfig(p, t)
      [] p.level = "server"   -> InServer(p, t)
      [] p.level = "location" -> InLocation(p, t)
      [] p.level = "error"    -> p

Parse(tokens) ==
    LET parsed[i \in 0..Len(tokens)] ==
            IF i = 0 THEN Enter("config", <<>>) ELSE ParseToken(parsed[i - 1], tokens[i])
    IN  parsed[Len(tokens)]

(* What ConfigParser::parse returns; without it, it throws a SyntaxError.  *)
AcceptsUnclosed(p) == p.level # "error" /\ p.words = <<>>    \* mutant: a "}" may be missing
Accepts(p) == p.level = "config" /\ p.words = <<>>
=============================================================================
