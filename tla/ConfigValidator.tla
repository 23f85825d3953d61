--------------------------- MODULE ConfigValidator ---------------------------
(***************************************************************************)
(* Which trees are accepted (src/src/config/ConfigValidator.cpp).          *)
(*                                                                         *)
(* The words of a tree are sequences of characters; a keyword or a suffix  *)
(* is one of them.  Bound: the ports that are written are below 2^31, so   *)
(* that atoi() reads what is written.                                      *)
(***************************************************************************)
EXTENDS Paths

DigitsInOrder == <<"0", "1", "2", "3", "4", "5", "6", "7", "8", "9">>
IsDigit(ch)   == ch \in ToSet(DigitsInOrder)
Digit(ch)     == (CHOOSE i \in DOMAIN DigitsInOrder : DigitsInOrder[i] = ch) - 1
IsNumber(word) == word # <<>> /\ \A ch \in ToSet(word) : IsDigit(ch)

(* strtoul(), which stays at the largest value.  SizeMax stands for        *)
(* SIZE_MAX, and is the largest integer of TLC.                            *)
SizeMax == 2147483647
Number(word) ==
    FoldLeft(LAMBDA n, ch : LET d == Digit(ch)
                            IN  IF n > (SizeMax - d) \div 10 THEN SizeMax ELSE 10 * n + d,
             0, word)

(* The digits that a word begins with, and the rest of it.                 *)
NumberLength(word) == Max({n \in 0..Len(word) : \A i \in 1..n : IsDigit(word[i])})
NumberPart(word)   == SubSeq(word, 1, NumberLength(word))
Suffix(word)       == SubSeq(word, NumberLength(word) + 1, Len(word))

(* The two halves of a listen argument, at its last colon.                 *)
Colon == ":"
Colons(word) == {i \in DOMAIN word : word[i] = Colon}
AddressPart(word) == IF Colons(word) = {} THEN <<"0.0.0.0">>
                     ELSE SubSeq(word, 1, Max(Colons(word)) - 1)
PortPart(word)    == IF Colons(word) = {} THEN word
                     ELSE SubSeq(word, Max(Colons(word)) + 1, Len(word))

-----------------------------------------------------------------------------
(* The directives: where they are allowed, and how many arguments they take. *)
Unlimited == 1000
Rule(name, inServer, inLocation, min, max) ==
    [name |-> <<name>>, server |-> inServer, location |-> inLocation, args |-> min..max]

Rules ==
    { Rule("listen", TRUE, FALSE, 1, 1),       Rule("server_name", TRUE, FALSE, 1, Unlimited),
      Rule("root", TRUE, TRUE, 1, 1),          Rule("index", TRUE, TRUE, 1, Unlimited),
      Rule("client_max_body_size", TRUE, TRUE, 1, 1), Rule("return", FALSE, TRUE, 1, 2),
      Rule("error_page", TRUE, TRUE, 2, 2),    Rule("allow_methods", FALSE, TRUE, 1, Unlimited),
      Rule("autoindex", FALSE, TRUE, 1, 1),    Rule("upload", FALSE, TRUE, 1, 1),
      Rule("upload_store", FALSE, TRUE, 1, 1), Rule("cgi", FALSE, TRUE, 1, 1),
      Rule("cgi_exec", FALSE, TRUE, 2, 2) }

Methods  == {<<"GET">>, <<"POST">>, <<"DELETE">>}
On       == <<"on">>
Switches == {On, <<"off">>}

Named(d, name) == d.name = <<name>>
IsCode(word, codes) == Len(word) = 3 /\ IsNumber(word) /\ Number(word) \in codes

Ports == 1..65535
ListenOkFromZero(word) ==    \* mutant: port 0 is accepted
    IsNumber(PortPart(word)) /\ Number(PortPart(word)) \in 0..65535
ListenOk(word) == IsNumber(PortPart(word)) /\ Number(PortPart(word)) \in Ports

SizeSuffixes == {<<>>, <<"K">>, <<"KB">>, <<"M">>, <<"MB">>, <<"G">>, <<"GB">>}
SizeOk(word) == NumberLength(word) > 0 /\ Suffix(word) \in SizeSuffixes

(* _argValidators.                                                         *)
ArgsOk(d) ==
    /\ Named(d, "listen") => ListenOk(d.args[1])
    /\ Named(d, "client_max_body_size") => SizeOk(d.args[1])
    /\ Named(d, "error_page") => \A i \in 1..Len(d.args) - 1 : IsCode(d.args[i], 400..599)
    /\ Named(d, "return") => IsCode(d.args[1], 100..599)
    /\ Named(d, "cgi_exec") => Head(d.args[1]) = Dot
    /\ Named(d, "allow_methods") => ToSet(d.args) \subseteq Methods
    /\ \A name \in {"autoindex", "cgi", "upload"} :
          Named(d, name) => ToSet(d.args) \subseteq Switches

DirectiveOk(d, block) ==
    /\ \E r \in Rules : r.name = d.name /\ r[block] /\ Len(d.args) \in r.args
    /\ ArgsOk(d)

-----------------------------------------------------------------------------
(* The directives of one block together.                                   *)
At(ds, name)  == {i \in DOMAIN ds : Named(ds[i], name)}
Has(ds, name) == At(ds, name) # {}
SwitchedOn(ds, name) == Has(ds, name) /\ ds[Max(At(ds, name))].args[1] = On

CheckCardinality(ds) ==
    \A name \in {"root", "index", "client_max_body_size"} : Cardinality(At(ds, name)) <= 1

CheckConcurrence(ds) == Has(ds, "return") => ~Has(ds, "root") /\ ~Has(ds, "index")

ContextualOneWay(ds) ==    \* mutant: a store does not ask for "upload on"
    /\ SwitchedOn(ds, "cgi") <=> Has(ds, "cgi_exec")
    /\ SwitchedOn(ds, "upload") => Has(ds, "upload_store")
ValidateContextualRules(ds) ==
    /\ SwitchedOn(ds, "cgi") <=> Has(ds, "cgi_exec")
    /\ SwitchedOn(ds, "upload") <=> Has(ds, "upload_store")

ValidBlock(ds, block) ==
    /\ \A i \in DOMAIN ds : DirectiveOk(ds[i], block)
    /\ CheckCardinality(ds)
    /\ CheckConcurrence(ds)
    /\ ValidateContextualRules(ds)

ValidateServer(s) ==
    /\ Has(s.directives, "listen")
    /\ ValidBlock(s.directives, "server")
    /\ \A i \in DOMAIN s.locations : ValidBlock(s.locations[i].directives, "location")

Validate(ast) == ast # <<>> /\ \A i \in DOMAIN ast : ValidateServer(ast[i])
=============================================================================
