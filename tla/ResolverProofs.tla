---------------------------- MODULE ResolverProofs ---------------------------
(***************************************************************************)
(* Proofs about ConfigValidator.tla and ConfigResolver.tla: what comes out *)
(* of an accepted tree is what is written in it.  A run of                 *)
(* applyServerDirectives or applyLocationDirectives leaves what the        *)
(* directives of the block say (ServerIsRead, LocationIsRead), what the    *)
(* inheritance makes of it is what First and SizeFor say (LocationBuilt),  *)
(* sorting loses and adds nothing (SortedIs), and the servers of a key are *)
(* those that ask for it (ResolvedIs).                                     *)
(***************************************************************************)
EXTENDS ConfigAsWritten, FoldProofs, FiniteSetTheorems, TLAPS

-----------------------------------------------------------------------------
(* Numbers.                                                                *)
Digits == ToSet(DigitsInOrder)

LEMMA SizeMaxIs == SizeMax \in Nat /\ SizeMax >= 1024 * 1024 * 1024
BY SMT DEF SizeMax

LEMMA DigitIs ==
    ASSUME NEW ch \in Digits
    PROVE  Digit(ch) \in 0..9
<1>1. PICK i \in DOMAIN DigitsInOrder : ch = DigitsInOrder[i]
  BY DEF Digits, ToSet
<1>2. DOMAIN DigitsInOrder = 1..10
  BY DEF DigitsInOrder
<1> DEFINE j == CHOOSE k \in DOMAIN DigitsInOrder : DigitsInOrder[k] = ch
<1>3. j \in DOMAIN DigitsInOrder
  BY <1>1
<1> HIDE DEF j
<1>4. j - 1 \in 0..9
  BY <1>2, <1>3
<1> QED
  BY <1>4, Zenon DEF Digit, j

DigitStep == [p \in (0..SizeMax) \X Digits |->
                 IF p[1] > (SizeMax - Digit(p[2])) \div 10 THEN SizeMax ELSE 10 * p[1] + Digit(p[2])]

(* A number is read digit by digit.                                        *)
LEMMA NumberRuns ==
    ASSUME NEW text \in Seq(Digits)
    PROVE  /\ 0 \in 0..SizeMax
           /\ DigitStep \in [(0..SizeMax) \X Digits -> 0..SizeMax]
           /\ Number(text) = Run(DigitStep, 0, text)
<1> DEFINE X == 0..SizeMax
           Z == Digits
           op == DigitStep
           step(n, ch) == LET d == Digit(ch)
                          IN  IF n > (SizeMax - d) \div 10 THEN SizeMax ELSE 10 * n + d
           Rec(it) == it = [s \in SUBSET DOMAIN text |->
                               IF s = {} THEN 0 ELSE step(it[s \ {Max(s)}], text[Max(s)])]
           C == CHOOSE it : Rec(it)
<1>1. Number(text) = C[DOMAIN text]
  BY Zenon DEF Number, FoldLeft, MapThenFoldSet
<1>2. 0 \in X /\ op \in [X \X Z -> X] /\ \A x \in X, y \in Z : op[<<x, y>>] = step(x, y)
  <2>1. ASSUME NEW x \in X, NEW y \in Z PROVE step(x, y) \in X
    <3>1. Digit(y) \in 0..9
      BY DigitIs
    <3> DEFINE d == Digit(y)
    <3> HIDE DEF d
    <3>2. d \in 0..9
      BY <3>1 DEF d
    <3>3. CASE x > (SizeMax - d) \div 10
      BY <3>3, SizeMaxIs DEF d
    <3>4. CASE ~(x > (SizeMax - d) \div 10)
      <4>1. 10 * x + d \in X
        BY <3>2, <3>4, SizeMaxIs
      <4> QED
        BY <3>4, <4>1 DEF d
    <3> QED
      BY <3>3, <3>4
  <2>2. 0 \in X
    BY SizeMaxIs
  <2>3. op = [p \in X \X Z |-> step(p[1], p[2])]
    BY DEF DigitStep
  <2> HIDE DEF op, X, Z, step
  <2> QED
    BY <2>1, <2>2, <2>3
<1> HIDE DEF op, X, Z
<1>3. \E it : Rec(it)
  <2>1. PICK it \in [SUBSET DOMAIN text -> X] : Folded(it, op, 0, text)
    BY <1>2, FoldsExist DEF Z
  <2>2. ASSUME NEW s \in SUBSET DOMAIN text, s # {}
        PROVE  op[<<it[s \ {Max(s)}], text[Max(s)]>>] = step(it[s \ {Max(s)}], text[Max(s)])
    <3>1. text[Max(s)] \in Z
      BY <2>2, PlaceOfMax DEF Z
    <3>2. it[s \ {Max(s)}] \in X
      BY <2>1
    <3> HIDE DEF step
    <3> QED
      BY <1>2, <3>1, <3>2
  <2> HIDE DEF step
  <2>3. it = [s \in SUBSET DOMAIN text |->
                 IF s = {} THEN 0 ELSE step(it[s \ {Max(s)}], text[Max(s)])]
    BY <2>1, <2>2 DEF Folded
  <2> QED
    BY <2>3
<1> HIDE DEF step
<1>4. Rec(C)
  BY <1>3
<1> HIDE DEF C
<1>5. C[{}] = 0
  BY <1>4
<1>6. \A k \in 1..Len(text) : C[1..k - 1] \in X => C[1..k] = op[<<C[1..k - 1], text[k]>>]
  <2> SUFFICES ASSUME NEW k \in 1..Len(text), C[1..k - 1] \in X
               PROVE  C[1..k] = op[<<C[1..k - 1], text[k]>>]
    OBVIOUS
  <2>1. /\ 1..k \in SUBSET DOMAIN text /\ Max(1..k) = k /\ (1..k) \ {k} = 1..k - 1
        /\ 1..k # {} /\ text[k] \in Z
    BY MaxOfSegment DEF Z
  <2>2. C[1..k] = step(C[(1..k) \ {Max(1..k)}], text[Max(1..k)])
    BY <1>4, <2>1
  <2> QED
    BY <1>2, <2>1, <2>2
<1>7. C[DOMAIN text] = Run(op, 0, text)
  <2>1. Goes(C, X, op, 0, text)
    BY <1>5, <1>6 DEF Goes
  <2>2. LeadsTo(C, op, 0, text)
    BY <1>2, <2>1, FoldRuns DEF Z
  <2> QED
    BY <2>2 DEF LeadsTo
<1> QED
  BY <1>1, <1>2, <1>7 DEF op, X, Z

LEMMA NumberIn ==
    ASSUME NEW text \in Seq(Digits)
    PROVE  Number(text) \in 0..SizeMax
<1>1. /\ 0 \in 0..SizeMax
      /\ DigitStep \in [(0..SizeMax) \X Digits -> 0..SizeMax]
      /\ Number(text) = Run(DigitStep, 0, text)
  BY NumberRuns
<1> DEFINE X == 0..SizeMax
<1> HIDE DEF X
<1>2. Run(DigitStep, 0, text) \in X
  <2>1. 0 \in X /\ DigitStep \in [X \X Digits -> X]
    BY <1>1 DEF X
  <2> QED
    BY <2>1, RunIn
<1> QED
  BY <1>1, <1>2 DEF X

LEMMA NumberPartIs ==
    ASSUME NEW Y, NEW word \in Seq(Y)
    PROVE  /\ NumberLength(word) \in 0..Len(word)
           /\ NumberPart(word) \in Seq(Digits)
           /\ \A n \in 0..Len(word) : (\A i \in 1..n : word[i] \in Digits) => n <= NumberLength(word)
           /\ \A i \in 1..NumberLength(word) : word[i] \in Digits
<1> DEFINE S == {n \in 0..Len(word) : \A i \in 1..n : IsDigit(word[i])}
           m == Max(S)
<1>1. Len(word) \in Nat /\ 0 \in S /\ S \in SUBSET (0..Len(word))
  OBVIOUS
<1>2. m \in S /\ \A y \in S : y <= m
  <2> HIDE DEF S
  <2> QED
    BY <1>1, LargestNumber
<1> HIDE DEF m
<1>3. m \in 0..Len(word) /\ \A i \in 1..m : word[i] \in Digits
  BY <1>2 DEF IsDigit, Digits
<1>4. NumberLength(word) = m
  BY Zenon DEF NumberLength, m
<1>5. SubSeq(word, 1, m) \in Seq(Digits)
  <2>1. m \in Int /\ 1 \in Int
    BY <1>3
  <2> QED
    BY <1>3, <2>1, SubSeqProperties
<1>6. \A n \in 0..Len(word) : (\A i \in 1..n : word[i] \in Digits) => n <= m
  BY <1>2 DEF IsDigit, Digits
<1> QED
  BY <1>3, <1>4, <1>5, <1>6 DEF NumberPart

-----------------------------------------------------------------------------
(* Sizes.                                                                  *)
LEMMA UnitIs ==
    ASSUME NEW suffix \in SizeSuffixes
    PROVE  Unit(suffix) \in {1, 1024, 1024 * 1024, 1024 * 1024 * 1024}
BY SMT DEF SizeSuffixes, Unit

LEMMA ProductIs ==
    ASSUME NEW base \in Nat, NEW unit \in {1, 1024, 1024 * 1024, 1024 * 1024 * 1024}
    PROVE  /\ SizeMax \div unit \in Nat /\ SizeMax \div unit > 0
           /\ base <= SizeMax \div unit =>
                 /\ base * unit \in 0..SizeMax
                 /\ base * unit = 0 <=> base = 0
                 /\ (base * unit) % unit = 0
                 /\ (base * unit) \div unit = base
<1>1. CASE unit = 1
  BY <1>1, SizeMaxIs, SMT
<1>2. CASE unit = 1024
  BY <1>2, SizeMaxIs, SMT
<1>3. CASE unit = 1024 * 1024
  BY <1>3, SizeMaxIs, SMT
<1>4. CASE unit = 1024 * 1024 * 1024
  BY <1>4, SizeMaxIs, SMT
<1> QED
  BY <1>1, <1>2, <1>3, <1>4, SMT

(* What a size comes to, in the words of IsSize.                           *)
LEMMA SizeIs ==
    ASSUME NEW Y, NEW word \in Seq(Y), SizeOk(word)
    PROVE  /\ ParseClientMaxBodySize(word) \in 0..SizeMax
           /\ ParseClientMaxBodySize(word) = 0 <=> Number(NumberPart(word)) = 0
           /\ IsSize(ParseClientMaxBodySize(word), word)
<1> DEFINE base == Number(NumberPart(word))
           unit == Unit(Suffix(word))
           size == ParseClientMaxBodySize(word)
<1>1. base \in 0..SizeMax
  BY NumberPartIs, NumberIn
<1>2. unit \in {1, 1024, 1024 * 1024, 1024 * 1024 * 1024}
  BY UnitIs DEF SizeOk
<1>3. size = IF base > SizeMax \div unit THEN SizeMax ELSE base * unit
  BY SMT DEF ParseClientMaxBodySize
<1>4. IsSize(size, word) <=>
         IF base <= SizeMax \div unit THEN size % unit = 0 /\ size \div unit = base
         ELSE size = SizeMax
  BY SMT DEF IsSize
<1> HIDE DEF base, unit, size
<1>5. base \in Nat /\ SizeMax \in Nat /\ SizeMax > 0
  BY <1>1, SizeMaxIs
<1>6. /\ SizeMax \div unit \in Nat /\ SizeMax \div unit > 0
      /\ base <= SizeMax \div unit =>
            /\ base * unit \in 0..SizeMax
            /\ base * unit = 0 <=> base = 0
            /\ (base * unit) % unit = 0
            /\ (base * unit) \div unit = base
  BY <1>2, <1>5, ProductIs
<1> DEFINE max == SizeMax \div unit
           product == base * unit
<1>7. CASE base > SizeMax \div unit
  <2>1. size = SizeMax /\ base # 0 /\ ~(base <= SizeMax \div unit)
    <3>1. size = SizeMax
      BY <1>3, <1>7, SMT
    <3> HIDE DEF max
    <3>2. max \in Nat /\ max > 0 /\ base > max
      BY <1>6, <1>7 DEF max
    <3>3. base # 0 /\ ~(base <= max)
      BY <1>5, <3>2
    <3> QED
      BY <3>1, <3>3 DEF max
  <2>2. IsSize(size, word)
    BY <1>4, <2>1, SMT
  <2> QED
    BY <1>5, <2>1, <2>2 DEF base, size
<1>8. CASE ~(base > SizeMax \div unit)
  <2>1. size = product
    BY <1>3, <1>8, SMT
  <2>2. base <= SizeMax \div unit
    <3> HIDE DEF max
    <3>1. max \in Nat /\ ~(base > max)
      BY <1>6, <1>8 DEF max
    <3>2. base <= max
      BY <1>5, <3>1
    <3> QED
      BY <3>2 DEF max
  <2>3. product \in 0..SizeMax /\ (product = 0 <=> base = 0)
    BY <1>6, <2>2
  <2>4. product % unit = 0 /\ product \div unit = base
    BY <1>6, <2>2
  <2> HIDE DEF product
  <2>5. IsSize(size, word)
    BY <1>4, <2>1, <2>2, <2>4, SMT
  <2> QED
    BY <2>1, <2>3, <2>5 DEF base, size
<1> QED
  BY <1>7, <1>8

(* Without a size there is one megabyte.                                   *)
LEMMA DefaultIs ==
    /\ DefaultMax \in 0..SizeMax /\ DefaultMax # 0
    /\ IsSize(DefaultMax, <<"1", "M">>)
<1> DEFINE Y == {"1", "M"}
           word == <<"1", "M">>
<1>1. /\ word \in Seq(Y) /\ Len(word) = 2 /\ word[1] = "1" /\ word[2] = "M"
      /\ 1 \in 1..Len(word) /\ 2 \in 1..Len(word)
  OBVIOUS
<1> HIDE DEF word
<1>2. "1" \in Digits /\ "M" \notin Digits
  BY DEF Digits, ToSet, DigitsInOrder
<1>3. NumberLength(word) = 1
  <2>1. 1 \in 0..Len(word) /\ \A i \in 1..1 : i = 1
    BY <1>1
  <2>2. \A i \in 1..1 : word[i] \in Digits
    BY <1>1, <1>2, <2>1
  <2>3. /\ NumberLength(word) \in 0..Len(word)
        /\ \A n \in 0..Len(word) : (\A i \in 1..n : word[i] \in Digits) => n <= NumberLength(word)
        /\ \A i \in 1..NumberLength(word) : word[i] \in Digits
    BY <1>1, NumberPartIs
  <2>4. 1 <= NumberLength(word)
    BY <2>1, <2>2, <2>3
  <2>5. NumberLength(word) # 2
    <3>1. ASSUME NumberLength(word) = 2 PROVE FALSE
      <4>1. 2 \in 1..NumberLength(word)
        BY <3>1
      <4> QED
        BY <1>1, <1>2, <2>3, <4>1
    <3> QED
      BY <3>1
  <2> QED
    BY <1>1, <2>3, <2>4, <2>5
<1>4. NumberPart(word) = <<"1">> /\ Suffix(word) = <<"M">>
  <2>1. SubSeq(word, 1, 1) = <<word[1]>> /\ SubSeq(word, 2, 2) = <<word[2]>>
    BY <1>1, SubSeqOne
  <2> QED
    BY <1>1, <1>3, <2>1 DEF NumberPart, Suffix
<1>5. Digit("1") = 1
  <2> DEFINE j == CHOOSE k \in DOMAIN DigitsInOrder : DigitsInOrder[k] = "1"
  <2>1. DOMAIN DigitsInOrder = 1..10 /\ DigitsInOrder[2] = "1"
        /\ \A k \in 1..10 : DigitsInOrder[k] = "1" => k = 2
    BY DEF DigitsInOrder
  <2>2. 2 \in DOMAIN DigitsInOrder
    BY <2>1
  <2>3. j \in DOMAIN DigitsInOrder /\ DigitsInOrder[j] = "1"
    BY <2>1, <2>2
  <2>4. j = 2
    BY <2>1, <2>3
  <2>5. Digit("1") = j - 1
    BY Zenon DEF Digit
  <2> HIDE DEF j
  <2> QED
    BY <2>4, <2>5
<1>6. Number(<<"1">>) = 1
  <2>1. /\ 0 \in 0..SizeMax
        /\ DigitStep \in [(0..SizeMax) \X Digits -> 0..SizeMax]
        /\ Number(<<"1">>) = Run(DigitStep, 0, <<"1">>)
    <3>1. <<"1">> \in Seq(Digits)
      BY <1>2
    <3> QED
      BY <3>1, NumberRuns
  <2>2. Run(DigitStep, 0, Append(<<>>, "1")) = DigitStep[<<Run(DigitStep, 0, <<>>), "1">>]
    <3> DEFINE X == 0..SizeMax
    <3> HIDE DEF X
    <3>1. 0 \in X /\ DigitStep \in [X \X Digits -> X] /\ <<>> \in Seq(Digits)
      BY <2>1, EmptySeq DEF X
    <3>2. Appended(DigitStep, 0, <<>>, "1")
      BY <1>2, <3>1, RunAppend
    <3> QED
      BY <3>2 DEF Appended
  <2>3. Append(<<>>, "1") = <<"1">> /\ Run(DigitStep, 0, <<>>) = 0
    BY RunEmpty
  <2>4. DigitStep[<<0, "1">>] = 1
    <3>1. <<0, "1">> \in (0..SizeMax) \X Digits
      BY <1>2, <2>1
    <3>2. DigitStep[<<0, "1">>] = IF 0 > (SizeMax - 1) \div 10 THEN SizeMax ELSE 10 * 0 + 1
      BY <1>5, <3>1 DEF DigitStep
    <3>3. ~(0 > (SizeMax - 1) \div 10)
      BY SizeMaxIs
    <3> QED
      BY <3>2, <3>3
  <2> QED
    BY <2>1, <2>2, <2>3, <2>4
<1>7. Unit(<<"M">>) = 1024 * 1024
  BY SMT DEF Unit
<1>8. DefaultMax = 1024 * 1024
  BY SMT DEF DefaultMax
<1>9. 1 <= SizeMax \div (1024 * 1024) /\ 1024 * 1024 \in 0..SizeMax /\ 1024 * 1024 # 0
  BY SizeMaxIs, SMT
<1>10. (1024 * 1024) % (1024 * 1024) = 0 /\ (1024 * 1024) \div (1024 * 1024) = 1
  BY SMT
<1>11. IsSize(DefaultMax, word)
  BY <1>4, <1>6, <1>7, <1>8, <1>9, <1>10, SMT DEF IsSize
<1> QED
  BY <1>8, <1>9, <1>11, SMT DEF word

-----------------------------------------------------------------------------
(* The rules of the validator, directive by directive.                     *)
Follows(d, name, min, max) == Named(d, name) /\ Len(d.args) \in min..max

LEMMA RuleIs ==
    ASSUME NEW name, NEW server, NEW location, NEW min, NEW max,
           NEW d, NEW block \in {"server", "location"},
           NEW r, r = Rule(name, server, location, min, max),
           r.name = d.name, r[block], Len(d.args) \in r.args
    PROVE  /\ Follows(d, name, min, max)
           /\ block = "server" => server
           /\ block = "location" => location
BY DEF Rule, Follows, Named

LEMMA RulesAre ==
    ASSUME NEW r \in Rules
    PROVE  \/ r = Rule("listen", TRUE, FALSE, 1, 1)
           \/ r = Rule("server_name", TRUE, FALSE, 1, Unlimited)
           \/ r = Rule("root", TRUE, TRUE, 1, 1)
           \/ r = Rule("index", TRUE, TRUE, 1, Unlimited)
           \/ r = Rule("client_max_body_size", TRUE, TRUE, 1, 1)
           \/ r = Rule("return", FALSE, TRUE, 1, 2)
           \/ r = Rule("error_page", TRUE, TRUE, 2, 2)
           \/ r = Rule("allow_methods", FALSE, TRUE, 1, Unlimited)
           \/ r = Rule("autoindex", FALSE, TRUE, 1, 1)
           \/ r = Rule("upload", FALSE, TRUE, 1, 1)
           \/ r = Rule("upload_store", FALSE, TRUE, 1, 1)
           \/ r = Rule("cgi", FALSE, TRUE, 1, 1)
           \/ r = Rule("cgi_exec", FALSE, TRUE, 2, 2)
BY Zenon DEF Rules

LEMMA RuleOf ==
    ASSUME NEW d, NEW block \in {"server", "location"}, DirectiveOk(d, block)
    PROVE  /\ ArgsOk(d)
           /\ \E r \in Rules : r.name = d.name /\ r[block] /\ Len(d.args) \in r.args
BY Zenon DEF DirectiveOk

LEMMA ServerRules ==
    ASSUME NEW d, DirectiveOk(d, "server")
    PROVE  \/ Follows(d, "listen", 1, 1)
           \/ Follows(d, "server_name", 1, Unlimited)
           \/ Follows(d, "root", 1, 1)
           \/ Follows(d, "index", 1, Unlimited)
           \/ Follows(d, "client_max_body_size", 1, 1)
           \/ Follows(d, "error_page", 2, 2)
<1>1. PICK r \in Rules : r.name = d.name /\ r["server"] /\ Len(d.args) \in r.args
  BY Zenon DEF DirectiveOk
<1>2. CASE r = Rule("listen", TRUE, FALSE, 1, 1)
  BY <1>1, <1>2, RuleIs, Zenon
<1>3. CASE r = Rule("server_name", TRUE, FALSE, 1, Unlimited)
  BY <1>1, <1>3, RuleIs, Zenon
<1>4. CASE r = Rule("root", TRUE, TRUE, 1, 1)
  BY <1>1, <1>4, RuleIs, Zenon
<1>5. CASE r = Rule("index", TRUE, TRUE, 1, Unlimited)
  BY <1>1, <1>5, RuleIs, Zenon
<1>6. CASE r = Rule("client_max_body_size", TRUE, TRUE, 1, 1)
  BY <1>1, <1>6, RuleIs, Zenon
<1>7. CASE r = Rule("return", FALSE, TRUE, 1, 2)
  BY <1>1, <1>7, RuleIs, Zenon
<1>8. CASE r = Rule("error_page", TRUE, TRUE, 2, 2)
  BY <1>1, <1>8, RuleIs, Zenon
<1>9. CASE r = Rule("allow_methods", FALSE, TRUE, 1, Unlimited)
  BY <1>1, <1>9, RuleIs, Zenon
<1>10. CASE r = Rule("autoindex", FALSE, TRUE, 1, 1)
  BY <1>1, <1>10, RuleIs, Zenon
<1>11. CASE r = Rule("upload", FALSE, TRUE, 1, 1)
  BY <1>1, <1>11, RuleIs, Zenon
<1>12. CASE r = Rule("upload_store", FALSE, TRUE, 1, 1)
  BY <1>1, <1>12, RuleIs, Zenon
<1>13. CASE r = Rule("cgi", FALSE, TRUE, 1, 1)
  BY <1>1, <1>13, RuleIs, Zenon
<1>14. CASE r = Rule("cgi_exec", FALSE, TRUE, 2, 2)
  BY <1>1, <1>14, RuleIs, Zenon
<1> QED
  BY RulesAre, <1>2, <1>3, <1>4, <1>5, <1>6, <1>7, <1>8, <1>9, <1>10, <1>11, <1>12, <1>13, <1>14, Zenon

LEMMA LocationRules ==
    ASSUME NEW d, DirectiveOk(d, "location")
    PROVE  \/ Follows(d, "root", 1, 1)
           \/ Follows(d, "index", 1, Unlimited)
           \/ Follows(d, "client_max_body_size", 1, 1)
           \/ Follows(d, "return", 1, 2)
           \/ Follows(d, "error_page", 2, 2)
           \/ Follows(d, "allow_methods", 1, Unlimited)
           \/ Follows(d, "autoindex", 1, 1)
           \/ Follows(d, "upload", 1, 1)
           \/ Follows(d, "upload_store", 1, 1)
           \/ Follows(d, "cgi", 1, 1)
           \/ Follows(d, "cgi_exec", 2, 2)
<1>1. PICK r \in Rules : r.name = d.name /\ r["location"] /\ Len(d.args) \in r.args
  BY Zenon DEF DirectiveOk
<1>2. CASE r = Rule("listen", TRUE, FALSE, 1, 1)
  BY <1>1, <1>2, RuleIs, Zenon
<1>3. CASE r = Rule("server_name", TRUE, FALSE, 1, Unlimited)
  BY <1>1, <1>3, RuleIs, Zenon
<1>4. CASE r = Rule("root", TRUE, TRUE, 1, 1)
  BY <1>1, <1>4, RuleIs, Zenon
<1>5. CASE r = Rule("index", TRUE, TRUE, 1, Unlimited)
  BY <1>1, <1>5, RuleIs, Zenon
<1>6. CASE r = Rule("client_max_body_size", TRUE, TRUE, 1, 1)
  BY <1>1, <1>6, RuleIs, Zenon
<1>7. CASE r = Rule("return", FALSE, TRUE, 1, 2)
  BY <1>1, <1>7, RuleIs, Zenon
<1>8. CASE r = Rule("error_page", TRUE, TRUE, 2, 2)
  BY <1>1, <1>8, RuleIs, Zenon
<1>9. CASE r = Rule("allow_methods", FALSE, TRUE, 1, Unlimited)
  BY <1>1, <1>9, RuleIs, Zenon
<1>10. CASE r = Rule("autoindex", FALSE, TRUE, 1, 1)
  BY <1>1, <1>10, RuleIs, Zenon
<1>11. CASE r = Rule("upload", FALSE, TRUE, 1, 1)
  BY <1>1, <1>11, RuleIs, Zenon
<1>12. CASE r = Rule("upload_store", FALSE, TRUE, 1, 1)
  BY <1>1, <1>12, RuleIs, Zenon
<1>13. CASE r = Rule("cgi", FALSE, TRUE, 1, 1)
  BY <1>1, <1>13, RuleIs, Zenon
<1>14. CASE r = Rule("cgi_exec", FALSE, TRUE, 2, 2)
  BY <1>1, <1>14, RuleIs, Zenon
<1> QED
  BY RulesAre, <1>2, <1>3, <1>4, <1>5, <1>6, <1>7, <1>8, <1>9, <1>10, <1>11, <1>12, <1>13, <1>14, Zenon

-----------------------------------------------------------------------------
(* The directives of a block, and one more.                                *)
Once(ds, name) == \A i, j \in At(ds, name) : i = j

LEMMA NothingThere ==
    ASSUME NEW name
    PROVE  /\ At(<<>>, name) = {} /\ ~Has(<<>>, name)
           /\ ArgsOf(<<>>, name) = {} /\ WordsOf(<<>>, name) = {}
<1>1. At(<<>>, name) = {}
  BY DEF At
<1> QED
  BY <1>1 DEF Has, ArgsOf, WordsOf

(* The last directive of a name is one of them.                            *)
LEMMA LastOne ==
    ASSUME NEW X, NEW ds \in Seq(X), NEW name, Has(ds, name)
    PROVE  /\ Max(At(ds, name)) \in At(ds, name) /\ At(ds, name) \subseteq 1..Len(ds)
           /\ \A i \in At(ds, name) : i <= Max(At(ds, name))
           /\ ds[Max(At(ds, name))] \in X /\ Named(ds[Max(At(ds, name))], name)
           /\ Where(ds, name) = ds[Max(At(ds, name))].args
<1>1. Len(ds) \in Nat /\ DOMAIN ds = 1..Len(ds)
  BY LenProperties
<1>2. At(ds, name) \subseteq 1..Len(ds) /\ At(ds, name) # {}
  BY <1>1 DEF At, Has
<1>3. At(ds, name) \in SUBSET (0..Len(ds))
  BY <1>1, <1>2
<1>4. Max(At(ds, name)) \in At(ds, name) /\ \A i \in At(ds, name) : i <= Max(At(ds, name))
  BY <1>1, <1>2, <1>3, LargestNumber
<1>5. ds[Max(At(ds, name))] \in X
  BY <1>2, <1>4, ElementOfSeq
<1> QED
  BY <1>2, <1>4, <1>5 DEF At, Where

LEMMA AtAppend ==
    ASSUME NEW X, NEW ds \in Seq(X), NEW d \in X, NEW name
    PROVE  /\ Len(ds) \in Nat /\ DOMAIN ds = 1..Len(ds)
           /\ At(Append(ds, d), name)
                 = At(ds, name) \union (IF Named(d, name) THEN {Len(ds) + 1} ELSE {})
           /\ \A i \in At(ds, name) : i \in 1..Len(ds) /\ Append(ds, d)[i] = ds[i]
           /\ Append(ds, d)[Len(ds) + 1] = d
<1> DEFINE new == Append(ds, d)
           n == Len(ds)
<1>1. n \in Nat /\ DOMAIN ds = 1..n
  BY LenProperties
<1>2. /\ new \in Seq(X) /\ Len(new) = n + 1 /\ new[n + 1] = d
      /\ \A i \in 1..n : new[i] = ds[i]
  BY AppendProperties
<1>3. DOMAIN new = 1..n + 1
  BY <1>2, LenProperties
<1> HIDE DEF new, n
<1>4. \A i \in 1..n + 1 : i \in 1..n \/ i = n + 1
  BY <1>1
<1>5. \A i \in 1..n : i \in 1..n + 1 /\ n + 1 \in 1..n + 1
  BY <1>1
<1>6. n + 1 \in 1..n + 1
  BY <1>1
<1>7. At(new, name) = At(ds, name) \union (IF Named(d, name) THEN {n + 1} ELSE {})
  BY <1>1, <1>2, <1>3, <1>4, <1>5, <1>6 DEF At
<1>8. \A i \in At(ds, name) : i \in 1..n /\ new[i] = ds[i]
  BY <1>1, <1>2 DEF At
<1> QED
  BY <1>1, <1>2, <1>7, <1>8 DEF new, n

LEMMA HasAppend ==
    ASSUME NEW X, NEW ds \in Seq(X), NEW d \in X, NEW name
    PROVE  /\ Has(Append(ds, d), name) <=> Has(ds, name) \/ Named(d, name)
           /\ Named(d, name) => Where(Append(ds, d), name) = d.args
           /\ ~Named(d, name) /\ Has(ds, name) => Where(Append(ds, d), name) = Where(ds, name)
           /\ ~Named(d, name) => At(Append(ds, d), name) = At(ds, name)
           /\ Once(Append(ds, d), name) => Once(ds, name) /\ (Named(d, name) => ~Has(ds, name))
<1> DEFINE new == Append(ds, d)
           n == Len(ds)
<1>1. /\ n \in Nat
      /\ At(new, name) = At(ds, name) \union (IF Named(d, name) THEN {n + 1} ELSE {})
      /\ \A i \in At(ds, name) : i \in 1..n /\ new[i] = ds[i]
      /\ new[n + 1] = d
  BY AtAppend
<1>2. new \in Seq(X)
  BY AppendProperties
<1> HIDE DEF new, n
<1>3. Has(new, name) <=> Has(ds, name) \/ Named(d, name)
  BY <1>1 DEF Has
<1>4. ASSUME Named(d, name) PROVE Where(new, name) = d.args
  <2>1. Has(new, name)
    BY <1>3, <1>4
  <2>2. /\ Max(At(new, name)) \in At(new, name)
        /\ \A i \in At(new, name) : i <= Max(At(new, name))
        /\ Where(new, name) = new[Max(At(new, name))].args
    BY <1>2, <2>1, LastOne
  <2>3. n + 1 \in At(new, name) /\ \A i \in At(new, name) : i \in 1..n + 1
    BY <1>1, <1>4
  <2>4. Max(At(new, name)) = n + 1
    <3> DEFINE m == Max(At(new, name))
    <3>1. m \in 1..n + 1 /\ n + 1 <= m
      BY <2>2, <2>3
    <3> HIDE DEF m
    <3>2. m = n + 1
      BY <1>1, <3>1
    <3> QED
      BY <3>2 DEF m
  <2> QED
    BY <1>1, <2>2, <2>4
<1>5. ~Named(d, name) => At(new, name) = At(ds, name)
  BY <1>1
<1>6. ASSUME ~Named(d, name), Has(ds, name) PROVE Where(new, name) = Where(ds, name)
  <2>1. Max(At(ds, name)) \in At(ds, name)
    BY <1>6, LastOne
  <2>2. At(new, name) = At(ds, name)
    BY <1>5, <1>6
  <2> QED
    BY <1>1, <2>1, <2>2 DEF Where
<1>7. ASSUME Once(new, name) PROVE Once(ds, name) /\ (Named(d, name) => ~Has(ds, name))
  <2>1. Once(ds, name)
    <3>1. At(ds, name) \subseteq At(new, name)
      BY <1>1
    <3> QED
      BY <1>7, <3>1, Zenon DEF Once
  <2>2. ASSUME Named(d, name), Has(ds, name) PROVE FALSE
    <3>1. PICK i \in At(ds, name) : TRUE
      BY <2>2 DEF Has
    <3>2. i \in At(new, name) /\ n + 1 \in At(new, name) /\ i # n + 1
      BY <1>1, <2>2, <3>1
    <3> QED
      BY <1>7, <3>2 DEF Once
  <2> QED
    BY <2>1, <2>2
<1> QED
  BY <1>3, <1>4, <1>5, <1>6, <1>7 DEF new

LEMMA ArgsAppend ==
    ASSUME NEW X, NEW ds \in Seq(X), NEW d \in X, NEW name
    PROVE  /\ ArgsOf(Append(ds, d), name)
                 = ArgsOf(ds, name) \union (IF Named(d, name) THEN {d.args} ELSE {})
           /\ WordsOf(Append(ds, d), name)
                 = WordsOf(ds, name) \union (IF Named(d, name) THEN ToSet(d.args) ELSE {})
<1> DEFINE new == Append(ds, d)
           n == Len(ds)
<1>1. /\ n \in Nat
      /\ At(new, name) = At(ds, name) \union (IF Named(d, name) THEN {n + 1} ELSE {})
      /\ \A i \in At(ds, name) : i \in 1..n /\ new[i] = ds[i]
      /\ new[n + 1] = d
  BY AtAppend
<1> HIDE DEF new, n
<1>2. ArgsOf(new, name) = ArgsOf(ds, name) \union (IF Named(d, name) THEN {d.args} ELSE {})
  <2>1. \A x : x \in ArgsOf(new, name) <=> \E i \in At(new, name) : x = new[i].args
    BY DEF ArgsOf
  <2>2. \A x : x \in ArgsOf(ds, name) <=> \E i \in At(ds, name) : x = ds[i].args
    BY DEF ArgsOf
  <2>3. CASE Named(d, name)
    <3>1. At(new, name) = At(ds, name) \union {n + 1}
      BY <1>1, <2>3
    <3> QED
      BY <1>1, <2>1, <2>2, <2>3, <3>1
  <2>4. CASE ~Named(d, name)
    <3>1. At(new, name) = At(ds, name)
      BY <1>1, <2>4
    <3> QED
      BY <1>1, <2>1, <2>2, <2>4, <3>1
  <2> QED
    BY <2>3, <2>4
<1>3. WordsOf(new, name) = WordsOf(ds, name) \union (IF Named(d, name) THEN ToSet(d.args) ELSE {})
  BY <1>2 DEF WordsOf
<1> QED
  BY <1>2, <1>3 DEF new

(* The error pages of a block, and one more.                               *)
NamesPage(d, code) == Named(d, "error_page") /\ Number(d.args[1]) = code

LEMMA PagesAppend ==
    ASSUME NEW X, NEW ds \in Seq(X), NEW d \in X, NEW code
    PROVE  /\ PagesFor(Append(ds, d), code) # {} <=> PagesFor(ds, code) # {} \/ NamesPage(d, code)
           /\ NamesPage(d, code) => PageFor(Append(ds, d), code) = Last(d.args)
           /\ ~NamesPage(d, code) /\ PagesFor(ds, code) # {} =>
                 PageFor(Append(ds, d), code) = PageFor(ds, code)
<1> DEFINE new == Append(ds, d)
           n == Len(ds)
           old == PagesFor(ds, code)
           S == PagesFor(new, code)
<1>1. /\ n \in Nat
      /\ At(new, "error_page")
            = At(ds, "error_page") \union (IF Named(d, "error_page") THEN {n + 1} ELSE {})
      /\ \A i \in At(ds, "error_page") : i \in 1..n /\ new[i] = ds[i]
      /\ new[n + 1] = d
  BY AtAppend
<1> HIDE DEF new, n
<1>2. \A i : i \in old <=> i \in At(ds, "error_page") /\ Number(ds[i].args[1]) = code
  BY DEF PagesFor
<1>3. \A i : i \in S <=> i \in At(new, "error_page") /\ Number(new[i].args[1]) = code
  BY DEF PagesFor
<1> HIDE DEF old, S
<1>4. n + 1 \notin 1..n
  BY <1>1
<1>5. S = old \union (IF NamesPage(d, code) THEN {n + 1} ELSE {})
  <2>1. CASE Named(d, "error_page")
    <3>1. \A i : i \in At(new, "error_page") <=> i \in At(ds, "error_page") \/ i = n + 1
      BY <1>1, <2>1
    <3>2. \A i : i \in S <=> i \in old \/ (i = n + 1 /\ Number(d.args[1]) = code)
      BY <1>1, <1>2, <1>3, <3>1, Zenon
    <3> QED
      BY <2>1, <3>2 DEF NamesPage
  <2>2. CASE ~Named(d, "error_page")
    <3>1. At(new, "error_page") = At(ds, "error_page")
      BY <1>1, <2>2
    <3>2. \A i : i \in S <=> i \in old
      BY <1>1, <1>2, <1>3, <3>1, Zenon
    <3> QED
      BY <2>2, <3>2 DEF NamesPage
  <2> QED
    BY <2>1, <2>2
<1>6. \A i \in old : i \in 1..n /\ new[i] = ds[i]
  BY <1>1, <1>2
<1>7. ASSUME NamesPage(d, code) PROVE PageFor(new, code) = Last(d.args)
  <2>1. S = old \union {n + 1}
    BY <1>5, <1>7
  <2>2. S \in SUBSET (0..n + 1) /\ S # {} /\ n + 1 \in Nat
    BY <1>1, <1>6, <2>1
  <2>3. Max(S) \in S /\ \A y \in S : y <= Max(S)
    BY <2>2, LargestNumber
  <2>4. Max(S) = n + 1
    <3> DEFINE m == Max(S)
    <3>1. m \in 0..n + 1 /\ m >= n + 1
      BY <2>1, <2>2, <2>3
    <3> HIDE DEF m
    <3>2. m = n + 1
      BY <2>2, <3>1
    <3> QED
      BY <3>2 DEF m
  <2> QED
    BY <1>1, <2>4 DEF PageFor, S
<1>8. ASSUME ~NamesPage(d, code), old # {} PROVE PageFor(new, code) = PageFor(ds, code)
  <2>1. S = old
    BY <1>5, <1>8
  <2>2. old \in SUBSET (0..n)
    BY <1>1, <1>6
  <2>3. Max(old) \in old
    BY <1>1, <1>8, <2>2, LargestNumber
  <2>4. new[Max(old)] = ds[Max(old)]
    BY <1>6, <2>3
  <2> QED
    BY <2>1, <2>4 DEF PageFor, S, old
<1> QED
  BY <1>5, <1>7, <1>8 DEF S, old, new

LEMMA NoPages ==
    ASSUME NEW code
    PROVE  PagesFor(<<>>, code) = {}
BY NothingThere DEF PagesFor

LEMMA RootFirstAppend ==
    ASSUME NEW X, NEW ds \in Seq(X), NEW d \in X,
           RootFirst(Append(ds, d)), Once(Append(ds, d), "root")
    PROVE  /\ RootFirst(ds) /\ Once(ds, "root")
           /\ Named(d, "root") => ~Has(ds, "error_page")
<1> DEFINE new == Append(ds, d)
           n == Len(ds)
<1>1. ASSUME NEW name
      PROVE  /\ n \in Nat
             /\ At(new, name) = At(ds, name) \union (IF Named(d, name) THEN {n + 1} ELSE {})
             /\ \A i \in At(ds, name) : i \in 1..n
  BY AtAppend
<1>2. Once(ds, "root") /\ (Named(d, "root") => ~Has(ds, "root"))
  BY HasAppend
<1> HIDE DEF new, n
<1>3. \A i \in At(new, "error_page") : \E j \in At(new, "root") : j < i
  BY DEF RootFirst, new
<1>4. ASSUME NEW i \in At(ds, "error_page")
      PROVE  \E j \in At(ds, "root") : j < i
  <2>1. PICK j \in At(new, "root") : j < i
    BY <1>1, <1>3
  <2>2. i \in 1..n /\ n \in Nat
    BY <1>1
  <2>3. j # n + 1
    BY <2>1, <2>2
  <2>4. j \in At(ds, "root")
    BY <1>1, <2>1, <2>3
  <2> QED
    BY <2>1, <2>4
<1>5. Has(ds, "error_page") => Has(ds, "root")
  BY <1>4 DEF Has
<1> QED
  BY <1>2, <1>4, <1>5 DEF RootFirst

-----------------------------------------------------------------------------
(* The directives of a server, one after the other.                        *)
Allowed(Y, block) == {d \in DirectivesOver(Y) : DirectiveOk(d, block)}
Maps(K, Z)        == UNION {[D -> Z] : D \in SUBSET K}
ServerStates(Y) ==
    [names : SUBSET Words(Y), root : Seq(Y), index : Seq(Words(Y)), max : 0..SizeMax,
     pages : Maps(0..SizeMax, Seq(Y))]

LEMMA WithIn ==
    ASSUME NEW K, NEW Z, NEW map \in Maps(K, Z), NEW key \in K, NEW value \in Z
    PROVE  /\ With(map, key, value) \in Maps(K, Z)
           /\ DOMAIN With(map, key, value) = DOMAIN map \union {key}
           /\ \A k \in DOMAIN With(map, key, value) :
                 With(map, key, value)[k] = IF k = key THEN value ELSE map[k]
<1>1. PICK D \in SUBSET K : map \in [D -> Z]
  BY DEF Maps
<1>2. With(map, key, value) \in [D \union {key} -> Z] /\ D \union {key} \in SUBSET K
  BY <1>1 DEF With
<1> QED
  BY <1>1, <1>2 DEF Maps, With

LEMMA EmptyMap ==
    ASSUME NEW K, NEW Z
    PROVE  <<>> \in Maps(K, Z) /\ DOMAIN <<>> = {}
<1>1. <<>> \in [{} -> Z] /\ {} \in SUBSET K
  OBVIOUS
<1> QED
  BY <1>1 DEF Maps

LEMMA ArgsAre ==
    ASSUME NEW Y, NEW d \in DirectivesOver(Y)
    PROVE  /\ d.name \in Words(Y) /\ d.args \in Seq(Words(Y)) /\ Len(d.args) \in Nat
           /\ \A i \in 1..Len(d.args) : d.args[i] \in Words(Y) /\ d.args[i] \in Seq(Y)
                                        /\ d.args[i] # <<>> /\ d.args[i] # Absent
           /\ ToSet(d.args) \subseteq Words(Y)
<1>1. d.name \in Words(Y) /\ d.args \in Seq(Words(Y))
  BY DEF DirectivesOver
<1>2. Len(d.args) \in Nat /\ DOMAIN d.args = 1..Len(d.args)
      /\ \A i \in 1..Len(d.args) : d.args[i] \in Words(Y)
  BY <1>1, LenProperties, ElementOfSeq
<1>3. ToSet(d.args) \subseteq Words(Y)
  BY <1>2 DEF ToSet
<1> QED
  BY <1>1, <1>2, <1>3 DEF Words, Absent

LEMMA OneName ==
    ASSUME NEW d, NEW a, NEW b, Named(d, a), Named(d, b)
    PROVE  a = b
BY DEF Named

(* The pages that have been read: by code, and below the root, as far as   *)
(* that has come first.                                                    *)
ServerPages(ds, pages) ==
    /\ \A c : c \in DOMAIN pages <=> PagesFor(ds, c) # {}
    /\ \A c \in DOMAIN pages : pages[c] = PageFor(ds, c)

LocationPages(ds, l) ==
    /\ \A c : c \in DOMAIN l.pages <=> PagesFor(ds, c) # {}
    /\ Once(ds, "root") /\ RootFirst(ds) =>
          \A c \in DOMAIN l.pages : l.pages[c] = JoinPath(l.root, PageFor(ds, c))

LEMMA ServerPagesMore ==
    ASSUME NEW X, NEW ds \in Seq(X), NEW d \in X, NEW pages, ServerPages(ds, pages),
           NEW more, more = IF Named(d, "error_page") THEN With(pages, Number(d.args[1]), Last(d.args))
                            ELSE pages
    PROVE  ServerPages(Append(ds, d), more)
<1> DEFINE new == Append(ds, d)
           code == Number(d.args[1])
<1>1. ASSUME NEW c
      PROVE  /\ PagesFor(new, c) # {} <=> PagesFor(ds, c) # {} \/ NamesPage(d, c)
             /\ NamesPage(d, c) => PageFor(new, c) = Last(d.args)
             /\ ~NamesPage(d, c) /\ PagesFor(ds, c) # {} => PageFor(new, c) = PageFor(ds, c)
  BY PagesAppend
<1>2. \A c : NamesPage(d, c) <=> Named(d, "error_page") /\ c = code
  BY DEF NamesPage
<1> HIDE DEF new, code
<1>3. CASE Named(d, "error_page")
  <2>1. /\ DOMAIN more = DOMAIN pages \union {code}
        /\ \A c \in DOMAIN more : more[c] = IF c = code THEN Last(d.args) ELSE pages[c]
    BY <1>3 DEF With, code
  <2> QED
    BY <1>1, <1>2, <1>3, <2>1 DEF ServerPages, new
<1>4. CASE ~Named(d, "error_page")
  BY <1>1, <1>2, <1>4 DEF ServerPages, new
<1> QED
  BY <1>3, <1>4

LEMMA LocationPagesMore ==
    ASSUME NEW X, NEW ds \in Seq(X), NEW d \in X, NEW l, LocationPages(ds, l),
           NEW t, t.root = IF Named(d, "root") THEN d.args[1] ELSE l.root,
           t.pages = IF Named(d, "error_page")
                     THEN With(l.pages, Number(d.args[1]), JoinPath(l.root, Last(d.args)))
                     ELSE l.pages
    PROVE  LocationPages(Append(ds, d), t)
<1> DEFINE new == Append(ds, d)
           code == Number(d.args[1])
           page == JoinPath(l.root, Last(d.args))
<1>1. ASSUME NEW c
      PROVE  /\ PagesFor(new, c) # {} <=> PagesFor(ds, c) # {} \/ NamesPage(d, c)
             /\ NamesPage(d, c) => PageFor(new, c) = Last(d.args)
             /\ ~NamesPage(d, c) /\ PagesFor(ds, c) # {} => PageFor(new, c) = PageFor(ds, c)
  BY PagesAppend
<1>2. \A c : NamesPage(d, c) <=> Named(d, "error_page") /\ c = code
  BY DEF NamesPage
<1>3. ~(Named(d, "root") /\ Named(d, "error_page"))
  BY OneName
<1>4. ASSUME Once(new, "root"), RootFirst(new)
      PROVE  /\ RootFirst(ds) /\ Once(ds, "root")
             /\ Named(d, "root") => ~Has(ds, "error_page")
  BY <1>4, RootFirstAppend
<1> HIDE DEF new, code, page
<1>5. \A c : c \in DOMAIN l.pages <=> PagesFor(ds, c) # {}
  BY Zenon DEF LocationPages
<1>6. CASE Named(d, "error_page")
  <2>1. /\ DOMAIN t.pages = DOMAIN l.pages \union {code}
        /\ \A c \in DOMAIN t.pages : t.pages[c] = IF c = code THEN page ELSE l.pages[c]
    BY <1>6 DEF With, code, page
  <2>2. t.root = l.root
    BY <1>3, <1>6
  <2>3. \A c : c \in DOMAIN t.pages <=> PagesFor(new, c) # {}
    BY <1>1, <1>2, <1>5, <1>6, <2>1
  <2>4. ASSUME Once(new, "root"), RootFirst(new), NEW c \in DOMAIN t.pages
        PROVE  t.pages[c] = JoinPath(t.root, PageFor(new, c))
    <3>1. CASE c = code
      BY <1>1, <1>2, <1>6, <2>1, <2>2, <3>1 DEF page
    <3>2. CASE c # code
      <4>1. c \in DOMAIN l.pages /\ t.pages[c] = l.pages[c]
        BY <2>1, <2>4, <3>2
      <4>2. l.pages[c] = JoinPath(l.root, PageFor(ds, c))
        BY <1>4, <2>4, <4>1, Zenon DEF LocationPages
      <4>3. PageFor(new, c) = PageFor(ds, c)
        BY <1>1, <1>2, <1>5, <3>2, <4>1
      <4> QED
        BY <2>2, <4>1, <4>2, <4>3
    <3> QED
      BY <3>1, <3>2
  <2> QED
    BY <2>3, <2>4, Zenon DEF LocationPages, new
<1>7. CASE ~Named(d, "error_page")
  <2>1. t.pages = l.pages
    BY <1>7
  <2>2. \A c : c \in DOMAIN t.pages <=> PagesFor(new, c) # {}
    BY <1>1, <1>2, <1>5, <1>7, <2>1
  <2>3. ASSUME Once(new, "root"), RootFirst(new), NEW c \in DOMAIN t.pages
        PROVE  t.pages[c] = JoinPath(t.root, PageFor(new, c))
    <3>1. PagesFor(ds, c) # {}
      BY <1>5, <2>1, <2>3
    <3>2. Has(ds, "error_page")
      BY <3>1 DEF PagesFor, Has
    <3>3. t.root = l.root
      BY <1>4, <2>3, <3>2
    <3>4. l.pages[c] = JoinPath(l.root, PageFor(ds, c))
      BY <1>4, <2>1, <2>3, Zenon DEF LocationPages
    <3>5. PageFor(new, c) = PageFor(ds, c)
      BY <1>1, <1>2, <1>7, <3>1
    <3> QED
      BY <2>1, <3>3, <3>4, <3>5
  <2> QED
    BY <2>2, <2>3, Zenon DEF LocationPages, new
<1> QED
  BY <1>6, <1>7

(* What a directive changes of a server.                                   *)
ServerCases(s, d) ==
    /\ Named(d, "server_name") =>
          ApplyServer(s, d) = [s EXCEPT !.names = @ \union ToSet(d.args)]
    /\ Named(d, "root")  => ApplyServer(s, d) = [s EXCEPT !.root = d.args[1]]
    /\ Named(d, "index") => ApplyServer(s, d) = [s EXCEPT !.index = @ \o d.args]
    /\ Named(d, "client_max_body_size") =>
          ApplyServer(s, d) = [s EXCEPT !.max = ParseClientMaxBodySize(d.args[1])]
    /\ Named(d, "error_page") =>
          ApplyServer(s, d) = [s EXCEPT !.pages = With(@, Number(d.args[1]), Last(d.args))]
    /\ Named(d, "listen") => ApplyServer(s, d) = s

LEMMA ServerCasesHold ==
    ASSUME NEW s, NEW d
    PROVE  ServerCases(s, d)
<1>1. \A a, b : Named(d, a) /\ Named(d, b) => a = b
  BY OneName, Zenon
<1>2. ASSUME Named(d, "server_name")
     PROVE  ApplyServer(s, d) = [s EXCEPT !.names = @ \union ToSet(d.args)]
  <2>1. ~Named(d, "root") /\ ~Named(d, "index") /\ ~Named(d, "client_max_body_size") /\ ~Named(d, "error_page") /\ ~Named(d, "listen")
    BY <1>1, <1>2
  <2> QED
    BY <1>2, <2>1 DEF ApplyServer
<1>3. ASSUME Named(d, "root")
     PROVE  ApplyServer(s, d) = [s EXCEPT !.root = d.args[1]]
  <2>1. ~Named(d, "server_name") /\ ~Named(d, "index") /\ ~Named(d, "client_max_body_size") /\ ~Named(d, "error_page") /\ ~Named(d, "listen")
    BY <1>1, <1>3
  <2> QED
    BY <1>3, <2>1 DEF ApplyServer
<1>4. ASSUME Named(d, "index")
     PROVE  ApplyServer(s, d) = [s EXCEPT !.index = @ \o d.args]
  <2>1. ~Named(d, "server_name") /\ ~Named(d, "root") /\ ~Named(d, "client_max_body_size") /\ ~Named(d, "error_page") /\ ~Named(d, "listen")
    BY <1>1, <1>4
  <2> QED
    BY <1>4, <2>1 DEF ApplyServer
<1>5. ASSUME Named(d, "client_max_body_size")
     PROVE  ApplyServer(s, d) = [s EXCEPT !.max = ParseClientMaxBodySize(d.args[1])]
  <2>1. ~Named(d, "server_name") /\ ~Named(d, "root") /\ ~Named(d, "index") /\ ~Named(d, "error_page") /\ ~Named(d, "listen")
    BY <1>1, <1>5
  <2> QED
    BY <1>5, <2>1 DEF ApplyServer
<1>6. ASSUME Named(d, "error_page")
     PROVE  ApplyServer(s, d) = [s EXCEPT !.pages = With(@, Number(d.args[1]), Last(d.args))]
  <2>1. ~Named(d, "server_name") /\ ~Named(d, "root") /\ ~Named(d, "index") /\ ~Named(d, "client_max_body_size") /\ ~Named(d, "listen")
    BY <1>1, <1>6
  <2> QED
    BY <1>6, <2>1 DEF ApplyServer
<1>7. ASSUME Named(d, "listen")
     PROVE  ApplyServer(s, d) = s
  <2>1. ~Named(d, "server_name") /\ ~Named(d, "root") /\ ~Named(d, "index") /\ ~Named(d, "client_max_body_size") /\ ~Named(d, "error_page")
    BY <1>1, <1>7
  <2> QED
    BY <1>7, <2>1 DEF ApplyServer
<1> QED
  BY <1>2, <1>3, <1>4, <1>5, <1>6, <1>7, Zenon DEF ServerCases

ServerFields(s, d, t) ==
    /\ t.names = s.names \union (IF Named(d, "server_name") THEN ToSet(d.args) ELSE {})
    /\ t.root = IF Named(d, "root") THEN d.args[1] ELSE s.root
    /\ t.index = IF Named(d, "index") THEN s.index \o d.args ELSE s.index
    /\ t.max = IF Named(d, "client_max_body_size") THEN ParseClientMaxBodySize(d.args[1]) ELSE s.max
    /\ t.pages = IF Named(d, "error_page") THEN With(s.pages, Number(d.args[1]), Last(d.args))
                 ELSE s.pages

LEMMA ServerStateParts ==
    ASSUME NEW Y, NEW s \in ServerStates(Y)
    PROVE  /\ s.names \in SUBSET Words(Y) /\ s.root \in Seq(Y) /\ s.index \in Seq(Words(Y))
           /\ s.max \in 0..SizeMax /\ s.pages \in Maps(0..SizeMax, Seq(Y))
BY DEF ServerStates

LEMMA AllowedIs ==
    ASSUME NEW Y, NEW block, NEW d \in Allowed(Y, block)
    PROVE  d \in DirectivesOver(Y) /\ DirectiveOk(d, block) /\ ArgsOk(d)
BY Zenon DEF Allowed, DirectiveOk

(* A code of three digits is a number.                                     *)
LEMMA CodeIs ==
    ASSUME NEW Y, NEW word \in Seq(Y), NEW codes, IsCode(word, codes)
    PROVE  Number(word) \in 0..SizeMax /\ Number(word) \in codes
<1>1. \A ch \in ToSet(word) : ch \in Digits
  BY DEF IsCode, IsNumber, IsDigit, Digits
<1>2. DOMAIN word = 1..Len(word)
  BY LenProperties
<1>3. \A i \in 1..Len(word) : word[i] \in Digits
  BY <1>1, <1>2 DEF ToSet
<1>4. word \in Seq(Digits)
  BY <1>3
<1> QED
  BY <1>4, NumberIn DEF IsCode

LEMMA ServerStep ==
    ASSUME NEW Y, NEW s \in ServerStates(Y), NEW d \in Allowed(Y, "server")
    PROVE  /\ ApplyServer(s, d) \in ServerStates(Y)
           /\ ServerFields(s, d, ApplyServer(s, d))
<1> DEFINE t == ApplyServer(s, d)
           W == Words(Y)
           P == Maps(0..SizeMax, Seq(Y))
<1>1. /\ s.names \in SUBSET W /\ s.root \in Seq(Y) /\ s.index \in Seq(W)
      /\ s.max \in 0..SizeMax /\ s.pages \in P
  BY ServerStateParts
<1>2. /\ DirectiveOk(d, "server") /\ ArgsOk(d)
      /\ d.args \in Seq(W) /\ Len(d.args) \in Nat
      /\ \A i \in 1..Len(d.args) : d.args[i] \in W /\ d.args[i] \in Seq(Y)
      /\ ToSet(d.args) \subseteq W
  BY AllowedIs, ArgsAre, Zenon
<1>3. \A a, b : Named(d, a) /\ Named(d, b) => a = b
  BY OneName, Zenon
<1>4. ServerCases(s, d)
  BY ServerCasesHold
<1>5. \/ Follows(d, "listen", 1, 1)
      \/ Follows(d, "server_name", 1, Unlimited)
      \/ Follows(d, "root", 1, 1)
      \/ Follows(d, "index", 1, Unlimited)
      \/ Follows(d, "client_max_body_size", 1, 1)
      \/ Follows(d, "error_page", 2, 2)
  BY <1>2, ServerRules, Zenon
<1> HIDE DEF W, P
<1>6. ServerStates(Y) = [names : SUBSET W, root : Seq(Y), index : Seq(W), max : 0..SizeMax, pages : P]
  BY Zenon DEF ServerStates, W, P
<1>7. s \in [names : SUBSET W, root : Seq(Y), index : Seq(W), max : 0..SizeMax, pages : P]
  BY <1>6, Zenon
<1> HIDE DEF t
<1>8. CASE Follows(d, "listen", 1, 1)
  <2>1. t = s /\ Named(d, "listen")
    BY <1>4, <1>8, Zenon DEF Follows, ServerCases, t
  <2>2. ~Named(d, "server_name") /\ ~Named(d, "root") /\ ~Named(d, "index")
        /\ ~Named(d, "client_max_body_size") /\ ~Named(d, "error_page")
    BY <1>3, <2>1
  <2>3. ServerFields(s, d, t)
    BY <1>1, <2>1, <2>2 DEF ServerFields
  <2> QED
    BY <1>6, <1>7, <2>1, <2>3, Zenon DEF t
<1>9. CASE Follows(d, "server_name", 1, Unlimited)
  <2>1. t = [s EXCEPT !.names = @ \union ToSet(d.args)] /\ Named(d, "server_name")
    BY <1>4, <1>9, Zenon DEF Follows, ServerCases, t
  <2>2. ~Named(d, "root") /\ ~Named(d, "index") /\ ~Named(d, "client_max_body_size")
        /\ ~Named(d, "error_page")
    BY <1>3, <2>1
  <2>3. s.names \union ToSet(d.args) \in SUBSET W
    BY <1>1, <1>2
  <2>4. t \in ServerStates(Y)
    BY <1>6, <1>7, <2>1, <2>3
  <2>5. ServerFields(s, d, t)
    BY <1>7, <2>1, <2>2 DEF ServerFields
  <2> QED
    BY <2>4, <2>5 DEF t
<1>10. CASE Follows(d, "root", 1, 1)
  <2>1. t = [s EXCEPT !.root = d.args[1]] /\ Named(d, "root")
    BY <1>4, <1>10, Zenon DEF Follows, ServerCases, t
  <2>2. ~Named(d, "server_name") /\ ~Named(d, "index") /\ ~Named(d, "client_max_body_size")
        /\ ~Named(d, "error_page")
    BY <1>3, <2>1
  <2>3. d.args[1] \in Seq(Y)
    BY <1>2, <1>10 DEF Follows
  <2>4. t \in ServerStates(Y)
    BY <1>6, <1>7, <2>1, <2>3
  <2>5. ServerFields(s, d, t)
    BY <1>7, <2>1, <2>2 DEF ServerFields
  <2> QED
    BY <2>4, <2>5 DEF t
<1>11. CASE Follows(d, "index", 1, Unlimited)
  <2>1. t = [s EXCEPT !.index = @ \o d.args] /\ Named(d, "index")
    BY <1>4, <1>11, Zenon DEF Follows, ServerCases, t
  <2>2. ~Named(d, "server_name") /\ ~Named(d, "root") /\ ~Named(d, "client_max_body_size")
        /\ ~Named(d, "error_page")
    BY <1>3, <2>1
  <2>3. s.index \o d.args \in Seq(W)
    BY <1>1, <1>2, ConcatProperties
  <2>4. t \in ServerStates(Y)
    BY <1>6, <1>7, <2>1, <2>3
  <2>5. ServerFields(s, d, t)
    BY <1>7, <2>1, <2>2 DEF ServerFields
  <2> QED
    BY <2>4, <2>5 DEF t
<1>12. CASE Follows(d, "client_max_body_size", 1, 1)
  <2>1. t = [s EXCEPT !.max = ParseClientMaxBodySize(d.args[1])] /\ Named(d, "client_max_body_size")
    BY <1>4, <1>12, Zenon DEF Follows, ServerCases, t
  <2>2. ~Named(d, "server_name") /\ ~Named(d, "root") /\ ~Named(d, "index")
        /\ ~Named(d, "error_page")
    BY <1>3, <2>1
  <2>3. ParseClientMaxBodySize(d.args[1]) \in 0..SizeMax
    <3>1. d.args[1] \in Seq(Y)
      BY <1>2, <1>12 DEF Follows
    <3>2. SizeOk(d.args[1])
      BY <1>2, <2>1, Zenon DEF ArgsOk
    <3> QED
      BY <3>1, <3>2, SizeIs
  <2>4. t \in ServerStates(Y)
    BY <1>6, <1>7, <2>1, <2>3
  <2>5. ServerFields(s, d, t)
    BY <1>7, <2>1, <2>2 DEF ServerFields
  <2> QED
    BY <2>4, <2>5 DEF t
<1>13. CASE Follows(d, "error_page", 2, 2)
  <2>1. t = [s EXCEPT !.pages = With(@, Number(d.args[1]), Last(d.args))] /\ Named(d, "error_page")
    BY <1>4, <1>13, Zenon DEF Follows, ServerCases, t
  <2>2. ~Named(d, "server_name") /\ ~Named(d, "root") /\ ~Named(d, "index")
        /\ ~Named(d, "client_max_body_size")
    BY <1>3, <2>1
  <2>3. With(s.pages, Number(d.args[1]), Last(d.args)) \in P
    <3>1. Len(d.args) = 2
      BY <1>2, <1>13 DEF Follows
    <3>2. d.args[1] \in Seq(Y) /\ d.args[2] \in Seq(Y) /\ Last(d.args) = d.args[2]
      BY <1>2, <3>1 DEF Last
    <3>3. IsCode(d.args[1], 400..599)
      <4> DEFINE codes == 400..599
      <4> HIDE DEF codes
      <4>1. 1 \in 1..Len(d.args) - 1
        BY <3>1
      <4>2. \A i \in 1..Len(d.args) - 1 : IsCode(d.args[i], codes)
        BY <1>2, <2>1 DEF ArgsOk, codes
      <4> QED
        BY <4>1, <4>2 DEF codes
    <3>4. Number(d.args[1]) \in 0..SizeMax
      BY <3>2, <3>3, CodeIs
    <3> DEFINE K == 0..SizeMax
               Z == Seq(Y)
               page == Last(d.args)
               code == Number(d.args[1])
    <3>5. P = Maps(K, Z) /\ page \in Z /\ code \in K
      BY <3>2, <3>4 DEF P
    <3> HIDE DEF K, Z, page, code
    <3>6. With(s.pages, code, page) \in Maps(K, Z)
      BY <1>1, <3>5, WithIn
    <3> QED
      BY <3>5, <3>6 DEF page, code
  <2>4. t \in ServerStates(Y)
    BY <1>6, <1>7, <2>1, <2>3
  <2>5. ServerFields(s, d, t)
    BY <1>7, <2>1, <2>2 DEF ServerFields
  <2> QED
    BY <2>4, <2>5 DEF t
<1> QED
  BY <1>5, <1>8, <1>9, <1>10, <1>11, <1>12, <1>13 DEF t

LEMMA NewServerIn ==
    ASSUME NEW Y
    PROVE  NewServer \in ServerStates(Y)
<1>1. <<>> \in Maps(0..SizeMax, Seq(Y)) /\ <<>> \in Seq(Y) /\ <<>> \in Seq(Words(Y))
  BY EmptyMap, EmptySeq
<1>2. 0 \in 0..SizeMax
  BY SizeMaxIs
<1> DEFINE P == Maps(0..SizeMax, Seq(Y))
           Q == Seq(Words(Y))
<1> HIDE DEF P, Q
<1> QED
  BY <1>1, <1>2 DEF NewServer, ServerStates, Absent, P, Q

ServerSteps(Y) == [q \in ServerStates(Y) \X Allowed(Y, "server") |-> ApplyServer(q[1], q[2])]

(* The directives of a server are applied in the order of the file.        *)
LEMMA ServerRuns ==
    ASSUME NEW Y, NEW text \in Seq(Allowed(Y, "server"))
    PROVE  /\ NewServer \in ServerStates(Y)
           /\ ServerSteps(Y) \in [ServerStates(Y) \X Allowed(Y, "server") -> ServerStates(Y)]
           /\ FoldLeft(ApplyServer, NewServer, text) = Run(ServerSteps(Y), NewServer, text)
<1> DEFINE X == ServerStates(Y)
           Z == Allowed(Y, "server")
           op == ServerSteps(Y)
           base == NewServer
           step(s, d) == ApplyServer(s, d)
           Rec(it) == it = [s \in SUBSET DOMAIN text |->
                               IF s = {} THEN base ELSE step(it[s \ {Max(s)}], text[Max(s)])]
           C == CHOOSE it : Rec(it)
<1>1. FoldLeft(ApplyServer, base, text) = C[DOMAIN text]
  BY Zenon DEF FoldLeft, MapThenFoldSet
<1>2. base \in X /\ op \in [X \X Z -> X] /\ \A x \in X, y \in Z : op[<<x, y>>] = step(x, y)
  <2>1. \A x \in X, y \in Z : step(x, y) \in X
    BY ServerStep
  <2>2. base \in X
    BY NewServerIn
  <2>3. op = [p \in X \X Z |-> step(p[1], p[2])]
    BY DEF ServerSteps
  <2> HIDE DEF op, X, Z, step, base
  <2> QED
    BY <2>1, <2>2, <2>3
<1> HIDE DEF op, X, Z, base
<1>3. \E it : Rec(it)
  <2>1. PICK it \in [SUBSET DOMAIN text -> X] : Folded(it, op, base, text)
    BY <1>2, FoldsExist DEF Z
  <2>2. ASSUME NEW s \in SUBSET DOMAIN text, s # {}
        PROVE  op[<<it[s \ {Max(s)}], text[Max(s)]>>] = step(it[s \ {Max(s)}], text[Max(s)])
    <3>1. text[Max(s)] \in Z
      BY <2>2, PlaceOfMax DEF Z
    <3>2. it[s \ {Max(s)}] \in X
      BY <2>1
    <3> HIDE DEF step
    <3> QED
      BY <1>2, <3>1, <3>2
  <2> HIDE DEF step
  <2>3. it = [s \in SUBSET DOMAIN text |->
                 IF s = {} THEN base ELSE step(it[s \ {Max(s)}], text[Max(s)])]
    BY <2>1, <2>2 DEF Folded
  <2> QED
    BY <2>3
<1> HIDE DEF step
<1>4. Rec(C)
  BY <1>3
<1> HIDE DEF C
<1>5. C[{}] = base
  BY <1>4
<1>6. \A k \in 1..Len(text) : C[1..k - 1] \in X => C[1..k] = op[<<C[1..k - 1], text[k]>>]
  <2> SUFFICES ASSUME NEW k \in 1..Len(text), C[1..k - 1] \in X
               PROVE  C[1..k] = op[<<C[1..k - 1], text[k]>>]
    OBVIOUS
  <2>1. /\ 1..k \in SUBSET DOMAIN text /\ Max(1..k) = k /\ (1..k) \ {k} = 1..k - 1
        /\ 1..k # {} /\ text[k] \in Z
    BY MaxOfSegment DEF Z
  <2>2. C[1..k] = step(C[(1..k) \ {Max(1..k)}], text[Max(1..k)])
    BY <1>4, <2>1
  <2> QED
    BY <1>2, <2>1, <2>2
<1>7. C[DOMAIN text] = Run(op, base, text)
  <2>1. Goes(C, X, op, base, text)
    BY <1>5, <1>6 DEF Goes
  <2>2. LeadsTo(C, op, base, text)
    BY <1>2, <2>1, FoldRuns DEF Z
  <2> QED
    BY <2>2 DEF LeadsTo
<1> QED
  BY <1>1, <1>2, <1>7 DEF op, X, Z, base

(* What has been read of a server.                                         *)
ServerSays(ds, s) ==
    /\ s.names = WordsOf(ds, "server_name")
    /\ s.root = IF Has(ds, "root") THEN Where(ds, "root")[1] ELSE Absent
    /\ Once(ds, "index") => s.index = IF Has(ds, "index") THEN Where(ds, "index") ELSE <<>>
    /\ s.max = IF Has(ds, "client_max_body_size")
                THEN ParseClientMaxBodySize(Where(ds, "client_max_body_size")[1]) ELSE 0
    /\ ServerPages(ds, s.pages)

LEMMA ServerSaysMore ==
    ASSUME NEW Y, NEW ds \in Seq(Allowed(Y, "server")), NEW d \in Allowed(Y, "server"),
           NEW s, ServerSays(ds, s), NEW t, ServerFields(s, d, t)
    PROVE  ServerSays(Append(ds, d), t)
<1> DEFINE new == Append(ds, d)
<1>1. /\ WordsOf(new, "server_name")
            = WordsOf(ds, "server_name") \union (IF Named(d, "server_name") THEN ToSet(d.args) ELSE {})
  BY ArgsAppend
<1>2. ASSUME NEW name
      PROVE  /\ Has(new, name) <=> Has(ds, name) \/ Named(d, name)
             /\ Named(d, name) => Where(new, name) = d.args
             /\ ~Named(d, name) /\ Has(ds, name) => Where(new, name) = Where(ds, name)
             /\ Once(new, name) => Once(ds, name) /\ (Named(d, name) => ~Has(ds, name))
  BY HasAppend
<1>3. d.args \in Seq(Words(Y))
  BY AllowedIs, ArgsAre
<1> HIDE DEF new
<1>4. t.names = WordsOf(new, "server_name")
  BY <1>1 DEF ServerSays, ServerFields
<1>5. t.root = IF Has(new, "root") THEN Where(new, "root")[1] ELSE Absent
  BY <1>2 DEF ServerSays, ServerFields
<1>6. ASSUME Once(new, "index")
      PROVE  t.index = IF Has(new, "index") THEN Where(new, "index") ELSE <<>>
  <2>1. Once(ds, "index") /\ (Named(d, "index") => ~Has(ds, "index"))
    BY <1>2, <1>6
  <2>2. s.index = IF Has(ds, "index") THEN Where(ds, "index") ELSE <<>>
    BY <2>1 DEF ServerSays
  <2>3. CASE Named(d, "index")
    <3>1. t.index = <<>> \o d.args
      BY <2>1, <2>2, <2>3 DEF ServerFields
    <3>2. <<>> \o d.args = d.args
      BY <1>3, ConcatEmptySeq
    <3> QED
      BY <1>2, <2>3, <3>1, <3>2
  <2>4. CASE ~Named(d, "index")
    BY <1>2, <2>2, <2>4 DEF ServerFields
  <2> QED
    BY <2>3, <2>4
<1>7. t.max = IF Has(new, "client_max_body_size")
              THEN ParseClientMaxBodySize(Where(new, "client_max_body_size")[1]) ELSE 0
  BY <1>2 DEF ServerSays, ServerFields
<1>8. ServerPages(new, t.pages)
  <2>1. ServerPages(ds, s.pages)
    BY Zenon DEF ServerSays
  <2>2. t.pages = IF Named(d, "error_page") THEN With(s.pages, Number(d.args[1]), Last(d.args))
                  ELSE s.pages
    BY Zenon DEF ServerFields
  <2> QED
    BY <2>1, <2>2, ServerPagesMore DEF new
<1> QED
  BY <1>4, <1>5, <1>6, <1>7, <1>8 DEF ServerSays, new

LEMMA ServerIsRead ==
    ASSUME NEW Y, NEW ds \in Seq(Allowed(Y, "server"))
    PROVE  /\ FoldLeft(ApplyServer, NewServer, ds) \in ServerStates(Y)
           /\ ServerSays(ds, FoldLeft(ApplyServer, NewServer, ds))
<1> DEFINE Z == Allowed(Y, "server")
           X == ServerStates(Y)
           op == ServerSteps(Y)
           S == {t \in Seq(Z) : ServerSays(t, Run(op, NewServer, t))}
<1>1. NewServer \in X /\ op \in [X \X Z -> X]
      /\ FoldLeft(ApplyServer, NewServer, ds) = Run(op, NewServer, ds)
  BY ServerRuns
<1>2. <<>> \in S
  <2>1. Run(op, NewServer, <<>>) = NewServer
    BY RunEmpty
  <2>2. ServerSays(<<>>, NewServer)
    <3>1. ServerPages(<<>>, NewServer.pages)
      BY NoPages DEF ServerPages, NewServer
    <3> QED
      BY <3>1, NothingThere DEF ServerSays, NewServer
  <2> QED
    BY <2>1, <2>2, EmptySeq
<1>3. \A t \in Seq(Z) : \A d \in Z : t \in S => Append(t, d) \in S
  <2> SUFFICES ASSUME NEW t \in Seq(Z), NEW d \in Z, ServerSays(t, Run(op, NewServer, t))
               PROVE  Append(t, d) \in Seq(Z) /\ ServerSays(Append(t, d), Run(op, NewServer, Append(t, d)))
    OBVIOUS
  <2> DEFINE s == Run(op, NewServer, t)
  <2>1. s \in X
    BY <1>1, RunIn
  <2>2. Run(op, NewServer, Append(t, d)) = op[<<s, d>>]
    <3>1. Appended(op, NewServer, t, d)
      BY <1>1, RunAppend
    <3> QED
      BY <3>1 DEF Appended
  <2> HIDE DEF s
  <2>3. op[<<s, d>>] = ApplyServer(s, d)
    BY <2>1 DEF ServerSteps
  <2>4. ServerFields(s, d, ApplyServer(s, d))
    BY <2>1, ServerStep
  <2>5. ServerSays(Append(t, d), ApplyServer(s, d))
    BY <2>4, ServerSaysMore DEF s
  <2> QED
    BY <2>2, <2>3, <2>5, AppendProperties
<1> HIDE DEF S
<1>4. Seq(Z) \subseteq S
  BY <1>2, <1>3, Appending
<1>5. ServerSays(ds, Run(op, NewServer, ds))
  BY <1>4 DEF S
<1>6. Run(op, NewServer, ds) \in X
  BY <1>1, RunIn
<1> QED
  BY <1>1, <1>5, <1>6

-----------------------------------------------------------------------------
(* The directives of a location, one after the other.                      *)
Verbs == {"GET", "POST", "DELETE"}
LocationStates(Y) ==
    [path : Words(Y), root : Seq(Y), index : Seq(Words(Y)), max : 0..SizeMax,
     pages : Maps(0..SizeMax, Seq(Y)), autoindex : BOOLEAN, methods : SUBSET Verbs,
     hasReturn : BOOLEAN, code : 0..SizeMax, target : Seq(Y), upload : BOOLEAN,
     store : Seq(Y), hasCgi : BOOLEAN, exec : Maps(Words(Y), Words(Y))]

LEMMA JoinPathIn ==
    ASSUME NEW Y, Slash \in Y, NEW a \in Seq(Y), NEW b \in Seq(Y)
    PROVE  JoinPath(a, b) \in Seq(Y)
<1>1. Root \in Seq(Y)
  BY DEF Root
<1>2. b # <<>> => Tail(b) \in Seq(Y)
  BY HeadTailProperties
<1>3. a \o Root \in Seq(Y) /\ a \o b \in Seq(Y)
  BY <1>1, ConcatProperties
<1>4. b # <<>> => a \o Tail(b) \in Seq(Y)
  BY <1>2, ConcatProperties
<1>5. (a \o Root) \o b \in Seq(Y)
  BY <1>3, ConcatProperties
<1> QED
  BY <1>3, <1>4, <1>5, Zenon DEF JoinPath

(* What a directive changes of a location.                                 *)
LocationCases(l, d) ==
    /\ Named(d, "root") =>
          ApplyLocation(l, d) = [l EXCEPT !.root = d.args[1]]
    /\ Named(d, "index") =>
          ApplyLocation(l, d) = [l EXCEPT !.index = d.args]
    /\ Named(d, "client_max_body_size") =>
          ApplyLocation(l, d) = [l EXCEPT !.max = ParseClientMaxBodySize(d.args[1])]
    /\ Named(d, "return") =>
          ApplyLocation(l, d) = [l EXCEPT !.hasReturn = TRUE, !.code = Number(d.args[1]), !.target = IF Len(d.args) > 1 THEN d.args[2] ELSE Absent]
    /\ Named(d, "error_page") =>
          ApplyLocation(l, d) = [l EXCEPT !.pages = With(@, Number(d.args[1]), JoinPath(l.root, Last(d.args)))]
    /\ Named(d, "allow_methods") =>
          ApplyLocation(l, d) = [l EXCEPT !.methods = @ \union {m[1] : m \in ToSet(d.args)}]
    /\ Named(d, "autoindex") =>
          ApplyLocation(l, d) = [l EXCEPT !.autoindex = @ \/ d.args[1] = On]
    /\ Named(d, "upload") =>
          ApplyLocation(l, d) = [l EXCEPT !.upload = TRUE]
    /\ Named(d, "upload_store") =>
          ApplyLocation(l, d) = [l EXCEPT !.store = d.args[1]]
    /\ Named(d, "cgi") =>
          ApplyLocation(l, d) = [l EXCEPT !.hasCgi = TRUE]
    /\ Named(d, "cgi_exec") =>
          ApplyLocation(l, d) = [l EXCEPT !.exec = With(@, d.args[1], d.args[2])]

LEMMA LocationCasesHold ==
    ASSUME NEW l, NEW d
    PROVE  LocationCases(l, d)
<1>1. \A a, b : Named(d, a) /\ Named(d, b) => a = b
  BY OneName, Zenon
<1>2. ASSUME Named(d, "root")
     PROVE  ApplyLocation(l, d) = [l EXCEPT !.root = d.args[1]]
  <2>1. /\ ~Named(d, "index")
        /\ ~Named(d, "client_max_body_size")
        /\ ~Named(d, "return")
        /\ ~Named(d, "error_page")
        /\ ~Named(d, "allow_methods")
        /\ ~Named(d, "autoindex")
        /\ ~Named(d, "upload")
        /\ ~Named(d, "upload_store")
        /\ ~Named(d, "cgi")
        /\ ~Named(d, "cgi_exec")
    BY <1>1, <1>2
  <2> QED
    BY <1>2, <2>1 DEF ApplyLocation
<1>3. ASSUME Named(d, "index")
     PROVE  ApplyLocation(l, d) = [l EXCEPT !.index = d.args]
  <2>1. /\ ~Named(d, "root")
        /\ ~Named(d, "client_max_body_size")
        /\ ~Named(d, "return")
        /\ ~Named(d, "error_page")
        /\ ~Named(d, "allow_methods")
        /\ ~Named(d, "autoindex")
        /\ ~Named(d, "upload")
        /\ ~Named(d, "upload_store")
        /\ ~Named(d, "cgi")
        /\ ~Named(d, "cgi_exec")
    BY <1>1, <1>3
  <2> QED
    BY <1>3, <2>1 DEF ApplyLocation
<1>4. ASSUME Named(d, "client_max_body_size")
     PROVE  ApplyLocation(l, d) = [l EXCEPT !.max = ParseClientMaxBodySize(d.args[1])]
  <2>1. /\ ~Named(d, "root")
        /\ ~Named(d, "index")
        /\ ~Named(d, "return")
        /\ ~Named(d, "error_page")
        /\ ~Named(d, "allow_methods")
        /\ ~Named(d, "autoindex")
        /\ ~Named(d, "upload")
        /\ ~Named(d, "upload_store")
        /\ ~Named(d, "cgi")
        /\ ~Named(d, "cgi_exec")
    BY <1>1, <1>4
  <2> QED
    BY <1>4, <2>1 DEF ApplyLocation
<1>5. ASSUME Named(d, "return")
     PROVE  ApplyLocation(l, d) = [l EXCEPT !.hasReturn = TRUE, !.code = Number(d.args[1]), !.target = IF Len(d.args) > 1 THEN d.args[2] ELSE Absent]
  <2>1. /\ ~Named(d, "root")
        /\ ~Named(d, "index")
        /\ ~Named(d, "client_max_body_size")
        /\ ~Named(d, "error_page")
        /\ ~Named(d, "allow_methods")
        /\ ~Named(d, "autoindex")
        /\ ~Named(d, "upload")
        /\ ~Named(d, "upload_store")
        /\ ~Named(d, "cgi")
        /\ ~Named(d, "cgi_exec")
    BY <1>1, <1>5
  <2> QED
    BY <1>5, <2>1 DEF ApplyLocation
<1>6. ASSUME Named(d, "error_page")
     PROVE  ApplyLocation(l, d) = [l EXCEPT !.pages = With(@, Number(d.args[1]), JoinPath(l.root, Last(d.args)))]
  <2>1. /\ ~Named(d, "root")
        /\ ~Named(d, "index")
        /\ ~Named(d, "client_max_body_size")
        /\ ~Named(d, "return")
        /\ ~Named(d, "allow_methods")
        /\ ~Named(d, "autoindex")
        /\ ~Named(d, "upload")
        /\ ~Named(d, "upload_store")
        /\ ~Named(d, "cgi")
        /\ ~Named(d, "cgi_exec")
    BY <1>1, <1>6
  <2> QED
    BY <1>6, <2>1 DEF ApplyLocation
<1>7. ASSUME Named(d, "allow_methods")
     PROVE  ApplyLocation(l, d) = [l EXCEPT !.methods = @ \union {m[1] : m \in ToSet(d.args)}]
  <2>1. /\ ~Named(d, "root")
        /\ ~Named(d, "index")
        /\ ~Named(d, "client_max_body_size")
        /\ ~Named(d, "return")
        /\ ~Named(d, "error_page")
        /\ ~Named(d, "autoindex")
        /\ ~Named(d, "upload")
        /\ ~Named(d, "upload_store")
        /\ ~Named(d, "cgi")
        /\ ~Named(d, "cgi_exec")
    BY <1>1, <1>7
  <2> QED
    BY <1>7, <2>1 DEF ApplyLocation
<1>8. ASSUME Named(d, "autoindex")
     PROVE  ApplyLocation(l, d) = [l EXCEPT !.autoindex = @ \/ d.args[1] = On]
  <2>1. /\ ~Named(d, "root")
        /\ ~Named(d, "index")
        /\ ~Named(d, "client_max_body_size")
        /\ ~Named(d, "return")
        /\ ~Named(d, "error_page")
        /\ ~Named(d, "allow_methods")
        /\ ~Named(d, "upload")
        /\ ~Named(d, "upload_store")
        /\ ~Named(d, "cgi")
        /\ ~Named(d, "cgi_exec")
    BY <1>1, <1>8
  <2> QED
    BY <1>8, <2>1 DEF ApplyLocation
<1>9. ASSUME Named(d, "upload")
     PROVE  ApplyLocation(l, d) = [l EXCEPT !.upload = TRUE]
  <2>1. /\ ~Named(d, "root")
        /\ ~Named(d, "index")
        /\ ~Named(d, "client_max_body_size")
        /\ ~Named(d, "return")
        /\ ~Named(d, "error_page")
        /\ ~Named(d, "allow_methods")
        /\ ~Named(d, "autoindex")
        /\ ~Named(d, "upload_store")
        /\ ~Named(d, "cgi")
        /\ ~Named(d, "cgi_exec")
    BY <1>1, <1>9
  <2> QED
    BY <1>9, <2>1 DEF ApplyLocation
<1>10. ASSUME Named(d, "upload_store")
     PROVE  ApplyLocation(l, d) = [l EXCEPT !.store = d.args[1]]
  <2>1. /\ ~Named(d, "root")
        /\ ~Named(d, "index")
        /\ ~Named(d, "client_max_body_size")
        /\ ~Named(d, "return")
        /\ ~Named(d, "error_page")
        /\ ~Named(d, "allow_methods")
        /\ ~Named(d, "autoindex")
        /\ ~Named(d, "upload")
        /\ ~Named(d, "cgi")
        /\ ~Named(d, "cgi_exec")
    BY <1>1, <1>10
  <2> QED
    BY <1>10, <2>1 DEF ApplyLocation
<1>11. ASSUME Named(d, "cgi")
     PROVE  ApplyLocation(l, d) = [l EXCEPT !.hasCgi = TRUE]
  <2>1. /\ ~Named(d, "root")
        /\ ~Named(d, "index")
        /\ ~Named(d, "client_max_body_size")
        /\ ~Named(d, "return")
        /\ ~Named(d, "error_page")
        /\ ~Named(d, "allow_methods")
        /\ ~Named(d, "autoindex")
        /\ ~Named(d, "upload")
        /\ ~Named(d, "upload_store")
        /\ ~Named(d, "cgi_exec")
    BY <1>1, <1>11
  <2> QED
    BY <1>11, <2>1 DEF ApplyLocation
<1>12. ASSUME Named(d, "cgi_exec")
     PROVE  ApplyLocation(l, d) = [l EXCEPT !.exec = With(@, d.args[1], d.args[2])]
  <2>1. /\ ~Named(d, "root")
        /\ ~Named(d, "index")
        /\ ~Named(d, "client_max_body_size")
        /\ ~Named(d, "return")
        /\ ~Named(d, "error_page")
        /\ ~Named(d, "allow_methods")
        /\ ~Named(d, "autoindex")
        /\ ~Named(d, "upload")
        /\ ~Named(d, "upload_store")
        /\ ~Named(d, "cgi")
    BY <1>1, <1>12
  <2> QED
    BY <1>12, <2>1 DEF ApplyLocation
<1> QED
  BY <1>2, <1>3, <1>4, <1>5, <1>6, <1>7, <1>8, <1>9, <1>10, <1>11, <1>12, Zenon DEF LocationCases

LocationFields(l, d, t) ==
    /\ t.path = l.path
    /\ t.root = IF Named(d, "root") THEN d.args[1] ELSE l.root
    /\ t.index = IF Named(d, "index") THEN d.args ELSE l.index
    /\ t.max = IF Named(d, "client_max_body_size") THEN ParseClientMaxBodySize(d.args[1]) ELSE l.max
    /\ t.autoindex <=> l.autoindex \/ (Named(d, "autoindex") /\ d.args[1] = On)
    /\ t.methods = l.methods \union
                      (IF Named(d, "allow_methods") THEN {m[1] : m \in ToSet(d.args)} ELSE {})
    /\ t.hasReturn <=> l.hasReturn \/ Named(d, "return")
    /\ t.code = IF Named(d, "return") THEN Number(d.args[1]) ELSE l.code
    /\ t.target = IF Named(d, "return") THEN (IF Len(d.args) > 1 THEN d.args[2] ELSE Absent)
                  ELSE l.target
    /\ t.upload <=> l.upload \/ Named(d, "upload")
    /\ t.store = IF Named(d, "upload_store") THEN d.args[1] ELSE l.store
    /\ t.hasCgi <=> l.hasCgi \/ Named(d, "cgi")
    /\ t.exec = IF Named(d, "cgi_exec") THEN With(l.exec, d.args[1], d.args[2]) ELSE l.exec
    /\ t.pages = IF Named(d, "error_page")
                 THEN With(l.pages, Number(d.args[1]), JoinPath(l.root, Last(d.args)))
                 ELSE l.pages

(* Each directive has as many arguments as its rule says.                  *)
ArgumentsAre(d) ==
    /\ Named(d, "root") => Len(d.args) = 1
    /\ Named(d, "index") => Len(d.args) >= 1
    /\ Named(d, "client_max_body_size") => Len(d.args) = 1
    /\ Named(d, "return") => Len(d.args) \in 1..2
    /\ Named(d, "error_page") => Len(d.args) = 2
    /\ Named(d, "allow_methods") => Len(d.args) >= 1
    /\ Named(d, "autoindex") => Len(d.args) = 1
    /\ Named(d, "upload") => Len(d.args) = 1
    /\ Named(d, "upload_store") => Len(d.args) = 1
    /\ Named(d, "cgi") => Len(d.args) = 1
    /\ Named(d, "cgi_exec") => Len(d.args) = 2

LEMMA LocationArguments ==
    ASSUME NEW Y, NEW d \in Allowed(Y, "location")
    PROVE  ArgumentsAre(d)
<1>1. DirectiveOk(d, "location") /\ Len(d.args) \in Nat
  BY AllowedIs, ArgsAre, Zenon
<1>2. \A a, b : Named(d, a) /\ Named(d, b) => a = b
  BY OneName, Zenon
<1>3. Unlimited \in Nat
  BY SMT DEF Unlimited
<1>4. \/ Follows(d, "root", 1, 1)
      \/ Follows(d, "index", 1, Unlimited)
      \/ Follows(d, "client_max_body_size", 1, 1)
      \/ Follows(d, "return", 1, 2)
      \/ Follows(d, "error_page", 2, 2)
      \/ Follows(d, "allow_methods", 1, Unlimited)
      \/ Follows(d, "autoindex", 1, 1)
      \/ Follows(d, "upload", 1, 1)
      \/ Follows(d, "upload_store", 1, 1)
      \/ Follows(d, "cgi", 1, 1)
      \/ Follows(d, "cgi_exec", 2, 2)
  BY <1>1, LocationRules, Zenon
<1>5. CASE Follows(d, "root", 1, 1)
  <2>1. Named(d, "root") /\ Len(d.args) = 1
    <3>1. Named(d, "root") /\ Len(d.args) \in 1..1
      BY <1>5, Zenon DEF Follows
    <3> QED
      BY <1>1, <1>3, <3>1, SMT
  <2>2. \A b : Named(d, b) => b = "root"
    BY <1>2, <2>1, Zenon
  <2> QED
    BY <2>1, <2>2 DEF ArgumentsAre
<1>6. CASE Follows(d, "index", 1, Unlimited)
  <2>1. Named(d, "index") /\ Len(d.args) >= 1
    <3>1. Named(d, "index") /\ Len(d.args) \in 1..Unlimited
      BY <1>6, Zenon DEF Follows
    <3> QED
      BY <1>1, <1>3, <3>1, SMT
  <2>2. \A b : Named(d, b) => b = "index"
    BY <1>2, <2>1, Zenon
  <2> QED
    BY <2>1, <2>2 DEF ArgumentsAre
<1>7. CASE Follows(d, "client_max_body_size", 1, 1)
  <2>1. Named(d, "client_max_body_size") /\ Len(d.args) = 1
    <3>1. Named(d, "client_max_body_size") /\ Len(d.args) \in 1..1
      BY <1>7, Zenon DEF Follows
    <3> QED
      BY <1>1, <1>3, <3>1, SMT
  <2>2. \A b : Named(d, b) => b = "client_max_body_size"
    BY <1>2, <2>1, Zenon
  <2> QED
    BY <2>1, <2>2 DEF ArgumentsAre
<1>8. CASE Follows(d, "return", 1, 2)
  <2>1. Named(d, "return") /\ Len(d.args) \in 1..2
    <3>1. Named(d, "return") /\ Len(d.args) \in 1..2
      BY <1>8, Zenon DEF Follows
    <3> QED
      BY <1>1, <1>3, <3>1, SMT
  <2>2. \A b : Named(d, b) => b = "return"
    BY <1>2, <2>1, Zenon
  <2> QED
    BY <2>1, <2>2 DEF ArgumentsAre
<1>9. CASE Follows(d, "error_page", 2, 2)
  <2>1. Named(d, "error_page") /\ Len(d.args) = 2
    <3>1. Named(d, "error_page") /\ Len(d.args) \in 2..2
      BY <1>9, Zenon DEF Follows
    <3> QED
      BY <1>1, <1>3, <3>1, SMT
  <2>2. \A b : Named(d, b) => b = "error_page"
    BY <1>2, <2>1, Zenon
  <2> QED
    BY <2>1, <2>2 DEF ArgumentsAre
<1>10. CASE Follows(d, "allow_methods", 1, Unlimited)
  <2>1. Named(d, "allow_methods") /\ Len(d.args) >= 1
    <3>1. Named(d, "allow_methods") /\ Len(d.args) \in 1..Unlimited
      BY <1>10, Zenon DEF Follows
    <3> QED
      BY <1>1, <1>3, <3>1, SMT
  <2>2. \A b : Named(d, b) => b = "allow_methods"
    BY <1>2, <2>1, Zenon
  <2> QED
    BY <2>1, <2>2 DEF ArgumentsAre
<1>11. CASE Follows(d, "autoindex", 1, 1)
  <2>1. Named(d, "autoindex") /\ Len(d.args) = 1
    <3>1. Named(d, "autoindex") /\ Len(d.args) \in 1..1
      BY <1>11, Zenon DEF Follows
    <3> QED
      BY <1>1, <1>3, <3>1, SMT
  <2>2. \A b : Named(d, b) => b = "autoindex"
    BY <1>2, <2>1, Zenon
  <2> QED
    BY <2>1, <2>2 DEF ArgumentsAre
<1>12. CASE Follows(d, "upload", 1, 1)
  <2>1. Named(d, "upload") /\ Len(d.args) = 1
    <3>1. Named(d, "upload") /\ Len(d.args) \in 1..1
      BY <1>12, Zenon DEF Follows
    <3> QED
      BY <1>1, <1>3, <3>1, SMT
  <2>2. \A b : Named(d, b) => b = "upload"
    BY <1>2, <2>1, Zenon
  <2> QED
    BY <2>1, <2>2 DEF ArgumentsAre
<1>13. CASE Follows(d, "upload_store", 1, 1)
  <2>1. Named(d, "upload_store") /\ Len(d.args) = 1
    <3>1. Named(d, "upload_store") /\ Len(d.args) \in 1..1
      BY <1>13, Zenon DEF Follows
    <3> QED
      BY <1>1, <1>3, <3>1, SMT
  <2>2. \A b : Named(d, b) => b = "upload_store"
    BY <1>2, <2>1, Zenon
  <2> QED
    BY <2>1, <2>2 DEF ArgumentsAre
<1>14. CASE Follows(d, "cgi", 1, 1)
  <2>1. Named(d, "cgi") /\ Len(d.args) = 1
    <3>1. Named(d, "cgi") /\ Len(d.args) \in 1..1
      BY <1>14, Zenon DEF Follows
    <3> QED
      BY <1>1, <1>3, <3>1, SMT
  <2>2. \A b : Named(d, b) => b = "cgi"
    BY <1>2, <2>1, Zenon
  <2> QED
    BY <2>1, <2>2 DEF ArgumentsAre
<1>15. CASE Follows(d, "cgi_exec", 2, 2)
  <2>1. Named(d, "cgi_exec") /\ Len(d.args) = 2
    <3>1. Named(d, "cgi_exec") /\ Len(d.args) \in 2..2
      BY <1>15, Zenon DEF Follows
    <3> QED
      BY <1>1, <1>3, <3>1, SMT
  <2>2. \A b : Named(d, b) => b = "cgi_exec"
    BY <1>2, <2>1, Zenon
  <2> QED
    BY <2>1, <2>2 DEF ArgumentsAre
<1> QED
  BY <1>4, <1>5, <1>6, <1>7, <1>8, <1>9, <1>10, <1>11, <1>12, <1>13, <1>14, <1>15, Zenon

LEMMA LocationStep ==
    ASSUME NEW Y, Slash \in Y, NEW l \in LocationStates(Y), NEW d \in Allowed(Y, "location")
    PROVE  /\ ApplyLocation(l, d) \in LocationStates(Y)
           /\ LocationFields(l, d, ApplyLocation(l, d))
<1> DEFINE t == ApplyLocation(l, d)
           W == Words(Y)
           Q == Seq(Y)
           I == Seq(Words(Y))
           M == 0..SizeMax
           P == Maps(0..SizeMax, Seq(Y))
           E == Maps(Words(Y), Words(Y))
           Locations == [path : W, root : Q, index : I, max : M, pages : P, autoindex : BOOLEAN,
                         methods : SUBSET Verbs, hasReturn : BOOLEAN, code : M, target : Q,
                         upload : BOOLEAN, store : Q, hasCgi : BOOLEAN, exec : E]
<1>1. /\ DirectiveOk(d, "location") /\ ArgsOk(d)
      /\ d.args \in I /\ Len(d.args) \in Nat
      /\ \A i \in 1..Len(d.args) : d.args[i] \in W /\ d.args[i] \in Q
      /\ ToSet(d.args) \subseteq W
  BY AllowedIs, ArgsAre, Zenon
<1>2. \A a, b : Named(d, a) /\ Named(d, b) => a = b
  BY OneName, Zenon
<1>3. LocationCases(l, d) /\ ArgumentsAre(d)
  BY LocationCasesHold, LocationArguments
<1>4. \/ Named(d, "root")
      \/ Named(d, "index")
      \/ Named(d, "client_max_body_size")
      \/ Named(d, "return")
      \/ Named(d, "error_page")
      \/ Named(d, "allow_methods")
      \/ Named(d, "autoindex")
      \/ Named(d, "upload")
      \/ Named(d, "upload_store")
      \/ Named(d, "cgi")
      \/ Named(d, "cgi_exec")
  BY <1>1, LocationRules, Zenon DEF Follows
<1>5. LocationStates(Y) = Locations
  BY Zenon DEF LocationStates
<1>6. l \in Locations
  BY <1>5, Zenon
<1>7. \A a, b \in Q : JoinPath(a, b) \in Q
  BY JoinPathIn
<1>8. \A map \in P, c \in M, page \in Q : With(map, c, page) \in P
  BY WithIn
<1>9. \A map \in E, ext \in W, program \in W : With(map, ext, program) \in E
  BY WithIn
<1>10. \A word \in Q : SizeOk(word) => ParseClientMaxBodySize(word) \in M
  BY SizeIs
<1>11. <<>> \in Q
  BY EmptySeq
<1>12. \A word \in Q : \A codes : IsCode(word, codes) => Number(word) \in M
  BY CodeIs
<1> HIDE DEF t, W, Q, I, M, P, E
<1>13. CASE Named(d, "root")
  <2>1. t = [l EXCEPT !.root = d.args[1]]
    BY <1>3, <1>13, Zenon DEF LocationCases, t
  <2>2. /\ ~Named(d, "index")
        /\ ~Named(d, "client_max_body_size")
        /\ ~Named(d, "return")
        /\ ~Named(d, "error_page")
        /\ ~Named(d, "allow_methods")
        /\ ~Named(d, "autoindex")
        /\ ~Named(d, "upload")
        /\ ~Named(d, "upload_store")
        /\ ~Named(d, "cgi")
        /\ ~Named(d, "cgi_exec")
    BY <1>2, <1>13
  <2>3. d.args[1] \in Q
    BY <1>1, <1>3, <1>13 DEF ArgumentsAre
  <2>4. t \in Locations
    BY <1>6, <2>1, <2>3
  <2>5. LocationFields(l, d, t)
    BY <1>6, <2>1, <2>2, <1>13 DEF LocationFields
  <2> QED
    BY <1>5, <2>4, <2>5 DEF t
<1>14. CASE Named(d, "index")
  <2>1. t = [l EXCEPT !.index = d.args]
    BY <1>3, <1>14, Zenon DEF LocationCases, t
  <2>2. /\ ~Named(d, "root")
        /\ ~Named(d, "client_max_body_size")
        /\ ~Named(d, "return")
        /\ ~Named(d, "error_page")
        /\ ~Named(d, "allow_methods")
        /\ ~Named(d, "autoindex")
        /\ ~Named(d, "upload")
        /\ ~Named(d, "upload_store")
        /\ ~Named(d, "cgi")
        /\ ~Named(d, "cgi_exec")
    BY <1>2, <1>14
  <2>3. d.args \in I
    BY <1>1
  <2>4. t \in Locations
    BY <1>6, <2>1, <2>3
  <2>5. LocationFields(l, d, t)
    BY <1>6, <2>1, <2>2, <1>14 DEF LocationFields
  <2> QED
    BY <1>5, <2>4, <2>5 DEF t
<1>15. CASE Named(d, "client_max_body_size")
  <2>1. t = [l EXCEPT !.max = ParseClientMaxBodySize(d.args[1])]
    BY <1>3, <1>15, Zenon DEF LocationCases, t
  <2>2. /\ ~Named(d, "root")
        /\ ~Named(d, "index")
        /\ ~Named(d, "return")
        /\ ~Named(d, "error_page")
        /\ ~Named(d, "allow_methods")
        /\ ~Named(d, "autoindex")
        /\ ~Named(d, "upload")
        /\ ~Named(d, "upload_store")
        /\ ~Named(d, "cgi")
        /\ ~Named(d, "cgi_exec")
    BY <1>2, <1>15
  <2>3. ParseClientMaxBodySize(d.args[1]) \in M
    <3>1. d.args[1] \in Q
      BY <1>1, <1>3, <1>15 DEF ArgumentsAre
    <3>2. SizeOk(d.args[1])
      BY <1>1, <1>15, Zenon DEF ArgsOk
    <3> QED
      BY <1>10, <3>1, <3>2
  <2>4. t \in Locations
    BY <1>6, <2>1, <2>3
  <2>5. LocationFields(l, d, t)
    BY <1>6, <2>1, <2>2, <1>15 DEF LocationFields
  <2> QED
    BY <1>5, <2>4, <2>5 DEF t
<1>16. CASE Named(d, "return")
  <2>1. t = [l EXCEPT !.hasReturn = TRUE, !.code = Number(d.args[1]), !.target = IF Len(d.args) > 1 THEN d.args[2] ELSE Absent]
    BY <1>3, <1>16, Zenon DEF LocationCases, t
  <2>2. /\ ~Named(d, "root")
        /\ ~Named(d, "index")
        /\ ~Named(d, "client_max_body_size")
        /\ ~Named(d, "error_page")
        /\ ~Named(d, "allow_methods")
        /\ ~Named(d, "autoindex")
        /\ ~Named(d, "upload")
        /\ ~Named(d, "upload_store")
        /\ ~Named(d, "cgi")
        /\ ~Named(d, "cgi_exec")
    BY <1>2, <1>16
  <2>3. Number(d.args[1]) \in M /\ (IF Len(d.args) > 1 THEN d.args[2] ELSE Absent) \in Q
    <3>1. Len(d.args) \in 1..2
      BY <1>3, <1>16 DEF ArgumentsAre
    <3>2. d.args[1] \in Q
      BY <1>1, <3>1
    <3>3. Number(d.args[1]) \in M
      <4> DEFINE codes == 100..599
      <4> HIDE DEF codes
      <4>1. IsCode(d.args[1], codes)
        BY <1>1, <1>16 DEF ArgsOk, codes
      <4> QED
        BY <1>12, <3>2, <4>1
    <3>4. (IF Len(d.args) > 1 THEN d.args[2] ELSE Absent) \in Q
      BY <1>1, <1>11, <3>1 DEF Absent
    <3> QED
      BY <3>3, <3>4
  <2>4. t \in Locations
    BY <1>6, <2>1, <2>3
  <2>5. LocationFields(l, d, t)
    BY <1>6, <2>1, <2>2, <1>16 DEF LocationFields
  <2> QED
    BY <1>5, <2>4, <2>5 DEF t
<1>17. CASE Named(d, "error_page")
  <2>1. t = [l EXCEPT !.pages = With(@, Number(d.args[1]), JoinPath(l.root, Last(d.args)))]
    BY <1>3, <1>17, Zenon DEF LocationCases, t
  <2>2. /\ ~Named(d, "root")
        /\ ~Named(d, "index")
        /\ ~Named(d, "client_max_body_size")
        /\ ~Named(d, "return")
        /\ ~Named(d, "allow_methods")
        /\ ~Named(d, "autoindex")
        /\ ~Named(d, "upload")
        /\ ~Named(d, "upload_store")
        /\ ~Named(d, "cgi")
        /\ ~Named(d, "cgi_exec")
    BY <1>2, <1>17
  <2>3. With(l.pages, Number(d.args[1]), JoinPath(l.root, Last(d.args))) \in P
    <3>1. Len(d.args) = 2
      BY <1>3, <1>17 DEF ArgumentsAre
    <3>2. d.args[1] \in Q /\ d.args[2] \in Q /\ Last(d.args) = d.args[2]
      BY <1>1, <3>1 DEF Last
    <3>3. IsCode(d.args[1], 400..599)
      <4> DEFINE codes == 400..599
      <4> HIDE DEF codes
      <4>1. 1 \in 1..Len(d.args) - 1
        BY <3>1
      <4>2. \A i \in 1..Len(d.args) - 1 : IsCode(d.args[i], codes)
        BY <1>1, <1>17 DEF ArgsOk, codes
      <4> QED
        BY <4>1, <4>2 DEF codes
    <3>4. Number(d.args[1]) \in M
      <4> DEFINE codes == 400..599
      <4> HIDE DEF codes
      <4>1. IsCode(d.args[1], codes)
        BY <3>3 DEF codes
      <4> QED
        BY <1>12, <3>2, <4>1
    <3>5. l.root \in Q /\ l.pages \in P
      BY <1>6
    <3> QED
      BY <1>7, <1>8, <3>2, <3>4, <3>5
  <2>4. t \in Locations
    BY <1>6, <2>1, <2>3
  <2>5. LocationFields(l, d, t)
    BY <1>6, <2>1, <2>2, <1>17 DEF LocationFields
  <2> QED
    BY <1>5, <2>4, <2>5 DEF t
<1>18. CASE Named(d, "allow_methods")
  <2>1. t = [l EXCEPT !.methods = @ \union {m[1] : m \in ToSet(d.args)}]
    BY <1>3, <1>18, Zenon DEF LocationCases, t
  <2>2. /\ ~Named(d, "root")
        /\ ~Named(d, "index")
        /\ ~Named(d, "client_max_body_size")
        /\ ~Named(d, "return")
        /\ ~Named(d, "error_page")
        /\ ~Named(d, "autoindex")
        /\ ~Named(d, "upload")
        /\ ~Named(d, "upload_store")
        /\ ~Named(d, "cgi")
        /\ ~Named(d, "cgi_exec")
    BY <1>2, <1>18
  <2>3. l.methods \union {m[1] : m \in ToSet(d.args)} \in SUBSET Verbs
    <3>1. ToSet(d.args) \subseteq Methods
      BY <1>1, <1>18, Zenon DEF ArgsOk
    <3>2. \A m \in Methods : m[1] \in Verbs
      BY DEF Methods, Verbs
    <3>3. l.methods \subseteq Verbs
      BY <1>6
    <3> QED
      BY <3>1, <3>2, <3>3
  <2>4. t \in Locations
    BY <1>6, <2>1, <2>3
  <2>5. LocationFields(l, d, t)
    BY <1>6, <2>1, <2>2, <1>18 DEF LocationFields
  <2> QED
    BY <1>5, <2>4, <2>5 DEF t
<1>19. CASE Named(d, "autoindex")
  <2>1. t = [l EXCEPT !.autoindex = @ \/ d.args[1] = On]
    BY <1>3, <1>19, Zenon DEF LocationCases, t
  <2>2. /\ ~Named(d, "root")
        /\ ~Named(d, "index")
        /\ ~Named(d, "client_max_body_size")
        /\ ~Named(d, "return")
        /\ ~Named(d, "error_page")
        /\ ~Named(d, "allow_methods")
        /\ ~Named(d, "upload")
        /\ ~Named(d, "upload_store")
        /\ ~Named(d, "cgi")
        /\ ~Named(d, "cgi_exec")
    BY <1>2, <1>19
  <2>3. (l.autoindex \/ d.args[1] = On) \in BOOLEAN
    OBVIOUS
  <2>4. t \in Locations
    BY <1>6, <2>1, <2>3
  <2>5. LocationFields(l, d, t)
    BY <1>6, <2>1, <2>2, <1>19 DEF LocationFields
  <2> QED
    BY <1>5, <2>4, <2>5 DEF t
<1>20. CASE Named(d, "upload")
  <2>1. t = [l EXCEPT !.upload = TRUE]
    BY <1>3, <1>20, Zenon DEF LocationCases, t
  <2>2. /\ ~Named(d, "root")
        /\ ~Named(d, "index")
        /\ ~Named(d, "client_max_body_size")
        /\ ~Named(d, "return")
        /\ ~Named(d, "error_page")
        /\ ~Named(d, "allow_methods")
        /\ ~Named(d, "autoindex")
        /\ ~Named(d, "upload_store")
        /\ ~Named(d, "cgi")
        /\ ~Named(d, "cgi_exec")
    BY <1>2, <1>20
  <2>3. TRUE \in BOOLEAN
    OBVIOUS
  <2>4. t \in Locations
    BY <1>6, <2>1, <2>3
  <2>5. LocationFields(l, d, t)
    BY <1>6, <2>1, <2>2, <1>20 DEF LocationFields
  <2> QED
    BY <1>5, <2>4, <2>5 DEF t
<1>21. CASE Named(d, "upload_store")
  <2>1. t = [l EXCEPT !.store = d.args[1]]
    BY <1>3, <1>21, Zenon DEF LocationCases, t
  <2>2. /\ ~Named(d, "root")
        /\ ~Named(d, "index")
        /\ ~Named(d, "client_max_body_size")
        /\ ~Named(d, "return")
        /\ ~Named(d, "error_page")
        /\ ~Named(d, "allow_methods")
        /\ ~Named(d, "autoindex")
        /\ ~Named(d, "upload")
        /\ ~Named(d, "cgi")
        /\ ~Named(d, "cgi_exec")
    BY <1>2, <1>21
  <2>3. d.args[1] \in Q
    BY <1>1, <1>3, <1>21 DEF ArgumentsAre
  <2>4. t \in Locations
    BY <1>6, <2>1, <2>3
  <2>5. LocationFields(l, d, t)
    BY <1>6, <2>1, <2>2, <1>21 DEF LocationFields
  <2> QED
    BY <1>5, <2>4, <2>5 DEF t
<1>22. CASE Named(d, "cgi")
  <2>1. t = [l EXCEPT !.hasCgi = TRUE]
    BY <1>3, <1>22, Zenon DEF LocationCases, t
  <2>2. /\ ~Named(d, "root")
        /\ ~Named(d, "index")
        /\ ~Named(d, "client_max_body_size")
        /\ ~Named(d, "return")
        /\ ~Named(d, "error_page")
        /\ ~Named(d, "allow_methods")
        /\ ~Named(d, "autoindex")
        /\ ~Named(d, "upload")
        /\ ~Named(d, "upload_store")
        /\ ~Named(d, "cgi_exec")
    BY <1>2, <1>22
  <2>3. TRUE \in BOOLEAN
    OBVIOUS
  <2>4. t \in Locations
    BY <1>6, <2>1, <2>3
  <2>5. LocationFields(l, d, t)
    BY <1>6, <2>1, <2>2, <1>22 DEF LocationFields
  <2> QED
    BY <1>5, <2>4, <2>5 DEF t
<1>23. CASE Named(d, "cgi_exec")
  <2>1. t = [l EXCEPT !.exec = With(@, d.args[1], d.args[2])]
    BY <1>3, <1>23, Zenon DEF LocationCases, t
  <2>2. /\ ~Named(d, "root")
        /\ ~Named(d, "index")
        /\ ~Named(d, "client_max_body_size")
        /\ ~Named(d, "return")
        /\ ~Named(d, "error_page")
        /\ ~Named(d, "allow_methods")
        /\ ~Named(d, "autoindex")
        /\ ~Named(d, "upload")
        /\ ~Named(d, "upload_store")
        /\ ~Named(d, "cgi")
    BY <1>2, <1>23
  <2>3. With(l.exec, d.args[1], d.args[2]) \in E
    <3>1. d.args[1] \in W /\ d.args[2] \in W
      BY <1>1, <1>3, <1>23 DEF ArgumentsAre
    <3>2. l.exec \in E
      BY <1>6
    <3> QED
      BY <1>9, <3>1, <3>2
  <2>4. t \in Locations
    BY <1>6, <2>1, <2>3
  <2>5. LocationFields(l, d, t)
    BY <1>6, <2>1, <2>2, <1>23 DEF LocationFields
  <2> QED
    BY <1>5, <2>4, <2>5 DEF t
<1> QED
  BY <1>4, <1>13, <1>14, <1>15, <1>16, <1>17, <1>18, <1>19, <1>20, <1>21, <1>22, <1>23, Zenon

LEMMA NewLocationIn ==
    ASSUME NEW Y, NEW path \in Words(Y)
    PROVE  NewLocation(path) \in LocationStates(Y)
<1> DEFINE W == Words(Y)
           Q == Seq(Y)
           I == Seq(Words(Y))
           M == 0..SizeMax
           P == Maps(0..SizeMax, Seq(Y))
           E == Maps(Words(Y), Words(Y))
<1>1. <<>> \in P /\ <<>> \in E /\ <<>> \in Q /\ <<>> \in I
  BY EmptyMap, EmptySeq
<1>2. 0 \in M
  BY SizeMaxIs
<1>3. path \in W
  OBVIOUS
<1>4. LocationStates(Y) =
         [path : W, root : Q, index : I, max : M, pages : P, autoindex : BOOLEAN,
          methods : SUBSET Verbs, hasReturn : BOOLEAN, code : M, target : Q,
          upload : BOOLEAN, store : Q, hasCgi : BOOLEAN, exec : E]
  BY Zenon DEF LocationStates
<1> HIDE DEF W, Q, I, M, P, E
<1> QED
  BY <1>1, <1>2, <1>3, <1>4 DEF NewLocation, Absent

LocationSteps(Y) == [q \in LocationStates(Y) \X Allowed(Y, "location") |-> ApplyLocation(q[1], q[2])]

(* The directives of a location are applied in the order of the file.      *)
LEMMA LocationRuns ==
    ASSUME NEW Y, Slash \in Y, NEW path \in Words(Y), NEW text \in Seq(Allowed(Y, "location"))
    PROVE  /\ NewLocation(path) \in LocationStates(Y)
           /\ LocationSteps(Y) \in [LocationStates(Y) \X Allowed(Y, "location") -> LocationStates(Y)]
           /\ FoldLeft(ApplyLocation, NewLocation(path), text) = Run(LocationSteps(Y), NewLocation(path), text)
<1> DEFINE X == LocationStates(Y)
           Z == Allowed(Y, "location")
           op == LocationSteps(Y)
           base == NewLocation(path)
           step(s, d) == ApplyLocation(s, d)
           Rec(it) == it = [s \in SUBSET DOMAIN text |->
                               IF s = {} THEN base ELSE step(it[s \ {Max(s)}], text[Max(s)])]
           C == CHOOSE it : Rec(it)
<1>1. FoldLeft(ApplyLocation, base, text) = C[DOMAIN text]
  BY Zenon DEF FoldLeft, MapThenFoldSet
<1>2. base \in X /\ op \in [X \X Z -> X] /\ \A x \in X, y \in Z : op[<<x, y>>] = step(x, y)
  <2>1. \A x \in X, y \in Z : step(x, y) \in X
    BY LocationStep
  <2>2. base \in X
    BY NewLocationIn
  <2>3. op = [p \in X \X Z |-> step(p[1], p[2])]
    BY DEF LocationSteps
  <2> HIDE DEF op, X, Z, step, base
  <2> QED
    BY <2>1, <2>2, <2>3
<1> HIDE DEF op, X, Z, base
<1>3. \E it : Rec(it)
  <2>1. PICK it \in [SUBSET DOMAIN text -> X] : Folded(it, op, base, text)
    BY <1>2, FoldsExist DEF Z
  <2>2. ASSUME NEW s \in SUBSET DOMAIN text, s # {}
        PROVE  op[<<it[s \ {Max(s)}], text[Max(s)]>>] = step(it[s \ {Max(s)}], text[Max(s)])
    <3>1. text[Max(s)] \in Z
      BY <2>2, PlaceOfMax DEF Z
    <3>2. it[s \ {Max(s)}] \in X
      BY <2>1
    <3> HIDE DEF step
    <3> QED
      BY <1>2, <3>1, <3>2
  <2> HIDE DEF step
  <2>3. it = [s \in SUBSET DOMAIN text |->
                 IF s = {} THEN base ELSE step(it[s \ {Max(s)}], text[Max(s)])]
    BY <2>1, <2>2 DEF Folded
  <2> QED
    BY <2>3
<1> HIDE DEF step
<1>4. Rec(C)
  BY <1>3
<1> HIDE DEF C
<1>5. C[{}] = base
  BY <1>4
<1>6. \A k \in 1..Len(text) : C[1..k - 1] \in X => C[1..k] = op[<<C[1..k - 1], text[k]>>]
  <2> SUFFICES ASSUME NEW k \in 1..Len(text), C[1..k - 1] \in X
               PROVE  C[1..k] = op[<<C[1..k - 1], text[k]>>]
    OBVIOUS
  <2>1. /\ 1..k \in SUBSET DOMAIN text /\ Max(1..k) = k /\ (1..k) \ {k} = 1..k - 1
        /\ 1..k # {} /\ text[k] \in Z
    BY MaxOfSegment DEF Z
  <2>2. C[1..k] = step(C[(1..k) \ {Max(1..k)}], text[Max(1..k)])
    BY <1>4, <2>1
  <2> QED
    BY <1>2, <2>1, <2>2
<1>7. C[DOMAIN text] = Run(op, base, text)
  <2>1. Goes(C, X, op, base, text)
    BY <1>5, <1>6 DEF Goes
  <2>2. LeadsTo(C, op, base, text)
    BY <1>2, <2>1, FoldRuns DEF Z
  <2> QED
    BY <2>2 DEF LeadsTo
<1> QED
  BY <1>1, <1>2, <1>7 DEF op, X, Z, base

(* What has been read of a location.                                       *)
LocationSays(path, ds, l) ==
    /\ l.path = path
    /\ l.root = IF Has(ds, "root") THEN Where(ds, "root")[1] ELSE Absent
    /\ l.index = IF Has(ds, "index") THEN Where(ds, "index") ELSE <<>>
    /\ l.max = IF Has(ds, "client_max_body_size")
               THEN ParseClientMaxBodySize(Where(ds, "client_max_body_size")[1]) ELSE 0
    /\ l.autoindex <=> On \in WordsOf(ds, "autoindex")
    /\ {<<m>> : m \in l.methods} = WordsOf(ds, "allow_methods")
    /\ l.hasReturn <=> Has(ds, "return")
    /\ l.code = IF Has(ds, "return") THEN Number(Where(ds, "return")[1]) ELSE 0
    /\ l.target = IF Has(ds, "return") /\ Len(Where(ds, "return")) > 1
                  THEN Where(ds, "return")[2] ELSE Absent
    /\ l.upload <=> Has(ds, "upload")
    /\ l.store = IF Has(ds, "upload_store") THEN Where(ds, "upload_store")[1] ELSE Absent
    /\ l.hasCgi <=> Has(ds, "cgi")
    /\ {<<ext, l.exec[ext]>> : ext \in DOMAIN l.exec} \subseteq ArgsOf(ds, "cgi_exec")
    /\ DOMAIN l.exec = {args[1] : args \in ArgsOf(ds, "cgi_exec")}
    /\ LocationPages(ds, l)

LEMMA LocationSaysMore ==
    ASSUME NEW Y, NEW ds \in Seq(Allowed(Y, "location")), NEW d \in Allowed(Y, "location"),
           NEW path, NEW l \in LocationStates(Y), LocationSays(path, ds, l),
           NEW t, LocationFields(l, d, t)
    PROVE  LocationSays(path, Append(ds, d), t)
<1> DEFINE new == Append(ds, d)
<1>1. ASSUME NEW name
      PROVE  /\ ArgsOf(new, name)
                   = ArgsOf(ds, name) \union (IF Named(d, name) THEN {d.args} ELSE {})
             /\ WordsOf(new, name)
                   = WordsOf(ds, name) \union (IF Named(d, name) THEN ToSet(d.args) ELSE {})
  BY ArgsAppend
<1>2. ASSUME NEW name
      PROVE  /\ Has(new, name) <=> Has(ds, name) \/ Named(d, name)
             /\ Named(d, name) => Where(new, name) = d.args
             /\ ~Named(d, name) /\ Has(ds, name) => Where(new, name) = Where(ds, name)
  BY HasAppend
<1>3. d.args \in Seq(Words(Y)) /\ ArgumentsAre(d) /\ ArgsOk(d)
  BY AllowedIs, ArgsAre, LocationArguments
<1>4. l.exec \in Maps(Words(Y), Words(Y))
  BY DEF LocationStates
<1> HIDE DEF new
<1>5. t.path = path
  BY DEF LocationSays, LocationFields
<1>6. t.root = IF Has(new, "root") THEN Where(new, "root")[1] ELSE Absent
  BY <1>2 DEF LocationSays, LocationFields
<1>7. t.index = IF Has(new, "index") THEN Where(new, "index") ELSE <<>>
  BY <1>2 DEF LocationSays, LocationFields
<1>8. t.max = IF Has(new, "client_max_body_size")
              THEN ParseClientMaxBodySize(Where(new, "client_max_body_size")[1]) ELSE 0
  BY <1>2 DEF LocationSays, LocationFields
<1>9. t.autoindex <=> On \in WordsOf(new, "autoindex")
  <2>1. Named(d, "autoindex") => ToSet(d.args) = {d.args[1]}
    <3> SUFFICES ASSUME Named(d, "autoindex") PROVE ToSet(d.args) = {d.args[1]}
      OBVIOUS
    <3>1. Len(d.args) = 1
      BY <1>3 DEF ArgumentsAre
    <3>2. DOMAIN d.args = {1}
      BY <1>3, <3>1, LenProperties
    <3> QED
      BY <3>2 DEF ToSet
  <2>2. l.autoindex <=> On \in WordsOf(ds, "autoindex")
    BY Zenon DEF LocationSays
  <2>3. t.autoindex <=> l.autoindex \/ (Named(d, "autoindex") /\ d.args[1] = On)
    BY Zenon DEF LocationFields
  <2> QED
    BY <1>1, <2>1, <2>2, <2>3
<1>10. {<<m>> : m \in t.methods} = WordsOf(new, "allow_methods")
  <2>1. {<<m>> : m \in l.methods} = WordsOf(ds, "allow_methods")
    BY Zenon DEF LocationSays
  <2>2. t.methods = l.methods \union
                      (IF Named(d, "allow_methods") THEN {m[1] : m \in ToSet(d.args)} ELSE {})
    BY Zenon DEF LocationFields
  <2>3. CASE Named(d, "allow_methods")
    <3>1. \A w \in ToSet(d.args) : w = <<w[1]>>
      <4>1. ToSet(d.args) \subseteq Methods
        BY <1>3, <2>3, Zenon DEF ArgsOk
      <4> QED
        BY <4>1 DEF Methods
    <3> DEFINE T == ToSet(d.args)
    <3> HIDE DEF T
    <3>2. {<<m>> : m \in {w[1] : w \in T}} = T
      <4>1. \A w \in T : w = <<w[1]>>
        BY <3>1 DEF T
      <4>2. T \subseteq {<<m>> : m \in {w[1] : w \in T}}
        <5> SUFFICES ASSUME NEW w \in T PROVE w \in {<<m>> : m \in {v[1] : v \in T}}
          OBVIOUS
        <5>1. w[1] \in {v[1] : v \in T} /\ w = <<w[1]>>
          BY <4>1
        <5> QED
          BY <5>1, Zenon
      <4>3. {<<m>> : m \in {w[1] : w \in T}} \subseteq T
        <5> SUFFICES ASSUME NEW w \in T PROVE <<w[1]>> \in T
          OBVIOUS
        <5> QED
          BY <4>1, Zenon
      <4> QED
        BY <4>2, <4>3
    <3> DEFINE S == {w[1] : w \in T}
               singles(A) == {<<m>> : m \in A}
    <3>3. singles(l.methods \union S) = singles(l.methods) \union singles(S)
      OBVIOUS
    <3> QED
      BY <1>1, <2>1, <2>2, <2>3, <3>2, <3>3 DEF T
  <2>4. CASE ~Named(d, "allow_methods")
    BY <1>1, <2>1, <2>2, <2>4
  <2> QED
    BY <2>3, <2>4
<1>11. t.hasReturn <=> Has(new, "return")
  BY <1>2 DEF LocationSays, LocationFields
<1>12. t.code = IF Has(new, "return") THEN Number(Where(new, "return")[1]) ELSE 0
  BY <1>2 DEF LocationSays, LocationFields
<1>13. t.target = IF Has(new, "return") /\ Len(Where(new, "return")) > 1
                  THEN Where(new, "return")[2] ELSE Absent
  BY <1>2 DEF LocationSays, LocationFields
<1>14. t.upload <=> Has(new, "upload")
  BY <1>2 DEF LocationSays, LocationFields
<1>15. t.store = IF Has(new, "upload_store") THEN Where(new, "upload_store")[1] ELSE Absent
  BY <1>2 DEF LocationSays, LocationFields
<1>16. t.hasCgi <=> Has(new, "cgi")
  BY <1>2 DEF LocationSays, LocationFields
<1>17. /\ {<<ext, t.exec[ext]>> : ext \in DOMAIN t.exec} \subseteq ArgsOf(new, "cgi_exec")
       /\ DOMAIN t.exec = {args[1] : args \in ArgsOf(new, "cgi_exec")}
  <2>1. /\ {<<ext, l.exec[ext]>> : ext \in DOMAIN l.exec} \subseteq ArgsOf(ds, "cgi_exec")
        /\ DOMAIN l.exec = {args[1] : args \in ArgsOf(ds, "cgi_exec")}
    BY Zenon DEF LocationSays
  <2>2. t.exec = IF Named(d, "cgi_exec") THEN With(l.exec, d.args[1], d.args[2]) ELSE l.exec
    BY Zenon DEF LocationFields
  <2>3. CASE Named(d, "cgi_exec")
    <3> DEFINE ext0 == d.args[1]
               prog == d.args[2]
    <3>1. /\ d.args = <<ext0, prog>> /\ ext0 \in Words(Y) /\ prog \in Words(Y)
      BY <1>3, <2>3 DEF ArgumentsAre
    <3> HIDE DEF ext0, prog
    <3>2. /\ DOMAIN With(l.exec, ext0, prog) = DOMAIN l.exec \union {ext0}
          /\ \A k \in DOMAIN With(l.exec, ext0, prog) :
                With(l.exec, ext0, prog)[k] = IF k = ext0 THEN prog ELSE l.exec[k]
      BY DEF With
    <3>3. t.exec = With(l.exec, ext0, prog)
      BY <2>2, <2>3 DEF ext0, prog
    <3>4. ArgsOf(new, "cgi_exec") = ArgsOf(ds, "cgi_exec") \union {<<ext0, prog>>}
      BY <1>1, <2>3, <3>1
    <3>5. DOMAIN t.exec = {args[1] : args \in ArgsOf(new, "cgi_exec")}
      <4> DEFINE A == ArgsOf(ds, "cgi_exec")
                 B == ArgsOf(new, "cgi_exec")
                 pair == <<ext0, prog>>
      <4>1. pair[1] = ext0
        OBVIOUS
      <4>2. B = A \union {pair} /\ DOMAIN t.exec = {args[1] : args \in A} \union {ext0}
        BY <2>1, <3>2, <3>3, <3>4
      <4> HIDE DEF A, B, pair
      <4>3. {args[1] : args \in B} = {args[1] : args \in A} \union {pair[1]}
        BY <4>2
      <4> QED
        BY <4>1, <4>2, <4>3 DEF B
    <3>6. ASSUME NEW k \in DOMAIN t.exec
          PROVE  <<k, t.exec[k]>> \in ArgsOf(new, "cgi_exec")
      <4>1. CASE k = ext0
        BY <3>2, <3>3, <3>4, <4>1
      <4>2. CASE k # ext0
        <5>1. k \in DOMAIN l.exec /\ t.exec[k] = l.exec[k]
          BY <3>2, <3>3, <3>6, <4>2
        <5>2. <<k, l.exec[k]>> \in ArgsOf(ds, "cgi_exec")
          BY <2>1, <5>1
        <5> QED
          BY <3>4, <5>1, <5>2
      <4> QED
        BY <4>1, <4>2
    <3> QED
      BY <3>5, <3>6
  <2>4. CASE ~Named(d, "cgi_exec")
    <3>1. t.exec = l.exec /\ ArgsOf(new, "cgi_exec") = ArgsOf(ds, "cgi_exec")
      BY <1>1, <2>2, <2>4
    <3> QED
      BY <2>1, <3>1
  <2> QED
    BY <2>3, <2>4
<1>18. LocationPages(new, t)
  <2>1. LocationPages(ds, l)
    BY Zenon DEF LocationSays
  <2>2. /\ t.root = IF Named(d, "root") THEN d.args[1] ELSE l.root
        /\ t.pages = IF Named(d, "error_page")
                     THEN With(l.pages, Number(d.args[1]), JoinPath(l.root, Last(d.args)))
                     ELSE l.pages
    BY Zenon DEF LocationFields
  <2> QED
    BY <2>1, <2>2, LocationPagesMore DEF new
<1> QED
  BY <1>5, <1>6, <1>7, <1>8, <1>9, <1>10, <1>11, <1>12, <1>13, <1>14, <1>15, <1>16, <1>17, <1>18,
     Zenon DEF LocationSays, new

LEMMA LocationIsRead ==
    ASSUME NEW Y, Slash \in Y, NEW path \in Words(Y), NEW ds \in Seq(Allowed(Y, "location"))
    PROVE  /\ FoldLeft(ApplyLocation, NewLocation(path), ds) \in LocationStates(Y)
           /\ LocationSays(path, ds, FoldLeft(ApplyLocation, NewLocation(path), ds))
<1> DEFINE Z == Allowed(Y, "location")
           X == LocationStates(Y)
           op == LocationSteps(Y)
           base == NewLocation(path)
           S == {t \in Seq(Z) : LocationSays(path, t, Run(op, base, t))}
<1>1. base \in X /\ op \in [X \X Z -> X] /\ FoldLeft(ApplyLocation, base, ds) = Run(op, base, ds)
  BY LocationRuns
<1>2. <<>> \in S
  <2>1. Run(op, base, <<>>) = base
    BY RunEmpty
  <2>2. LocationSays(path, <<>>, base)
    <3>1. ASSUME NEW name
          PROVE  /\ ~Has(<<>>, name) /\ ArgsOf(<<>>, name) = {} /\ WordsOf(<<>>, name) = {}
      BY NothingThere
    <3>2. DOMAIN <<>> = {}
      OBVIOUS
    <3>3. LocationPages(<<>>, NewLocation(path))
      BY NoPages DEF LocationPages, NewLocation
    <3> QED
      BY <3>1, <3>2, <3>3 DEF LocationSays, NewLocation
  <2> QED
    BY <2>1, <2>2, EmptySeq
<1> HIDE DEF base
<1>3. \A t \in Seq(Z) : \A d \in Z : t \in S => Append(t, d) \in S
  <2> SUFFICES ASSUME NEW t \in Seq(Z), NEW d \in Z, LocationSays(path, t, Run(op, base, t))
               PROVE  Append(t, d) \in Seq(Z) /\ LocationSays(path, Append(t, d), Run(op, base, Append(t, d)))
    OBVIOUS
  <2> DEFINE s == Run(op, base, t)
  <2>1. s \in X
    BY <1>1, RunIn
  <2>2. Run(op, base, Append(t, d)) = op[<<s, d>>]
    <3>1. Appended(op, base, t, d)
      BY <1>1, RunAppend
    <3> QED
      BY <3>1 DEF Appended
  <2> HIDE DEF s
  <2>3. op[<<s, d>>] = ApplyLocation(s, d)
    BY <2>1 DEF LocationSteps
  <2>4. LocationFields(s, d, ApplyLocation(s, d))
    BY <2>1, LocationStep
  <2>5. LocationSays(path, Append(t, d), ApplyLocation(s, d))
    BY <2>1, <2>4, LocationSaysMore DEF s
  <2> QED
    BY <2>2, <2>3, <2>5, AppendProperties
<1> HIDE DEF S
<1>4. Seq(Z) \subseteq S
  BY <1>2, <1>3, Appending
<1>5. LocationSays(path, ds, Run(op, base, ds))
  BY <1>4 DEF S
<1>6. Run(op, base, ds) \in X
  BY <1>1, RunIn
<1> QED
  BY <1>1, <1>5, <1>6 DEF base

-----------------------------------------------------------------------------
(* Places in an order, counted from the first.                             *)
IsOrder(S, R) ==
    \A i, j \in S :
        /\ <<i, j>> \in R \/ <<j, i>> \in R
        /\ <<i, j>> \in R /\ <<j, i>> \in R => i = j
        /\ \A k \in S : <<i, j>> \in R /\ <<j, k>> \in R => <<i, k>> \in R
Upto(S, R, i) == {j \in S : <<j, i>> \in R}
Rank(S, R, i) == Cardinality(Upto(S, R, i))

LEMMA RanksAre ==
    ASSUME NEW S, IsFiniteSet(S), NEW R, IsOrder(S, R)
    PROVE  /\ \A i \in S : Rank(S, R, i) \in 1..Cardinality(S)
           /\ \A i, j \in S : i # j /\ <<i, j>> \in R => Rank(S, R, i) < Rank(S, R, j)
           /\ \A n \in 1..Cardinality(S) : \E i \in S : Rank(S, R, i) = n
<1> DEFINE U(i) == Upto(S, R, i)
           r(i) == Rank(S, R, i)
           N == Cardinality(S)
<1>1. N \in Nat
  BY FS_CardinalityType
<1>2. ASSUME NEW i \in S
      PROVE  i \in U(i) /\ U(i) \subseteq S
  BY DEF IsOrder, Upto
<1>3. ASSUME NEW i \in S
      PROVE  /\ IsFiniteSet(U(i)) /\ r(i) \in 1..N
  <2>1. U(i) \in SUBSET S /\ U(i) # {}
    BY <1>2
  <2> HIDE DEF U
  <2>2. IsFiniteSet(U(i)) /\ Cardinality(U(i)) <= N
    BY <2>1, FS_Subset
  <2>3. Cardinality(U(i)) \in Nat /\ Cardinality(U(i)) # 0
    BY <2>1, <2>2, FS_CardinalityType, FS_EmptySet
  <2>4. Cardinality(U(i)) \in 1..N
    <3> DEFINE c == Cardinality(U(i))
    <3>1. c \in Nat /\ c # 0 /\ c <= N
      BY <2>2, <2>3
    <3> HIDE DEF c, N
    <3> QED
      BY <1>1, <3>1 DEF c
  <2> QED
    BY <2>2, <2>4 DEF Rank, U
<1>4. ASSUME NEW i \in S, NEW j \in S, i # j, <<i, j>> \in R
      PROVE  r(i) < r(j)
  <2>1. U(i) \in SUBSET U(j) /\ j \in U(j) /\ j \notin U(i)
    BY <1>4 DEF IsOrder, Upto
  <2>2. IsFiniteSet(U(i)) /\ IsFiniteSet(U(j)) /\ r(i) \in 1..N /\ r(j) \in 1..N
    BY <1>3
  <2>3. Cardinality(U(i)) <= Cardinality(U(j)) /\ Cardinality(U(i)) # Cardinality(U(j))
    <3> HIDE DEF U
    <3> QED
      BY <2>1, <2>2, FS_Subset
  <2> DEFINE a == r(i)
             b == r(j)
  <2>4. a <= b /\ a # b
    BY <2>3 DEF Rank
  <2>5. a \in 1..N /\ b \in 1..N
    BY <2>2
  <2> HIDE DEF a, b, N
  <2>6. a < b
    BY <1>1, <2>4, <2>5
  <2> QED
    BY <2>6 DEF a, b
<1>5. \A n \in 1..N : \E i \in S : r(i) = n
  <2> DEFINE f == [i \in S |-> r(i)]
             T == 1..N
  <2>1. f \in [S -> T]
    BY <1>3
  <2>2. \A i, j \in S : f[i] = f[j] => i = j
    <3> SUFFICES ASSUME NEW i \in S, NEW j \in S, i # j, r(i) = r(j) PROVE FALSE
      OBVIOUS
    <3>1. r(i) \in Nat /\ r(j) \in Nat
      BY <1>1, <1>3
    <3>2. r(i) < r(j) \/ r(j) < r(i)
      BY <1>4 DEF IsOrder
    <3> HIDE DEF r
    <3> QED
      BY <3>1, <3>2
  <2> HIDE DEF f
  <2>3. f \in Injection(S, T)
    BY <2>1, <2>2 DEF Injection, IsInjective
  <2>4. IsFiniteSet(T) /\ Cardinality(T) = N
    BY <1>1, FS_Interval
  <2>5. f \in Surjection(S, T)
    <3> HIDE DEF T
    <3> QED
      BY <2>3, <2>4, FS_Injection
  <2> QED
    BY <2>5 DEF Surjection, f
<1> QED
  BY <1>3, <1>4, <1>5

(* The numbers of a set in their order.                                    *)
Ascending(S) == {p \in S \X S : p[1] <= p[2]}

LEMMA AscendingIs ==
    ASSUME NEW bound \in Nat, NEW S \in SUBSET (1..bound)
    PROVE  /\ IsFiniteSet(S) /\ IsOrder(S, Ascending(S))
           /\ \A i, j \in S : <<i, j>> \in Ascending(S) <=> i <= j
           /\ \A i \in S : Upto(S, Ascending(S), i) = {k \in S : k <= i}
<1>1. \A i \in S : i \in Int
  OBVIOUS
<1>2. IsFiniteSet(S)
  <2>1. IsFiniteSet(1..bound)
    BY FS_Interval
  <2> QED
    BY <2>1, FS_Subset
<1>3. \A i, j \in S : <<i, j>> \in Ascending(S) <=> i <= j
  BY DEF Ascending
<1>4. IsOrder(S, Ascending(S))
  <2> DEFINE R == Ascending(S)
  <2>1. \A i, j \in S : <<i, j>> \in R <=> i <= j
    BY <1>3
  <2> HIDE DEF R
  <2>2. \A i, j \in S : i <= j \/ j <= i
    BY <1>1
  <2>3. \A i, j \in S : i <= j /\ j <= i => i = j
    BY <1>1
  <2>4. \A i, j, k \in S : i <= j /\ j <= k => i <= k
    BY <1>1
  <2> QED
    BY <2>1, <2>2, <2>3, <2>4, Zenon DEF IsOrder, R
<1>5. \A i \in S : Upto(S, Ascending(S), i) = {k \in S : k <= i}
  BY <1>3 DEF Upto
<1> QED
  BY <1>2, <1>3, <1>4, <1>5

(* Locations after sortLocations.                                          *)
LEMMA SortedIs ==
    ASSUME NEW X, NEW ls \in Seq(X), \A i \in 1..Len(ls) : Len(ls[i].path) \in Nat
    PROVE  /\ SortLocations(ls) \in Seq(X) /\ Len(SortLocations(ls)) = Len(ls)
           /\ \A n \in 1..Len(ls) : \E i \in 1..Len(ls) : SortLocations(ls)[n] = ls[i]
           /\ \A i \in 1..Len(ls) : \E n \in 1..Len(ls) : SortLocations(ls)[n] = ls[i]
<1> DEFINE N == Len(ls)
           S == DOMAIN ls
           R == {p \in S \X S : Precedes(ls, p[1], p[2])}
           at(n) == CHOOSE i \in S : Cardinality({j \in S : Precedes(ls, j, i)}) = n
           t == SortLocations(ls)
<1>1. N \in Nat /\ S = 1..N /\ \A i \in S : ls[i] \in X
  BY LenProperties, ElementOfSeq
<1>2. IsFiniteSet(S) /\ Cardinality(S) = N
  <2> HIDE DEF S
  <2>1. IsFiniteSet(1..N) /\ Cardinality(1..N) = N
    BY <1>1, FS_Interval
  <2> QED
    BY <1>1, <2>1
<1>3. \A i, j \in S : <<i, j>> \in R <=> Precedes(ls, i, j)
  OBVIOUS
<1>4. IsOrder(S, R)
  <2>1. \A i \in S : i \in Int /\ Len(ls[i].path) \in Int
    BY <1>1
  <2> HIDE DEF R, S
  <2> DEFINE P(i, j) == Precedes(ls, i, j)
  <2>2. \A i, j \in S : P(i, j) \/ P(j, i)
    BY <2>1 DEF Precedes
  <2>3. \A i, j \in S : P(i, j) /\ P(j, i) => i = j
    BY <2>1 DEF Precedes
  <2>4. ASSUME NEW i \in S, NEW j \in S, NEW k \in S, P(i, j), P(j, k) PROVE P(i, k)
    <3> DEFINE len(m) == Len(ls[m].path)
    <3>1. \A m \in S : m \in Int /\ len(m) \in Int
      BY <2>1
    <3>2. \A m, n \in S : P(m, n) <=> len(m) > len(n) \/ (len(m) = len(n) /\ m <= n)
      BY DEF Precedes
    <3> HIDE DEF P, len
    <3> QED
      BY <2>4, <3>1, <3>2
  <2>5. \A i, j \in S : <<i, j>> \in R <=> P(i, j)
    BY <1>3
  <2> HIDE DEF P
  <2> SUFFICES ASSUME NEW i \in S, NEW j \in S
               PROVE  /\ <<i, j>> \in R \/ <<j, i>> \in R
                      /\ <<i, j>> \in R /\ <<j, i>> \in R => i = j
                      /\ \A k \in S : <<i, j>> \in R /\ <<j, k>> \in R => <<i, k>> \in R
    BY Zenon DEF IsOrder
  <2>6. (<<i, j>> \in R \/ <<j, i>> \in R) /\ (<<i, j>> \in R /\ <<j, i>> \in R => i = j)
    BY <2>2, <2>3, <2>5
  <2>7. \A k \in S : <<i, j>> \in R /\ <<j, k>> \in R => <<i, k>> \in R
    BY <2>4, <2>5
  <2> QED
    BY <2>6, <2>7
<1> HIDE DEF R
<1>5. \A i \in S : {j \in S : Precedes(ls, j, i)} = Upto(S, R, i)
  BY <1>3 DEF Upto
<1>6. t = [n \in S |-> ls[at(n)]]
  BY DEF SortLocations
<1> HIDE DEF S, t
<1>7. /\ \A i \in S : Rank(S, R, i) \in S
      /\ \A i, j \in S : i # j /\ <<i, j>> \in R => Rank(S, R, i) < Rank(S, R, j)
      /\ \A n \in S : \E i \in S : Rank(S, R, i) = n
  <2>1. S = 1..Cardinality(S)
    BY <1>1, <1>2
  <2> QED
    BY <1>2, <1>4, <2>1, RanksAre
<1>8. \A n \in S : at(n) \in S /\ Rank(S, R, at(n)) = n
  BY <1>5, <1>7 DEF Rank
<1> HIDE DEF at
<1>9. \A i \in S : at(Rank(S, R, i)) = i
  <2> SUFFICES ASSUME NEW i \in S, at(Rank(S, R, i)) # i PROVE FALSE
    OBVIOUS
  <2> DEFINE j == at(Rank(S, R, i))
  <2>1. j \in S /\ Rank(S, R, j) = Rank(S, R, i) /\ Rank(S, R, i) \in Int /\ j # i
    BY <1>1, <1>7, <1>8
  <2> HIDE DEF j
  <2>2. <<i, j>> \in R \/ <<j, i>> \in R
    BY <1>4, <2>1 DEF IsOrder
  <2>3. Rank(S, R, i) < Rank(S, R, j) \/ Rank(S, R, j) < Rank(S, R, i)
    BY <1>7, <2>1, <2>2
  <2> QED
    BY <2>1, <2>3
<1>10. t \in Seq(X) /\ Len(t) = N
  <2>1. t \in [1..N -> X]
    BY <1>1, <1>6, <1>8
  <2> QED
    BY <1>1, <2>1
<1>11. \A n \in S : t[n] = ls[at(n)]
  BY <1>6
<1> QED
  BY <1>1, <1>7, <1>8, <1>9, <1>10, <1>11 DEF t

-----------------------------------------------------------------------------
(* What a block that was accepted may hold.                                *)
LEMMA BlockIs ==
    ASSUME NEW Y, NEW block, NEW ds \in Seq(DirectivesOver(Y)), ValidBlock(ds, block)
    PROVE  /\ ds \in Seq(Allowed(Y, block))
           /\ Once(ds, "root") /\ Once(ds, "index")
           /\ Has(ds, "return") => ~Has(ds, "root") /\ ~Has(ds, "index")
           /\ SwitchedOn(ds, "cgi") <=> Has(ds, "cgi_exec")
           /\ SwitchedOn(ds, "upload") <=> Has(ds, "upload_store")
<1>1. /\ \A i \in DOMAIN ds : DirectiveOk(ds[i], block)
      /\ CheckCardinality(ds)
      /\ CheckConcurrence(ds)
      /\ ValidateContextualRules(ds)
  BY Zenon DEF ValidBlock
<1>2. Len(ds) \in Nat /\ DOMAIN ds = 1..Len(ds) /\ \A i \in 1..Len(ds) : ds[i] \in DirectivesOver(Y)
  BY LenProperties, ElementOfSeq
<1>3. ds \in Seq(Allowed(Y, block))
  <2>1. \A i \in 1..Len(ds) : ds[i] \in Allowed(Y, block)
    BY <1>1, <1>2 DEF Allowed
  <2> QED
    BY <1>2, <2>1
<1>4. ASSUME NEW name \in {"root", "index"} PROVE Once(ds, name)
  <2> DEFINE A == At(ds, name)
             N == Len(ds)
  <2>1. A \in SUBSET (1..N) /\ Cardinality(A) <= 1
    BY <1>1, <1>2 DEF CheckCardinality, At
  <2> SUFFICES ASSUME NEW i \in A, NEW j \in A, i # j PROVE FALSE
    BY DEF Once
  <2>2. IsFiniteSet(1..N)
    BY <1>2, FS_Interval
  <2> HIDE DEF A, N
  <2>3. IsFiniteSet(A)
    BY <2>1, <2>2, FS_Subset
  <2>4. {i} \in SUBSET A /\ {i} # A
    OBVIOUS
  <2>5. Cardinality({i}) = 1 /\ IsFiniteSet({i})
    BY FS_Singleton
  <2>6. Cardinality({i}) <= Cardinality(A) /\ Cardinality(A) # Cardinality({i})
    BY <2>3, <2>4, FS_Subset
  <2>7. Cardinality(A) \in Nat
    BY <2>3, FS_CardinalityType
  <2> QED
    BY <2>1, <2>5, <2>6, <2>7
<1>5. Has(ds, "return") => ~Has(ds, "root") /\ ~Has(ds, "index")
  BY <1>1 DEF CheckConcurrence
<1>6. /\ SwitchedOn(ds, "cgi") <=> Has(ds, "cgi_exec")
      /\ SwitchedOn(ds, "upload") <=> Has(ds, "upload_store")
  BY <1>1 DEF ValidateContextualRules
<1>7. Once(ds, "root") /\ Once(ds, "index")
  BY <1>4
<1> QED
  BY <1>3, <1>5, <1>6, <1>7

LEMMA WhereIs ==
    ASSUME NEW Y, NEW block, NEW ds \in Seq(Allowed(Y, block)), NEW name, Has(ds, name)
    PROVE  \E d \in Allowed(Y, block) : Named(d, name) /\ Where(ds, name) = d.args
<1> DEFINE X == Allowed(Y, block)
<1> HIDE DEF X
<1>1. /\ ds[Max(At(ds, name))] \in X /\ Named(ds[Max(At(ds, name))], name)
      /\ Where(ds, name) = ds[Max(At(ds, name))].args
  BY LastOne DEF X
<1> QED
  BY <1>1, Zenon DEF X

(* The arguments that both blocks know.                                    *)
SharedArguments(d) ==
    /\ Named(d, "root") => Len(d.args) = 1
    /\ Named(d, "index") => Len(d.args) >= 1
    /\ Named(d, "client_max_body_size") => Len(d.args) = 1

LEMMA ServerArguments ==
    ASSUME NEW Y, NEW d \in Allowed(Y, "server")
    PROVE  SharedArguments(d)
<1>1. DirectiveOk(d, "server") /\ Len(d.args) \in Nat
  BY AllowedIs, ArgsAre, Zenon
<1>2. \A a, b : Named(d, a) /\ Named(d, b) => a = b
  BY OneName, Zenon
<1>3. Unlimited \in Nat
  BY SMT DEF Unlimited
<1>4. \/ Follows(d, "listen", 1, 1)
      \/ Follows(d, "server_name", 1, Unlimited)
      \/ Follows(d, "root", 1, 1)
      \/ Follows(d, "index", 1, Unlimited)
      \/ Follows(d, "client_max_body_size", 1, 1)
      \/ Follows(d, "error_page", 2, 2)
  BY <1>1, ServerRules, Zenon
<1>5. \/ Named(d, "listen") \/ Named(d, "server_name") \/ Named(d, "error_page")
      \/ Named(d, "root") /\ Len(d.args) \in 1..1
      \/ Named(d, "index") /\ Len(d.args) \in 1..Unlimited
      \/ Named(d, "client_max_body_size") /\ Len(d.args) \in 1..1
  BY <1>4, Zenon DEF Follows
<1>6. CASE Named(d, "listen") \/ Named(d, "server_name") \/ Named(d, "error_page")
  <2>1. ~Named(d, "root") /\ ~Named(d, "index") /\ ~Named(d, "client_max_body_size")
    BY <1>2, <1>6
  <2> QED
    BY <2>1 DEF SharedArguments
<1>7. CASE Named(d, "root") /\ Len(d.args) \in 1..1
  <2>1. ~Named(d, "index") /\ ~Named(d, "client_max_body_size")
    BY <1>2, <1>7
  <2> QED
    BY <1>7, <2>1 DEF SharedArguments
<1>8. CASE Named(d, "index") /\ Len(d.args) \in 1..Unlimited
  <2>1. ~Named(d, "root") /\ ~Named(d, "client_max_body_size")
    BY <1>2, <1>8
  <2>2. Len(d.args) >= 1
    BY <1>1, <1>3, <1>8, SMT
  <2> QED
    BY <2>1, <2>2 DEF SharedArguments
<1>9. CASE Named(d, "client_max_body_size") /\ Len(d.args) \in 1..1
  <2>1. ~Named(d, "root") /\ ~Named(d, "index")
    BY <1>2, <1>9
  <2> QED
    BY <1>9, <2>1 DEF SharedArguments
<1> QED
  BY <1>5, <1>6, <1>7, <1>8, <1>9, Zenon

SharedSettings(ds) ==
    /\ Has(ds, "root") => /\ Where(ds, "root") = <<Where(ds, "root")[1]>>
                          /\ Where(ds, "root")[1] # Absent
    /\ Has(ds, "index") => Where(ds, "index") # <<>>
    /\ Has(ds, "client_max_body_size") =>
          LET word == Where(ds, "client_max_body_size")[1]
          IN  /\ ParseClientMaxBodySize(word) \in 0..SizeMax
              /\ ParseClientMaxBodySize(word) = 0 <=> IsZero(Where(ds, "client_max_body_size"))
              /\ IsSize(ParseClientMaxBodySize(word), word)

LEMMA SettingsAre ==
    ASSUME NEW Y, NEW block \in {"server", "location"}, NEW ds \in Seq(Allowed(Y, block))
    PROVE  SharedSettings(ds)
<1>1. ASSUME NEW d \in Allowed(Y, block)
      PROVE  /\ SharedArguments(d) /\ ArgsOk(d) /\ d.args \in Seq(Words(Y))
             /\ \A i \in 1..Len(d.args) : d.args[i] \in Seq(Y) /\ d.args[i] # Absent
  <2>1. d.args \in Seq(Words(Y)) /\ ArgsOk(d)
        /\ \A i \in 1..Len(d.args) : d.args[i] \in Seq(Y) /\ d.args[i] # Absent
    BY AllowedIs, ArgsAre, Zenon
  <2>2. CASE block = "server"
    BY <2>1, <2>2, ServerArguments
  <2>3. CASE block = "location"
    <3>1. ArgumentsAre(d)
      BY <2>3, LocationArguments
    <3> QED
      BY <2>1, <3>1 DEF ArgumentsAre, SharedArguments
  <2> QED
    BY <2>2, <2>3
<1>2. ASSUME Has(ds, "root")
      PROVE  Where(ds, "root") = <<Where(ds, "root")[1]>> /\ Where(ds, "root")[1] # Absent
  <2>1. PICK d \in Allowed(Y, block) : Named(d, "root") /\ Where(ds, "root") = d.args
    BY <1>2, WhereIs
  <2>2. Len(d.args) = 1 /\ d.args \in Seq(Words(Y)) /\ d.args[1] # Absent
    BY <1>1, <2>1 DEF SharedArguments
  <2>3. d.args = <<d.args[1]>>
    BY <2>2
  <2> QED
    BY <2>1, <2>2, <2>3
<1>3. ASSUME Has(ds, "index") PROVE Where(ds, "index") # <<>>
  <2>1. PICK d \in Allowed(Y, block) : Named(d, "index") /\ Where(ds, "index") = d.args
    BY <1>3, WhereIs
  <2>2. Len(d.args) >= 1
    BY <1>1, <2>1 DEF SharedArguments
  <2>3. d.args # <<>>
    BY <2>2
  <2> QED
    BY <2>1, <2>3
<1>4. ASSUME Has(ds, "client_max_body_size")
      PROVE  LET word == Where(ds, "client_max_body_size")[1]
             IN  /\ ParseClientMaxBodySize(word) \in 0..SizeMax
                 /\ ParseClientMaxBodySize(word) = 0 <=> IsZero(Where(ds, "client_max_body_size"))
                 /\ IsSize(ParseClientMaxBodySize(word), word)
  <2>1. PICK d \in Allowed(Y, block) :
           Named(d, "client_max_body_size") /\ Where(ds, "client_max_body_size") = d.args
    BY <1>4, WhereIs
  <2> DEFINE word == d.args[1]
  <2>2. word \in Seq(Y)
    BY <1>1, <2>1 DEF SharedArguments
  <2>3. SizeOk(word)
    BY <1>1, <2>1, Zenon DEF ArgsOk
  <2>4. IsZero(d.args) <=> Number(NumberPart(word)) = 0
    BY Zenon DEF IsZero
  <2> HIDE DEF word
  <2>5. /\ ParseClientMaxBodySize(word) \in 0..SizeMax
        /\ ParseClientMaxBodySize(word) = 0 <=> IsZero(d.args)
        /\ IsSize(ParseClientMaxBodySize(word), word)
    BY <2>2, <2>3, <2>4, SizeIs
  <2> QED
    BY <2>1, <2>5, Zenon DEF word
<1> QED
  BY <1>2, <1>3, <1>4, Zenon DEF SharedSettings

(* A server after setDefaults.                                             *)
ServerSettings(ds, s) ==
    /\ s.names = WordsOf(ds, "server_name")
    /\ s.root = IF Has(ds, "root") THEN Where(ds, "root")[1] ELSE DefaultRoot
    /\ s.root # Absent
    /\ s.index = IF Has(ds, "index") THEN Where(ds, "index") ELSE DefaultIndex
    /\ s.index # <<>>
    /\ ServerPages(ds, s.pages)
    /\ s.max \in 0..SizeMax /\ s.max # 0
    /\ IsSize(s.max, IF /\ Has(ds, "client_max_body_size")
                        /\ ~IsZero(Where(ds, "client_max_body_size"))
                     THEN Where(ds, "client_max_body_size")[1] ELSE <<"1", "M">>)

LEMMA ServerSet ==
    ASSUME NEW Y, NEW ds \in Seq(Allowed(Y, "server")), Once(ds, "index")
    PROVE  ServerSettings(ds, SetDefaults(FoldLeft(ApplyServer, NewServer, ds)))
<1> DEFINE s == FoldLeft(ApplyServer, NewServer, ds)
           t == SetDefaults(s)
<1>1. s \in ServerStates(Y) /\ ServerSays(ds, s)
  BY ServerIsRead
<1>2. SharedSettings(ds)
  BY SettingsAre
<1> HIDE DEF s
<1>3. /\ t.names = s.names
      /\ t.root = IF s.root = Absent THEN DefaultRoot ELSE s.root
      /\ t.index = IF s.index = <<>> THEN DefaultIndex ELSE s.index
      /\ t.max = IF s.max = 0 THEN DefaultMax ELSE s.max
      /\ t.pages = s.pages
  <2> DEFINE P == Maps(0..SizeMax, Seq(Y))
             M == 0..SizeMax
             I == Seq(Words(Y))
  <2>1. s \in [names : SUBSET Words(Y), root : Seq(Y), index : I, max : M, pages : P]
    BY <1>1, Zenon DEF ServerStates
  <2> HIDE DEF P, M, I
  <2> QED
    BY <2>1 DEF SetDefaults
<1> HIDE DEF t
<1>4. t.names = WordsOf(ds, "server_name")
  BY <1>1, <1>3 DEF ServerSays
<1>5. DefaultRoot # Absent /\ DefaultIndex # <<>>
  BY DEF DefaultRoot, DefaultIndex, Absent
<1>6. /\ t.root = IF Has(ds, "root") THEN Where(ds, "root")[1] ELSE DefaultRoot
      /\ t.root # Absent
  BY <1>1, <1>2, <1>3, <1>5, Zenon DEF ServerSays, SharedSettings
<1>7. /\ t.index = IF Has(ds, "index") THEN Where(ds, "index") ELSE DefaultIndex
      /\ t.index # <<>>
  <2>1. s.index = IF Has(ds, "index") THEN Where(ds, "index") ELSE <<>>
    BY <1>1, Zenon DEF ServerSays
  <2>2. Has(ds, "index") => Where(ds, "index") # <<>>
    BY <1>2, Zenon DEF SharedSettings
  <2> QED
    BY <1>3, <1>5, <2>1, <2>2
<1>8. /\ t.max \in 0..SizeMax /\ t.max # 0
      /\ IsSize(t.max, IF /\ Has(ds, "client_max_body_size")
                          /\ ~IsZero(Where(ds, "client_max_body_size"))
                       THEN Where(ds, "client_max_body_size")[1] ELSE <<"1", "M">>)
  <2> DEFINE args == Where(ds, "client_max_body_size")
             has == Has(ds, "client_max_body_size")
             zero == IsZero(args)
             size == ParseClientMaxBodySize(args[1])
  <2>1. s.max = IF has THEN size ELSE 0
    BY <1>1, Zenon DEF ServerSays
  <2>2. has => size \in 0..SizeMax /\ (size = 0 <=> zero) /\ IsSize(size, args[1])
    BY <1>2, Zenon DEF SharedSettings
  <2>3. DefaultMax \in 0..SizeMax /\ DefaultMax # 0 /\ IsSize(DefaultMax, <<"1", "M">>)
    BY DefaultIs
  <2> DEFINE M == 0..SizeMax
  <2> HIDE DEF args, has, zero, size, M
  <2>4. CASE has /\ ~zero
    <3>1. t.max = size /\ size \in M /\ size # 0
      BY <1>3, <2>1, <2>2, <2>4 DEF M
    <3> QED
      BY <2>2, <2>4, <3>1, Zenon DEF args, has, zero, size, M
  <2>5. CASE ~(has /\ ~zero)
    <3>1. t.max = DefaultMax /\ DefaultMax \in M
      BY <1>3, <2>1, <2>2, <2>3, <2>5 DEF M
    <3> QED
      BY <2>3, <2>5, <3>1, Zenon DEF args, has, zero, size, M
  <2> QED
    BY <2>4, <2>5
<1>9. ServerPages(ds, t.pages)
  BY <1>1, <1>3, Zenon DEF ServerSays
<1> QED
  BY <1>4, <1>6, <1>7, <1>8, <1>9, Zenon DEF ServerSettings, t, s

(* What a server and a location have for words are words, the defaults     *)
(* included where these can be spelled.                                    *)
Spells(Y) == DefaultRoot \in Seq(Y) /\ DefaultIndex \in Seq(Words(Y))

LEMMA ServerTyped ==
    ASSUME NEW Y, Spells(Y), NEW ds \in Seq(Allowed(Y, "server")), Once(ds, "index")
    PROVE  LET t == SetDefaults(FoldLeft(ApplyServer, NewServer, ds))
           IN  t.root \in Seq(Y) /\ t.index \in Seq(Words(Y))
<1> DEFINE s == FoldLeft(ApplyServer, NewServer, ds)
           t == SetDefaults(s)
           P == Maps(0..SizeMax, Seq(Y))
           M == 0..SizeMax
           I == Seq(Words(Y))
           Q == Seq(Y)
<1>1. s \in ServerStates(Y)
  BY ServerIsRead
<1>2. s \in [names : SUBSET Words(Y), root : Q, index : I, max : M, pages : P]
  BY <1>1, Zenon DEF ServerStates
<1>3. DefaultRoot \in Q /\ DefaultIndex \in I
  BY Zenon DEF Spells
<1> HIDE DEF s, P, M, I, Q
<1>4. t.root \in Q /\ t.index \in I
  BY <1>2, <1>3 DEF SetDefaults
<1> QED
  BY <1>4, Zenon DEF s, Q, I

LocationIn(Y, l) ==
    /\ l.path \in Words(Y) /\ l.root \in Seq(Y) /\ l.store \in Seq(Y)
    /\ l.index \in Seq(Words(Y))

LEMMA LocationTyped ==
    ASSUME NEW Y, Slash \in Y, NEW node \in LocationsOver(Y),
           ValidBlock(node.directives, "location"),
           NEW s, s.root \in Seq(Y), s.index \in Seq(Words(Y))
    PROVE  LocationIn(Y, BuildLocation(node, s))
<1> DEFINE ds == node.directives
           l == FoldLeft(ApplyLocation, NewLocation(node.path), ds)
           t == BuildLocation(node, s)
           W == Words(Y)
           Q == Seq(Y)
           I == Seq(Words(Y))
           M == 0..SizeMax
           P == Maps(0..SizeMax, Seq(Y))
           E == Maps(Words(Y), Words(Y))
<1>1. node.path \in Words(Y) /\ ds \in Seq(DirectivesOver(Y))
  BY DEF LocationsOver
<1> HIDE DEF ds
<1>2. ds \in Seq(Allowed(Y, "location"))
  BY <1>1, BlockIs DEF ds
<1>3. l \in LocationStates(Y)
  BY <1>1, <1>2, LocationIsRead
<1>4. t = ApplyInheritance(l, s)
  BY Zenon DEF BuildLocation, ds
<1> HIDE DEF l, t
<1>5. l \in [path : W, root : Q, index : I, max : M, pages : P, autoindex : BOOLEAN,
             methods : SUBSET Verbs, hasReturn : BOOLEAN, code : M, target : Q,
             upload : BOOLEAN, store : Q, hasCgi : BOOLEAN, exec : E]
  BY <1>3, Zenon DEF LocationStates
<1>6. s.root \in Q /\ s.index \in I
  OBVIOUS
<1> HIDE DEF W, Q, I, M, P, E
<1>7. t.path \in W /\ t.root \in Q /\ t.store \in Q /\ t.index \in I
  BY <1>4, <1>5, <1>6 DEF ApplyInheritance
<1> QED
  BY <1>7, Zenon DEF LocationIn, t, W, Q, I

-----------------------------------------------------------------------------
(* A location as it is written, and as it is used.                         *)
LocationUsable(l) ==
    /\ l.hasReturn \/ (l.root # Absent /\ l.index # <<>>)
    /\ l.hasReturn => l.code \in 100..599
    /\ l.max > 0
    /\ DOMAIN l.exec # {} => l.hasCgi
    /\ l.store # Absent => l.upload

LEMMA LocationBuilt ==
    ASSUME NEW Y, Slash \in Y, NEW node \in LocationsOver(Y),
           ValidBlock(node.directives, "location"),
           NEW outer, NEW s, ServerSettings(outer, s), SharedSettings(outer)
    PROVE  /\ LocationAsWritten(BuildLocation(node, s), node, outer)
           /\ LocationUsable(BuildLocation(node, s))
           /\ Len(BuildLocation(node, s).path) \in Nat
<1> DEFINE ds == node.directives
           l == FoldLeft(ApplyLocation, NewLocation(node.path), ds)
           t == BuildLocation(node, s)
<1>1. node.path \in Words(Y) /\ ds \in Seq(DirectivesOver(Y))
  BY DEF LocationsOver
<1> HIDE DEF ds
<1>2. /\ ds \in Seq(Allowed(Y, "location"))
      /\ Has(ds, "return") => ~Has(ds, "root") /\ ~Has(ds, "index")
      /\ SwitchedOn(ds, "cgi") <=> Has(ds, "cgi_exec")
      /\ SwitchedOn(ds, "upload") <=> Has(ds, "upload_store")
  BY <1>1, BlockIs DEF ds
<1>3. l \in LocationStates(Y) /\ LocationSays(node.path, ds, l)
  BY <1>1, <1>2, LocationIsRead
<1>4. SharedSettings(ds)
  BY <1>2, SettingsAre
<1>5. t = ApplyInheritance(l, s)
  BY Zenon DEF BuildLocation, ds
<1> HIDE DEF l, t
<1>6. /\ t.path = l.path
      /\ t.root = IF l.hasReturn \/ l.root # Absent THEN l.root ELSE s.root
      /\ t.index = IF l.hasReturn \/ l.index # <<>> THEN l.index ELSE s.index
      /\ t.max = IF l.max = 0 THEN s.max ELSE l.max
      /\ t.autoindex = l.autoindex /\ t.methods = l.methods /\ t.hasReturn = l.hasReturn
      /\ t.code = l.code /\ t.target = l.target /\ t.upload = l.upload /\ t.store = l.store
      /\ t.hasCgi = l.hasCgi /\ t.exec = l.exec
  <2> DEFINE W == Words(Y)
             Q == Seq(Y)
             I == Seq(Words(Y))
             M == 0..SizeMax
             P == Maps(0..SizeMax, Seq(Y))
             E == Maps(Words(Y), Words(Y))
  <2>1. l \in [path : W, root : Q, index : I, max : M, pages : P, autoindex : BOOLEAN,
               methods : SUBSET Verbs, hasReturn : BOOLEAN, code : M, target : Q,
               upload : BOOLEAN, store : Q, hasCgi : BOOLEAN, exec : E]
    BY <1>3, Zenon DEF LocationStates
  <2> HIDE DEF W, Q, I, M, P, E
  <2> QED
    BY <1>5, <2>1 DEF ApplyInheritance
<1>7. t.path = node.path
  BY <1>3, <1>6 DEF LocationSays
<1>8. /\ IF Has(ds, "return") THEN t.root = Absent /\ t.index = <<>>
         ELSE /\ <<t.root>> = First(ds, outer, "root", <<DefaultRoot>>)
              /\ t.index = First(ds, outer, "index", DefaultIndex)
      /\ t.hasReturn \/ (t.root # Absent /\ t.index # <<>>)
      /\ t.hasReturn <=> Has(ds, "return")
  <2>1. /\ l.hasReturn <=> Has(ds, "return")
        /\ l.root = IF Has(ds, "root") THEN Where(ds, "root")[1] ELSE Absent
        /\ l.index = IF Has(ds, "index") THEN Where(ds, "index") ELSE <<>>
    BY <1>3, Zenon DEF LocationSays
  <2>2. /\ Has(ds, "root") => /\ Where(ds, "root") = <<Where(ds, "root")[1]>>
                              /\ Where(ds, "root")[1] # Absent
        /\ Has(ds, "index") => Where(ds, "index") # <<>>
    BY <1>4, Zenon DEF SharedSettings
  <2>3. /\ Has(outer, "root") => Where(outer, "root") = <<Where(outer, "root")[1]>>
        /\ s.root = IF Has(outer, "root") THEN Where(outer, "root")[1] ELSE DefaultRoot
        /\ s.index = IF Has(outer, "index") THEN Where(outer, "index") ELSE DefaultIndex
        /\ s.root # Absent /\ s.index # <<>>
    BY Zenon DEF SharedSettings, ServerSettings
  <2>4. CASE Has(ds, "return")
    <3>1. t.hasReturn /\ t.root = Absent /\ t.index = <<>>
      BY <1>2, <1>6, <2>1, <2>4
    <3> QED
      BY <2>4, <3>1
  <2>5. CASE ~Has(ds, "return")
    <3>1. ~t.hasReturn
      BY <1>6, <2>1, <2>5
    <3>2. <<t.root>> = First(ds, outer, "root", <<DefaultRoot>>) /\ t.root # Absent
      <4>1. CASE Has(ds, "root")
        <5>1. t.root = Where(ds, "root")[1] /\ t.root # Absent
          BY <1>6, <2>1, <2>2, <4>1
        <5> QED
          BY <2>2, <4>1, <5>1, Zenon DEF First
      <4>2. CASE ~Has(ds, "root")
        <5>1. t.root = s.root /\ t.root # Absent
          BY <1>6, <2>1, <2>3, <2>5, <4>2
        <5> QED
          BY <2>3, <4>2, <5>1, Zenon DEF First
      <4> QED
        BY <4>1, <4>2
    <3>3. t.index = First(ds, outer, "index", DefaultIndex) /\ t.index # <<>>
      <4>1. CASE Has(ds, "index")
        <5>1. t.index = Where(ds, "index") /\ t.index # <<>>
          BY <1>6, <2>1, <2>2, <4>1
        <5> QED
          BY <4>1, <5>1, Zenon DEF First
      <4>2. CASE ~Has(ds, "index")
        <5>1. t.index = s.index /\ t.index # <<>>
          BY <1>6, <2>1, <2>3, <2>5, <4>2
        <5> QED
          BY <2>3, <4>2, <5>1, Zenon DEF First
      <4> QED
        BY <4>1, <4>2
    <3> QED
      BY <2>5, <3>1, <3>2, <3>3
  <2> QED
    BY <2>4, <2>5
<1>9. IsSize(t.max, SizeFor(ds, outer)) /\ t.max > 0
  <2> DEFINE args == Where(ds, "client_max_body_size")
             has == Has(ds, "client_max_body_size")
             zero == IsZero(args)
             size == ParseClientMaxBodySize(args[1])
             M == 0..SizeMax
             word == IF /\ Has(outer, "client_max_body_size")
                        /\ ~IsZero(Where(outer, "client_max_body_size"))
                     THEN Where(outer, "client_max_body_size")[1] ELSE <<"1", "M">>
  <2>1. l.max = IF has THEN size ELSE 0
    BY <1>3, Zenon DEF LocationSays
  <2>2. has => size \in M /\ (size = 0 <=> zero) /\ IsSize(size, args[1])
    BY <1>4, Zenon DEF SharedSettings
  <2>3. s.max \in M /\ s.max # 0 /\ IsSize(s.max, word)
    BY Zenon DEF ServerSettings
  <2>4. SizeFor(ds, outer) = IF has /\ ~zero THEN args[1] ELSE word
    BY Zenon DEF SizeFor
  <2>5. \A m \in M : m # 0 => m > 0
    BY SizeMaxIs
  <2> HIDE DEF args, has, zero, size, M, word
  <2>6. CASE has /\ ~zero
    <3>1. t.max = size /\ size \in M /\ size # 0
      BY <1>6, <2>1, <2>2, <2>6
    <3>2. SizeFor(ds, outer) = args[1]
      BY <2>4, <2>6
    <3> QED
      BY <2>2, <2>5, <2>6, <3>1, <3>2
  <2>7. CASE ~(has /\ ~zero)
    <3>1. t.max = s.max
      BY <1>6, <2>1, <2>2, <2>7
    <3>2. SizeFor(ds, outer) = word
      BY <2>4, <2>7
    <3> QED
      BY <2>3, <2>5, <3>1, <3>2
  <2> QED
    BY <2>6, <2>7
<1>10. /\ {<<m>> : m \in t.methods} = WordsOf(ds, "allow_methods")
       /\ t.autoindex <=> On \in WordsOf(ds, "autoindex")
  BY <1>3, <1>6 DEF LocationSays
<1>11. /\ t.hasReturn => ReturnAsWritten(t, Where(ds, "return"))
       /\ t.hasReturn => t.code \in 100..599
  <2> SUFFICES ASSUME t.hasReturn
               PROVE  ReturnAsWritten(t, Where(ds, "return")) /\ t.code \in 100..599
    OBVIOUS
  <2>1. Has(ds, "return")
    BY <1>8
  <2>2. PICK d \in Allowed(Y, "location") : Named(d, "return") /\ Where(ds, "return") = d.args
    BY <1>2, <2>1, WhereIs
  <2>3. Len(d.args) \in 1..2
    BY <2>2, LocationArguments DEF ArgumentsAre
  <2> DEFINE codes == 100..599
  <2> HIDE DEF codes
  <2>4. IsCode(d.args[1], codes)
    <3>1. ArgsOk(d)
      BY AllowedIs
    <3> QED
      BY <2>2, <3>1, SMT DEF ArgsOk, codes
  <2>5. d.args[1] \in Seq(Y)
    BY <2>3, AllowedIs, ArgsAre
  <2>6. Number(d.args[1]) \in codes
    BY <2>4, <2>5, CodeIs
  <2>7. t.code = Number(d.args[1])
        /\ t.target = IF Len(d.args) > 1 THEN d.args[2] ELSE Absent
    BY <1>3, <1>6, <2>1, <2>2 DEF LocationSays
  <2>8. t.target = IF Len(d.args) = 1 THEN Absent ELSE d.args[2]
    BY <2>3, <2>7
  <2>9. ReturnAsWritten(t, Where(ds, "return"))
    BY <2>2, <2>7, <2>8, SMT DEF ReturnAsWritten
  <2>10. t.code \in codes
    BY <2>6, <2>7
  <2> QED
    BY <2>9, <2>10 DEF codes
<1>12. /\ IF Has(ds, "upload_store") THEN <<t.store>> = Where(ds, "upload_store")
          ELSE t.store = Absent
       /\ t.store # Absent => t.upload
  <2>1. /\ l.upload <=> Has(ds, "upload")
        /\ l.store = IF Has(ds, "upload_store") THEN Where(ds, "upload_store")[1] ELSE Absent
    BY <1>3, Zenon DEF LocationSays
  <2>2. CASE Has(ds, "upload_store")
    <3>1. PICK d \in Allowed(Y, "location") :
             Named(d, "upload_store") /\ Where(ds, "upload_store") = d.args
      BY <1>2, <2>2, WhereIs
    <3>2. Len(d.args) = 1 /\ d.args \in Seq(Words(Y))
      <4>1. d.args \in Seq(Words(Y))
        BY AllowedIs, ArgsAre
      <4> QED
        BY <3>1, <4>1, LocationArguments DEF ArgumentsAre
    <3>3. d.args = <<d.args[1]>>
      BY <3>2
    <3>4. <<t.store>> = Where(ds, "upload_store")
      BY <1>6, <2>1, <2>2, <3>1, <3>3
    <3>5. Has(ds, "upload")
      BY <1>2, <2>2, Zenon DEF SwitchedOn
    <3> QED
      BY <1>6, <2>1, <2>2, <3>4, <3>5
  <2>3. CASE ~Has(ds, "upload_store")
    BY <1>6, <2>1, <2>3
  <2> QED
    BY <2>2, <2>3
<1>13. /\ {<<ext, t.exec[ext]>> : ext \in DOMAIN t.exec} \subseteq ArgsOf(ds, "cgi_exec")
       /\ DOMAIN t.exec = {args[1] : args \in ArgsOf(ds, "cgi_exec")}
       /\ DOMAIN t.exec # {} => t.hasCgi
  <2>1. /\ l.hasCgi <=> Has(ds, "cgi")
        /\ {<<ext, l.exec[ext]>> : ext \in DOMAIN l.exec} \subseteq ArgsOf(ds, "cgi_exec")
        /\ DOMAIN l.exec = {args[1] : args \in ArgsOf(ds, "cgi_exec")}
    BY <1>3, Zenon DEF LocationSays
  <2>2. ASSUME DOMAIN t.exec # {} PROVE t.hasCgi
    <3>1. ArgsOf(ds, "cgi_exec") # {}
      BY <1>6, <2>1, <2>2
    <3>2. Has(ds, "cgi_exec")
      BY <3>1 DEF ArgsOf, Has
    <3>3. Has(ds, "cgi")
      BY <1>2, <3>2, Zenon DEF SwitchedOn
    <3> QED
      BY <1>6, <2>1, <3>3
  <2>3. t.exec = l.exec
    BY <1>6
  <2> QED
    BY <2>1, <2>2, <2>3
<1>14. LocationAsWritten(t, node, outer)
  BY <1>7, <1>8, <1>9, <1>10, <1>11, <1>12, <1>13, Zenon DEF LocationAsWritten, ds
<1>15. LocationUsable(t)
  BY <1>8, <1>9, <1>11, <1>12, <1>13, Zenon DEF LocationUsable
<1>16. Len(t.path) \in Nat
  BY <1>1, <1>7, LenProperties DEF Words
<1> QED
  BY <1>14, <1>15, <1>16 DEF t

(* The page of a code, where the root comes first.                         *)
PagesBuilt(l, server, node) ==
    /\ l.path = node.path
    /\ RootFirst(node.directives) =>
          \A code : (IF code \in DOMAIN l.pages THEN l.pages[code] ELSE Absent)
                        = WrittenPage(code, server, node)

LEMMA LocationPagesBuilt ==
    ASSUME NEW Y, Slash \in Y, NEW node \in LocationsOver(Y),
           ValidBlock(node.directives, "location"),
           NEW server, NEW s, ServerSettings(server.directives, s)
    PROVE  PagesBuilt(BuildLocation(node, s), server, node)
<1> DEFINE ds == node.directives
           outer == server.directives
           l == FoldLeft(ApplyLocation, NewLocation(node.path), ds)
           t == BuildLocation(node, s)
<1>1. node.path \in Words(Y) /\ ds \in Seq(DirectivesOver(Y))
  BY DEF LocationsOver
<1> HIDE DEF ds, outer
<1>2. ds \in Seq(Allowed(Y, "location")) /\ Once(ds, "root")
  BY <1>1, BlockIs DEF ds
<1>3. l \in LocationStates(Y) /\ LocationSays(node.path, ds, l)
  BY <1>1, <1>2, LocationIsRead
<1>4. t = ApplyInheritance(l, s)
  BY Zenon DEF BuildLocation, ds
<1> HIDE DEF l, t
<1>5. t.path = l.path /\ t.pages = MergeErrorPage(l.pages, s.pages, s.root)
  <2> DEFINE W == Words(Y)
             Q == Seq(Y)
             I == Seq(Words(Y))
             M == 0..SizeMax
             P == Maps(0..SizeMax, Seq(Y))
             E == Maps(Words(Y), Words(Y))
  <2>1. l \in [path : W, root : Q, index : I, max : M, pages : P, autoindex : BOOLEAN,
               methods : SUBSET Verbs, hasReturn : BOOLEAN, code : M, target : Q,
               upload : BOOLEAN, store : Q, hasCgi : BOOLEAN, exec : E]
    BY <1>3, Zenon DEF LocationStates
  <2> HIDE DEF W, Q, I, M, P, E
  <2> QED
    BY <1>4, <2>1 DEF ApplyInheritance
<1>6. /\ l.path = node.path
      /\ l.root = IF Has(ds, "root") THEN Where(ds, "root")[1] ELSE Absent
      /\ LocationPages(ds, l)
  BY <1>3, Zenon DEF LocationSays
<1>7. /\ s.root = IF Has(outer, "root") THEN Where(outer, "root")[1] ELSE DefaultRoot
      /\ ServerPages(outer, s.pages)
  BY Zenon DEF ServerSettings, outer
<1>8. RootFor(<<>>, outer) = s.root
  <2>1. ~Has(<<>>, "root")
    BY NothingThere
  <2> QED
    BY <1>7, <2>1 DEF RootFor, First
<1>9. /\ DOMAIN t.pages = DOMAIN l.pages \union DOMAIN s.pages
      /\ \A c \in DOMAIN t.pages :
            t.pages[c] = IF c \in DOMAIN l.pages THEN l.pages[c] ELSE JoinPath(s.root, s.pages[c])
  BY <1>5 DEF MergeErrorPage
<1>10. ASSUME RootFirst(ds), NEW code
       PROVE  (IF code \in DOMAIN t.pages THEN t.pages[code] ELSE Absent)
                  = WrittenPage(code, server, node)
  <2>1. WrittenPage(code, server, node)
           = IF PagesFor(ds, code) # {} THEN JoinPath(RootFor(ds, outer), PageFor(ds, code))
             ELSE IF PagesFor(outer, code) # {}
                  THEN JoinPath(RootFor(<<>>, outer), PageFor(outer, code)) ELSE Absent
    BY Zenon DEF WrittenPage, ds, outer
  <2>2. CASE code \in DOMAIN l.pages
    <3>1. t.pages[code] = l.pages[code] /\ code \in DOMAIN t.pages
      BY <1>9, <2>2
    <3>2. PagesFor(ds, code) # {} /\ l.pages[code] = JoinPath(l.root, PageFor(ds, code))
      BY <1>2, <1>6, <1>10, <2>2, Zenon DEF LocationPages
    <3>3. Has(ds, "root")
      BY <1>10, <3>2 DEF PagesFor, RootFirst, Has
    <3>4. RootFor(ds, outer) = l.root
      BY <1>6, <3>3 DEF RootFor, First
    <3> QED
      BY <2>1, <3>1, <3>2, <3>4, Zenon
  <2>3. CASE code \notin DOMAIN l.pages /\ code \in DOMAIN s.pages
    <3>1. code \in DOMAIN t.pages /\ t.pages[code] = JoinPath(s.root, s.pages[code])
      BY <1>9, <2>3
    <3>2. PagesFor(ds, code) = {}
      BY <1>6, <2>3, Zenon DEF LocationPages
    <3>3. PagesFor(outer, code) # {} /\ s.pages[code] = PageFor(outer, code)
      BY <1>7, <2>3, Zenon DEF ServerPages
    <3> QED
      BY <1>8, <2>1, <3>1, <3>2, <3>3, Zenon
  <2>4. CASE code \notin DOMAIN l.pages /\ code \notin DOMAIN s.pages
    <3>1. code \notin DOMAIN t.pages
      BY <1>9, <2>4
    <3>2. PagesFor(ds, code) = {}
      BY <1>6, <2>4, Zenon DEF LocationPages
    <3>3. PagesFor(outer, code) = {}
      BY <1>7, <2>4, Zenon DEF ServerPages
    <3> QED
      BY <2>1, <3>1, <3>2, <3>3, Zenon
  <2> QED
    BY <2>2, <2>3, <2>4
<1> QED
  BY <1>5, <1>6, <1>10, Zenon DEF PagesBuilt, t, ds

-----------------------------------------------------------------------------
(* A server with its locations.                                            *)
LEMMA ServerBuilt ==
    ASSUME NEW Y, Slash \in Y, NEW node \in ServersOver(Y), ValidateServer(node)
    PROVE  /\ ServerAsWritten(BuildServer(node), node)
           /\ \A l \in ToSet(BuildServer(node).locations) : LocationUsable(l)
           /\ \A l \in ToSet(BuildServer(node).locations) :
                 \E m \in ToSet(node.locations) : PagesBuilt(l, node, m)
           /\ Spells(Y) => \A l \in ToSet(BuildServer(node).locations) : LocationIn(Y, l)
           /\ Len(BuildServer(node).locations) \in Nat
           /\ DOMAIN BuildServer(node).locations = 1..Len(BuildServer(node).locations)
<1> DEFINE ds == node.directives
           nodes == node.locations
           N == Len(nodes)
           s == SetDefaults(FoldLeft(ApplyServer, NewServer, ds))
           ls == [i \in DOMAIN nodes |-> BuildLocation(nodes[i], s)]
           X == {BuildLocation(nodes[i], s) : i \in 1..N}
           sorted == SortLocations(ls)
           t == BuildServer(node)
<1>1. ds \in Seq(DirectivesOver(Y)) /\ nodes \in Seq(LocationsOver(Y))
  BY DEF ServersOver
<1>2. ValidBlock(ds, "server") /\ \A i \in DOMAIN nodes : ValidBlock(nodes[i].directives, "location")
  BY Zenon DEF ValidateServer
<1>3. t.names = s.names /\ t.locations = sorted
  BY DEF BuildServer
<1> HIDE DEF ds, nodes, t
<1>4. ds \in Seq(Allowed(Y, "server")) /\ Once(ds, "index")
  BY <1>1, <1>2, BlockIs
<1>5. ServerSettings(ds, s) /\ SharedSettings(ds)
  BY <1>4, ServerSet, SettingsAre
<1>typed. Spells(Y) => s.root \in Seq(Y) /\ s.index \in Seq(Words(Y))
  BY <1>4, ServerTyped
<1> HIDE DEF s
<1>6. N \in Nat /\ DOMAIN nodes = 1..N /\ \A i \in 1..N : nodes[i] \in LocationsOver(Y)
  BY <1>1, LenProperties, ElementOfSeq
<1>7. ASSUME NEW i \in 1..N
      PROVE  /\ LocationAsWritten(BuildLocation(nodes[i], s), nodes[i], ds)
             /\ LocationUsable(BuildLocation(nodes[i], s))
             /\ Len(BuildLocation(nodes[i], s).path) \in Nat
             /\ PagesBuilt(BuildLocation(nodes[i], s), node, nodes[i])
             /\ Spells(Y) => LocationIn(Y, BuildLocation(nodes[i], s))
  <2>1. nodes[i] \in LocationsOver(Y) /\ ValidBlock(nodes[i].directives, "location")
    BY <1>2, <1>6
  <2>2. PagesBuilt(BuildLocation(nodes[i], s), node, nodes[i])
    BY <1>5, <2>1, LocationPagesBuilt DEF ds
  <2>3. Spells(Y) => LocationIn(Y, BuildLocation(nodes[i], s))
    BY <1>typed, <2>1, LocationTyped
  <2> QED
    BY <1>5, <2>1, <2>2, <2>3, LocationBuilt
<1>8. /\ ls \in Seq(X) /\ Len(ls) = N
      /\ \A i \in 1..N : ls[i] = BuildLocation(nodes[i], s)
  <2>1. ls \in [1..N -> X] /\ \A i \in 1..N : ls[i] = BuildLocation(nodes[i], s)
    BY <1>6
  <2> HIDE DEF ls, X
  <2>2. ls \in Seq(X) /\ Len(ls) = N
    BY <1>6, <2>1
  <2> QED
    BY <2>1, <2>2
<1> HIDE DEF N, ls, X
<1>9. \A i \in 1..Len(ls) : Len(ls[i].path) \in Nat
  BY <1>7, <1>8
<1>10. /\ sorted \in Seq(X) /\ Len(sorted) = N
       /\ \A n \in 1..N : \E i \in 1..N : sorted[n] = ls[i]
       /\ \A i \in 1..N : \E n \in 1..N : sorted[n] = ls[i]
  BY <1>8, <1>9, SortedIs
<1> HIDE DEF sorted
<1>11. DOMAIN sorted = 1..N
  BY <1>10, LenProperties
<1>12. \A l \in ToSet(sorted) : LocationUsable(l)
  <2> SUFFICES ASSUME NEW l \in ToSet(sorted) PROVE LocationUsable(l)
    OBVIOUS
  <2>1. PICK n \in 1..N : l = sorted[n]
    BY <1>11 DEF ToSet
  <2>2. PICK i \in 1..N : sorted[n] = ls[i]
    BY <1>10
  <2> QED
    BY <1>7, <1>8, <2>1, <2>2
<1>13. ASSUME NEW i \in DOMAIN nodes
       PROVE  \E j \in DOMAIN sorted : LocationAsWritten(sorted[j], nodes[i], ds)
  <2>1. i \in 1..N
    BY <1>6
  <2>2. PICK n \in 1..N : sorted[n] = ls[i]
    BY <1>10, <2>1
  <2>3. LocationAsWritten(sorted[n], nodes[i], ds)
    BY <1>7, <1>8, <2>1, <2>2
  <2> QED
    BY <1>11, <2>3
<1>14. t.names = WordsOf(ds, "server_name")
  BY <1>3, <1>5 DEF ServerSettings
<1>15. ServerAsWritten(t, node)
  <2>1. Len(t.locations) = Len(nodes)
    BY <1>3, <1>10 DEF N
  <2> QED
    BY <1>3, <1>13, <1>14, <2>1, Zenon DEF ServerAsWritten, ds, nodes
<1>16. \A l \in ToSet(sorted) : \E m \in ToSet(nodes) : PagesBuilt(l, node, m)
  <2> SUFFICES ASSUME NEW l \in ToSet(sorted) PROVE \E m \in ToSet(nodes) : PagesBuilt(l, node, m)
    OBVIOUS
  <2>1. PICK n \in 1..N : l = sorted[n]
    BY <1>11 DEF ToSet
  <2>2. PICK i \in 1..N : sorted[n] = ls[i]
    BY <1>10
  <2>3. nodes[i] \in ToSet(nodes)
    BY <1>6 DEF ToSet
  <2> QED
    BY <1>7, <1>8, <2>1, <2>2, <2>3
<1>17. Spells(Y) => \A l \in ToSet(sorted) : LocationIn(Y, l)
  <2> SUFFICES ASSUME Spells(Y), NEW l \in ToSet(sorted) PROVE LocationIn(Y, l)
    OBVIOUS
  <2>1. PICK n \in 1..N : l = sorted[n]
    BY <1>11 DEF ToSet
  <2>2. PICK i \in 1..N : sorted[n] = ls[i]
    BY <1>10
  <2> QED
    BY <1>7, <1>8, <2>1, <2>2
<1>18. Len(t.locations) \in Nat /\ DOMAIN t.locations = 1..Len(t.locations)
  BY <1>3, <1>6, <1>10, <1>11 DEF N
<1> QED
  BY <1>3, <1>12, <1>15, <1>16, <1>17, <1>18, Zenon DEF t, nodes

-----------------------------------------------------------------------------
(* The servers of each key.                                                *)
ServersOn(tree, junks, key) == {i \in DOMAIN tree : key \in Keys(tree, i, junks)}
Place(tree, junks, key, i) == Cardinality({k \in ServersOn(tree, junks, key) : k <= i})

LEMMA ResolvedIs ==
    ASSUME NEW Y, NEW tree \in Trees(Y), NEW junks,
           NEW key \in UNION {Keys(tree, i, junks) : i \in DOMAIN tree}
    PROVE  /\ DOMAIN Resolve(tree, junks)[key] = 1..Cardinality(ServersOn(tree, junks, key))
           /\ \A n \in 1..Cardinality(ServersOn(tree, junks, key)) :
                 \E i \in ServersOn(tree, junks, key) : Resolve(tree, junks)[key][n] = BuildServer(tree[i])
           /\ \A i \in ServersOn(tree, junks, key) :
                 /\ Place(tree, junks, key, i) \in 1..Cardinality(ServersOn(tree, junks, key))
                 /\ Resolve(tree, junks)[key][Place(tree, junks, key, i)] = BuildServer(tree[i])
           /\ \A i, k \in ServersOn(tree, junks, key) :
                 i < k => Place(tree, junks, key, i) < Place(tree, junks, key, k)
           /\ IsFiniteSet(ServersOn(tree, junks, key))
<1> DEFINE S == ServersOn(tree, junks, key)
           N == Cardinality(S)
           R == Ascending(S)
           at(n) == CHOOSE i \in S : Cardinality({k \in S : k <= i}) = n
           place(i) == Place(tree, junks, key, i)
           run == Resolve(tree, junks)[key]
<1>1. run = [n \in 1..N |-> BuildServer(tree[at(n)])]
  BY DEF Resolve, ServersOn
<1>2. tree \in Seq(ServersOver(Y))
  BY DEF Trees
<1>3. Len(tree) \in Nat /\ DOMAIN tree = 1..Len(tree)
  BY <1>2, LenProperties
<1>4. S \in SUBSET (1..Len(tree))
  BY <1>3 DEF ServersOn
<1> DEFINE bound == Len(tree)
<1>5. bound \in Nat /\ S \in SUBSET (1..bound)
  BY <1>3, <1>4
<1> HIDE DEF S, run, bound, R
<1>6. /\ IsFiniteSet(S) /\ IsOrder(S, R)
      /\ \A i, j \in S : <<i, j>> \in R <=> i <= j
      /\ \A i \in S : Upto(S, R, i) = {k \in S : k <= i}
  BY <1>5, AscendingIs DEF R
<1>7. /\ \A i \in S : Rank(S, R, i) \in 1..N
      /\ \A i, j \in S : i # j /\ <<i, j>> \in R => Rank(S, R, i) < Rank(S, R, j)
      /\ \A n \in 1..N : \E i \in S : Rank(S, R, i) = n
  BY <1>6, RanksAre
<1>8. \A i \in S : Rank(S, R, i) = Cardinality({k \in S : k <= i})
  BY <1>6 DEF Rank
<1>9. \A i \in S : place(i) = Rank(S, R, i)
  BY <1>8, Zenon DEF Place, S
<1>10. \A n \in 1..N : at(n) \in S /\ Rank(S, R, at(n)) = n
  BY <1>7, <1>8
<1>11. \A i \in S : i \in Int
  BY <1>5
<1> HIDE DEF at, N
<1>12. N \in Nat
  BY <1>6, FS_CardinalityType DEF N
<1>13. \A i \in S : at(Rank(S, R, i)) = i
  <2> SUFFICES ASSUME NEW i \in S, at(Rank(S, R, i)) # i PROVE FALSE
    OBVIOUS
  <2> DEFINE j == at(Rank(S, R, i))
  <2>1. j \in S /\ Rank(S, R, j) = Rank(S, R, i) /\ Rank(S, R, i) \in Int /\ j # i
    BY <1>7, <1>10, <1>12
  <2> HIDE DEF j
  <2>2. <<i, j>> \in R \/ <<j, i>> \in R
    BY <1>6, <2>1 DEF IsOrder
  <2>3. Rank(S, R, i) < Rank(S, R, j) \/ Rank(S, R, j) < Rank(S, R, i)
    BY <1>7, <2>1, <2>2
  <2> QED
    BY <2>1, <2>3
<1> HIDE DEF place
<1>14. DOMAIN run = 1..N /\ \A n \in 1..N : run[n] = BuildServer(tree[at(n)])
  BY <1>1
<1>15. \A n \in 1..N : \E i \in S : run[n] = BuildServer(tree[i])
  BY <1>10, <1>14
<1>16. \A i \in S : place(i) \in 1..N /\ run[place(i)] = BuildServer(tree[i])
  BY <1>7, <1>9, <1>13, <1>14
<1>17. ASSUME NEW i \in S, NEW k \in S, i < k PROVE place(i) < place(k)
  <2>1. i # k /\ <<i, k>> \in R
    BY <1>6, <1>11, <1>17
  <2> QED
    BY <1>7, <1>9, <2>1
<1> QED
  BY <1>6, <1>14, <1>15, <1>16, <1>17 DEF S, N, run, place
=============================================================================
