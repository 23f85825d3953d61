------------------------------- MODULE MCStartup ------------------------------
(***************************************************************************)
(* Configurations for Startup: short texts of every kind, texts with one   *)
(* mistake, trees in every layout, and trees with a meaning.               *)
(***************************************************************************)
EXTENDS Startup, TLC

TheFd        == 0..7    \* three are left for sockets: three inherited, two for the pipe
TheInherited == 0..2
TheKey       == [ip : 0..3, port : Ports]
TheBusy      == {[ip |-> 3, port |-> 65535]}
TheQuads     == ("0.0.0.0" :> 0 @@ "127.0.0.1" :> 1 @@ "10.0.0.1" :> 3)
TheJunk      == {0, 2}

D(name, args) == [name |-> <<name>>, args |-> args]
Listen(word)  == D("listen", <<word>>)
Calls(name)   == D("server_name", <<<<name>>>>)
RootIs(name)  == D("root", <<<<"/", name>>>>)
Limit(word)   == D("client_max_body_size", <<word>>)
Is(name, word) == D(name, <<<<word>>>>)
Loc(name, directives) == [path |-> <<"/", name>>, directives |-> directives]
Server(directives, locations) == [directives |-> directives, locations |-> locations]

Any80  == <<"8", "0">>
Any81  == <<"8", "1">>
At1(port) == <<"127.0.0.1", ":">> \o port
Host80 == <<"h", ":", "8", "0">>
Bare80 == <<":", "8", "0">>
Last16 == <<"6", "5", "5", "3", "5">>
Busy16 == <<"10.0.0.1", ":">> \o Last16

Store  == <<Is("upload_store", "s")>>
Python == <<D("cgi_exec", <<<<".", "p">>, <<"/", "p">>>>)>>

-----------------------------------------------------------------------------
(* Trees with a meaning.                                                   *)
Hosts ==
    << Server(<<Listen(Any80), Calls("one"), Listen(At1(Any81))>>, <<>>),
       Server(<<Listen(Any80), Calls("two")>>, <<Loc("z", <<>>)>>),
       Server(<<Listen(At1(Any81)), Calls("three"), Calls("four")>>, <<>>) >>
Settings ==
    << Server(<<Listen(Any80), RootIs("r"), Limit(<<"2", "G">>)>>,
              <<Loc("x", <<RootIs("q"), Limit(<<"5", "KB">>),
                           D("allow_methods", <<<<"GET">>, <<"POST">>>>)>>),
                Loc("y", Python \o <<Is("cgi", "on"), Limit(<<"0">>)>>)>>) >>
Defaults ==
    << Server(<<Listen(Any80), D("index", <<<<"a">>, <<"b">>>>), Limit(<<"0", "MB">>)>>,
              <<[path |-> <<"/">>, directives |-> <<D("return", <<<<"3", "0", "1">>, <<"/", "x">>>>)>>],
                Loc("z", Store \o <<Is("upload", "on"), Is("autoindex", "on"),
                                    Is("allow_methods", "GET"), Is("allow_methods", "DELETE")>>)>>) >>

One(directives, locations) == <<Server(<<Listen(Any80)>> \o directives, locations)>>
Inner(directives)          == One(<<>>, <<Loc("x", directives)>>)

(* One socket on every address and one on a single one; four sockets where *)
(* there is room for three; an address that is taken.                      *)
Sockets ==
    { << Server(<<Listen(first), Listen(second)>>, <<>>) >> :
        first \in {Any80, At1(Any80), Bare80}, second \in {Any80, At1(Any80), Host80, Busy16} }
    \union
    { << Server(<<Listen(Any80), Listen(Any81), Listen(At1(Last16))>>, <<>>),
         Server(<<Listen(Host80)>>, <<>>) >>,
      << Server(<<Listen(Any80)>>, <<>>), Server(<<Listen(Bare80)>>, <<>>) >> }

Numbers == {<<"0">>, <<"0", "8", "0">>, <<"8">>, <<"8", "x">>, <<>>, <<"6", "5", "5", "3", "6">>,
            <<"9", "9", "9", "9", "9", "9", "9", "9", "9", "9">>}
Sizes   == {n \o unit : n \in Numbers, unit \in {<<>>, <<"K">>, <<"G">>, <<"T">>}} \ {<<>>}
Meanings ==
    {Hosts, Settings, Defaults} \union Sockets
    \union { One(<<Listen(<<"1", ":">> \o n)>>, <<>>) : n \in {m \in Numbers : m # <<"8">> /\ Len(m) < 10} }
    \union { One(<<Limit(size)>>, <<Loc("x", <<Limit(<<"1", "K">>)>>), Loc("y", <<>>)>>) :
             size \in Sizes }
    \union { Inner(ds) : ds \in { <<>>, <<D("return", <<<<"3", "0", "1">>>>)>>, Store, Python, Python \o <<Is("cgi", "off")>>, <<Is("cgi", "on")>>,
                                  <<Is("cgi", "off")>>, <<Is("upload", "on")>>, <<Is("upload", "off")>>,
                                  Store \o <<Is("upload", "off")>>, <<Is("cgi", "maybe")>>,
                                  <<D("return", <<<<"3", "0", "1">>>>), RootIs("q")>>,
                                  <<D("return", <<<<"9", "9", "9">>>>)>>, <<RootIs("p"), RootIs("q")>>,
                                  <<D("error_page", <<<<"3", "9", "9">>, <<"/", "e">>>>)>>,
                                  <<D("error_page", <<<<"4", "0", "4">>>>)>>,
                                  <<Is("allow_methods", "PUT")>>, <<Is("server_name", "a")>>,
                                  <<D("cgi_exec", <<<<"p">>, <<"/", "p">>>>), Is("cgi", "on")>>,
                                  <<Is("allowed_methods", "GET")>> } }
    \union { <<Server(<<Calls("one")>>, <<>>)>>, One(<<Is("autoindex", "on")>>, <<>>) }

(* Trees that mean nothing: directives without arguments and keywords in   *)
(* the wrong places.                                                       *)
Shapes ==
    { <<Server(<<D("a", <<>>), D("server", <<ServerWord>>)>>,
               <<[path |-> LocationWord, directives |-> <<D("location", <<LocationWord>>)>>],
                 [path |-> <<"a", "b">>, directives |-> <<>>]>>),
        Server(<<>>, <<>>)>> }

-----------------------------------------------------------------------------
Text(text, written) == [given |-> TRUE, opens |-> TRUE, text |-> text, written |-> written]

Vocabulary == {ServerWord, LocationWord, <<"a">>, LBrace, RBrace, Semicolon}
ShortTexts == {Text(LayOut(ts, "lines"), <<>>) : ts \in BoundedSeq(Vocabulary, 5)}

(* A sentence with a token left out, put in, or exchanged for another.     *)
Edits(ts) ==
    { RemoveAt(ts, i) : i \in DOMAIN ts }
    \union { InsertAt(ts, i, t) : i \in 1..Len(ts) + 1, t \in Vocabulary }
    \union { ReplaceAt(ts, i, t) : i \in DOMAIN ts, t \in Vocabulary }
WithMistakes ==
    { Text(LayOut(ts, "tight"), <<>>) :
      ts \in UNION {Edits(Sentence(tree, "directives")) : tree \in Shapes \union {One(<<Calls("one")>>, <<>>)}} }

LaidOut ==
    { Text(LayOut(Sentence(tree, order), layout), tree) :
      tree \in Shapes \union {Hosts, Settings, Defaults}, order \in Orders, layout \in Layouts }
    \union { Text(LayOut(Sentence(tree, "locations"), "lines"), tree) : tree \in Meanings }

NoFiles ==
    { [given |-> given, opens |-> opens, text |-> <<>>, written |-> <<>>] :
      given \in BOOLEAN, opens \in BOOLEAN }

AllFiles == ShortTexts \union WithMistakes \union LaidOut \union NoFiles
TheFiles == AllFiles
=============================================================================
