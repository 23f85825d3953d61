-------------------------- MODULE MCRequestHandler ---------------------------
(***************************************************************************)
(* A small copy of configs/default.config: the same locations, each with a *)
(* name of one letter, under the root "./w" in the working directory "/h", *)
(* and some that are unusual and yet accepted.                             *)
(***************************************************************************)
EXTENDS ConfiguredSite, TLC

Below(dir, name) == dir \o Root \o name
Slashed(name) == Below(<<>>, name)

TheCwd == Slashed(<<"h">>)
Www    == Below(TheCwd, <<"w">>)
In(name) == Below(Www, name)

Script == <<"s", ".", "p">>
Python == <<".", "p">>
Folder == <<"d", ".", "p">>     \* a directory that is named like a script

TheDirs ==
    {Root, TheCwd, Www, In(<<"f">>), In(<<"u">>), In(<<"c">>), In(<<"f", "u">>),
     Below(In(<<"c">>), Folder)}

TheFiles ==
    { In(<<"i">>), In(<<"e">>), Below(In(<<"f">>), <<"i">>), Below(In(<<"f">>), <<"l">>), Below(In(<<"u">>), <<"i">>),
      Below(In(<<"f", "u">>), <<"i">>), Below(In(<<"c">>), Script),
      Below(Below(In(<<"c">>), Folder), Script) }
TheFirstFiles == [f \in TheFiles |-> <<"x">>]
TheLocked == {Below(In(<<"f">>), <<"l">>)}

(* The tree of the configuration; the roots in it are relative.            *)
TheQuads == ("0.0.0.0" :> 0)
RelRoot(name) == Below(<<".", "/", "w">>, name)

D(name, args) == [name |-> <<name>>, args |-> args]
Loc(name, directives) == [path |-> Slashed(name), directives |-> directives]
ErrorPageIs(code, path) == D("error_page", <<code, path>>)
NotFound == <<"4", "0", "4">>

LocSlash == [path |-> Root, directives |-> <<D("allow_methods", <<<<"GET">>>>)>>]
LocF == Loc(<<"f">>, << D("root", <<RelRoot(<<"f">>)>>), D("autoindex", <<<<"on">>>>),
                        ErrorPageIs(NotFound, Slashed(<<"i">>)),
                        D("allow_methods", <<<<"GET">>, <<"DELETE">>>>) >>)
LocO == Loc(<<"o">>, << D("return", <<<<"3", "0", "1">>, Slashed(<<"f">>)>>) >>)
LocU == Loc(<<"u">>, << D("root", <<RelRoot(<<"u">>)>>), D("upload", <<<<"on">>>>),
                        D("upload_store", <<RelRoot(<<"f">>)>>),
                        D("client_max_body_size", <<<<"2", "0">>>>),
                        D("allow_methods", <<<<"GET">>, <<"POST">>>>) >>)
LocC == Loc(<<"c">>, << D("root", <<RelRoot(<<"c">>)>>), D("cgi", <<<<"on">>>>),
                        D("cgi_exec", <<Python, Slashed(<<"p">>)>>),
                        D("allow_methods", <<<<"GET">>, <<"POST">>>>) >>)

(* A return without a target, a second location for a path, an upload into *)
(* a directory that is missing, one that is turned off, an error_page      *)
(* before the root.                                                        *)
LocR == Loc(<<"r">>, << D("return", <<<<"3", "0", "1">>>>) >>)
LocP == Loc(<<"p">>, << D("upload", <<<<"on">>>>), D("upload_store", <<RelRoot(<<"x">>)>>) >>)
LocN == Loc(<<"n">>, << D("upload", <<<<"off">>>>) >>)
Deep == [path |-> Below(Slashed(<<"f">>), <<"u">>),
         directives |-> << D("root", <<RelRoot(<<"f">>)>>) >>]
Again == [LocF EXCEPT !.directives = Tail(@)]
LocG == Loc(<<"g">>, << ErrorPageIs(NotFound, Slashed(<<"i">>)), D("root", <<RelRoot(<<"f">>)>>) >>)

ServerTree(name, locations) ==
    [directives |->
        << D("listen", <<<<"8", "0">>>>), D("server_name", <<<<name>>>>),
           D("root", <<<<".", "/", "w">>>>), D("index", <<<<"i">>, <<"e">>>>),
           D("client_max_body_size", <<<<"2">>>>),
           ErrorPageIs(<<"4", "0", "5">>, Slashed(<<"e">>)), ErrorPageIs(NotFound, Slashed(<<"e">>)),
           ErrorPageIs(<<"4", "1", "3">>, Slashed(<<"x">>)), ErrorPageIs(<<"4", "0", "0">>, Slashed(<<"f">>)),
           ErrorPageIs(<<"5", "0", "0">>, Below(Slashed(<<"f">>), <<"l">>)) >>,
     locations |-> locations]

TheTree ==
    << ServerTree("one", <<LocSlash, Again, LocF, LocO, LocU, LocC, LocR, LocP, LocN, Deep, LocG>>),
       ServerTree("two", <<LocF, LocO>>) >>
BuiltSite == [i \in DOMAIN TheTree |-> BuildServer(TheTree[i])]
Site      == BuiltSite

-----------------------------------------------------------------------------
Request(method, path) ==
    [host |-> <<"one">>, method |-> method, path |-> path,
     type |-> "", delimiter |-> NoDelimiter, body |-> <<>>, sent |-> <<>>]

(* Every path of up to six characters, and some longer ones to scripts.    *)
ShortPaths == {Root \o text : text \in BoundedSeq({"/", ".", "f", "u"}, 5)}
ScriptPaths ==
    { Slashed(<<"c">>) \o text :
      text \in { Slashed(Script), Slashed(Script) \o Slashed(Script), Slashed(Folder), Slashed(Folder) \o Slashed(Script),
                 Slashed(Folder) \o Slashed(Script) \o Root, Slashed(Script) \o Slashed(<<"x">>) \o Slashed(<<"y">>),
                 Slashed(<<"x">>) \o Slashed(<<".", ".">>) \o Slashed(Script), Slashed(<<"x", ".", "p">>),
                 Slashed(<<".", ".">>) \o Slashed(<<"c">>) \o Slashed(Script) \o Slashed(<<"x">>), Python } }

(* Out of a location and back, into a directory whose name goes on where   *)
(* that of the root ends, and to the return directives.                    *)
OtherPaths ==
    { Slashed(<<"f">>) \o Slashed(<<".", ".">>) \o Slashed(<<"f">>) \o Slashed(<<"i">>),
      Slashed(<<"f">>) \o Slashed(<<".", ".">>) \o Slashed(<<"f", "u">>) \o Slashed(<<"i">>),
      Slashed(<<"f">>) \o Slashed(<<".", ".">>) \o Slashed(<<".", ".">>) \o Slashed(<<"w">>) \o Slashed(<<"f">>),
      Slashed(<<"c">>) \o Root \o Slashed(<<".", ".">>) \o Slashed(<<"u">>) \o Slashed(<<"i">>),
      Slashed(<<"o">>), Slashed(<<"r">>) }

RoutingRequests ==
    { [Request("GET", path) EXCEPT !.host = <<host>>] :
      path \in ShortPaths \union ScriptPaths \union OtherPaths,
      host \in {"one", "two", "other"} }

-----------------------------------------------------------------------------
TheUploadNames == <<<<"m">>, <<"n">>>>

Text == <<".", "t", "x", "t">>
StoredPaths ==
    {Below(Slashed(<<"f">>), name) : name \in {<<"m">> \o Text, <<"n">> \o Text, <<"m">> \o Python, <<"l">>, <<"i">>}}
SomePaths ==
    StoredPaths \union
    { Root, Slashed(<<"i">>), Slashed(<<"g">>), Below(Slashed(<<"g">>), <<"z">>), Slashed(<<"f">>), Below(Slashed(<<"f">>), <<"z">>),
      Slashed(<<"u">>), Slashed(<<"f", "u">>), Slashed(<<"o">>), Slashed(<<"p">>),
      Slashed(<<"c">>) \o Slashed(Script), Slashed(<<"c">>) \o Slashed(<<"x", ".", "p">>),
      Slashed(<<"f">>) \o Slashed(<<".", ".">>) \o Slashed(<<"f", "u">>) \o Slashed(<<"i">>) }

(* Bodies: plain ones, forms with headers and contents of every kind, and  *)
(* forms that cannot be read.                                              *)
Delimiter == "--B"
Closing   == <<Delimiter, "--">> \o CRLF
PartText(headers, content) ==
    <<Delimiter>> \o CRLF \o FlattenSeq([i \in DOMAIN headers |-> headers[i] \o CRLF])
    \o CRLF \o content \o CRLF
TheFile == <<ContentDisposition, "d", "/", "a">> \o Python
ATitle  == <<ContentDisposition>>
AType   == <<"Content-Type">>

Post(path, body) ==
    [Request("POST", path) EXCEPT !.type = "text/plain", !.body = body, !.sent = body]
PostForm(path, body, sent) ==
    [Post(path, body) EXCEPT !.type = Form, !.delimiter = Delimiter, !.sent = sent]

Contents == {<<>>, <<"x">>, <<"x", CR, LF>>}
Forms ==
    { PostForm(Slashed(<<"u">>), PartText(<<TheFile>>, content) \o Closing, content)
      : content \in Contents \ {<<"x">>} }
    \union
    { PostForm(Slashed(<<"u">>), PartText(<<ATitle, AType>>, <<"x">>) \o Closing, <<"x">>),
      PostForm(Slashed(<<"u">>), PartText(<<ATitle>>, <<"x">>) \o PartText(<<AType>>, <<>>), <<"x">>) }
BadForms ==
    { PostForm(Slashed(<<"u">>), body, body)
      : body \in {<<"x">>, <<Delimiter, CR, LF, "x">>, <<Delimiter>> \o CRLF \o AType \o CRLF \o CRLF} }

TooLong == [i \in 1..21 |-> "x"]
ManyRequests ==
    { Request("DELETE", path) :
      path \in StoredPaths \union {Root, Slashed(<<"f">>), Slashed(<<"f">>) \o Slashed(<<".", ".">>) \o Slashed(<<"i">>)} }
    \union { Request("GET", path) : path \in StoredPaths }
    \union { Post(path, <<"x", "x">>) : path \in {Slashed(<<"u">>), Slashed(<<"f">>), Slashed(<<"p">>)} }

FirstRequests ==
    RoutingRequests \union Forms \union BadForms
    \union { Request(method, path) : method \in {"GET", "DELETE", "HEAD"}, path \in SomePaths }
    \union { [Post(Slashed(<<"u">>), <<"x">>) EXCEPT !.type = type] : type \in {Form, "", "image/png"} }
    \union { Post(path, TooLong) : path \in {Slashed(<<"u">>), Slashed(<<"c">>) \o Slashed(Script)} }
    \union { Post(Slashed(<<name>>), <<"x">>) : name \in {"n", "c"} }
    \union { [Request("GET", Below(Slashed(<<"f">>), <<"m">>)) EXCEPT !.host = <<"two">>] }

(* Names for the configurations: what a constant stands for is computed    *)
(* once when it is the name of a definition.                               *)
SomeRequests == ManyRequests
TheProbes    == FirstRequests
=============================================================================
