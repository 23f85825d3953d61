--------------------------- MODULE ConfigResolver ----------------------------
(***************************************************************************)
(* From an accepted tree to what the server works with                     *)
(* (src/src/resolver/ConfigResolver.cpp, RuntimeLocation.cpp,              *)
(* RuntimeServer.cpp, SocketKeyUtils.cpp).                                 *)
(***************************************************************************)
EXTENDS ConfigValidator

CONSTANT Quads    \* the dotted addresses that occur, with their values

DefaultRoot  == <<".", "/", "w", "w", "w", "/", "h", "t", "m", "l">>
DefaultIndex == <<<<"i", "n", "d", "e", "x", ".", "h", "t", "m", "l">>>>
DefaultMax   == 1024 * 1024

(* parseClientMaxBodySize.                                                 *)
Unit(suffix) ==
    CASE suffix = <<>>                   -> 1
      [] suffix \in {<<"K">>, <<"KB">>}  -> 1024
      [] suffix \in {<<"M">>, <<"MB">>}  -> 1024 * 1024
      [] suffix \in {<<"G">>, <<"GB">>}  -> 1024 * 1024 * 1024
ParseClientMaxBodySizeWraps(word) ==    \* mutant: what is too large is cut off
    (Number(NumberPart(word)) % (SizeMax \div Unit(Suffix(word)))) * Unit(Suffix(word))
ParseClientMaxBodySize(word) ==
    LET base == Number(NumberPart(word))
        unit == Unit(Suffix(word))
    IN  IF base > SizeMax \div unit THEN SizeMax ELSE base * unit

(* SocketKeyUtils::fromString.  sscanf() leaves the four parts of the      *)
(* address as they were where it finds no number to read: junk is the      *)
(* address that comes of it.                                               *)
ReadsAddress(word) == Len(AddressPart(word)) = 1 /\ AddressPart(word)[1] \in DOMAIN Quads
FromString(word, junk) ==
    [ip   |-> IF ReadsAddress(word) THEN Quads[AddressPart(word)[1]] ELSE junk,
     port |-> Number(PortPart(word))]

-----------------------------------------------------------------------------
(* applyServerDirectives, in the order of the file, and setDefaults.       *)
NewServer == [names |-> {}, root |-> Absent, index |-> <<>>, max |-> 0, pages |-> <<>>]

ApplyServer(s, d) ==
    CASE Named(d, "server_name") -> [s EXCEPT !.names = @ \union ToSet(d.args)]
      [] Named(d, "root")        -> [s EXCEPT !.root = d.args[1]]
      [] Named(d, "index")       -> [s EXCEPT !.index = @ \o d.args]
      [] Named(d, "client_max_body_size") ->
            [s EXCEPT !.max = ParseClientMaxBodySize(d.args[1])]
      [] Named(d, "error_page")  ->
            [s EXCEPT !.pages = With(@, Number(d.args[1]), Last(d.args))]
      [] Named(d, "listen")      -> s

SetDefaults(s) ==
    [s EXCEPT !.root  = IF @ = Absent THEN DefaultRoot ELSE @,
              !.index = IF @ = <<>> THEN DefaultIndex ELSE @,
              !.max   = IF @ = 0 THEN DefaultMax ELSE @]

-----------------------------------------------------------------------------
(* buildLocation: ApplyLocationDirectives, in the order of the file, and   *)
(* ApplyInheritance.  upload and cgi are turned on whatever the argument.  *)
NewLocation(path) ==
    [path |-> path, root |-> Absent, index |-> <<>>, max |-> 0, pages |-> <<>>,
     autoindex |-> FALSE, methods |-> {}, hasReturn |-> FALSE, code |-> 0, target |-> Absent,
     upload |-> FALSE, store |-> Absent, hasCgi |-> FALSE, exec |-> <<>>]

ApplyLocation(l, d) ==
    CASE Named(d, "root")   -> [l EXCEPT !.root = d.args[1]]
      [] Named(d, "index")  -> [l EXCEPT !.index = d.args]
      [] Named(d, "client_max_body_size") ->
            [l EXCEPT !.max = ParseClientMaxBodySize(d.args[1])]
      [] Named(d, "error_page") ->
            [l EXCEPT !.pages = With(@, Number(d.args[1]), JoinPath(l.root, Last(d.args)))]
      [] Named(d, "autoindex")     -> [l EXCEPT !.autoindex = @ \/ d.args[1] = On]
      [] Named(d, "upload")        -> [l EXCEPT !.upload = TRUE]
      [] Named(d, "cgi")           -> [l EXCEPT !.hasCgi = TRUE]
      [] Named(d, "allow_methods") -> [l EXCEPT !.methods = @ \union {m[1] : m \in ToSet(d.args)}]
      [] Named(d, "return") ->
            [l EXCEPT !.hasReturn = TRUE, !.code = Number(d.args[1]),
                      !.target = IF Len(d.args) > 1 THEN d.args[2] ELSE Absent]
      [] Named(d, "upload_store")  -> [l EXCEPT !.store = d.args[1]]
      [] Named(d, "cgi_exec")      -> [l EXCEPT !.exec = With(@, d.args[1], d.args[2])]

MergeErrorPageOver(own, inherited, root) ==    \* mutant: the server's page wins
    [c \in DOMAIN own \union DOMAIN inherited |->
        IF c \in DOMAIN inherited THEN JoinPath(root, inherited[c]) ELSE own[c]]
MergeErrorPage(own, inherited, root) ==
    [c \in DOMAIN own \union DOMAIN inherited |->
        IF c \in DOMAIN own THEN own[c] ELSE JoinPath(root, inherited[c])]

ApplyInheritance(l, s) ==
    [l EXCEPT !.root  = IF l.hasReturn \/ @ # Absent THEN @ ELSE s.root,
              !.index = IF l.hasReturn \/ @ # <<>> THEN @ ELSE s.index,
              !.pages = MergeErrorPage(@, s.pages, s.root),
              !.max   = IF @ = 0 THEN s.max ELSE @]

BuildLocation(node, s) ==
    ApplyInheritance(FoldLeft(ApplyLocation, NewLocation(node.path), node.directives), s)

(* sortLocations: longer paths first.  Among paths of one length, of which *)
(* matchLocation uses at most one, the order is that of the file; equal    *)
(* ones keep it too, as std::sort leaves 16 elements or fewer.             *)
Precedes(ls, i, j) ==
    \/ Len(ls[i].path) > Len(ls[j].path)
    \/ Len(ls[i].path) = Len(ls[j].path) /\ i <= j
SortLocations(ls) ==
    [n \in DOMAIN ls |->
        ls[CHOOSE i \in DOMAIN ls : Cardinality({j \in DOMAIN ls : Precedes(ls, j, i)}) = n]]

BuildServer(node) ==
    LET s == SetDefaults(FoldLeft(ApplyServer, NewServer, node.directives))
    IN  [names |-> s.names,
         locations |-> SortLocations([i \in DOMAIN node.locations |->
                                         BuildLocation(node.locations[i], s)])]

-----------------------------------------------------------------------------
(* resolve.  junks has a value for each listen whose address is not read.  *)
ListensAt(ast, i) == At(ast[i].directives, "listen")
Argument(ast, i, j) == ast[i].directives[j].args[1]
NotRead(ast) ==
    UNION { {<<i, j>> : j \in {k \in ListensAt(ast, i) : ~ReadsAddress(Argument(ast, i, k))}}
            : i \in DOMAIN ast }

ListenKey(ast, i, j, junks) ==
    FromString(Argument(ast, i, j), IF <<i, j>> \in NotRead(ast) THEN junks[<<i, j>>] ELSE 0)
Keys(ast, i, junks) == {ListenKey(ast, i, j, junks) : j \in ListensAt(ast, i)}

(* SocketKeyUtils::exists: a server that listens twice on one key.         *)
DuplicateListen(ast, junks) ==
    \E i \in DOMAIN ast : Cardinality(Keys(ast, i, junks)) < Cardinality(ListensAt(ast, i))

(* The servers of each key, in the order of the file.                      *)
ResolveLastFirst(ast, junks) ==    \* mutant: a server goes before the earlier ones
    [key \in UNION {Keys(ast, i, junks) : i \in DOMAIN ast} |->
        LET on == {i \in DOMAIN ast : key \in Keys(ast, i, junks)}
        IN  [n \in 1..Cardinality(on) |->
                BuildServer(ast[CHOOSE i \in on : Cardinality({k \in on : k >= i}) = n])]]
Resolve(ast, junks) ==
    [key \in UNION {Keys(ast, i, junks) : i \in DOMAIN ast} |->
        LET on == {i \in DOMAIN ast : key \in Keys(ast, i, junks)}
        IN  [n \in 1..Cardinality(on) |->
                BuildServer(ast[CHOOSE i \in on : Cardinality({k \in on : k <= i}) = n])]]
=============================================================================
