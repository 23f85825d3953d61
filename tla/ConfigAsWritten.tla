--------------------------- MODULE ConfigAsWritten ---------------------------
(***************************************************************************)
(* What a tree says that the servers and locations made of it should be,   *)
(* whatever the order in which ConfigResolver goes about it.               *)
(***************************************************************************)
EXTENDS ConfigResolver

(* The trees that ConfigParser makes of words over Y, none of them empty.  *)
Words(Y)          == Seq(Y) \ {<<>>}
DirectivesOver(Y) == [name : Words(Y), args : Seq(Words(Y))]
LocationsOver(Y)  == [path : Words(Y), directives : Seq(DirectivesOver(Y))]
ServersOver(Y)    == [directives : Seq(DirectivesOver(Y)), locations : Seq(LocationsOver(Y))]
Trees(Y)          == Seq(ServersOver(Y))

-----------------------------------------------------------------------------
(* What a tree says about a location, without the order of the resolver:   *)
(* its own directive, or that of its server, or the default.               *)
Where(ds, name)   == ds[Max(At(ds, name))].args
ArgsOf(ds, name)  == {d.args : d \in {ds[i] : i \in At(ds, name)}}
WordsOf(ds, name) == UNION {ToSet(args) : args \in ArgsOf(ds, name)}

First(ds, outer, name, default) ==
    IF Has(ds, name) THEN Where(ds, name)
    ELSE IF Has(outer, name) THEN Where(outer, name) ELSE default

(* A limit of 0 is none.                                                   *)
IsZero(args) == Number(NumberPart(args[1])) = 0
SizeFor(ds, outer) ==
    IF Has(ds, "client_max_body_size") /\ ~IsZero(Where(ds, "client_max_body_size"))
    THEN Where(ds, "client_max_body_size")[1]
    ELSE IF Has(outer, "client_max_body_size") /\ ~IsZero(Where(outer, "client_max_body_size"))
    THEN Where(outer, "client_max_body_size")[1]
    ELSE <<"1", "M">>

(* A number of bytes is what is written with K, M or G, or the largest one *)
(* there is when that is more.                                             *)
IsSize(bytes, word) ==
    LET unit == Unit(Suffix(word))
    IN  IF Number(NumberPart(word)) <= SizeMax \div unit
        THEN bytes % unit = 0 /\ bytes \div unit = Number(NumberPart(word))
        ELSE bytes = SizeMax

ReturnAsWritten(l, args) ==
    /\ l.code = Number(args[1])
    /\ l.target = IF Len(args) = 1 THEN Absent ELSE args[2]

LocationAsWritten(l, node, outer) ==
    LET ds == node.directives
    IN  /\ l.path = node.path
        /\ IF Has(ds, "return") THEN l.root = Absent /\ l.index = <<>>
           ELSE /\ <<l.root>> = First(ds, outer, "root", <<DefaultRoot>>)
                /\ l.index = First(ds, outer, "index", DefaultIndex)
        /\ IsSize(l.max, SizeFor(ds, outer))
        /\ {<<m>> : m \in l.methods} = WordsOf(ds, "allow_methods")
        /\ l.autoindex <=> On \in WordsOf(ds, "autoindex")
        /\ l.hasReturn <=> Has(ds, "return")
        /\ l.hasReturn => ReturnAsWritten(l, Where(ds, "return"))
        /\ IF Has(ds, "upload_store") THEN <<l.store>> = Where(ds, "upload_store")
           ELSE l.store = Absent
        /\ {<<ext, l.exec[ext]>> : ext \in DOMAIN l.exec} \subseteq ArgsOf(ds, "cgi_exec")
        /\ DOMAIN l.exec = {args[1] : args \in ArgsOf(ds, "cgi_exec")}

ServerAsWritten(s, node) ==
    /\ s.names = WordsOf(node.directives, "server_name")
    /\ Len(s.locations) = Len(node.locations)
    /\ \A i \in DOMAIN node.locations : \E j \in DOMAIN s.locations :
          LocationAsWritten(s.locations[j], node.locations[i], node.directives)

-----------------------------------------------------------------------------
(* The last error_page for a code.                                         *)
PagesFor(ds, code) == {i \in At(ds, "error_page") : Number(ds[i].args[1]) = code}
PageFor(ds, code)  == Last(ds[Max(PagesFor(ds, code))].args)

(* The file that a server and a location of it name as the page of a code. *)
RootFor(ds, outer) == First(ds, outer, "root", <<DefaultRoot>>)[1]
WrittenPage(code, server, location) ==
    IF PagesFor(location.directives, code) # {}
    THEN JoinPath(RootFor(location.directives, server.directives),
                  PageFor(location.directives, code))
    ELSE IF PagesFor(server.directives, code) # {}
    THEN JoinPath(RootFor(<<>>, server.directives), PageFor(server.directives, code))
    ELSE Absent

RootFirst(ds) == \A i \in At(ds, "error_page") : \E j \in At(ds, "root") : j < i
=============================================================================
