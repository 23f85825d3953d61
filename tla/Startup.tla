------------------------------- MODULE Startup -------------------------------
(***************************************************************************)
(* The program from its command line to its end (main.cpp and              *)
(* ConfigLoader.cpp): the configuration file is read, parsed, validated    *)
(* and resolved, and the server is started with what came of it.           *)
(***************************************************************************)
EXTENDS ServerStart, ConfigGrammar, ConfigAsWritten

CONSTANTS
    Files,    \* bound: the command lines and files that are explored
    Junk      \* bound: what an address that is not read may hold

(* An address is a key that the engine can have: its numbers are those of  *)
(* Quads or left to chance, and its port is one that exists.               *)
Addresses == {Quads[q] : q \in DOMAIN Quads} \union Junk
ASSUME KeyAssumption == [ip : Addresses, port : Ports] \subseteq Key

(* A file is [given, opens, text, written]: whether the program has one    *)
(* argument and can open it, the characters in the file, and the tree that *)
(* its author wrote down, <<>> for a text that stands for none.            *)
ASSUME FilesAssumption ==
    \A f \in Files : f.text \in Seq(STRING) /\ (f.written # <<>> => StandsFor(f.text, f.written))

VARIABLES
    file,     \* the command line and the file
    ast,      \* what ConfigParser made of it
    runtime   \* RuntimeConfig: the servers by key

vars == <<startVars, file, ast, runtime>>

Init ==
    /\ StartInit
    /\ file \in Files
    /\ ast = <<>> /\ runtime = <<>>

-----------------------------------------------------------------------------
(* main and ConfigLoader::load.                                            *)
Readable == file.given /\ file.opens /\ file.text # <<>>
Parsed   == Parse(Tokens(file.text))

NotLoaded(kind) == Refused(kind) /\ UNCHANGED <<file, ast, runtime>>

UsageError == stage = "main" /\ ~file.given /\ NotLoaded("usage")
FileError  == stage = "main" /\ file.given /\ ~Readable /\ NotLoaded("file")

Load ==
    /\ stage = "main" /\ Readable
    /\ \E parse \in {Parsed} :
          IF ~Accepts(parse) THEN NotLoaded("syntax")
          ELSE /\ ast' = parse.ast
               /\ IF Validate(ast')
                  THEN stage' = "loaded"
                       /\ UNCHANGED <<error, keys, todo, listeners, pipe, open, signalled>>
                  ELSE Refused("validation")
               /\ UNCHANGED <<file, runtime>>

(* ConfigResolver::resolve, whose result the engine is made with.          *)
ResolveConfig ==
    /\ stage = "loaded"
    /\ \E junks \in [NotRead(ast) -> Junk] :
          IF DuplicateListen(ast, junks)
          THEN Refused("validation") /\ UNCHANGED runtime
          ELSE runtime' = Resolve(ast, junks) /\ Configured(DOMAIN runtime')
    /\ UNCHANGED <<file, ast>>

EngineRuns == EngineStep /\ UNCHANGED <<file, ast, runtime>>
Outside    == (PollFails \/ SignalKills \/ SignalHandler) /\ UNCHANGED <<file, ast, runtime>>

Next ==
    \/ UsageError \/ FileError \/ Load \/ ResolveConfig
    \/ EngineRuns
    \/ Outside

(* The one thread of the program runs on.                                  *)
Spec == Init /\ [][Next]_vars /\ WF_vars(EngineRuns)

-----------------------------------------------------------------------------
(* Only addresses with a port that exists come out of a configuration, and *)
(* the engine has exactly those.                                           *)
TypeOK ==
    /\ StartTypeOK
    /\ keys = DOMAIN runtime

(* Whatever a file says, the program starts and ends in one of the ways of *)
(* ServerStart.tla, of which StartupProofs.tla shows for every set of      *)
(* addresses that Accounted and Handover hold.                             *)
ImplementsStart == StartSpec

(* A syntax error is reported for a file whose tokens do not follow        *)
(* src/grammar.md, and for no other file.                                  *)
WasParsed == error \in {"syntax", "validation"} \/ stage = "loaded"
ReadsGrammar ==
    WasParsed => (error # "syntax" <=> IsConfig(Tokens(file.text)))

(* A tree that is written down in whatever layout, with remarks anywhere   *)
(* between two words and its directives before or after its locations, is  *)
(* read back as it was.                                                    *)
ReadsBack ==
    WasParsed /\ file.written # <<>> => ast = file.written

-----------------------------------------------------------------------------
(* Each server of a configuration answers on the sockets that it names,    *)
(* with the names and locations that are written in it, whose settings are *)
(* their own, else the server's, else the defaults.                        *)
KeysRead(i) ==
    {ListenKey(ast, i, j, <<>>) : j \in {k \in ListensAt(ast, i) : <<i, k>> \notin NotRead(ast)}}

AsWritten ==
    stage = "setup" =>
        \A i \in DOMAIN ast : \A key \in KeysRead(i) :
            \E n \in DOMAIN runtime[key] : ServerAsWritten(runtime[key][n], ast[i])

(* On a socket that several servers name, the first one in the file is the *)
(* first one of findServer, which answers for every other name; and no     *)
(* server is there twice, or without being asked for.                      *)
VirtualHosts ==
    stage = "setup" =>
        /\ \A i, k \in DOMAIN ast : \A key \in KeysRead(i) \intersect KeysRead(k) :
              i < k => \E m, n \in DOMAIN runtime[key] :
                          /\ m < n
                          /\ ServerAsWritten(runtime[key][m], ast[i])
                          /\ ServerAsWritten(runtime[key][n], ast[k])
        /\ FoldSet(LAMBDA key, n : n + Len(runtime[key]), 0, DOMAIN runtime)
              = FoldSet(LAMBDA i, n : n + Cardinality(ListensAt(ast, i)), 0, DOMAIN ast)

(* What RequestHandler and its helpers take for granted of a location: a   *)
(* root to look in and an index to look for unless it redirects, a limit   *)
(* above 0, a program for every extension only where CGI is on, and a      *)
(* store only where uploads are.                                           *)
Usable ==
    stage = "setup" =>
        \A key \in keys : \A s \in ToSet(runtime[key]) : \A l \in ToSet(s.locations) :
            /\ l.hasReturn \/ (l.root # Absent /\ l.index # <<>>)
            /\ l.hasReturn => l.code \in 100..599
            /\ l.max > 0
            /\ DOMAIN l.exec # {} => l.hasCgi
            /\ l.store # Absent => l.upload
=============================================================================
