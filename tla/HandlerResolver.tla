--------------------------- MODULE HandlerResolver ---------------------------
(***************************************************************************)
(* Routing (src/src/resolver/HandlerResolver.cpp): from the path of a      *)
(* request to a server, a location and a file.  What a prefix, a "..", a   *)
(* boundary between two names or an extension is depends on characters, so *)
(* here a path is the sequence of its characters, over a small alphabet.   *)
(* The results are functions of the configuration and of the files.        *)
(***************************************************************************)
EXTENDS Paths

CONSTANTS
    Servers,   \* the servers of one socket, in the order of the configuration
    Cwd,       \* the canonical path of the server's working directory
    Dirs       \* the canonical paths of the directories that exist

(* A server is [names, locations], a location has the fields that          *)
(* ConfigResolver gives it.                                                *)

(* The parser has collapsed consecutive slashes in the path of a request.  *)
Collapse(text) ==
    FoldLeft(LAMBDA done, ch : IF ch = Slash /\ done # <<>> /\ Last(done) = Slash
                               THEN done ELSE Append(done, ch),
             <<>>, text)

-----------------------------------------------------------------------------
FindServer(host) ==
    LET named == {i \in DOMAIN Servers : host \in Servers[i].names}
    IN  IF named = {} THEN 1 ELSE Min(named)

IsPrefixMatchOfText(path, locPath) ==    \* mutant: "/fu" is below "/f"
    IsPrefix(locPath, path)
IsPrefixMatch(path, locPath) ==
    \/ path = locPath
    \/ locPath = Root
    \/ IsStrictPrefix(locPath, path) /\ path[Len(locPath) + 1] = Slash

(* The last of the longest locations that match, 0 when none does.         *)
MatchLocation(path, locations) ==
    LET fits    == {i \in DOMAIN locations : IsPrefixMatch(path, locations[i].path)}
        longest == Max({Len(locations[i].path) : i \in fits})
    IN  IF fits = {} THEN 0
        ELSE Max({i \in fits : Len(locations[i].path) = longest})

(* stripLocationPrefix, and the same three cases in resolveCgiPathInfo.    *)
StripLocationPrefix(path, locPath) ==
    IF locPath = Root THEN path
    ELSE IF path = locPath THEN Root
    ELSE SubSeq(path, Len(locPath) + 1, Len(path))

(* What stands between the slashes of a path.                              *)
Segments(path) ==
    FoldLeft(LAMBDA done, ch : IF ch = Slash THEN Append(done, <<>>)
                               ELSE Front(done) \o <<Append(Last(done), ch)>>,
             <<<<>>>>, path)

(* The names on the way: ".." goes back one, and stays at the top.         *)
Enter(names, segment) ==
    IF segment = <<Dot, Dot>> THEN IF names = <<>> THEN <<>> ELSE Front(names)
    ELSE IF segment \in {<<>>, <<Dot>>} THEN names
    ELSE Append(names, segment)

Names(path) == FoldLeft(Enter, <<>>, Segments(path))

NormalizePath(path) ==
    LET names == Names(path)
    IN  IF names = <<>> THEN Root
        ELSE FlattenSeq([i \in DOMAIN names |-> Root \o names[i]])

Absolute(path) == IF path # <<>> /\ Head(path) = Slash THEN path ELSE Cwd \o Root \o path

-----------------------------------------------------------------------------
(* What the kernel answers, where no symbolic link is involved: a path     *)
(* leads somewhere when what stands before each slash is a directory.      *)
Leads(path) ==
    \A i \in DOMAIN path :
        path[i] = Slash => NormalizePath(SubSeq(path, 1, i - 1)) \in Dirs

IsFile(path, files) == NormalizePath(Absolute(path)) \in files /\ Leads(Absolute(path))

RealPath(path) ==
    LET canonical == NormalizePath(Absolute(path))
    IN  IF canonical \in Dirs /\ Leads(Absolute(path)) THEN canonical ELSE Absent

-----------------------------------------------------------------------------
(* The text from the last dot on: takes for an extension what a directory *)
(* has, too.                                                               *)
Extension(path) ==
    LET dots == {i \in DOMAIN path : path[i] = Dot}
    IN  IF dots = {} THEN <<>> ELSE SubSeq(path, Max(dots), Len(path))

MatchCgiExtension(path, loc) == Extension(path) \in DOMAIN loc.exec

(* resolveCgiPathInfo: the path is cut after the shortest script.          *)
Scripts(suffix, loc, files) ==
    { i \in DOMAIN suffix :
        /\ loc.hasCgi
        /\ i = Len(suffix) \/ suffix[i + 1] = Slash
        /\ MatchCgiExtension(SubSeq(suffix, 1, i), loc)
        /\ IsFile(loc.root \o SubSeq(suffix, 1, i), files) }

ResolveCgiPathInfoNoSlash(path, loc, files) ==    \* mutant: one character too far
    LET suffix  == StripLocationPrefix(path, loc.path)
        scripts == Scripts(suffix, loc, files)
        cut     == Len(path) - Len(suffix) + Min(scripts)
    IN  IF scripts = {} THEN [script |-> path, info |-> Absent]
        ELSE [script |-> SubSeq(path, 1, cut), info |-> SubSeq(path, cut + 2, Len(path))]
ResolveCgiPathInfo(path, loc, files) ==
    LET suffix  == StripLocationPrefix(path, loc.path)
        scripts == Scripts(suffix, loc, files)
        cut     == Len(path) - Len(suffix) + Min(scripts)
    IN  IF scripts = {} THEN [script |-> path, info |-> Absent]
        ELSE [script |-> SubSeq(path, 1, cut), info |-> SubSeq(path, cut + 1, Len(path))]

(* The text comparison that keeps a file below its root.                   *)
InsideText(path, absRoot) == IsPrefix(absRoot, path)    \* mutant: no boundary
InsideBelow(path, absRoot) ==    \* mutant: the root is not inside itself
    IsStrictPrefix(absRoot, path) /\ path[Len(absRoot) + 1] = Slash
Inside(path, absRoot) ==
    /\ IsPrefix(absRoot, path)
    /\ Len(path) > Len(absRoot) => path[Len(absRoot) + 1] = Slash

ResolvePath(path, loc) ==
    LET file == NormalizePath(Absolute(
                    JoinPath(loc.root, StripLocationPrefix(path, loc.path))))
        absRoot == RealPath(loc.root)
    IN  IF loc.hasReturn THEN loc.target
        ELSE IF absRoot # Absent /\ Inside(file, absRoot) THEN file
        ELSE Absent
=============================================================================
