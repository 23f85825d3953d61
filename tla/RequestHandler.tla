--------------------------- MODULE RequestHandler ---------------------------
(***************************************************************************)
(* What one request does to the files (src/src/httpCore/RequestHandler.cpp *)
(* and UploadHandler.cpp, called by Connection::processRequest).  A whole  *)
(* request is answered inside one call of the event loop, so requests do   *)
(* not interleave; the files stay from one to the next, and system calls   *)
(* may fail in the middle of one.                                          *)
(***************************************************************************)
EXTENDS HandlerResolver, Multipart

CONSTANTS
    Requests,      \* bound: the requests that are explored
    Probes,        \* bound: requests that are explored as the first one only
    UploadNames,   \* bound: the names that makeUploadFilename makes, in order
    Locked,        \* the paths that the server may neither read nor write
    FirstFiles     \* the files that exist at the start: their contents by path

(* A request is [host, method, path, type, delimiter, body], the last      *)
(* three as in Multipart, and sent: what its client wants to have stored,  *)
(* which is the body itself or the first part of a form.                   *)
Posted == {r \in Requests \union Probes : r.method = "POST"}

ASSUME RequestsAssumption ==
    \A r \in Posted :
        /\ r.delimiter \in STRING /\ r.body \in Seq(STRING) /\ r.sent \in Seq(STRING)
        /\ IF Readable(r.type, r.delimiter) /\ ~IsNoForm(r.body, r.delimiter)
           THEN IsForm(r.body, r.delimiter, r.sent)
           ELSE r.sent = r.body

(* Literals are texts: the provers are not told.                           *)
ASSUME TextsAssumption ==
    /\ Slash \in STRING /\ Bin \in Seq(STRING)
    /\ \A r \in Posted : ExtensionFromContentType(r.type) \in Seq(STRING)

(* checkURI: the path of a request starts with a slash.                    *)
ASSUME PathsAssumption ==
    \A r \in Requests \union Probes :
        r.path \in Seq(STRING) /\ r.path # <<>> /\ Head(r.path) = Slash

(* What ConfigParser and ConfigValidator let through, after setDefaults:   *)
(* locations stand in order, their paths and words are not empty, and a    *)
(* return has the code of a status.                                        *)
IsLocation(loc) ==
    /\ loc.path \in Seq(STRING) /\ loc.path # <<>>
    /\ loc.root \in Seq(STRING) /\ loc.store \in Seq(STRING)
    /\ IF loc.hasReturn THEN loc.code \in 100..599
       ELSE loc.root # <<>> /\ Head(loc.index) \in Seq(STRING) /\ Head(loc.index) # <<>>

IsSite(servers) ==
    /\ Len(servers) \in Nat \ {0} /\ DOMAIN servers = 1..Len(servers)
    /\ \A s \in DOMAIN servers :
          LET locations == servers[s].locations
          IN  /\ Len(locations) \in Nat /\ DOMAIN locations = 1..Len(locations)
              /\ \A l \in DOMAIN locations : IsLocation(locations[l])

ASSUME SiteAssumption == IsSite(Servers)

(* The paths of directories and files are canonical, and lead to them.     *)
IsPlace(path) == path \in Seq(STRING) /\ NormalizePath(path) = path /\ Leads(path)

ASSUME TreeAssumption ==
    /\ Cwd \in Seq(STRING)
    /\ \A d \in Dirs : IsPlace(d)
    /\ \A f \in DOMAIN FirstFiles :
          IsPlace(f) /\ f \notin Dirs /\ FirstFiles[f] \in Seq(STRING)

(* The files that the n-th name can come to stand for, whatever the store  *)
(* and the extension.  A name has the time, the process and the counter in *)
(* it: no other name stands for the same file, nor is there such a file or *)
(* directory.  It starts with "upload_".                                   *)
StoredAt(store, n, ext) == NormalizePath(Absolute(JoinPath(store, UploadNames[n] \o ext)))
Locations  == UNION { {Servers[s].locations[l] : l \in DOMAIN Servers[s].locations}
                      : s \in DOMAIN Servers }
Extensions == {Received(r.type, r.delimiter, r.body).ext : r \in Posted}
Targets(n) == {StoredAt(l.store, n, ext) : l \in Locations, ext \in Extensions}

ASSUME NamesAssumption ==
    /\ Len(UploadNames) \in Nat \ {0}
    /\ \A n \in 1..Len(UploadNames) :
          /\ UploadNames[n] \in Seq(STRING) /\ Slash \notin ToSet(UploadNames[n])
          /\ UploadNames[n] # <<>> /\ Head(UploadNames[n]) # Dot
          /\ Targets(n) \intersect (Dirs \union DOMAIN FirstFiles) = {}
          /\ \A m \in 1..n - 1 : Targets(m) \intersect Targets(n) = {}

VARIABLES
    files,     \* the regular files: their contents by canonical path
    counter,   \* the counter of makeUploadFilename
    last,      \* the last request and what came of it
    uploads,   \* history: the uploads answered 201 and not deleted since
    removed    \* history: the files whose removal was answered 204

vars == <<files, counter, last, uploads, removed>>

Running == 0    \* the status of a request that a CGI program is to answer

(* processRequest up to the choice of who answers.                         *)
Routed(r) ==
    LET path      == Collapse(r.path)
        server    == FindServer(r.host)
        locations == Servers[server].locations
        l         == MatchLocation(path, locations)
        split     == ResolveCgiPathInfo(path, locations[l], DOMAIN files)
    IN  IF l = 0
        THEN [server |-> server, loc |-> 0, script |-> path, info |-> Absent, file |-> Absent]
        ELSE [server |-> server, loc |-> l, script |-> split.script, info |-> split.info,
              file |-> ResolvePath(split.script, locations[l])]

Location(route) == Servers[route.server].locations[route.loc]

(* ErrorHandler::build: the page of the location for a status, the canned  *)
(* text when it has none or the page does not open.  A directory opens,    *)
(* and is an empty page.  names are the files when the page is looked for. *)
Opens(path, names) ==
    /\ path # Absent
    /\ IsFile(path, names) \/ RealPath(path) # Absent
    /\ NormalizePath(Absolute(path)) \notin Locked

ResolvePathError(code, route) ==
    IF route.loc = 0 \/ code \notin DOMAIN Location(route).pages THEN Absent
    ELSE Location(route).pages[code]

ErrorPage(code, route, names) ==
    LET path == ResolvePathError(code, route)
    IN  IF Opens(path, names) THEN NormalizePath(Absolute(path)) ELSE Absent

NoRequest == [status |-> -1]

(* The answer to a request, with the file it was about, and an error with  *)
(* its page.                                                               *)
Answered(r, route, file, status) ==
    last' = [req |-> r, route |-> route, file |-> file, status |-> status, page |-> Absent]

FailedAmong(names, r, route, file, status) ==
    last' = [req |-> r, route |-> route, file |-> file, status |-> status,
             page |-> ErrorPage(status, route, names)]
Failed(r, route, file, status) == FailedAmong(DOMAIN files, r, route, file, status)

Unchanged == UNCHANGED <<files, counter, uploads, removed>>

TypeOK ==
    /\ \A f \in DOMAIN files : files[f] \in Seq(STRING)
    /\ \A f \in DOMAIN files : IsPlace(f) /\ f \notin Dirs
    /\ counter \in 0..Len(UploadNames)
    /\ last # NoRequest => last.req \in Requests \union Probes /\ last.status \in {Running} \union 100..599
    /\ \A u \in uploads : u.link # Absent

Init ==
    /\ files = FirstFiles
    /\ counter = 0
    /\ last = NoRequest
    /\ uploads = {}
    /\ removed = {}

-----------------------------------------------------------------------------
(* No location, or no file for the path.  RequestHandler would answer 400  *)
(* too, but processRequest comes first - also for a return directive       *)
(* without a target, which is never answered as a redirection.             *)
Unresolved(r, route) ==
    /\ route.file = Absent
    /\ Failed(r, route, Absent, IF route.loc = 0 THEN 500 ELSE 400)
    /\ Unchanged

ForCgi(route) ==
    /\ route.file # Absent
    /\ Location(route).hasCgi
    /\ MatchCgiExtension(route.file, Location(route))

(* CgiHandler::launch, whose own calls may fail.                           *)
Launch(r, route) ==
    IF Len(r.body) > Location(route).max THEN Failed(r, route, route.file, 413)
    ELSE IF ~IsFile(route.file, DOMAIN files) THEN Failed(r, route, route.file, 404)
    ELSE Answered(r, route, route.file, Running) \/ Failed(r, route, route.file, 500)

RunCgi(r, route) ==
    /\ ForCgi(route)
    /\ Launch(r, route)
    /\ Unchanged

ForHandler(route) == route.file # Absent /\ ~ForCgi(route)

Redirect(r, route) ==
    /\ ForHandler(route)
    /\ Location(route).hasReturn
    /\ Answered(r, route, Absent, Location(route).code)
    /\ Unchanged

CheckMethodAlways(r, route) == 0    \* mutant: the methods of the location are ignored
CheckMethod(r, route) ==
    IF r.method \notin {"GET", "POST", "DELETE"} THEN 501
    ELSE IF Location(route).methods # {} /\ r.method \notin Location(route).methods THEN 405
    ELSE 0

Refuse(r, route) ==
    /\ ForHandler(route) /\ ~Location(route).hasReturn
    /\ CheckMethod(r, route) # 0
    /\ Failed(r, route, Absent, CheckMethod(r, route))
    /\ Unchanged

Serves(r, route, method) ==
    /\ ForHandler(route) /\ ~Location(route).hasReturn
    /\ CheckMethod(r, route) = 0
    /\ r.method = method

-----------------------------------------------------------------------------
(* serveRegularFile and buildAutoindex: what may be read may still fail to *)
(* open.                                                                   *)
ServeFile(r, route, file) ==
    IF file \in Locked THEN Failed(r, route, file, 403)
    ELSE Answered(r, route, file, 200) \/ Failed(r, route, file, 500)

ServeDirectory(r, route, dir) ==
    LET index == JoinPath(dir, Head(Location(route).index))
    IN  IF Location(route).autoindex
        THEN \/ Failed(r, route, dir, 403)
             \/ dir \notin Locked /\ Answered(r, route, dir, 200)
        ELSE IF index \in DOMAIN files THEN ServeFile(r, route, index)
        ELSE Failed(r, route, dir, 403)

Get(r, route) ==
    /\ Serves(r, route, "GET")
    /\ LET file == route.file
       IN  IF file \in Dirs THEN ServeDirectory(r, route, file)
           ELSE IF file \in DOMAIN files THEN ServeFile(r, route, file)
           ELSE Failed(r, route, file, 404)
    /\ Unchanged

(* handleDELETE.                                                           *)
Without(f) == [g \in DOMAIN files \ {f} |-> files[g]]

Delete(r, route) ==
    /\ Serves(r, route, "DELETE")
    /\ UNCHANGED counter
    /\ LET file == route.file
       IN  \/ /\ file \notin DOMAIN files \/ file \in Locked
              /\ Failed(r, route, file, IF file \in DOMAIN files \union Dirs THEN 403 ELSE 404)
              /\ UNCHANGED <<files, uploads, removed>>
           \/ /\ file \in DOMAIN files \ Locked
              /\ Failed(r, route, file, 500)
              /\ UNCHANGED <<files, uploads, removed>>
           \/ /\ file \in DOMAIN files \ Locked
              /\ Answered(r, route, file, 204)
              /\ files' = Without(file)
              /\ uploads' = {u \in uploads : u.file # file}
              /\ removed' = removed \union {file}

-----------------------------------------------------------------------------
(* UploadHandler::handle up to the writing: 0 when there is nothing to say. *)
CheckUploadAnywhere(r, route) ==    \* mutant: the store is not looked at
    IF Len(r.body) > Location(route).max THEN 413
    ELSE IF ~Location(route).upload THEN 405
    ELSE 0
CheckUpload(r, route) ==
    LET store == NormalizePath(Absolute(Location(route).store))
    IN  IF Len(r.body) > Location(route).max THEN 413
        ELSE IF ~Location(route).upload THEN 405
        ELSE IF Location(route).store = Absent \/ store \notin Dirs THEN 500
        ELSE IF store \in Locked THEN 403
        ELSE 0

RefuseUpload(r, route) ==
    /\ Serves(r, route, "POST")
    /\ CheckUpload(r, route) # 0
    /\ Failed(r, route, Absent, CheckUpload(r, route))
    /\ Unchanged

(* The address of the store, from what its path and the location's root    *)
(* have in common.                                                         *)
DeriveUriFromStoreWhole(root, store) == <<>>    \* mutant: the address of the server
DeriveUriFromStore(root, store) ==
    LET common == LongestCommonPrefix({root, store})
        rest   == SubSeq(store, Len(common) + 1, Len(store))
    IN  IF rest = <<>> \/ Head(rest) # Slash THEN Root \o rest ELSE rest

(* makeUploadFilename and writeFileBinary: open() may fail, and a write()  *)
(* may fail after any part of the content, which then stays in the file.   *)
NextCounterStays == counter    \* mutant: the counter stays where it is
NextCounter == counter + 1

Store(r, route, received) ==
    LET loc  == Location(route)
        name == UploadNames[counter + 1] \o received.ext
        file == StoredAt(loc.store, counter + 1, received.ext)
        link == DeriveUriFromStore(loc.root, loc.store) \o Root \o name
    IN  \/ Failed(r, route, file, 500) /\ UNCHANGED <<files, uploads>>
        \/ \E n \in 0..Len(received.content) - 1 :
              /\ files' = With(files, file, SubSeq(received.content, 1, n))
              /\ FailedAmong(DOMAIN files', r, route, file, 500)
              /\ UNCHANGED uploads
        \/ /\ files' = With(files, file, received.content)
           /\ Answered(r, route, file, 201)
           /\ uploads' = uploads \union
                 {[file |-> file, sent |-> r.sent, host |-> r.host, link |-> link]}

Upload(r, route) ==
    /\ Serves(r, route, "POST")
    /\ CheckUpload(r, route) = 0
    /\ Store(r, route, Received(r.type, r.delimiter, r.body))
    /\ counter' = NextCounter
    /\ UNCHANGED removed

-----------------------------------------------------------------------------
(* Bound: nothing is posted once the names for uploads are used up.        *)
Explored ==
    {r \in Requests : r.method = "POST" => counter < Len(UploadNames)}
    \union (IF last = NoRequest THEN Probes ELSE {})

Next ==
    \E r \in Explored : \E route \in {Routed(r)} :
        \/ Unresolved(r, route)
        \/ RunCgi(r, route)
        \/ Redirect(r, route)
        \/ Refuse(r, route)
        \/ Get(r, route)
        \/ Delete(r, route)
        \/ RefuseUpload(r, route)
        \/ Upload(r, route)

Spec == Init /\ [][Next]_vars

-----------------------------------------------------------------------------
(* The location of the last request; a return directive names no file.     *)
LastLocation == Location(last.route)
LastFound    == last # NoRequest /\ last.route.loc # 0 /\ ~LastLocation.hasReturn

(* A location covers a path when it is a prefix of it name by name; the    *)
(* location "/" covers everything.                                         *)
Covers(locPath, path) == locPath = Root \/ IsPrefix(Segments(locPath), Segments(path))
Depth(locPath) == IF locPath = Root THEN 0 ELSE Len(Segments(locPath))

(* The location of a request is the deepest one that covers its path, the  *)
(* last one among equals, and a request without a location has none that   *)
(* covers it: matchLocation compares texts, whose boundaries are names.    *)
MostSpecific ==
    last # NoRequest =>
        LET locations == Servers[last.route.server].locations
            path      == Collapse(last.req.path)
            covering  == {i \in DOMAIN locations : Covers(locations[i].path, path)}
            l         == last.route.loc
        IN  IF covering = {} THEN l = 0
            ELSE /\ l \in covering
                 /\ \A i \in covering :
                       \/ Depth(locations[i].path) < Depth(locations[l].path)
                       \/ locations[i].path = locations[l].path /\ i <= l

(* Whatever dots the path has, the file that is served, deleted or run is  *)
(* below the root of the request's location, and an upload goes straight   *)
(* into the location's store.                                              *)
Confined ==
    LastFound /\ last.file # Absent =>
        IF last.req.method = "POST" /\ last.status \in {201, 500} /\ LastLocation.upload
           /\ ~ForCgi(last.route)
        THEN Front(Names(last.file)) = Names(Absolute(LastLocation.store))
        ELSE IsPrefix(Names(RealPath(LastLocation.root)), Names(last.file))

(* A path without ".." stays below any root that exists, so that its       *)
(* request is not refused as one that leaves it.  The root "/" is the      *)
(* exception: the comparison wants a slash behind it and finds a name.     *)
InsideAccepted ==
    LastFound /\ RealPath(LastLocation.root) \notin {Absent, Root}
              /\ <<Dot, Dot>> \notin ToSet(Segments(last.req.path))
        => last.route.file # Absent

(* What a CGI program is told: the name of the script and the path behind  *)
(* it make up the path of the request, the name alone leads to the script  *)
(* through the same location, and the path behind it starts with a slash.  *)
SplitFaithful ==
    last # NoRequest /\ last.status = Running =>
        LET route == last.route
        IN  /\ route.script \o route.info = Collapse(last.req.path)
            /\ route.info # Absent => Head(route.info) = Slash
            /\ MatchLocation(route.script, Servers[route.server].locations) = route.loc
            /\ ResolvePath(route.script, LastLocation) = last.file

(* An upload that was answered 201 is in its file, whole and without what  *)
(* the form adds to it, until a DELETE of that file is answered 204: no    *)
(* later upload takes its name.  In a form, the file is the first part.    *)
UploadsKept ==
    \A u \in uploads : u.file \in DOMAIN files /\ files[u.file] = u.sent

(* The Location header of a 201 leads back to the file, through the        *)
(* locations of the same server.                                           *)
LinksLead ==
    \A u \in uploads :
        Routed([host |-> u.host, path |-> u.link, method |-> "GET"]).file = u.file

(* When that is so, whatever is uploaded: the address that                 *)
(* deriveUriFromStore makes of a store leads to the store, and what is in  *)
(* the store is left to the same location, which runs no programs.  The    *)
(* root "/" is the exception again.                                        *)
HasStore(loc) ==
    loc.upload /\ loc.store # Absent /\ NormalizePath(Absolute(loc.store)) \in Dirs \ Locked

Addressed(locations, loc) ==
    LET uri == DeriveUriFromStore(loc.root, loc.store)
        l   == MatchLocation(Collapse(uri), locations)
    IN  /\ l # 0 /\ ~locations[l].hasReturn /\ ~locations[l].hasCgi
        /\ RealPath(locations[l].root) # Root
        /\ ResolvePath(Collapse(uri), locations[l]) = NormalizePath(Absolute(loc.store))
        /\ \A n \in 1..Len(UploadNames), ext \in Extensions :
              MatchLocation(Collapse(uri \o Root \o (UploadNames[n] \o ext)), locations) = l

StoresAddressed ==
    \A s \in DOMAIN Servers :
        \A loc \in ToSet(Servers[s].locations) :
            HasStore(loc) => Addressed(Servers[s].locations, loc)

(* A file whose removal was answered 204 does not come back.               *)
RemovedStayGone == removed \intersect DOMAIN files = {}

(* The files change only by a request whose method the location of the     *)
(* request allows, and only in the file of the answer.                     *)
OnlyAllowedChange ==
    [][files' # files =>
          /\ LastLocation'.methods = {} \/ last'.req.method \in LastLocation'.methods
          /\ \A f \in (DOMAIN files \union DOMAIN files') \ {last'.file} :
                f \in DOMAIN files /\ f \in DOMAIN files' /\ files'[f] = files[f]]_vars

(* README.md: "Applies method restrictions per location".                  *)
MethodsRestricted ==
    LastFound /\ last.status \in {Running, 200, 201, 204} =>
        LastLocation.methods = {} \/ last.req.method \in LastLocation.methods
=============================================================================
