------------------------ MODULE ConfiguredSiteProofs -------------------------
(***************************************************************************)
(* Proof that an error is answered with the page that the configuration    *)
(* names for it.  ResolverProofs says which pages a location keeps         *)
(* (PagesBuilt), every handler takes the page of its status from its       *)
(* location (Paged), and both together are PagesKept.                      *)
(***************************************************************************)
EXTENDS ConfiguredSite, ResolverProofs, RequestHandlerProofs

-----------------------------------------------------------------------------
(* What SiteAssumption says of the servers is so for those of any accepted *)
(* tree.                                                                   *)
LEMMA BuiltLocations ==
    ASSUME NEW node \in ServersOver(STRING), ValidateServer(node)
    PROVE  HasLocations(BuildServer(node).locations)
<1> DEFINE locations == BuildServer(node).locations
<1>1. Spells(STRING)
  BY DefaultsAssumption, Zenon DEF Spells
<1>2. /\ \A l \in ToSet(locations) : LocationUsable(l) /\ LocationIn(STRING, l)
      /\ Len(locations) \in Nat /\ DOMAIN locations = 1..Len(locations)
  BY <1>1, TextsAssumption, ServerBuilt, Zenon
<1> HIDE DEF locations
<1>3. ASSUME NEW l \in DOMAIN locations PROVE IsLocation(locations[l])
  <2> DEFINE loc == locations[l]
  <2>1. LocationUsable(loc) /\ LocationIn(STRING, loc)
    BY <1>2 DEF ToSet
  <2> HIDE DEF loc
  <2>2. /\ loc.path \in Seq(STRING) /\ loc.path # <<>>
        /\ loc.root \in Seq(STRING) /\ loc.store \in Seq(STRING)
        /\ loc.index \in Seq(Words(STRING))
    BY <2>1, Zenon DEF LocationIn, Words
  <2>3. loc.hasReturn => loc.code \in 100..599
    BY <2>1, Zenon DEF LocationUsable
  <2>4. ~loc.hasReturn => loc.root # <<>> /\ loc.index # <<>>
    BY <2>1, Zenon DEF LocationUsable, Absent
  <2>5. loc.index # <<>> => Head(loc.index) \in Words(STRING)
    BY <2>2, HeadTailProperties
  <2>6. loc.index # <<>> => Head(loc.index) \in Seq(STRING) /\ Head(loc.index) # <<>>
    BY <2>5, Zenon DEF Words
  <2>7. IsLocation(loc)
    BY <2>2, <2>3, <2>4, <2>6, Zenon DEF IsLocation
  <2> QED
    BY <2>7, Zenon DEF loc
<1> QED
  BY <1>2, <1>3, Zenon DEF HasLocations, locations

(* For any configuration that the validator accepts and any socket of it:  *)
(* the servers that findServer gets for that socket are what the routing   *)
(* and the handlers take for granted, so that SiteAssumption asks for no   *)
(* more than ConfigValidator and ConfigResolver give.                      *)
THEOREM ResolvedSite ==
    ASSUME NEW tree \in Trees(STRING), Validate(tree), NEW junks,
           NEW key \in UNION {Keys(tree, i, junks) : i \in DOMAIN tree}
    PROVE  IsSite(Resolve(tree, junks)[key])
<1> DEFINE S == ServersOn(tree, junks, key)
           N == Cardinality(S)
           at(n) == CHOOSE i \in S : Cardinality({k \in S : k <= i}) = n
           X == {BuildServer(tree[at(n)]) : n \in 1..N}
           run == Resolve(tree, junks)[key]
<1>1. /\ \A n \in 1..N : \E i \in S : run[n] = BuildServer(tree[i])
      /\ IsFiniteSet(S)
  BY ResolvedIs
<1>2. run = [n \in 1..N |-> BuildServer(tree[at(n)])]
  BY DEF Resolve, ServersOn
<1>3. S # {} /\ S \subseteq DOMAIN tree
  BY DEF ServersOn
<1>4. \A i \in DOMAIN tree : tree[i] \in ServersOver(STRING) /\ ValidateServer(tree[i])
  <2>1. \A i \in DOMAIN tree : tree[i] \in ServersOver(STRING)
    BY DEF Trees
  <2> QED
    BY <2>1, Zenon DEF Validate
<1> HIDE DEF S
<1>5. N \in Nat /\ N # 0
  BY <1>1, <1>3, FS_CardinalityType, FS_EmptySet
<1> HIDE DEF N
<1>6. run \in [1..N -> X]
  BY <1>2
<1> HIDE DEF run, X, at
<1>7. run \in Seq(X) /\ Len(run) = N /\ DOMAIN run = 1..N
  BY <1>5, <1>6
<1>8. ASSUME NEW s \in DOMAIN run PROVE HasLocations(run[s].locations)
  <2>1. PICK i \in S : run[s] = BuildServer(tree[i])
    BY <1>1, <1>7
  <2>2. HasLocations(BuildServer(tree[i]).locations)
    BY <1>3, <1>4, <2>1, BuiltLocations
  <2> QED
    BY <2>1, <2>2, Zenon
<1>9. Len(run) \in Nat \ {0} /\ DOMAIN run = 1..Len(run)
  BY <1>5, <1>7
<1> QED
  BY <1>8, <1>9, Zenon DEF IsSite, HasLocations, run

-----------------------------------------------------------------------------
(* Every location of a server has a block of that server whose pages it    *)
(* keeps.                                                                  *)
LEMMA SitePages ==
    ASSUME NEW s \in DOMAIN Servers, NEW l \in DOMAIN Servers[s].locations
    PROVE  \E m \in ToSet(Ast[s].locations) : PagesBuilt(Servers[s].locations[l], Ast[s], m)
<1>1. s \in DOMAIN Ast /\ Servers[s] = BuildServer(Ast[s])
  BY ServersAreResolved
<1>2. Ast[s] \in ServersOver(STRING)
  BY <1>1, AstAssumption DEF Trees
<1>3. ValidateServer(Ast[s])
  BY <1>1, ServersAreResolved, Zenon DEF Validate
<1>4. \A k \in ToSet(BuildServer(Ast[s]).locations) :
         \E m \in ToSet(Ast[s].locations) : PagesBuilt(k, Ast[s], m)
  BY <1>2, <1>3, TextsAssumption, ServerBuilt, Zenon
<1>5. Servers[s].locations[l] \in ToSet(BuildServer(Ast[s]).locations)
  BY <1>1, Zenon DEF ToSet
<1> QED
  BY <1>4, <1>5, Zenon

-----------------------------------------------------------------------------
(* An answer has no page when it is none of an error, or a redirection,    *)
(* and otherwise the page that its location has among the files there are  *)
(* then.                                                                   *)
NoError == {Running, 200, 201, 204}

Paged(r, route) ==
    \E file, status :
        \/ FailedAmong(DOMAIN files', r, route, file, status)
        \/ /\ Answered(r, route, file, status)
           /\ status \in NoError \/ Location(route).hasReturn

LEMMA FailedPaged ==
    ASSUME NEW r, NEW route, NEW file, NEW status,
           Failed(r, route, file, status), UNCHANGED files
    PROVE  Paged(r, route)
BY Zenon DEF Failed, Paged

LEMMA AnsweredPaged ==
    ASSUME NEW r, NEW route, NEW file, NEW status \in NoError, Answered(r, route, file, status)
    PROVE  Paged(r, route)
BY Zenon DEF Paged

LEMMA EveryPaged ==
    ASSUME NEW r, NEW route,
           \/ Unresolved(r, route) \/ RunCgi(r, route) \/ Redirect(r, route)
           \/ Refuse(r, route) \/ Get(r, route) \/ RefuseUpload(r, route)
           \/ Delete(r, route) \/ Upload(r, route)
    PROVE  Paged(r, route)
<1>1. Running \in NoError /\ 200 \in NoError /\ 201 \in NoError /\ 204 \in NoError
  BY DEF NoError
<1>2. CASE Unresolved(r, route)
  <2>1. (\E status : Failed(r, route, Absent, status)) /\ UNCHANGED files
    BY <1>2, Zenon DEF Unresolved, Unchanged
  <2> QED
    BY <2>1, FailedPaged, Zenon
<1>3. CASE RunCgi(r, route)
  <2>1. UNCHANGED files /\ Launch(r, route)
    BY <1>3, Zenon DEF RunCgi, Unchanged
  <2>2. \/ \E status : Failed(r, route, route.file, status)
        \/ Answered(r, route, route.file, Running)
    BY <2>1, Zenon DEF Launch
  <2> QED
    BY <1>1, <2>1, <2>2, FailedPaged, AnsweredPaged, Zenon
<1>4. CASE Redirect(r, route)
  BY <1>4, Zenon DEF Redirect, Paged
<1>5. CASE Refuse(r, route)
  <2>1. (\E status : Failed(r, route, Absent, status)) /\ UNCHANGED files
    BY <1>5, Zenon DEF Refuse, Unchanged
  <2> QED
    BY <2>1, FailedPaged, Zenon
<1>6. CASE Get(r, route)
  <2>1. UNCHANGED files
    BY <1>6, Zenon DEF Get, Unchanged
  <2>2. ASSUME NEW file, ServeFile(r, route, file) PROVE Paged(r, route)
    <3>1. (\E status : Failed(r, route, file, status)) \/ Answered(r, route, file, 200)
      BY <2>2, Zenon DEF ServeFile
    <3> QED
      BY <1>1, <2>1, <3>1, FailedPaged, AnsweredPaged, Zenon
  <2>3. ASSUME NEW dir, ServeDirectory(r, route, dir) PROVE Paged(r, route)
    <3>1. \/ \E status : Failed(r, route, dir, status)
          \/ Answered(r, route, dir, 200)
          \/ \E file : ServeFile(r, route, file)
      BY <2>3, Zenon DEF ServeDirectory
    <3> QED
      BY <1>1, <2>1, <2>2, <3>1, FailedPaged, AnsweredPaged, Zenon
  <2>4. \/ \E dir : ServeDirectory(r, route, dir)
        \/ \E file : ServeFile(r, route, file)
        \/ \E file, status : Failed(r, route, file, status)
    BY <1>6, Zenon DEF Get
  <2> QED
    BY <2>1, <2>2, <2>3, <2>4, FailedPaged, Zenon
<1>7. CASE RefuseUpload(r, route)
  <2>1. (\E status : Failed(r, route, Absent, status)) /\ UNCHANGED files
    BY <1>7, Zenon DEF RefuseUpload, Unchanged
  <2> QED
    BY <2>1, FailedPaged, Zenon
<1>8. CASE Delete(r, route)
  <2>1. \/ (\E status : Failed(r, route, route.file, status)) /\ UNCHANGED files
        \/ Answered(r, route, route.file, 204)
    BY <1>8, Zenon DEF Delete
  <2> QED
    BY <1>1, <2>1, FailedPaged, AnsweredPaged, Zenon
<1>9. CASE Upload(r, route)
  <2> DEFINE file == StoredAt(Location(route).store, counter + 1,
                              Received(r.type, r.delimiter, r.body).ext)
  <2>1. \/ Failed(r, route, file, 500) /\ UNCHANGED files
        \/ FailedAmong(DOMAIN files', r, route, file, 500)
        \/ Answered(r, route, file, 201)
    BY <1>9, Zenon DEF Upload, Store
  <2> HIDE DEF file
  <2>2. FailedAmong(DOMAIN files', r, route, file, 500) => Paged(r, route)
    BY Zenon DEF Paged
  <2> QED
    BY <1>1, <2>1, <2>2, FailedPaged, AnsweredPaged, Zenon
<1> QED
  BY <1>2, <1>3, <1>4, <1>5, <1>6, <1>7, <1>8, <1>9, Zenon

-----------------------------------------------------------------------------
(* The route of the last answer is one of the site, and its page the one   *)
(* of its location.                                                        *)
OnSite ==
    last # NoRequest /\ last.route.loc # 0 =>
        /\ last.route.server \in DOMAIN Servers
        /\ last.route.loc \in DOMAIN Servers[last.route.server].locations

PageOfLocation ==
    IsError => last.page = ErrorPage(last.status, last.route, DOMAIN files)

PInv == RInv /\ OnSite /\ PageOfLocation

LEMMA PagedStep ==
    ASSUME NEW r, NEW route, Paged(r, route)
    PROVE  PageOfLocation'
<1>1. PICK file, status :
        \/ FailedAmong(DOMAIN files', r, route, file, status)
        \/ /\ Answered(r, route, file, status)
           /\ status \in NoError \/ Location(route).hasReturn
  BY Zenon DEF Paged
<1>2. CASE FailedAmong(DOMAIN files', r, route, file, status)
  <2> DEFINE page == ErrorPage(status, route, DOMAIN files')
  <2>1. last' = [req |-> r, route |-> route, file |-> file, status |-> status, page |-> page]
    BY <1>2, Zenon DEF FailedAmong
  <2> HIDE DEF page
  <2>2. last'.page = page /\ last'.status = status /\ last'.route = route
    BY <2>1
  <2>3. ErrorPage(last.status, last.route, DOMAIN files)' = page
    BY <2>2, Zenon DEF ErrorPage, ResolvePathError, Opens, IsFile, Location, page
  <2> QED
    BY <2>2, <2>3, Zenon DEF PageOfLocation
<1>3. CASE /\ Answered(r, route, file, status)
           /\ status \in NoError \/ Location(route).hasReturn
  <2>1. last'.status = status /\ last'.route = route
    BY <1>3 DEF Answered
  <2>2. status \in NoError => ~(status >= 400)
    BY DEF NoError, Running
  <2>3. LastLocation' = Location(route)
    BY <2>1, Zenon DEF LastLocation, Location
  <2>4. ~IsError'
    BY <1>3, <2>1, <2>2, <2>3, Zenon DEF IsError, LastFound
  <2> QED
    BY <2>4, Zenon DEF PageOfLocation
<1> QED
  BY <1>1, <1>2, <1>3

LEMMA OnSiteStep ==
    ASSUME FInv, Next
    PROVE  OnSite'
<1>1. PICK r \in Requests \union Probes : Answering(r)
  BY EveryLast, Zenon
<1>2. Routed(r).server \in DOMAIN Servers
  BY RouteIs, Zenon
<1>3. Routed(r).loc # 0 => Routed(r).loc \in DOMAIN Servers[Routed(r).server].locations
  BY RoutedBest, Zenon DEF BestMatch
<1> QED
  BY <1>1, <1>2, <1>3, Zenon DEF Answering, OnSite

LEMMA InitiallyP == Init => PInv
<1> SUFFICES ASSUME Init PROVE PInv
  OBVIOUS
<1>1. last = NoRequest
  BY Zenon DEF Init
<1> QED
  BY <1>1, InitiallyR, Zenon DEF PInv, OnSite, PageOfLocation, IsError, LastFound

LEMMA StepKeepsP ==
    ASSUME PInv, [Next]_vars
    PROVE  PInv'
<1>1. RInv' /\ FInv
  BY StepKeepsR, Zenon DEF PInv, RInv
<1>2. CASE Next
  <2>1. PICK r, route : Paged(r, route)
    <3>1. PICK r :
             \/ Unresolved(r, Routed(r)) \/ RunCgi(r, Routed(r)) \/ Redirect(r, Routed(r))
             \/ Refuse(r, Routed(r)) \/ Get(r, Routed(r)) \/ RefuseUpload(r, Routed(r))
             \/ Delete(r, Routed(r)) \/ Upload(r, Routed(r))
      BY <1>2, Zenon DEF Next
    <3>2. Paged(r, Routed(r))
      BY <3>1, EveryPaged
    <3> QED
      BY <3>2
  <2>2. PageOfLocation'
    BY <2>1, PagedStep
  <2>3. OnSite'
    BY <1>1, <1>2, OnSiteStep
  <2> QED
    BY <1>1, <2>2, <2>3, Zenon DEF PInv
<1>3. CASE UNCHANGED vars
  <2>1. last' = last /\ files' = files
    BY <1>3, Zenon DEF vars
  <2>2. OnSite'
    BY <2>1, Zenon DEF PInv, OnSite
  <2>3. PageOfLocation'
    BY <2>1, Zenon DEF PInv, PageOfLocation, IsError, LastFound, LastLocation, Location,
       ErrorPage, ResolvePathError, Opens, IsFile
  <2> QED
    BY <1>1, <2>2, <2>3, Zenon DEF PInv
<1> QED
  BY <1>2, <1>3

-----------------------------------------------------------------------------
(* For any configuration whose servers the site has: what a location keeps *)
(* for a status is what was written for it.                                *)
LEMMA KeptIsWritten ==
    ASSUME OnSite, PageOfLocation, IsError
    PROVE  \E l \in Candidates : RootFirst(l.directives) => PageAsWritten(l)
<1> DEFINE s == last.route.server
           l == last.route.loc
           code == last.status
<1>1. s \in DOMAIN Servers /\ l \in DOMAIN Servers[s].locations /\ l # 0
  BY Zenon DEF OnSite, IsError, LastFound
<1>2. LastLocation = Servers[s].locations[l] /\ Location(last.route) = LastLocation
  BY Zenon DEF LastLocation, Location
<1>3. PICK m \in ToSet(Ast[s].locations) : PagesBuilt(LastLocation, Ast[s], m)
  BY <1>1, <1>2, SitePages
<1>4. m.path = LastLocation.path
  BY <1>3, Zenon DEF PagesBuilt
<1>5. m \in Candidates
  BY <1>4 DEF Candidates
<1>6. ASSUME RootFirst(m.directives) PROVE PageAsWritten(m)
  <2>1. (IF code \in DOMAIN LastLocation.pages THEN LastLocation.pages[code] ELSE Absent)
           = WrittenPage(code, Ast[s], m)
    BY <1>3, <1>6, Zenon DEF PagesBuilt
  <2>2. ResolvePathError(code, last.route) = WrittenPage(code, Ast[s], m)
    BY <1>1, <1>2, <2>1, Zenon DEF ResolvePathError
  <2>3. last.page = ErrorPage(code, last.route, DOMAIN files)
    BY Zenon DEF PageOfLocation
  <2> QED
    BY <2>2, <2>3, Zenon DEF PageAsWritten, ErrorPage
<1> QED
  BY <1>5, <1>6

(* PInv holds in every state.                                              *)
THEOREM PagesInvariant == Spec => []PInv
BY InitiallyP, StepKeepsP, PTL DEF Spec

(* For any accepted configuration, requests and files: an error is         *)
(* answered with the page that its location, or else its server, names for *)
(* it below its root, if that opens, and with no other one, unless the     *)
(* location has an error_page before its root or no root of its own        *)
(* (ConfigResolver.cpp, ErrorHandler::build).                              *)
THEOREM ErrorPagesKept == Spec => []PagesKept
<1>1. PInv => PagesKept
  BY KeptIsWritten, Zenon DEF PInv, PagesKept
<1> QED
  BY <1>1, PagesInvariant, PTL
=============================================================================
