--------------------------- MODULE ConfiguredSite ----------------------------
(***************************************************************************)
(* The requests of RequestHandler answered by the servers that             *)
(* ConfigResolver makes of a configuration, as Connection and main.cpp put *)
(* them together: what an answer owes to what was written.                 *)
(***************************************************************************)
EXTENDS RequestHandler, ConfigAsWritten

CONSTANT
    Ast    \* the tree of a configuration, all of whose servers share a socket

ASSUME AstAssumption == Ast \in Trees(STRING)
(* setDefaults: literals, of which the provers are not told that they are  *)
(* texts.                                                                  *)
ASSUME DefaultsAssumption == DefaultRoot \in Seq(STRING) /\ DefaultIndex \in Seq(Words(STRING))
ASSUME ServersAreResolved ==
    Validate(Ast) /\ Servers = [i \in DOMAIN Ast |-> BuildServer(Ast[i])]

-----------------------------------------------------------------------------
(* The locations written for the path of the one that answered.            *)
Candidates == {l \in ToSet(Ast[last.route.server].locations) : l.path = LastLocation.path}

IsError == LastFound /\ last.status >= 400

PageAsWritten(location) ==
    LET page == WrittenPage(last.status, Ast[last.route.server], location)
    IN  last.page = IF Opens(page, DOMAIN files) THEN NormalizePath(Absolute(page)) ELSE Absent

(* An error is answered with the page that its location, or else its       *)
(* server, names for it below its root, whenever that file opens, and with *)
(* no other one.  The exception: a location whose error_page comes before  *)
(* its root directive, or that has none.                                   *)
PagesKept ==
    IsError => \E l \in Candidates : RootFirst(l.directives) => PageAsWritten(l)

(* README.md: "Custom error pages per server block", "Serves custom error  *)
(* pages when configured": the same, without the exception.                *)
PagesAsConfigured ==
    IsError => \E l \in Candidates : PageAsWritten(l)
=============================================================================
