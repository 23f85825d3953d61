--------------------------- MODULE ServerExchange ---------------------------
(***************************************************************************)
(* The event loop as an implementation of Exchange, for clients that send  *)
(* one request on a connection.                                            *)
(***************************************************************************)
EXTENDS ServerEngine

Phase(c) ==
    CASE c.st = "NONE"    -> "free"
      [] c.st = "READING" -> "reading"
      [] c.st = "WRITING" -> "writing"
      [] c.st \in {"CGI_WRITING", "CGI_READING"} -> "waiting"

Promise == INSTANCE Exchange WITH
    Slot <- FD,
    exchange <- [f \in FD |-> [phase |-> Phase(conn[f]), reply |-> conn[f].resp,
                               left |-> conn[f].left,
                               gone |-> sock[f].peer \in {"fin", "reset"}]],
    down <- pc = "stopped"

(* Every step of the loop, of a client, of a CGI program or of the clock   *)
(* is a step of the exchanges or leaves them alone: each request is        *)
(* answered at most once, by the right kind of reply, and a client that    *)
(* stays is never dropped while its CGI runs.                              *)
KeepsPromise == Promise!Spec
=============================================================================
