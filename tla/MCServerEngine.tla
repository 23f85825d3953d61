--------------------------- MODULE MCServerEngine ---------------------------
(***************************************************************************)
(* Small instances of the event loop.  A CGI needs a socket and, while     *)
(* launch() runs, four more descriptors: five numbers are one exchange     *)
(* with nothing to spare, six let a second client compete for them, eight  *)
(* let two programs run.                                                   *)
(***************************************************************************)
EXTENDS ServerExchange, TLC

FD5 == 3..7
FD6 == 3..8
FD8 == 3..10
TheListener == {2}

(* Processes are interchangeable: fork() may return any free pid.          *)
PidSymmetry == Permutations(Pid)
=============================================================================
