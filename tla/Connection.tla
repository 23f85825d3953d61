----------------------------- MODULE Connection -----------------------------
(***************************************************************************)
(* The class Connection (src/src/network/Connection.cpp) and the launch of *)
(* a CGI program (CgiHandler::launch).  A member function runs inside one  *)
(* call of the event loop and several may run in the same call, so each is *)
(* an operator from a "world" - the connection, its socket, the processes  *)
(* and the open descriptors, as one caller sees them - to the set of the   *)
(* worlds it may return in.  The modules of the loop compose them.         *)
(***************************************************************************)
EXTENDS Kernel

CONSTANTS
    MaxInput,      \* bound: units of a request body that is piped to a CGI
    MaxResponse,   \* bound: units of a serialized response
    Verdicts,      \* bound: the verdicts of the parser that are explored
    IdleTimeout,   \* CONN_IDLE_TIMEOUT_SEC, in ticks of the clock
    CgiTimeout     \* CGI_TIMEOUT_SEC, in ticks of the clock

ASSUME ConnectionAssumption ==
    /\ MaxInput \in Nat \ {0} /\ MaxResponse \in Nat \ {0}
    /\ IdleTimeout \in Nat \ {0} /\ CgiTimeout \in Nat \ {0}

VARIABLE conn      \* conn[f]: _connections[f], or NoConnection

(* The part of CgiState that outlives launch().                            *)
Cgi == [pid : Pid \union {NoPid}, in : FD \union {NoFd}, out : FD \union {NoFd},
        input : 0..MaxInput, output : Nat, done : BOOLEAN]
NoCgi == [pid |-> NoPid, in |-> NoFd, out |-> NoFd, input |-> 0, output |-> 0,
          done |-> FALSE]

(* What the parser has made of the bytes so far, a verdict it never        *)
(* changes once it is not "partial": an error, or a request whose route is *)
(* answered by RequestHandler ("page", errors of the resolver included),   *)
(* by a CGI without a body to send or by a CGI with one.                   *)
Route   == {"page", "cgi", "cgiBody"}
Verdict == {"partial", "error"} \union Route

ASSUME VerdictAssumption == Verdicts \subseteq Verdict

(* What _response holds: the answer of RequestHandler, an error page, the  *)
(* 502 of a failed CGI, the 504 of a late one, or the CGI's output, called *)
(* "truncated" when something of it was still to be written or read.       *)
Reply == {"none", "page", "error", "badGateway", "timeout", "output", "truncated"}

(* st is _state.  PARSING lives only inside onReadable and HANDLING is     *)
(* never assigned; CLOSED never survives the call that sets it, but the    *)
(* caller tests it.  left is the length of _write_buffer.  idle and age    *)
(* are the time since _last_activity and since _cgi_start_time; past their *)
(* timeout they stop counting.                                             *)
Connections == [st : {"NONE", "READING", "WRITING", "CGI_WRITING", "CGI_READING"},
                req : Verdict, resp : Reply, left : 0..MaxResponse, cgi : Cgi,
                idle : 0..IdleTimeout, age : 0..CgiTimeout]
NoConnection  == [st |-> "NONE", req |-> "partial", resp |-> "none", left |-> 0,
                  cgi |-> NoCgi, idle |-> 0, age |-> 0]
NewConnection == [NoConnection EXCEPT !.st = "READING"]

HasCgi(c)     == c.cgi.pid # NoPid
WantsWrite(c) == c.st = "WRITING"
IsClosedIgnored(c) == FALSE    \* mutant: the test after onWritable is missing
IsClosed(c)   == c.st = "CLOSED"

World(f) == [c |-> conn[f], s |-> sock[f], child |-> child, open |-> open]

-----------------------------------------------------------------------------
(* _response = ...; _write_buffer = _response.serialize(); _state = WRITING *)
Respond(w, reply) ==
    [w EXCEPT !.c.st = "WRITING", !.c.resp = reply, !.c.left = MaxResponse]

MarkActivity(w) == [w EXCEPT !.c.idle = 0]

(* Closing a pipe end; close(-1) is never called.                          *)
CloseInKept(w) == [w EXCEPT !.open = @ \ {w.c.cgi.in}]    \* mutant: fd not set to -1
CloseIn(w) == [w EXCEPT !.open = @ \ {w.c.cgi.in}, !.c.cgi.in = NoFd]

(* The whole of _cgi is dead once its pid is -1 and both pipes are closed: *)
(* the next launch overwrites every field.                                 *)
ForgetCgiKeepsPipes(w, process) ==    \* mutant: the numbers of closed pipes stay
    [w EXCEPT !.open = @ \ {w.c.cgi.in, w.c.cgi.out},
              !.child[w.c.cgi.pid] = process,
              !.c.cgi.pid = NoPid, !.c.age = 0]
ForgetCgi(w, process) ==
    [w EXCEPT !.open = @ \ {w.c.cgi.in, w.c.cgi.out},
              !.child[w.c.cgi.pid] = process,
              !.c.cgi = NoCgi, !.c.age = 0]

(* CgiHandler::launch.  pipe() takes the two lowest numbers for the        *)
(* output, then the next two for the input; the parent keeps the first and *)
(* the last.  It fails with fewer than four free numbers, fork() without a *)
(* free pid, and the script's preconditions may fail at any time: every    *)
(* failure leaves nothing open and returns a state without a process.      *)
LaunchFailed(w) == Respond([w EXCEPT !.c.cgi = NoCgi], "error")

Launched(w, body, p, i, o) ==
    [w EXCEPT !.open = @ \union {o, i},
              !.child[p] = FreshProcess,
              !.c.st = "CGI_WRITING", !.c.age = 0,
              !.c.cgi = [pid |-> p, in |-> i, out |-> o, input |-> body,
                         output |-> 0, done |-> FALSE]]

LaunchSucceeded(w, body) ==
    { Launched(w, body, p, i, o) : p \in {q \in Pid : w.child[q].run = "none"},
                                   i \in Nth(FD \ w.open, 3), o \in Nth(FD \ w.open, 0) }

(* Connection::processRequest.  A CGI without input has its stdin closed   *)
(* before the loop knows of it.                                            *)
ProcessRequest(w) ==
    CASE w.c.req = "page"    -> {Respond(w, "page")}
      [] w.c.req = "cgiBody" -> {LaunchFailed(w)} \union LaunchSucceeded(w, MaxInput)
      [] w.c.req = "cgi"     ->
            {LaunchFailed(w)} \union
            { [CloseIn(x) EXCEPT !.c.st = "CGI_READING"] : x \in LaunchSucceeded(w, 0) }

(* Connection::onReadable, one recv().  The parser keeps a verdict: on a   *)
(* connection that has one already, whatever arrives handles the same      *)
(* request again.                                                          *)
Judge(w, verdict) ==
    CASE verdict = "partial" -> {[w EXCEPT !.c.st = "READING"]}
      [] verdict = "error"   -> {Respond([w EXCEPT !.c.req = verdict], "error")}
      [] verdict \in Route   -> ProcessRequest([w EXCEPT !.c.req = verdict])

OnReadableAnswersEof(w) ==    \* mutant: the end of the stream is a bad request
    IF ~w.s.rx
    THEN {Respond(w, "error")}
    ELSE UNION { Judge(MarkActivity([w EXCEPT !.s.rx = FALSE]), verdict) :
                 verdict \in IF w.c.req = "partial" THEN Verdicts ELSE {w.c.req} }

OnReadable(w) ==
    IF ~w.s.rx
    THEN {[w EXCEPT !.c.st = "CLOSED"]}
    ELSE UNION { Judge(MarkActivity([w EXCEPT !.s.rx = FALSE]), verdict) :
                 verdict \in IF w.c.req = "partial" THEN Verdicts ELSE {w.c.req} }

(* Connection::onWritable, one send().  A short count means that the send  *)
(* buffer is full.                                                         *)
OnWritable(w) ==
    IF w.c.left = 0 THEN {w}
    ELSE IF w.s.peer = "reset" \/ ~w.s.room THEN {[w EXCEPT !.c.st = "CLOSED"]}
    ELSE { MarkActivity([w EXCEPT !.c.left = @ - n,
                                  !.s.room = (n = w.c.left),
                                  !.c.st = IF n = w.c.left THEN "CLOSED" ELSE @]) :
           n \in 1..w.c.left }

(* Connection::onCgiWritable, one write() to the CGI's stdin.              *)
OnCgiWritableStays(w) ==    \* mutant: the state is not changed with the pipe
    LET ch == w.child[w.c.cgi.pid]
    IN  IF w.c.cgi.in = NoFd THEN {w}
        ELSE IF w.c.cgi.input = 0 \/ ~ch.reads \/ ch.full THEN {CloseIn(w)}
        ELSE {MarkActivity([w EXCEPT !.c.cgi.input = 0])}

OnCgiWritable(w) ==
    LET ch == w.child[w.c.cgi.pid]
    IN  IF w.c.cgi.in = NoFd THEN {w}
        ELSE IF w.c.cgi.input = 0 \/ ~ch.reads \/ ch.full
        THEN {[CloseIn(w) EXCEPT !.c.st = "CGI_READING"]}
        ELSE { MarkActivity([w EXCEPT !.c.cgi.input = @ - n,
                                      !.child[w.c.cgi.pid].full = (n < w.c.cgi.input)]) :
               n \in 1..w.c.cgi.input }

(* Connection::onCgiReadable, one read() from the CGI's stdout.  End of    *)
(* file and EAGAIN both end the output.                                    *)
OnCgiReadable(w) ==
    LET ch == w.child[w.c.cgi.pid]
    IN  IF w.c.cgi.out = NoFd THEN {w}
        ELSE IF ch.data = 0 THEN {[w EXCEPT !.c.cgi.done = TRUE]}
        ELSE { MarkActivity([w EXCEPT !.c.cgi.output = @ + n,
                                      !.child[w.c.cgi.pid].data = @ - n]) :
               n \in 1..ch.data }

(* Connection::finalizeCgi.  waitpid(WNOHANG) reaps only a zombie; for a   *)
(* process that still runs the status stays 0, an exit(0).  Whatever the   *)
(* exit code, the output is the response when there is any.                *)
FinalizeCgi(w) ==
    LET ch == w.child[w.c.cgi.pid]
        reply == IF ch.run = "killed" \/ w.c.cgi.output = 0 THEN "badGateway"
                 ELSE IF ch.data > 0 \/ ch.writes THEN "truncated" ELSE "output"
    IN  Respond(ForgetCgi(w, IF Zombie(ch) THEN NoProcess ELSE Abandoned(ch)), reply)

(* Connection::killCgi: SIGKILL, and a waitpid that waits for the death.   *)
KillCgiKeepsPid(w) ==    \* mutant: pid is not set to -1
    [w EXCEPT !.open = @ \ {w.c.cgi.in, w.c.cgi.out},
              !.child[w.c.cgi.pid] = NoProcess,
              !.c.cgi.in = NoFd, !.c.cgi.out = NoFd]
KillCgi(w) == ForgetCgi(w, NoProcess)

HandleCgiTimeout(w) == Respond(KillCgi(w), "timeout")
=============================================================================
