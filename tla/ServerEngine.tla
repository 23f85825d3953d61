---------------------------- MODULE ServerEngine ----------------------------
(***************************************************************************)
(* The event loop (src/src/network/ServerEngine.cpp): one thread that      *)
(* polls, takes a snapshot of the ready descriptors, handles them one by   *)
(* one and then looks for timeouts.  Clients and CGI programs go on        *)
(* between any two calls of handlePollEvent; inside one, they are seen     *)
(* through the system calls that Connection.tla describes.                 *)
(***************************************************************************)
EXTENDS Connection

CONSTANTS
    Pipelines,   \* clients may send data after the end of their request
    Signals,     \* the server may be interrupted
    MaxClients   \* bound: clients at a time, accepted or waiting

ASSUME EngineAssumption ==
    /\ Pipelines \in BOOLEAN /\ Signals \in BOOLEAN /\ MaxClients \in Nat

VARIABLES
    cgiToSocket,  \* _cgiToSocket, NoFd where it has no entry
    pollfds,      \* _pollfds
    ready,        \* ready_fds, the entries still to be handled
    pc            \* where the thread is

engineVars == <<conn, cgiToSocket, pollfds, ready, pc>>
vars == <<kernelVars, engineVars>>

Live == {f \in FD : conn[f].st # "NONE"}

-----------------------------------------------------------------------------
(* _pollfds is a vector; only its order matters, and the order is this:    *)
(* rebuildPollfds writes the self-pipe, the listeners and then, by socket  *)
(* number, each connection's socket, stdin and stdout; acceptConnection    *)
(* appends ("late").  A later append has the higher number: between two    *)
(* rebuilds descriptors are only allocated, lowest first.                  *)
Descriptor == FD \union Listener \union {SignalPipe}
PollEntry  == [fd : Descriptor, of : Descriptor, rank : 0..2, late : BOOLEAN,
               events : SUBSET {"IN", "OUT"}]
ReadyEntry == [fd : Descriptor, of : Descriptor, rank : 0..2, late : BOOLEAN,
               revents : SUBSET {"IN", "OUT", "HUP"}]

BeforePipesLast(d, e) ==    \* mutant: all sockets first, then all pipes
    \/ d.rank < e.rank
    \/ d.rank = e.rank /\ ~d.late /\ e.late
    \/ d.rank = e.rank /\ d.late = e.late /\ d.of < e.of

Before(d, e) ==
    \/ ~d.late /\ e.late
    \/ d.late = e.late /\ d.of < e.of
    \/ d.late = e.late /\ d.of = e.of /\ d.rank < e.rank

Entry(fd, of, rank, events) ==
    [fd |-> fd, of |-> of, rank |-> rank, late |-> FALSE, events |-> events]

(* The entries a connection table c calls for: ServerEngine::rebuildPollfds *)
Watched(c) ==
    { Entry(d, d, 0, {"IN"}) : d \in Listener \union {SignalPipe} }
    \union { Entry(f, f, 0, IF WantsWrite(c[f]) THEN {"IN", "OUT"} ELSE {"IN"}) :
             f \in {g \in FD : c[g].st # "NONE"} }
    \union { Entry(c[f].cgi.in, f, 1, {"OUT"}) :
             f \in {g \in FD : HasCgi(c[g]) /\ c[g].cgi.in # NoFd} }
    \union { Entry(c[f].cgi.out, f, 2, {"IN"}) :
             f \in {g \in FD : HasCgi(c[g]) /\ c[g].cgi.out # NoFd} }

(* _cgiToSocket.erase for each descriptor of ds; -1 has no entry.          *)
Erase(map, ds) == [d \in FD |-> IF d \in ds THEN NoFd ELSE map[d]]

(* The conn, sock, child and open of a world become those of connection f. *)
Commit(f, w) ==
    /\ conn'  = [conn EXCEPT ![f] = w.c]
    /\ sock'  = [sock EXCEPT ![f] = w.s]
    /\ child' = w.child
    /\ open'  = w.open

-----------------------------------------------------------------------------
TypeOK ==
    /\ KernelTypeOK
    /\ conn \in [FD -> Connections]
    /\ cgiToSocket \in [FD -> FD \union {NoFd}]
    /\ pollfds \subseteq PollEntry
    /\ ready \subseteq ReadyEntry
    /\ pc \in {"poll", "dispatch", "stopped"}

Init ==
    /\ KernelInit
    /\ conn = [f \in FD |-> NoConnection]
    /\ cgiToSocket = [f \in FD |-> NoFd]
    /\ pollfds = Watched(conn)
    /\ ready = {}
    /\ pc = "poll"

-----------------------------------------------------------------------------
(* poll() and the snapshot.  A closed descriptor reports POLLNVAL; a pipe  *)
(* that is watched belongs to the connection its entry names.              *)
Revents(e) ==
    CASE e.fd = SignalPipe    -> IF signalled THEN {"IN"} ELSE {}
      [] e.fd \in Listener    -> IF backlog[e.fd] > 0 THEN {"IN"} ELSE {}
      [] e.fd \in FD \ open   -> {"HUP"}
      [] e.fd \in open /\ e.rank = 0 -> SocketReady(sock[e.fd], e.events)
      [] e.fd \in open /\ e.rank = 1 -> StdinReady(child[conn[e.of].cgi.pid])
      [] e.fd \in open /\ e.rank = 2 -> StdoutReady(child[conn[e.of].cgi.pid])

Snapshot ==
    { [fd |-> e.fd, of |-> e.of, rank |-> e.rank, late |-> e.late,
       revents |-> Revents(e)] : e \in {d \in pollfds : Revents(d) # {}} }

(* ServerEngine::eventLoop, one return of poll(): with nothing ready it is *)
(* the 500 ms tick.  EINTR only repeats the call.                          *)
Poll ==
    /\ pc = "poll"
    /\ ready' = Snapshot
    /\ pc' = "dispatch"
    /\ UNCHANGED <<kernelVars, conn, cgiToSocket, pollfds>>

(* The entry of the snapshot whose turn it is.                             *)
Turn(e) ==
    /\ pc = "dispatch"
    /\ e \in ready
    /\ \A d \in ready \ {e} : Before(e, d)

Handled(e) ==
    /\ ready' = ready \ {e}
    /\ UNCHANGED <<backlog, signalled, pc>>

-----------------------------------------------------------------------------
(* handlePollEvent, part 1: a descriptor that _cgiToSocket knows.  The pipe *)
(* is read or written; a stdin that this has closed loses its entry; at the *)
(* end of the output, or at any HUP, closeCgi ends the exchange with the    *)
(* process.                                                                 *)
CgiHandlers(e, w) ==
    LET read == IF e.fd = w.c.cgi.out /\ e.revents \intersect {"IN", "HUP"} # {}
                THEN OnCgiReadable(w) ELSE {w}
    IN  IF e.fd = w.c.cgi.in /\ "OUT" \in e.revents
        THEN UNION {OnCgiWritable(v) : v \in read} ELSE read

CloseCgi(e, w) == HasCgi(w.c) /\ (w.c.cgi.done \/ "HUP" \in e.revents)

CgiHandledKeepsEntry(e, f) ==    \* mutant: the entry of a closed stdin stays
    \E w \in CgiHandlers(e, World(f)) :
        /\ Commit(f, IF CloseCgi(e, w) THEN FinalizeCgi(w) ELSE w)
        /\ cgiToSocket' = IF CloseCgi(e, w)
                          THEN Erase(cgiToSocket, {w.c.cgi.in, w.c.cgi.out})
                          ELSE cgiToSocket
        /\ pollfds' = Watched(conn')

CgiHandled(e, f) ==
    LET in == conn[f].cgi.in
    IN  /\ \E w \in CgiHandlers(e, World(f)) :
             /\ Commit(f, IF CloseCgi(e, w) THEN FinalizeCgi(w) ELSE w)
             /\ cgiToSocket' =
                   Erase(cgiToSocket,
                         (IF w.c.cgi.in = NoFd THEN {in} ELSE {})
                         \union (IF CloseCgi(e, w) THEN {w.c.cgi.in, w.c.cgi.out} ELSE {}))
        /\ pollfds' = Watched(conn')

(* The entry of a connection that is gone would only be dropped; as        *)
(* CgiRegistered says, no event meets one.                                 *)
CgiEvent(e) ==
    /\ Turn(e) /\ Handled(e)
    /\ e.fd \in FD /\ cgiToSocket[e.fd] # NoFd
    /\ IF cgiToSocket[e.fd] \in Live
       THEN CgiHandled(e, cgiToSocket[e.fd])
       ELSE /\ cgiToSocket' = Erase(cgiToSocket, {e.fd})
            /\ UNCHANGED <<conn, sock, child, open, pollfds>>

(* ServerEngine::closeConnection, also called with a descriptor that is no *)
(* connection.  The process of a CGI is neither killed nor waited for.     *)
ClosedWithoutPipes(f, w) ==    \* mutant: the pipes of the CGI are forgotten
    [c |-> NoConnection, s |-> NoSocket, child |-> w.child, open |-> w.open \ {f}]

Closed(f, w) ==
    [c |-> NoConnection, s |-> NoSocket,
     child |-> IF HasCgi(w.c)
               THEN [w.child EXCEPT ![w.c.cgi.pid] = Abandoned(@)] ELSE w.child,
     open |-> w.open \ {f, w.c.cgi.in, w.c.cgi.out}]

CloseConnectionStillWatched(f, w) ==    \* mutant: no rebuildPollfds
    /\ Commit(f, Closed(f, w))
    /\ cgiToSocket' = Erase(cgiToSocket, {w.c.cgi.in, w.c.cgi.out})
    /\ UNCHANGED pollfds

CloseConnectionStillMapped(f, w) ==     \* mutant: no unregisterCgi
    /\ Commit(f, Closed(f, w))
    /\ pollfds' = Watched(conn')
    /\ UNCHANGED cgiToSocket

CloseConnection(f, w) ==
    /\ Commit(f, Closed(f, w))
    /\ cgiToSocket' = Erase(cgiToSocket, {w.c.cgi.in, w.c.cgi.out})
    /\ pollfds' = Watched(conn')

(* handlePollEvent, part 2: a socket.                                      *)
SocketTurn(e) ==
    /\ Turn(e) /\ Handled(e)
    /\ e.fd \in FD /\ cgiToSocket[e.fd] = NoFd

HangUp(e) ==
    /\ SocketTurn(e)
    /\ "HUP" \in e.revents
    /\ CloseConnection(e.fd, World(e.fd))

(* A number that is neither a connection nor a listener: acceptConnection  *)
(* finds no key for it.                                                    *)
UnknownEvent(e) ==
    /\ SocketTurn(e)
    /\ "HUP" \notin e.revents /\ e.fd \notin Live
    /\ UNCHANGED <<conn, sock, child, open, cgiToSocket, pollfds>>

SocketEvent(e) ==
    /\ SocketTurn(e)
    /\ "HUP" \notin e.revents /\ e.fd \in Live
    /\ \E w \in IF "IN" \in e.revents THEN OnReadable(World(e.fd)) ELSE {World(e.fd)} :
         IF HasCgi(w.c) /\ cgiToSocket[w.c.cgi.out] = NoFd
         THEN (* registerCgi *)
              /\ Commit(e.fd, w)
              /\ cgiToSocket' = [d \in FD |-> IF d \in {w.c.cgi.in, w.c.cgi.out}
                                              THEN e.fd ELSE cgiToSocket[d]]
              /\ pollfds' = Watched(conn')
         ELSE \E v \in IF "OUT" \in e.revents /\ WantsWrite(w.c)
                       THEN OnWritable(w) ELSE {w} :
                IF IsClosed(v.c)
                THEN CloseConnection(e.fd, v)
                ELSE /\ Commit(e.fd, v)
                     /\ pollfds' = IF WantsWrite(v.c) THEN Watched(conn') ELSE pollfds
                     /\ UNCHANGED cgiToSocket

(* ServerEngine::acceptConnection takes connections until accept() fails:  *)
(* the queue is empty, or no descriptor is free and the rest must wait.    *)
Accept(e) ==
    /\ Turn(e)
    /\ e.fd \in Listener
    /\ LET free == FD \ open
           new == Lowest(free, backlog[e.fd])
       IN  /\ open' = open \union new
           /\ backlog' = [backlog EXCEPT ![e.fd] = @ - Cardinality(new)]
           /\ sock' = [f \in FD |-> IF f \in new THEN FreshSocket ELSE sock[f]]
           /\ conn' = [f \in FD |-> IF f \in new THEN NewConnection ELSE conn[f]]
           /\ pollfds' = pollfds \union
                 { [Entry(f, f, 0, {"IN"}) EXCEPT !.late = TRUE] : f \in new }
    /\ ready' = ready \ {e}
    /\ UNCHANGED <<child, signalled, cgiToSocket, pc>>

-----------------------------------------------------------------------------
(* ServerEngine::checkTimeouts, after the last entry of the snapshot.      *)
LateCgiOffByOne == {f \in Live : HasCgi(conn[f]) /\ conn[f].age > CgiTimeout}    \* mutant
LateCgi == {f \in Live : HasCgi(conn[f]) /\ conn[f].age >= CgiTimeout}
IdlersWriting == {f \in Live : ~HasCgi(conn[f]) /\ conn[f].idle >= IdleTimeout}   \* mutant
IdlersWaiting == {f \in Live : ~WantsWrite(conn[f]) /\ conn[f].idle >= IdleTimeout}  \* mutant
IdlersOffByOne == {f \in Live : /\ ~HasCgi(conn[f]) /\ ~WantsWrite(conn[f])           \* mutant
                                /\ conn[f].idle > IdleTimeout}
Idlers  == {f \in Live : /\ ~HasCgi(conn[f]) /\ ~WantsWrite(conn[f])
                         /\ conn[f].idle >= IdleTimeout}

CheckTimeouts ==
    /\ pc = "dispatch" /\ ready = {}
    /\ pc' = "poll"
    /\ LET pipes == UNION {{conn[f].cgi.in, conn[f].cgi.out} : f \in LateCgi}
       IN  /\ open' = open \ (pipes \union Idlers)
           /\ cgiToSocket' = Erase(cgiToSocket, pipes)
    /\ child' = [p \in Pid |-> IF \E f \in LateCgi : conn[f].cgi.pid = p
                               THEN NoProcess ELSE child[p]]
    /\ conn' = [f \in FD |-> IF f \in LateCgi THEN HandleCgiTimeout(World(f)).c
                             ELSE IF f \in Idlers THEN NoConnection ELSE conn[f]]
    /\ sock' = [f \in FD |-> IF f \in Idlers THEN NoSocket ELSE sock[f]]
    /\ pollfds' = IF LateCgi \union Idlers # {} THEN Watched(conn') ELSE pollfds
    /\ UNCHANGED <<backlog, signalled, ready>>

(* The byte of the signal handler ends eventLoop at once; then cleanup.    *)
Shutdown(e) ==
    /\ Turn(e)
    /\ e.fd = SignalPipe
    /\ LET withCgi == {f \in Live : HasCgi(conn[f])}
       IN  /\ child' = [p \in Pid |-> IF \E f \in withCgi : conn[f].cgi.pid = p
                                      THEN NoProcess ELSE child[p]]
           /\ open' = open \ (Live \union
                 UNION {{conn[f].cgi.in, conn[f].cgi.out} : f \in withCgi})
    /\ conn' = [f \in FD |-> NoConnection]
    /\ sock' = [f \in FD |-> NoSocket]
    /\ pollfds' = {}
    /\ ready' = {}
    /\ pc' = "stopped"
    /\ UNCHANGED <<backlog, signalled, cgiToSocket>>

-----------------------------------------------------------------------------
(* What goes on outside the thread.  A client that is not pipelining sends *)
(* nothing after its request; the pipes of a process matter while some     *)
(* connection refers to them.  Time passes while the thread is in poll():  *)
(* everything else it does takes much less than a tick.                    *)
Served(p) == \E f \in FD : conn[f].cgi.pid = p

Tick ==
    /\ pc = "poll"
    /\ conn' = [f \in FD |->
          IF f \notin Live THEN conn[f] ELSE
          [conn[f] EXCEPT !.idle = IF @ < IdleTimeout THEN @ + 1 ELSE @,
                          !.age = IF HasCgi(conn[f]) /\ @ < CgiTimeout THEN @ + 1 ELSE @]]
    /\ UNCHANGED <<kernelVars, cgiToSocket, pollfds, ready, pc>>

Arrival(l) ==
    /\ pc # "stopped"
    /\ Cardinality(Live) + backlog[l] < MaxClients
    /\ Connect(l)

Client(f) ==
    \/ (Pipelines \/ conn[f].req = "partial") /\ ClientSend(f)
    \/ ClientFin(f)
    \/ ClientReset(f)
    \/ ClientDrain(f)

Program(p) ==
    \/ Served(p) /\ (ChildWrite(p) \/ ChildRead(p) \/ ChildCloseIn(p) \/ ChildCloseOut(p))
    \/ ChildEnd(p)

Outside ==
    /\ \/ \E l \in Listener : Arrival(l)
       \/ \E f \in FD : Client(f)
       \/ \E p \in Pid : Program(p)
       \/ Signals /\ pc # "stopped" /\ Signal
    /\ UNCHANGED engineVars

Handle(e) == CgiEvent(e) \/ HangUp(e) \/ UnknownEvent(e)
             \/ SocketEvent(e) \/ Accept(e) \/ Shutdown(e)

Loop == Poll \/ (\E e \in ready : Handle(e)) \/ CheckTimeouts

Next == Loop \/ Tick \/ Outside

Spec == Init /\ [][Next]_vars

(* The thread is scheduled and the clock runs; poll() wakes at the latest  *)
(* after POLL_TICK_MS, so the loop never waits for a client or a process.  *)
(* Tick is only possible inside poll(), hence strong fairness.             *)
Fairness == WF_vars(Loop) /\ SF_vars(Tick)

FairSpec == Spec /\ Fairness

-----------------------------------------------------------------------------
(* The descriptor that a live connection f holds in a role.                *)
Role == {"socket", "in", "out"}
Held(f, role) ==
    CASE role = "socket" -> f
      [] role = "in"     -> conn[f].cgi.in
      [] role = "out"    -> conn[f].cgi.out

(* Every descriptor a connection holds, as its socket or as a pipe of its  *)
(* CGI, is open and held by that connection in that role alone: no handler *)
(* closes, after a sequence of accepts, launches, hang-ups and timeouts, a *)
(* number that meanwhile belongs to somebody else.                         *)
DescriptorOwnership ==
    \A f, g \in Live : \A r, s \in Role :
        Held(f, r) # NoFd =>
            /\ Held(f, r) \in open
            /\ Held(f, r) = Held(g, s) => f = g /\ r = s

(* With clients that send one request, no path through launch, closeCgi,   *)
(* closeConnection, timeout and cleanup leaves a descriptor behind.        *)
NoDescriptorLeak ==
    open \subseteq {Held(f, r) : f \in Live, r \in Role}

(* The process of a CGI is there to be waited for until its own connection *)
(* waits for it, so kill() and waitpid() never hit a pid that the kernel   *)
(* has given to another process.                                           *)
PidOwnership ==
    \A f \in FD : HasCgi(conn[f]) =>
        /\ child[conn[f].cgi.pid].run # "none"
        /\ \A g \in FD \ {f} : conn[g].cgi.pid # conn[f].cgi.pid

(* _state and _cgi agree, whatever mixture of pipe events, relaunches and  *)
(* timeouts led here: a CGI state has a process and a stdout to wait for,  *)
(* CGI_WRITING a stdin too, and no other state keeps anything of a CGI.    *)
StateMatchesCgi ==
    \A f \in FD : LET c == conn[f] IN
        /\ c.st \in {"CGI_READING", "CGI_WRITING"} <=> HasCgi(c)
        /\ HasCgi(c) => c.cgi.out # NoFd
        /\ c.st = "CGI_WRITING" <=> c.cgi.in # NoFd
        /\ ~HasCgi(c) => c.cgi = NoCgi
        /\ c.st \in {"NONE", "READING"} => c.req = "partial" /\ c.resp = "none"
        /\ c.st = "WRITING" => c.left > 0

(* The pipes of a running CGI are in _cgiToSocket under their connection,  *)
(* so that an event on them is never taken for one on a client socket; and *)
(* the table names no closed descriptor, which would take the events of    *)
(* the next client that gets the number.  Nor does an event meet the entry *)
(* of a connection that is gone.                                           *)
CgiRegistered ==
    /\ \A f \in FD : HasCgi(conn[f]) =>
          \A d \in {conn[f].cgi.in, conn[f].cgi.out} \ {NoFd} : cgiToSocket[d] = f
    /\ pc # "stopped" => \A d \in FD \ open : cgiToSocket[d] = NoFd
    /\ \A e \in ready : e.fd \in FD => cgiToSocket[e.fd] \in Live \union {NoFd}

(* No wake-up is lost: each path that changes what a connection waits for  *)
(* rebuilds _pollfds before the next poll(), and accept() appends what a   *)
(* rebuild would have written.                                             *)
PollSetCurrent ==
    pc = "poll" => {[e EXCEPT !.late = FALSE] : e \in pollfds} = Watched(conn)

(* The snapshot outlives the descriptors in it: a handler may close one    *)
(* whose entry is still to come.  Its number is not handed out again until *)
(* the entry is gone, so a late event never reaches a new connection.      *)
NoReuseWhilePending ==
    [][\A e \in ready \intersect ready' :
          e.fd \in FD \ open => e.fd \notin open']_vars

(* With clients that send one request, a response that is being sent is    *)
(* never replaced or rewound: a late CGI, a timeout or another event on    *)
(* the connection leaves it alone.                                         *)
ResponseKept ==
    [][\A f \in FD : conn[f].st = "WRITING" /\ conn'[f].st # "NONE" =>
          /\ conn'[f].st = "WRITING"
          /\ conn'[f].resp = conn[f].resp
          /\ conn'[f].left <= conn[f].left]_vars

(* A 504 is never built, and a process never killed, before the CGI has    *)
(* had CGI_TIMEOUT_SEC; and past it no iteration ends with the CGI alive,  *)
(* however fast its output or its client's data keeps coming.              *)
CgiDeadline ==
    [][\A f \in FD :
          /\ conn'[f].resp = "timeout" /\ conn[f].resp # "timeout" =>
                conn[f].age = CgiTimeout
          /\ pc = "dispatch" /\ pc' = "poll" /\ HasCgi(conn'[f]) =>
                conn'[f].age < CgiTimeout]_vars

(* A client that is being served is not taken for an idle one: checkTimeouts *)
(* closes nothing that waits for a CGI or is being sent a response, and    *)
(* the rest only after CONN_IDLE_TIMEOUT_SEC of silence.                   *)
OnlyIdleClosed ==
    [][\A f \in Live : pc = "dispatch" /\ pc' = "poll" /\ conn'[f].st = "NONE" =>
          conn[f].st = "READING" /\ conn[f].idle = IdleTimeout]_vars

(* A CGI ends, by itself or by its timeout, whatever the program does.     *)
CgiEnds ==
    \A f \in FD : \A p \in Pid : conn[f].cgi.pid = p ~> conn[f].cgi.pid # p

(* A client that stops in the middle of its request, silently or not, is   *)
(* answered or closed.                                                     *)
ReaderLeaves ==
    \A f \in FD : conn[f].st = "READING" ~> conn[f].st # "READING"

-----------------------------------------------------------------------------
(* What the documentation says and the code does not do.                   *)

(* "On completion: CGI output is parsed into an HTTP response and sent to  *)
(* the client": the output that becomes a response is all that the program *)
(* writes.  closeCgi runs at the first HUP on either pipe, after one read. *)
CompleteOutput == \A f \in FD : conn[f].resp # "truncated"

(* "Cleaning up all file descriptors and child processes on exit".         *)
ChildrenCleaned ==
    pc = "stopped" => \A p \in Pid : child[p].run = "none"

(* "Enforcing CGI and idle connection timeouts": no connection stays idle  *)
(* past its timeout for ever.                                              *)
IdleEnds ==
    \A f \in FD : conn[f].idle = IdleTimeout ~> conn[f].idle < IdleTimeout
=============================================================================
