------------------------------- MODULE Kernel -------------------------------
(***************************************************************************)
(* What the operating system, the clients and the CGI programs do around   *)
(* the server.  Nothing here is code of the repository: each operator is   *)
(* the part of a system call, or of a peer's behaviour, that the server's  *)
(* code in src/src/network and src/src/httpCore/CgiHandler.cpp relies on.  *)
(* Byte streams are counted in units: a unit is what one system call may   *)
(* transfer, so that a transfer may be split at any unit boundary.         *)
(***************************************************************************)
EXTENDS Integers, FiniteSets

CONSTANTS
    FD,           \* descriptor numbers accept() and pipe() can return
    Pid,          \* process identifiers fork() can return
    SignalPipe,   \* the read end of the self-pipe
    Listener,     \* the listening sockets
    MaxBacklog,   \* bound: connections waiting in a listener's queue
    MaxSegments,  \* bound: data arrivals of a client
    MaxOutput     \* bound: units a CGI program writes

NoFd  == -1
NoPid == -1

(* Descriptors are small integers.  The self-pipe and the listeners are    *)
(* opened first (ServerEngine::start), so their numbers are the smallest.  *)
ASSUME KernelAssumption ==
    /\ FD \subseteq Nat /\ IsFiniteSet(FD)
    /\ IsFiniteSet(Pid) /\ NoPid \notin Pid
    /\ SignalPipe \in Nat /\ Listener \subseteq Nat
    /\ \A l \in Listener : SignalPipe < l
    /\ \A f \in FD : SignalPipe < f /\ \A l \in Listener : l < f
    /\ MaxBacklog \in Nat /\ MaxSegments \in Nat /\ MaxOutput \in Nat

VARIABLES
    open,       \* the descriptors of FD that are open in the server
    backlog,    \* backlog[l]: connections that wait for accept() on l
    sock,       \* sock[f]: the peer of connected socket f, as f shows it
    child,      \* child[p]: the CGI process p and its two pipes
    signalled   \* SIGINT or SIGTERM has arrived: a byte is in the self-pipe

kernelVars == <<open, backlog, sock, child, signalled>>

(* rx: data waits to be received; more: arrivals the client may still      *)
(* cause; room: the send buffer takes at least one unit.                   *)
Socket == [peer : {"none", "open", "fin", "reset"}, rx : BOOLEAN,
           more : 0..MaxSegments, room : BOOLEAN]
NoSocket    == [peer |-> "none", rx |-> FALSE, more |-> 0, room |-> FALSE]
FreshSocket == [peer |-> "open", rx |-> FALSE, more |-> MaxSegments, room |-> TRUE]

(* run: "exited" (with any status) and "killed" (by a signal) are zombies. *)
(* reads, writes: the process holds its end of its stdin, its stdout; full:*)
(* the stdin pipe is full; data: units in the stdout pipe; todo: units it  *)
(* may still write.                                                        *)
Process == [run : {"none", "running", "exited", "killed"}, reads : BOOLEAN,
            writes : BOOLEAN, full : BOOLEAN, data : Nat, todo : 0..MaxOutput]
NoProcess    == [run |-> "none", reads |-> FALSE, writes |-> FALSE,
                 full |-> FALSE, data |-> 0, todo |-> 0]
FreshProcess == [run |-> "running", reads |-> TRUE, writes |-> TRUE,
                 full |-> FALSE, data |-> 0, todo |-> MaxOutput]

Zombie(ch) == ch.run \in {"exited", "killed"}

(* The process ch after the server has closed its ends of both pipes: what *)
(* the pipes hold, and what the process still does with them, is lost.     *)
Abandoned(ch) == [NoProcess EXCEPT !.run = ch.run]

KernelTypeOK ==
    /\ open \subseteq FD
    /\ backlog \in [Listener -> 0..MaxBacklog]
    /\ sock \in [FD -> Socket]
    /\ child \in [Pid -> Process]
    /\ signalled \in BOOLEAN

KernelInit ==
    /\ open = {}
    /\ backlog = [l \in Listener |-> 0]
    /\ sock = [f \in FD |-> NoSocket]
    /\ child = [p \in Pid |-> NoProcess]
    /\ signalled = FALSE

-----------------------------------------------------------------------------
(* Descriptor numbers: the (k+1)-th smallest of S, as a set of at most one *)
(* element.  open(), accept() and pipe() return the lowest free numbers.   *)
Nth(S, k) == {f \in S : Cardinality({g \in S : g < f}) = k}
Lowest(S, n) == {f \in S : Cardinality({g \in S : g < f}) < n}

(* poll(): the conditions reported for a socket, and for the server's ends *)
(* of a CGI's pipes.  "HUP" stands for POLLERR, POLLHUP and POLLNVAL,      *)
(* which the server never tells apart.                                     *)
SocketReady(s, events) ==
    (IF s.rx \/ s.peer \in {"fin", "reset"} THEN {"IN"} ELSE {})
    \union (IF "OUT" \in events /\ s.room THEN {"OUT"} ELSE {})
    \union (IF s.peer = "reset" THEN {"HUP"} ELSE {})
StdinReady(ch)  == (IF ch.full THEN {} ELSE {"OUT"})
                   \union (IF ch.reads THEN {} ELSE {"HUP"})
StdoutReady(ch) == (IF ch.data > 0 THEN {"IN"} ELSE {})
                   \union (IF ch.writes THEN {} ELSE {"HUP"})

-----------------------------------------------------------------------------
(* The clients.                                                            *)
Connect(l) ==
    /\ backlog[l] < MaxBacklog
    /\ backlog' = [backlog EXCEPT ![l] = @ + 1]
    /\ UNCHANGED <<open, sock, child, signalled>>

ClientSend(f) ==
    /\ sock[f].peer = "open" /\ ~sock[f].rx /\ sock[f].more > 0
    /\ sock' = [sock EXCEPT ![f].rx = TRUE, ![f].more = @ - 1]
    /\ UNCHANGED <<open, backlog, child, signalled>>

ClientFin(f) ==      \* the client closes its sending half
    /\ sock[f].peer = "open"
    /\ sock' = [sock EXCEPT ![f].peer = "fin", ![f].more = 0]
    /\ UNCHANGED <<open, backlog, child, signalled>>

ClientReset(f) ==    \* the client is gone; unread data is dropped
    /\ sock[f].peer \in {"open", "fin"}
    /\ sock' = [sock EXCEPT ![f] = [NoSocket EXCEPT !.peer = "reset"]]
    /\ UNCHANGED <<open, backlog, child, signalled>>

ClientDrain(f) ==    \* the client reads, so that the send buffer has room
    /\ sock[f].peer \in {"open", "fin"} /\ ~sock[f].room
    /\ sock' = [sock EXCEPT ![f].room = TRUE]
    /\ UNCHANGED <<open, backlog, child, signalled>>

-----------------------------------------------------------------------------
(* The CGI programs.  A process that exits closes its descriptors before   *)
(* it can be waited for, and may also close one of them and run on.        *)
ChildWrite(p) ==
    /\ child[p].run = "running" /\ child[p].writes /\ child[p].todo > 0
    /\ child' = [child EXCEPT ![p].data = @ + 1, ![p].todo = @ - 1]
    /\ UNCHANGED <<open, backlog, sock, signalled>>

ChildRead(p) ==
    /\ child[p].run = "running" /\ child[p].reads /\ child[p].full
    /\ child' = [child EXCEPT ![p].full = FALSE]
    /\ UNCHANGED <<open, backlog, sock, signalled>>

ChildCloseIn(p) ==
    /\ child[p].run = "running" /\ child[p].reads
    /\ child' = [child EXCEPT ![p].reads = FALSE]
    /\ UNCHANGED <<open, backlog, sock, signalled>>

ChildCloseOut(p) ==
    /\ child[p].run = "running" /\ child[p].writes
    /\ child' = [child EXCEPT ![p].writes = FALSE, ![p].todo = 0]
    /\ UNCHANGED <<open, backlog, sock, signalled>>

ChildEnd(p) ==
    /\ child[p].run = "running"
    /\ \E status \in {"exited", "killed"} :
          child' = [child EXCEPT ![p].run = status, ![p].reads = FALSE,
                                 ![p].writes = FALSE, ![p].todo = 0]
    /\ UNCHANGED <<open, backlog, sock, signalled>>

(* Ctrl-C or kill: signalHandler writes one byte to the self-pipe.         *)
Signal ==
    /\ ~signalled
    /\ signalled' = TRUE
    /\ UNCHANGED <<open, backlog, sock, child>>
=============================================================================
