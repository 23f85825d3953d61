----------------------------- MODULE ServerStart -----------------------------
(***************************************************************************)
(* The life of the server around its event loop (start and cleanup of      *)
(* src/src/network/ServerEngine.cpp, and main.cpp): the self-pipe and the  *)
(* listening sockets are opened one by one, any call may fail and any      *)
(* moment may bring a signal; what was opened is closed by start() or,     *)
(* after an exception, by the destructor.                                  *)
(*                                                                         *)
(* The event loop itself is ServerEngine.tla.  Here it is one state, left  *)
(* with no connection open, which NoDescriptorLeak is about there.         *)
(***************************************************************************)
EXTENDS Integers, FiniteSets

CONSTANTS
    Fd,         \* the descriptor numbers that the process may have
    Inherited,  \* those that are open when it starts
    Key,        \* the addresses that a configuration may name
    Busy        \* those on which another program listens

(* A key is [ip, port].                                                    *)
ASSUME StartAssumption ==
    /\ Fd \subseteq Nat /\ IsFiniteSet(Fd) /\ Inherited \subseteq Fd
    /\ Key \subseteq [ip : Nat, port : Nat]

VARIABLES
    stage,      \* how far main() and start() have come
    error,      \* what ended them, or "none"
    keys,       \* the keys of _config
    todo,       \* those that createListeningSockets has still to visit
    listeners,  \* _listeningSockets: keys by descriptor
    pipe,       \* _signalPipe: its two ends, none before and after
    open,       \* the descriptors of the process
    signalled   \* a byte is in the pipe

startVars == <<stage, error, keys, todo, listeners, pipe, open, signalled>>

Stages == {"main", "loaded", "setup", "binding", "looping",  \* on the way
           "thrown", "returned",                             \* out of start()
           "over", "killed"}                                 \* out of main()
Errors == {"none", "usage", "file", "syntax", "validation", "runtime"}

StartTypeOK ==
    /\ stage \in Stages /\ error \in Errors
    /\ todo \subseteq keys /\ keys \subseteq Key
    /\ listeners \in [DOMAIN listeners -> Key] /\ DOMAIN listeners \subseteq Fd
    /\ pipe \subseteq Fd /\ open \subseteq Fd
    /\ signalled \in BOOLEAN

StartInit ==
    /\ stage = "main" /\ error = "none"
    /\ keys = {} /\ todo = {} /\ listeners = <<>> /\ pipe = {}
    /\ open = Inherited
    /\ signalled = FALSE

-----------------------------------------------------------------------------
(* main(): a configuration is refused, or the engine is built for the keys *)
(* of one.                                                                 *)
Refused(kind) ==
    /\ stage' = "over" /\ error' = kind
    /\ UNCHANGED <<keys, todo, listeners, pipe, open, signalled>>

Configured(newKeys) ==
    /\ stage' = "setup" /\ keys' = newKeys /\ todo' = newKeys
    /\ UNCHANGED <<error, listeners, pipe, open, signalled>>

(* A system call hands out the smallest number that is free.               *)
Free(used)   == Fd \ used
Lowest(used) == CHOOSE f \in Free(used) : \A g \in Free(used) : f <= g

Throw == stage' = "thrown" /\ error' = "runtime"

-----------------------------------------------------------------------------
(* setupSignalHandling: pipe() makes two descriptors or none.              *)
SignalHandlingFails ==
    /\ stage = "setup"
    /\ Throw
    /\ UNCHANGED <<keys, todo, listeners, pipe, open, signalled>>

SetupSignalHandling ==
    /\ stage = "setup"
    /\ Free(open) # {} /\ Free(open \union {Lowest(open)}) # {}
    /\ pipe' = {Lowest(open), Lowest(open \union {Lowest(open)})}
    /\ open' = open \union pipe'
    /\ stage' = "binding"
    /\ UNCHANGED <<error, keys, todo, listeners, signalled>>

(* Two sockets cannot listen on one port when one of them does so on every *)
(* address; SO_REUSEADDR does not change that.                             *)
AnyAddress == 0
Conflict(k, l) == k.port = l.port /\ (k.ip = l.ip \/ AnyAddress \in {k.ip, l.ip})
Taken(key) ==
    \/ \E f \in DOMAIN listeners : Conflict(key, listeners[f])
    \/ \E k \in Busy : Conflict(key, k)

(* The order of std::map<SocketKey, ...>, in which the keys are visited.   *)
Before(k, l) == k.ip < l.ip \/ (k.ip = l.ip /\ k.port < l.port)
IsNext(key) == stage = "binding" /\ key \in todo /\ \A k \in todo \ {key} : Before(key, k)

(* setupSocket: socket() fails; a later call fails, and the socket is      *)
(* closed; or all goes well.                                               *)
SocketFailsSkips(key) ==    \* mutant: the other sockets will do
    /\ IsNext(key)
    /\ todo' = todo \ {key}
    /\ UNCHANGED <<stage, error, keys, listeners, pipe, open, signalled>>
SocketFails(key) ==
    /\ IsNext(key)
    /\ Throw
    /\ UNCHANGED <<keys, todo, listeners, pipe, open, signalled>>

LateFailureKeepsFd(key) ==    \* mutant: the socket is not closed
    /\ IsNext(key) /\ Free(open) # {}
    /\ Throw
    /\ open' = open \union {Lowest(open)}
    /\ UNCHANGED <<keys, todo, listeners, pipe, signalled>>
LateFailure(key) ==
    /\ IsNext(key) /\ Free(open) # {}
    /\ Throw
    /\ open' = (open \union {Lowest(open)}) \ {Lowest(open)}
    /\ UNCHANGED <<keys, todo, listeners, pipe, signalled>>

SetupSocket(key) ==
    /\ IsNext(key) /\ Free(open) # {}
    /\ ~Taken(key)
    /\ open' = open \union {Lowest(open)}
    /\ listeners' = [f \in DOMAIN listeners \union {Lowest(open)} |->
                        IF f = Lowest(open) THEN key ELSE listeners[f]]
    /\ todo' = todo \ {key}
    /\ UNCHANGED <<stage, error, keys, pipe, signalled>>

(* The poll set is built; what is in the pipe already stays there.         *)
EnterLoopDrained ==    \* mutant: what came during the start is forgotten
    /\ stage = "binding" /\ todo = {}
    /\ stage' = "looping" /\ signalled' = FALSE
    /\ UNCHANGED <<error, keys, todo, listeners, pipe, open>>
EnterLoop ==
    /\ stage = "binding" /\ todo = {}
    /\ stage' = "looping"
    /\ UNCHANGED <<error, keys, todo, listeners, pipe, open, signalled>>

-----------------------------------------------------------------------------
(* cleanup, where no connection is open.                                   *)
Cleanup ==
    /\ open' = open \ (DOMAIN listeners \union pipe)
    /\ listeners' = <<>> /\ pipe' = {}

(* eventLoop returns for the byte in the pipe, or because poll() fails;    *)
(* start() cleans up.                                                      *)
LeaveLoop ==
    /\ stage = "looping"
    /\ stage' = "returned" /\ signalled' = FALSE
    /\ Cleanup
    /\ UNCHANGED <<error, keys, todo>>
SignalSeen == signalled /\ LeaveLoop
PollFails  == ~signalled /\ LeaveLoop

(* The destructor, on the way out of main(): cleanup once more.            *)
Destroy ==
    /\ stage \in {"returned", "thrown"}
    /\ stage' = "over"
    /\ signalled' = FALSE
    /\ Cleanup
    /\ UNCHANGED <<error, keys, todo>>

(* SIGINT or SIGTERM: fatal before the handlers are installed, then a byte *)
(* in the pipe as long as there is one.                                    *)
SignalKills ==
    /\ stage \in {"main", "loaded", "setup"} \/ (stage = "thrown" /\ pipe = {})
    /\ stage' = "killed" /\ open' = {}
    /\ UNCHANGED <<error, keys, todo, listeners, pipe, signalled>>
SignalHandler ==
    /\ stage \notin {"over", "killed"} /\ pipe # {} /\ ~signalled
    /\ signalled' = TRUE
    /\ UNCHANGED <<stage, error, keys, todo, listeners, pipe, open>>

EngineStep ==
    \/ SignalHandlingFails \/ SetupSignalHandling
    \/ \E key \in todo : SocketFails(key) \/ LateFailure(key) \/ SetupSocket(key)
    \/ EnterLoop \/ SignalSeen \/ Destroy
StartStep == EngineStep \/ PollFails \/ SignalKills \/ SignalHandler

(* The start with any configuration whatever.                              *)
AnyConfiguration ==
    \/ stage = "main" /\ stage' = "loaded"
       /\ UNCHANGED <<error, keys, todo, listeners, pipe, open, signalled>>
    \/ stage \in {"main", "loaded"} /\ \E kind \in Errors : Refused(kind)
    \/ stage = "loaded" /\ keys' \subseteq Key /\ Configured(keys')
StartSpec == StartInit /\ [][AnyConfiguration \/ StartStep]_startVars

-----------------------------------------------------------------------------
(* At every moment the process has open what it was started with, the pipe *)
(* and the sockets that cleanup() knows of, and nothing twice: no failure  *)
(* between two calls leaves a descriptor behind, cleanup() closes none     *)
(* that is not its own, also when it runs again from the destructor, and   *)
(* nothing is left when main() returns.                                    *)
Accounted ==
    stage # "killed" =>
        /\ open = Inherited \union pipe \union DOMAIN listeners
        /\ pipe \intersect DOMAIN listeners = {}
        /\ (pipe \union DOMAIN listeners) \intersect Inherited = {}
        /\ stage \in {"returned", "over"} => open = Inherited

(* What the event loop takes for granted when it begins, which is          *)
(* KernelAssumption in Kernel.tla: exactly one socket listens on each key, *)
(* and the pipe, the sockets and the numbers that are still free follow    *)
(* each other in this order.                                               *)
Handover ==
    stage = "looping" =>
        /\ {listeners[f] : f \in DOMAIN listeners} = keys
        /\ \A f, g \in DOMAIN listeners : listeners[f] = listeners[g] => f = g
        /\ Cardinality(pipe) = 2
        /\ \A p \in pipe, f \in DOMAIN listeners : p < f
        /\ \A f \in pipe \union DOMAIN listeners, g \in Free(open) : f < g

(* A signal that was taken note of ends the program, whether it comes      *)
(* between two calls of the start, in the loop, or after it.               *)
SignalEnds == signalled ~> stage = "over"
=============================================================================
