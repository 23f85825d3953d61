------------------------------ MODULE Exchange ------------------------------
(***************************************************************************)
(* What the server promises each client, without descriptors, pipes, poll  *)
(* sets or clocks: one exchange per connection, in which a request is read *)
(* and then answered once.  A connection slot is free, reading a request,  *)
(* waiting for a CGI program or writing the answer.                        *)
(***************************************************************************)
EXTENDS Naturals

CONSTANTS
    Slot,         \* where an exchange can live
    MaxResponse   \* the length of an answer

VARIABLES
    exchange,     \* exchange[s]: the exchange in slot s
    down          \* the server has shut down

vars == <<exchange, down>>

Immediate == {"page", "error"}                                    \* without a CGI
Delayed   == {"output", "truncated", "badGateway", "timeout"}     \* after one

(* gone: the client has closed its side, or is not there any more.         *)
Exchanges == [phase : {"free", "reading", "waiting", "writing"},
              reply : {"none"} \union Immediate \union Delayed,
              left : 0..MaxResponse, gone : BOOLEAN]

Free    == [phase |-> "free", reply |-> "none", left |-> 0, gone |-> FALSE]
Reading == [Free EXCEPT !.phase = "reading"]
Answer(x, reply) ==
    [x EXCEPT !.phase = "writing", !.reply = reply, !.left = MaxResponse]

Init == exchange = [s \in Slot |-> Free] /\ down = FALSE

(* The step of one exchange from x to y.                                   *)
Arrive(x, y) == x = Free /\ y = Reading
Reply(x, y) ==
    \/ x.phase = "reading" /\ \E r \in Immediate : y = Answer(x, r)
    \/ x.phase = "waiting" /\ \E r \in Delayed : y = Answer(x, r)
Delegate(x, y) == x.phase = "reading" /\ y = [x EXCEPT !.phase = "waiting"]
Transmit(x, y) ==
    /\ x.phase = "writing"
    /\ \E n \in 1..x.left : y = IF n = x.left THEN Free ELSE [x EXCEPT !.left = @ - n]
Depart(x, y) == x.phase # "free" /\ ~x.gone /\ y = [x EXCEPT !.gone = TRUE]

(* A client that stays is only dropped when it does not say what it wants: *)
(* never while its program runs, nor in the middle of its answer.          *)
Drop(x, y) == x.phase # "free" /\ (x.gone \/ x.phase = "reading") /\ y = Free

Step(x, y) == Arrive(x, y) \/ Reply(x, y) \/ Delegate(x, y) \/ Transmit(x, y)
              \/ Depart(x, y) \/ Drop(x, y)

(* Several exchanges may move at once: accept() takes a whole queue, and   *)
(* one look at the clock ends every one that is late.                      *)
Serve ==
    /\ ~down /\ UNCHANGED down
    /\ exchange' = [s \in Slot |-> exchange'[s]]
    /\ \A s \in Slot : exchange'[s] = exchange[s] \/ Step(exchange[s], exchange'[s])

ShutDown == ~down /\ down' = TRUE /\ exchange' = [s \in Slot |-> Free]

Next == Serve \/ ShutDown

Spec == Init /\ [][Next]_vars
=============================================================================
