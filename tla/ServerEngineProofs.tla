------------------------- MODULE ServerEngineProofs -------------------------
(***************************************************************************)
(* Theorems about the event loop, for any set of descriptors, processes    *)
(* and listeners, any bounds and any clients, pipelining ones included.    *)
(* First the descriptors: who has them, and that none is closed twice or   *)
(* forgotten.  Then what the connections are doing: their states, their    *)
(* CGI programs and the clock.  Then the poll set and the snapshot: what   *)
(* is watched is what is waited for, and an event that is handled late     *)
(* still means what it meant.                                              *)
(***************************************************************************)
EXTENDS ServerEngine, FiniteSetTheorems, TLAPS

(* A connection inside a handler, where _state may also be CLOSED.         *)
AnyConnection ==
    [st : {"NONE", "READING", "WRITING", "CGI_WRITING", "CGI_READING", "CLOSED"},
     req : Verdict, resp : Reply, left : 0..MaxResponse, cgi : Cgi,
     idle : 0..IdleTimeout, age : 0..CgiTimeout]

Worlds == [c : AnyConnection, s : Socket, child : [Pid -> Process], open : SUBSET FD]

(* Connection c on socket f holds f and its pipes open in o, and they      *)
(* differ; it has a stdout as long as it has a process.                    *)
Owns(f, c, o) ==
    /\ f \in o
    /\ c.cgi.in  # NoFd => c.cgi.in \in o /\ c.cgi.in # f /\ HasCgi(c)
    /\ c.cgi.out # NoFd => c.cgi.out \in o /\ c.cgi.out # f
    /\ c.cgi.in  # NoFd => c.cgi.in # c.cgi.out
    /\ HasCgi(c) <=> c.cgi.out # NoFd

(* The inductive invariant, in parts.  What a slot without a connection    *)
(* holds; what each connection holds; that no two hold the same; and three *)
(* facts about _cgiToSocket on which the branches of handlePollEvent rest: *)
(* a running CGI is registered, a closed number is not, nor is a socket.   *)
FreeSlots   == \A f \in FD \ Live : conn[f] = NoConnection
HoldsOwn    == \A f \in Live : Owns(f, conn[f], open)
Disjoint    == \A f, g \in Live : f # g =>
                  /\ conn[f].cgi.in # g /\ conn[f].cgi.out # g
                  /\ conn[f].cgi.in # NoFd => conn[f].cgi.in \notin {conn[g].cgi.in, conn[g].cgi.out}
                  /\ conn[f].cgi.out # NoFd => conn[f].cgi.out # conn[g].cgi.out
Registered  == \A f \in Live : \A d \in {conn[f].cgi.in, conn[f].cgi.out} \ {NoFd} :
                  cgiToSocket[d] = f
ClosedUnmapped  == pc # "stopped" => \A d \in FD \ open : cgiToSocket[d] = NoFd
SocketsUnmapped == \A f \in Live : cgiToSocket[f] = NoFd

Ownership == FreeSlots /\ HoldsOwn /\ Disjoint
Mapping   == Registered /\ ClosedUnmapped /\ SocketsUnmapped
IInv      == TypeOK /\ Ownership /\ Mapping

-----------------------------------------------------------------------------
LEMMA Bounds ==
    /\ NoFd \notin FD /\ NoPid \notin Pid
    /\ MaxResponse \in 0..MaxResponse /\ 0 \in 0..MaxResponse
    /\ MaxInput \in 0..MaxInput /\ 0 \in 0..MaxInput
    /\ MaxOutput \in 0..MaxOutput /\ 0 \in 0..MaxOutput
    /\ MaxSegments \in 0..MaxSegments /\ 0 \in 0..MaxSegments
    /\ 0 \in 0..IdleTimeout /\ 0 \in 0..CgiTimeout
    /\ 0 \in Nat
BY KernelAssumption, ConnectionAssumption DEF NoFd, NoPid

LEMMA NoCgiType == NoCgi \in Cgi
BY Bounds, Zenon DEF NoCgi, Cgi

LEMMA ConnectionTypes ==
    NoConnection \in Connections /\ NewConnection \in Connections
BY Bounds, NoCgiType, Zenon DEF NoConnection, NewConnection, Connections, Verdict, Reply

LEMMA KernelTypes ==
    /\ NoSocket \in Socket /\ FreshSocket \in Socket
    /\ NoProcess \in Process /\ FreshProcess \in Process
    /\ \A ch \in Process : Abandoned(ch) \in Process
<1>1. NoSocket \in Socket /\ FreshSocket \in Socket
  BY Bounds, Zenon DEF NoSocket, FreshSocket, Socket
<1>2. NoProcess \in Process
  BY Bounds, Zenon DEF NoProcess, Process
<1>3. FreshProcess \in Process
  BY Bounds, Zenon DEF FreshProcess, Process
<1>4. ASSUME NEW ch \in Process PROVE Abandoned(ch) \in Process
  BY <1>2, Zenon DEF Abandoned, Process
<1> QED BY <1>1, <1>2, <1>3, <1>4

LEMMA SetStateLemma ==
    ASSUME NEW w \in Worlds,
           NEW st \in {"NONE", "READING", "WRITING", "CGI_WRITING", "CGI_READING", "CLOSED"}
    PROVE  /\ [w EXCEPT !.c.st = st] \in Worlds
           /\ [w EXCEPT !.c.st = st].c.cgi = w.c.cgi
           /\ [w EXCEPT !.c.st = st].open = w.open
           /\ [w EXCEPT !.c.st = st].c.st = st
BY Zenon DEF Worlds, AnyConnection

LEMMA RespondLemma ==
    ASSUME NEW w \in Worlds, NEW r \in Reply
    PROVE  /\ Respond(w, r) \in Worlds
           /\ Respond(w, r).c.cgi = w.c.cgi
           /\ Respond(w, r).open = w.open
           /\ Respond(w, r).c.st = "WRITING"
BY Bounds, Zenon DEF Respond, Worlds, AnyConnection

LEMMA CloseInLemma ==
    ASSUME NEW w \in Worlds
    PROVE  /\ CloseIn(w) \in Worlds
           /\ CloseIn(w).open = w.open \ {w.c.cgi.in}
           /\ CloseIn(w).c.cgi.in = NoFd
           /\ CloseIn(w).c.cgi.out = w.c.cgi.out
           /\ CloseIn(w).c.cgi.pid = w.c.cgi.pid
BY Bounds DEF CloseIn, Worlds, AnyConnection, Cgi

LEMMA ForgetCgiLemma ==
    ASSUME NEW w \in Worlds, NEW ch \in Process
    PROVE  /\ ForgetCgi(w, ch) \in Worlds
           /\ ForgetCgi(w, ch).open = w.open \ {w.c.cgi.in, w.c.cgi.out}
           /\ ForgetCgi(w, ch).c.cgi = NoCgi
BY Bounds, NoCgiType, Zenon DEF ForgetCgi, Worlds, AnyConnection

(* A launch takes two descriptors that were free, and they differ.         *)
LEMMA LaunchLemma ==
    ASSUME NEW w \in Worlds, NEW body \in 0..MaxInput, NEW x \in LaunchSucceeded(w, body)
    PROVE  /\ x \in Worlds
           /\ x.c.cgi.in \in FD \ w.open /\ x.c.cgi.out \in FD \ w.open
           /\ x.c.cgi.in # x.c.cgi.out
           /\ x.open = w.open \union {x.c.cgi.in, x.c.cgi.out}
           /\ HasCgi(x.c) /\ x.c.st = "CGI_WRITING"
<1>1. PICK p \in Pid, i \in Nth(FD \ w.open, 3), o \in Nth(FD \ w.open, 0) :
         x = Launched(w, body, p, i, o)
  BY DEF LaunchSucceeded
<1>2. o \in FD \ w.open /\ i \in FD \ w.open /\ o # i
  BY SMT DEF Nth
<1> DEFINE cgi == [pid |-> p, in |-> i, out |-> o, input |-> body,
                   output |-> 0, done |-> FALSE]
<1>a. cgi.pid = p /\ cgi.in = i /\ cgi.out = o
  OBVIOUS
<1>b. cgi \in Cgi
  BY <1>2, Bounds, Zenon DEF Cgi
<1>c. x = [w EXCEPT !.open = @ \union {o, i}, !.child[p] = FreshProcess,
                    !.c.st = "CGI_WRITING", !.c.age = 0, !.c.cgi = cgi]
  BY <1>1, Zenon DEF Launched
<1> HIDE DEF cgi
<1>4. /\ x.c.cgi = cgi
      /\ x.open = w.open \union {o, i}
      /\ x.c.st = "CGI_WRITING"
  BY <1>c, Zenon DEF Worlds, AnyConnection
<1>5. x \in Worlds
  BY <1>c, <1>2, <1>b, Bounds, KernelTypes, Zenon DEF Worlds, AnyConnection
<1>6. HasCgi(x.c)
  BY <1>4, <1>a, Bounds DEF HasCgi
<1> QED BY <1>2, <1>4, <1>5, <1>6, <1>a

-----------------------------------------------------------------------------
(* What a handler may do to the descriptors: nothing; forget the CGI it    *)
(* had; or launch one on new descriptors.                                  *)
Untouched(w, x) == x.c.cgi = w.c.cgi /\ x.open = w.open
Forgotten(w, x) == x.c.cgi = NoCgi /\ x.open = w.open
Relaunched(w, x) ==
    /\ HasCgi(x.c)
    /\ x.c.cgi.out \in FD \ w.open
    /\ x.c.cgi.in \in {NoFd} \union (FD \ w.open)
    /\ x.c.cgi.in # x.c.cgi.out
    /\ x.open = w.open \union ({x.c.cgi.in, x.c.cgi.out} \ {NoFd})

LEMMA LaunchFailedLemma ==
    ASSUME NEW w \in Worlds
    PROVE  /\ LaunchFailed(w) \in Worlds
           /\ Forgotten(w, LaunchFailed(w))
           /\ LaunchFailed(w).c.st = "WRITING"
<1> DEFINE v == [w EXCEPT !.c.cgi = NoCgi]
<1>1. v \in Worlds /\ v.c.cgi = NoCgi /\ v.open = w.open
  BY NoCgiType, Zenon DEF Worlds, AnyConnection
<1>2. "error" \in Reply
  BY DEF Reply
<1> QED BY <1>1, <1>2, RespondLemma DEF LaunchFailed, Forgotten

(* A CGI without a body: its stdin is closed at once.                      *)
LEMMA InputlessLemma ==
    ASSUME NEW w \in Worlds, NEW x \in LaunchSucceeded(w, 0),
           NEW y, y = [CloseIn(x) EXCEPT !.c.st = "CGI_READING"]
    PROVE  y \in Worlds /\ Relaunched(w, y) /\ y.c.st = "CGI_READING"
<1>1. /\ x \in Worlds
      /\ x.c.cgi.in \in FD \ w.open /\ x.c.cgi.out \in FD \ w.open
      /\ x.c.cgi.in # x.c.cgi.out
      /\ x.open = w.open \union {x.c.cgi.in, x.c.cgi.out}
      /\ HasCgi(x.c)
  BY LaunchLemma, Bounds
<1> DEFINE v == CloseIn(x)
<1>2. /\ v \in Worlds
      /\ v.open = x.open \ {x.c.cgi.in}
      /\ v.c.cgi.in = NoFd /\ v.c.cgi.out = x.c.cgi.out /\ v.c.cgi.pid = x.c.cgi.pid
  BY <1>1, CloseInLemma
<1> HIDE DEF v
<1>3. y \in Worlds /\ y.open = v.open /\ y.c.st = "CGI_READING" /\ y.c.cgi = v.c.cgi
  <2>1. y = [v EXCEPT !.c.st = "CGI_READING"]
    BY DEF v
  <2> DEFINE z == [v EXCEPT !.c.st = "CGI_READING"]
  <2>2. z \in Worlds /\ z.c.cgi = v.c.cgi /\ z.open = v.open /\ z.c.st = "CGI_READING"
    BY <1>2, SetStateLemma
  <2>3. y = z
    BY <2>1
  <2> HIDE DEF z
  <2> QED BY <2>2, <2>3
<1> QED BY <1>1, <1>2, <1>3, Bounds DEF Relaunched, HasCgi

LEMMA ProcessRequestLemma ==
    ASSUME NEW w \in Worlds, w.c.req \in Route, NEW x \in ProcessRequest(w)
    PROVE  /\ x \in Worlds
           /\ \/ Untouched(w, x) /\ x.c.st = "WRITING"
              \/ Forgotten(w, x) /\ x.c.st = "WRITING"
              \/ Relaunched(w, x) /\ x.c.st \in {"CGI_WRITING", "CGI_READING"}
<1>1. CASE w.c.req = "page"
  <2>1. x = Respond(w, "page")
    BY <1>1 DEF ProcessRequest
  <2>2. "page" \in Reply
    BY DEF Reply
  <2> QED BY <2>1, <2>2, RespondLemma DEF Untouched
<1>2. CASE x = LaunchFailed(w)
  BY <1>2, LaunchFailedLemma
<1>3. CASE w.c.req = "cgiBody" /\ x # LaunchFailed(w)
  <2>1. x \in LaunchSucceeded(w, MaxInput)
    BY <1>3 DEF ProcessRequest
  <2> QED BY <2>1, LaunchLemma, Bounds DEF Relaunched
<1>4. CASE w.c.req = "cgi" /\ x # LaunchFailed(w)
  <2>1. PICK v \in LaunchSucceeded(w, 0) :
           x = [CloseIn(v) EXCEPT !.c.st = "CGI_READING"]
    BY <1>4 DEF ProcessRequest
  <2> QED BY <2>1, InputlessLemma
<1> QED BY <1>1, <1>2, <1>3, <1>4 DEF Route

LEMMA JudgeCases ==
    ASSUME NEW w
    PROVE  /\ Judge(w, "partial") = {[w EXCEPT !.c.st = "READING"]}
           /\ Judge(w, "error") = {Respond([w EXCEPT !.c.req = "error"], "error")}
<1> DEFINE a == {[w EXCEPT !.c.st = "READING"]}
           b(verdict) == {Respond([w EXCEPT !.c.req = verdict], "error")}
           c(verdict) == ProcessRequest([w EXCEPT !.c.req = verdict])
<1>1. \A verdict : Judge(w, verdict) = CASE verdict = "partial" -> a
                                          [] verdict = "error"   -> b(verdict)
                                          [] verdict \in Route   -> c(verdict)
  BY DEF Judge
<1> HIDE DEF a, b, c
<1>2. "partial" \notin Route /\ "error" \notin Route
  BY DEF Route
<1>3. Judge(w, "partial") = a /\ Judge(w, "error") = b("error")
  BY <1>1, <1>2
<1> QED BY <1>3 DEF a, b

LEMMA OnReadableLemma ==
    ASSUME NEW w \in Worlds, NEW x \in OnReadable(w)
    PROVE  /\ x \in Worlds
           /\ \/ Untouched(w, x) /\ x.c.st \in {"READING", "WRITING", "CLOSED"}
              \/ Forgotten(w, x) /\ x.c.st = "WRITING"
              \/ Relaunched(w, x) /\ x.c.st \in {"CGI_WRITING", "CGI_READING"}
<1>1. CASE ~w.s.rx
  <2>1. x = [w EXCEPT !.c.st = "CLOSED"]
    BY <1>1 DEF OnReadable
  <2> QED BY <2>1, Zenon DEF Worlds, AnyConnection, Untouched
<1>2. CASE w.s.rx
  <2> DEFINE v == MarkActivity([w EXCEPT !.s.rx = FALSE])
  <2>1. PICK verdict \in Verdict : x \in Judge(v, verdict)
    <3>1. w.c.req \in Verdict
      BY DEF Worlds, AnyConnection
    <3> QED BY <1>2, <3>1, VerdictAssumption DEF OnReadable
  <2>2. v \in Worlds /\ v.c.cgi = w.c.cgi /\ v.open = w.open
    <3>1. w.s \in Socket
      BY DEF Worlds
    <3>2. [w.s EXCEPT !.rx = FALSE] \in Socket
      BY <3>1, Zenon DEF Socket
    <3> QED BY <3>2, Bounds, Zenon DEF MarkActivity, Worlds, AnyConnection
  <2> HIDE DEF v
  <2>3. CASE verdict = "partial"
    <3>1. x = [v EXCEPT !.c.st = "READING"]
      BY <2>1, <2>3, JudgeCases, Zenon
    <3> QED BY <2>2, <3>1, Zenon DEF Worlds, AnyConnection, Untouched
  <2> DEFINE u == [v EXCEPT !.c.req = verdict]
  <2>4. u \in Worlds /\ u.c.cgi = w.c.cgi /\ u.open = w.open /\ u.c.req = verdict
    BY <2>2, Zenon DEF Worlds, AnyConnection
  <2> HIDE DEF u
  <2>5. CASE verdict = "error"
    <3>1. x = Respond(u, "error")
      BY <2>1, <2>5, JudgeCases, Zenon DEF u
    <3>2. "error" \in Reply
      BY DEF Reply
    <3> QED BY <2>4, <3>1, <3>2, RespondLemma DEF Untouched
  <2>6. CASE verdict \in Route
    <3>1. x \in ProcessRequest(u)
      BY <2>1, <2>6 DEF Judge, u, Route
    <3>2. u.c.req \in Route
      BY <2>4, <2>6
    <3>3. /\ x \in Worlds
          /\ \/ Untouched(u, x) /\ x.c.st = "WRITING"
             \/ Forgotten(u, x) /\ x.c.st = "WRITING"
             \/ Relaunched(u, x) /\ x.c.st \in {"CGI_WRITING", "CGI_READING"}
      BY <2>4, <3>1, <3>2, ProcessRequestLemma
    <3> QED BY <2>4, <3>3 DEF Untouched, Forgotten, Relaunched
  <2> QED BY <2>3, <2>5, <2>6 DEF Verdict
<1> QED BY <1>1, <1>2

LEMMA OnWritableLemma ==
    ASSUME NEW w \in Worlds, NEW x \in OnWritable(w)
    PROVE  x \in Worlds /\ Untouched(w, x) /\ x.c.st \in {w.c.st, "CLOSED"}
<1>1. CASE w.c.left = 0
  BY <1>1 DEF OnWritable, Untouched
<1>2. CASE w.c.left # 0 /\ (w.s.peer = "reset" \/ ~w.s.room)
  <2>1. x = [w EXCEPT !.c.st = "CLOSED"]
    BY <1>2 DEF OnWritable
  <2> QED BY <2>1, Zenon DEF Worlds, AnyConnection, Untouched
<1>3. CASE w.c.left # 0 /\ ~(w.s.peer = "reset" \/ ~w.s.room)
  <2>1. PICK n \in 1..w.c.left :
           x = MarkActivity([w EXCEPT !.c.left = @ - n,
                                      !.s.room = (n = w.c.left),
                                      !.c.st = IF n = w.c.left THEN "CLOSED" ELSE @])
    BY <1>3 DEF OnWritable
  <2>2. w.c \in AnyConnection /\ w.c.left \in 0..MaxResponse /\ w.s \in Socket
    BY DEF Worlds, AnyConnection
  <2>3. w.c.left - n \in 0..MaxResponse
    BY <2>2, ConnectionAssumption
  <2> DEFINE l == w.c.left - n
             room == (n = w.c.left)
             st == IF n = w.c.left THEN "CLOSED" ELSE w.c.st
  <2>4. room \in BOOLEAN /\ st \in {w.c.st, "CLOSED"} /\ l \in 0..MaxResponse
    BY <2>3
  <2>5. x = [w EXCEPT !.c.left = l, !.s.room = room, !.c.st = st, !.c.idle = 0]
    BY <2>1, Zenon DEF MarkActivity
  <2> HIDE DEF l, room, st
  <2>6. [w.s EXCEPT !.room = room] \in Socket
    BY <2>2, <2>4, Zenon DEF Socket
  <2>7. st \in {"NONE", "READING", "WRITING", "CGI_WRITING", "CGI_READING", "CLOSED"}
    BY <2>2, <2>4 DEF AnyConnection
  <2>8. x \in Worlds /\ Untouched(w, x) /\ x.c.st = st
    BY <2>4, <2>5, <2>6, <2>7, Bounds, Zenon DEF Worlds, AnyConnection, Untouched
  <2> QED BY <2>4, <2>8
<1> QED BY <1>1, <1>2, <1>3

(* What reading or writing a pipe does: at most, stdin is closed.          *)
Kept(w, x) ==
    /\ x.c.cgi.pid = w.c.cgi.pid /\ x.c.cgi.out = w.c.cgi.out
    /\ x.c.st \in {w.c.st, "CGI_READING"}
    /\ \/ x.c.cgi.in = w.c.cgi.in /\ x.open = w.open
       \/ x.c.cgi.in = NoFd /\ x.open = w.open \ {w.c.cgi.in}

LEMMA OnCgiReadableLemma ==
    ASSUME NEW w \in Worlds, HasCgi(w.c), NEW x \in OnCgiReadable(w)
    PROVE  x \in Worlds /\ Kept(w, x)
<1> DEFINE p == w.c.cgi.pid
           ch == w.child[p]
<1>1. w.c \in AnyConnection /\ w.c.cgi \in Cgi /\ w.child \in [Pid -> Process]
  BY DEF Worlds, AnyConnection
<1>2. p \in Pid /\ ch \in Process
  BY <1>1 DEF HasCgi, Cgi
<1>3. CASE w.c.cgi.out = NoFd
  BY <1>3 DEF OnCgiReadable, Kept
<1>4. CASE w.c.cgi.out # NoFd /\ ch.data = 0
  <2> DEFINE cgi == [w.c.cgi EXCEPT !.done = TRUE]
  <2>1. cgi \in Cgi /\ cgi.in = w.c.cgi.in /\ cgi.out = w.c.cgi.out /\ cgi.pid = w.c.cgi.pid
    BY <1>1, Zenon DEF Cgi
  <2>2. x = [w EXCEPT !.c.cgi = cgi]
    BY <1>4, <1>1 DEF OnCgiReadable, Worlds, AnyConnection, Cgi
  <2> HIDE DEF cgi
  <2>3. x \in Worlds /\ x.open = w.open /\ x.c.st = w.c.st /\ x.c.cgi = cgi
    BY <1>1, <2>1, <2>2, Zenon DEF Worlds, AnyConnection
  <2> QED BY <2>1, <2>3 DEF Kept
<1>5. CASE w.c.cgi.out # NoFd /\ ch.data # 0
  <2>1. PICK n \in 1..ch.data :
           x = MarkActivity([w EXCEPT !.c.cgi.output = @ + n,
                                      !.child[w.c.cgi.pid].data = @ - n])
    BY <1>5 DEF OnCgiReadable
  <2> DEFINE cgi == [w.c.cgi EXCEPT !.output = @ + n]
             read == [ch EXCEPT !.data = @ - n]
  <2>2. ch.data \in Nat /\ w.c.cgi.output \in Nat
    BY <1>1, <1>2 DEF Process, Cgi
  <2>3. ch.data - n \in Nat /\ w.c.cgi.output + n \in Nat
    BY <2>2
  <2>4. cgi \in Cgi /\ cgi.in = w.c.cgi.in /\ cgi.out = w.c.cgi.out /\ cgi.pid = w.c.cgi.pid
    BY <1>1, <2>3, Zenon DEF Cgi
  <2>5. read \in Process
    BY <1>2, <2>3, Zenon DEF Process
  <2>6. x = [w EXCEPT !.c.cgi = cgi, !.child[p] = read, !.c.idle = 0]
    BY <2>1, <1>1, <1>2 DEF MarkActivity, Worlds, AnyConnection, Cgi
  <2> HIDE DEF cgi, read, p
  <2>7. x \in Worlds /\ x.open = w.open /\ x.c.st = w.c.st /\ x.c.cgi = cgi
    BY <1>1, <1>2, <2>4, <2>5, <2>6, Bounds, Zenon DEF Worlds, AnyConnection
  <2> QED BY <2>4, <2>7 DEF Kept
<1> QED BY <1>3, <1>4, <1>5

LEMMA OnCgiWritableLemma ==
    ASSUME NEW w \in Worlds, HasCgi(w.c), NEW x \in OnCgiWritable(w)
    PROVE  x \in Worlds /\ Kept(w, x)
<1> DEFINE p == w.c.cgi.pid
           ch == w.child[p]
           blocked == w.c.cgi.input = 0 \/ ~ch.reads \/ ch.full
<1>1. w.c \in AnyConnection /\ w.c.cgi \in Cgi /\ w.child \in [Pid -> Process]
  BY DEF Worlds, AnyConnection
<1>2. p \in Pid /\ ch \in Process
  BY <1>1 DEF HasCgi, Cgi
<1>3. CASE w.c.cgi.in = NoFd
  BY <1>3 DEF OnCgiWritable, Kept
<1>4. CASE w.c.cgi.in # NoFd /\ blocked
  <2> DEFINE v == CloseIn(w)
             z == [v EXCEPT !.c.st = "CGI_READING"]
  <2>1. x = z
    BY <1>4 DEF OnCgiWritable
  <2>2. /\ v \in Worlds /\ v.open = w.open \ {w.c.cgi.in} /\ v.c.cgi.in = NoFd
        /\ v.c.cgi.out = w.c.cgi.out /\ v.c.cgi.pid = w.c.cgi.pid
    BY CloseInLemma
  <2> HIDE DEF v
  <2>3. z \in Worlds /\ z.c.cgi = v.c.cgi /\ z.open = v.open /\ z.c.st = "CGI_READING"
    BY <2>2, SetStateLemma
  <2> HIDE DEF z
  <2> QED BY <2>1, <2>2, <2>3 DEF Kept
<1>5. CASE w.c.cgi.in # NoFd /\ ~blocked
  <2>1. PICK n \in 1..w.c.cgi.input :
           x = MarkActivity([w EXCEPT !.c.cgi.input = @ - n,
                                      !.child[w.c.cgi.pid].full = (n < w.c.cgi.input)])
    BY <1>5 DEF OnCgiWritable
  <2> DEFINE cgi == [w.c.cgi EXCEPT !.input = @ - n]
             written == [ch EXCEPT !.full = (n < w.c.cgi.input)]
  <2>2. w.c.cgi.input \in 0..MaxInput
    BY <1>1 DEF Cgi
  <2>3. w.c.cgi.input - n \in 0..MaxInput /\ (n < w.c.cgi.input) \in BOOLEAN
    BY <2>2, ConnectionAssumption
  <2>4. cgi \in Cgi /\ cgi.in = w.c.cgi.in /\ cgi.out = w.c.cgi.out /\ cgi.pid = w.c.cgi.pid
    BY <1>1, <2>3, Zenon DEF Cgi
  <2>5. written \in Process
    BY <1>2, <2>3, Zenon DEF Process
  <2>6. x = [w EXCEPT !.c.cgi = cgi, !.child[p] = written, !.c.idle = 0]
    BY <2>1, <1>1, <1>2 DEF MarkActivity, Worlds, AnyConnection, Cgi
  <2> HIDE DEF cgi, written, p
  <2>7. x \in Worlds /\ x.open = w.open /\ x.c.st = w.c.st /\ x.c.cgi = cgi
    BY <1>1, <1>2, <2>4, <2>5, <2>6, Bounds, Zenon DEF Worlds, AnyConnection
  <2> QED BY <2>4, <2>7 DEF Kept
<1> QED BY <1>3, <1>4, <1>5

LEMMA CgiHandlersLemma ==
    ASSUME NEW e, e.fd \in FD, NEW w \in Worlds,
           HasCgi(w.c) \/ (w.c.cgi.in = NoFd /\ w.c.cgi.out = NoFd),
           NEW x \in CgiHandlers(e, w)
    PROVE  x \in Worlds /\ Kept(w, x)
<1> DEFINE reads == e.fd = w.c.cgi.out /\ e.revents \intersect {"IN", "HUP"} # {}
           writes == e.fd = w.c.cgi.in /\ "OUT" \in e.revents
           read == IF reads THEN OnCgiReadable(w) ELSE {w}
<1>1. reads \/ writes => HasCgi(w.c)
  BY Bounds DEF NoCgi
<1>2. ASSUME NEW v \in read PROVE v \in Worlds /\ Kept(w, v)
  BY <1>1, <1>2, OnCgiReadableLemma DEF Kept
<1>3. x \in (IF writes THEN UNION {OnCgiWritable(v) : v \in read} ELSE read)
  BY DEF CgiHandlers
<1> HIDE DEF read
<1>4. CASE writes
  <2>1. PICK v \in read : x \in OnCgiWritable(v)
    BY <1>3, <1>4
  <2>2. v \in Worlds /\ Kept(w, v) /\ HasCgi(v.c)
    BY <1>1, <1>2, <1>4 DEF Kept, HasCgi
  <2>3. x \in Worlds /\ Kept(v, x)
    BY <2>1, <2>2, OnCgiWritableLemma
  <2>4. NoFd \notin w.open /\ NoFd \notin v.open
    BY <2>2, Bounds DEF Worlds
  <2>5. \/ x.c.cgi.in = w.c.cgi.in /\ x.open = w.open
        \/ x.c.cgi.in = NoFd /\ x.open = w.open \ {w.c.cgi.in}
    <3>1. CASE v.c.cgi.in = w.c.cgi.in /\ v.open = w.open
      BY <2>3, <3>1 DEF Kept
    <3>2. CASE v.c.cgi.in = NoFd /\ v.open = w.open \ {w.c.cgi.in}
      <4>1. v.open \ {NoFd} = v.open
        BY <2>4
      <4> QED BY <2>3, <3>2, <4>1, Zenon DEF Kept
    <3> QED BY <2>2, <3>1, <3>2 DEF Kept
  <2> QED BY <2>2, <2>3, <2>5 DEF Kept
<1>5. CASE ~writes
  BY <1>2, <1>3, <1>5
<1> QED BY <1>4, <1>5

LEMMA FinalizeCgiLemma ==
    ASSUME NEW w \in Worlds, HasCgi(w.c)
    PROVE  /\ FinalizeCgi(w) \in Worlds
           /\ FinalizeCgi(w).c.cgi = NoCgi
           /\ FinalizeCgi(w).open = w.open \ {w.c.cgi.in, w.c.cgi.out}
           /\ FinalizeCgi(w).c.st = "WRITING"
<1> DEFINE ch == w.child[w.c.cgi.pid]
           reply == IF ch.run = "killed" \/ w.c.cgi.output = 0 THEN "badGateway"
                    ELSE IF ch.data > 0 \/ ch.writes THEN "truncated" ELSE "output"
           left == IF Zombie(ch) THEN NoProcess ELSE Abandoned(ch)
<1>1. ch \in Process
  BY DEF Worlds, AnyConnection, Cgi, HasCgi
<1>2. reply \in Reply
  BY DEF Reply
<1>3. left \in Process
  BY <1>1, KernelTypes
<1>4. FinalizeCgi(w) = Respond(ForgetCgi(w, left), reply)
  BY Zenon DEF FinalizeCgi
<1> HIDE DEF reply, left
<1> QED BY <1>2, <1>3, <1>4, ForgetCgiLemma, RespondLemma

LEMMA ClosedLemma ==
    ASSUME NEW f \in FD, NEW w \in Worlds
    PROVE  /\ Closed(f, w) \in Worlds
           /\ Closed(f, w).c = NoConnection
           /\ Closed(f, w).open = w.open \ {f, w.c.cgi.in, w.c.cgi.out}
<1> DEFINE after == IF HasCgi(w.c)
                    THEN [w.child EXCEPT ![w.c.cgi.pid] = Abandoned(@)] ELSE w.child
<1>1. after \in [Pid -> Process]
  BY KernelTypes DEF Worlds, AnyConnection, Cgi, HasCgi
<1>2. NoConnection \in AnyConnection
  BY ConnectionTypes DEF Connections, AnyConnection
<1> HIDE DEF after
<1>3. Closed(f, w) = [c |-> NoConnection, s |-> NoSocket, child |-> after,
                      open |-> w.open \ {f, w.c.cgi.in, w.c.cgi.out}]
  BY Zenon DEF Closed, after
<1> QED BY <1>1, <1>2, <1>3, KernelTypes DEF Worlds

-----------------------------------------------------------------------------
(* Sets the loop computes from its own state.                              *)
LEMMA WatchedType ==
    ASSUME NEW c \in [FD -> Connections]
    PROVE  Watched(c) \subseteq PollEntry
<1>1. \A fd, of \in Descriptor : \A rank \in 0..2 : \A events \in SUBSET {"IN", "OUT"} :
         Entry(fd, of, rank, events) \in PollEntry
  BY Zenon DEF Entry, PollEntry
<1>2. /\ \A f \in FD : f \in Descriptor
      /\ \A d \in Listener \union {SignalPipe} : d \in Descriptor
  BY DEF Descriptor
<1>3. 0 \in 0..2 /\ 1 \in 0..2 /\ 2 \in 0..2
  OBVIOUS
<1>4. {"IN"} \in SUBSET {"IN", "OUT"} /\ {"OUT"} \in SUBSET {"IN", "OUT"}
      /\ {"IN", "OUT"} \in SUBSET {"IN", "OUT"}
  OBVIOUS
<1>5. \A f \in FD : c[f].cgi.in \in FD \union {NoFd} /\ c[f].cgi.out \in FD \union {NoFd}
  BY DEF Connections, Cgi
<1> SUFFICES ASSUME NEW x \in Watched(c) PROVE x \in PollEntry
  OBVIOUS
<1>6. CASE x \in {Entry(d, d, 0, {"IN"}) : d \in Listener \union {SignalPipe}}
  <2>1. PICK d \in Listener \union {SignalPipe} : x = Entry(d, d, 0, {"IN"})
    BY <1>6, Zenon
  <2> QED BY <1>1, <1>2, <1>3, <1>4, <2>1, Zenon
<1>7. CASE x \in {Entry(f, f, 0, IF WantsWrite(c[f]) THEN {"IN", "OUT"} ELSE {"IN"}) :
                  f \in {g \in FD : c[g].st # "NONE"}}
  <2>1. PICK f \in FD :
           x = Entry(f, f, 0, IF WantsWrite(c[f]) THEN {"IN", "OUT"} ELSE {"IN"})
    BY <1>7, Zenon
  <2>2. x = Entry(f, f, 0, {"IN", "OUT"}) \/ x = Entry(f, f, 0, {"IN"})
    BY <2>1, Zenon
  <2>3. CASE x = Entry(f, f, 0, {"IN", "OUT"})
    BY <1>1, <1>2, <1>3, <1>4, <2>3, Zenon
  <2>4. CASE x = Entry(f, f, 0, {"IN"})
    BY <1>1, <1>2, <1>3, <1>4, <2>4, Zenon
  <2> QED BY <2>2, <2>3, <2>4
<1>8. CASE x \in {Entry(c[f].cgi.in, f, 1, {"OUT"}) :
                  f \in {g \in FD : HasCgi(c[g]) /\ c[g].cgi.in # NoFd}}
  <2>1. PICK f \in FD : c[f].cgi.in # NoFd /\ x = Entry(c[f].cgi.in, f, 1, {"OUT"})
    BY <1>8, Zenon
  <2>2. c[f].cgi.in \in FD
    BY <1>5, <2>1
  <2> QED BY <1>1, <1>2, <1>3, <1>4, <2>1, <2>2, Zenon
<1>9. CASE x \in {Entry(c[f].cgi.out, f, 2, {"IN"}) :
                  f \in {g \in FD : HasCgi(c[g]) /\ c[g].cgi.out # NoFd}}
  <2>1. PICK f \in FD : c[f].cgi.out # NoFd /\ x = Entry(c[f].cgi.out, f, 2, {"IN"})
    BY <1>9, Zenon
  <2>2. c[f].cgi.out \in FD
    BY <1>5, <2>1
  <2> QED BY <1>1, <1>2, <1>3, <1>4, <2>1, <2>2, Zenon
<1> QED BY <1>6, <1>7, <1>8, <1>9, Zenon DEF Watched

LEMMA Apart == SignalPipe \notin FD /\ SignalPipe \notin Listener /\ FD \intersect Listener = {}
<1>1. ASSUME NEW f \in FD PROVE f # SignalPipe /\ f \notin Listener
  BY KernelAssumption
<1>2. ASSUME NEW l \in Listener PROVE l # SignalPipe
  BY KernelAssumption
<1> QED BY <1>1, <1>2

LEMMA SnapshotType ==
    ASSUME pollfds \subseteq PollEntry
    PROVE  Snapshot \subseteq ReadyEntry
<1> DEFINE some == SUBSET {"IN", "OUT", "HUP"}
<1>1. /\ \A s, events : SocketReady(s, events) \in some
      /\ \A ch : StdinReady(ch) \in some /\ StdoutReady(ch) \in some
  BY DEF SocketReady, StdinReady, StdoutReady
<1>2. {"IN"} \in some /\ {"HUP"} \in some /\ {} \in some
  OBVIOUS
<1>3. ASSUME NEW e \in PollEntry PROVE Revents(e) \in some
  <2>1. e.fd \in Descriptor /\ e.rank \in {0, 1, 2}
    BY <1>3 DEF PollEntry
  <2> HIDE DEF some
  <2> DEFINE signal == IF signalled THEN {"IN"} ELSE {}
             waiting == IF backlog[e.fd] > 0 THEN {"IN"} ELSE {}
             data == SocketReady(sock[e.fd], e.events)
             stdin == StdinReady(child[conn[e.of].cgi.pid])
             stdout == StdoutReady(child[conn[e.of].cgi.pid])
  <2>a. /\ signal \in some /\ waiting \in some /\ {"HUP"} \in some
        /\ data \in some /\ stdin \in some /\ stdout \in some
    BY <1>1, <1>2
  <2>b. Revents(e) = CASE e.fd = SignalPipe    -> signal
                       [] e.fd \in Listener    -> waiting
                       [] e.fd \in FD \ open   -> {"HUP"}
                       [] e.fd \in open /\ e.rank = 0 -> data
                       [] e.fd \in open /\ e.rank = 1 -> stdin
                       [] e.fd \in open /\ e.rank = 2 -> stdout
    BY DEF Revents
  <2> HIDE DEF signal, waiting, data, stdin, stdout
  <2>2. CASE e.fd \in FD
    BY <2>a, <2>b, <2>1, <2>2, Apart
  <2>3. CASE e.fd = SignalPipe
    BY <2>a, <2>b, <2>3, Apart
  <2>4. CASE e.fd \in Listener
    BY <2>a, <2>b, <2>4, Apart
  <2> QED BY <2>1, <2>2, <2>3, <2>4 DEF Descriptor
<1> SUFFICES ASSUME NEW e \in pollfds, NEW x,
                    x = [fd |-> e.fd, of |-> e.of, rank |-> e.rank, late |-> e.late,
                         revents |-> Revents(e)]
             PROVE  x \in ReadyEntry
  BY Zenon DEF Snapshot
<1>4. e \in PollEntry
  OBVIOUS
<1>5. Revents(e) \in some
  BY <1>3, <1>4
<1>6. /\ e.fd \in Descriptor /\ e.of \in Descriptor /\ e.rank \in 0..2
      /\ e.late \in BOOLEAN
  BY <1>4, Zenon DEF PollEntry
<1> QED BY <1>5, <1>6, Zenon DEF ReadyEntry

(* accept() returns at most as many descriptors as connections wait.       *)
LEMMA LowestLemma ==
    ASSUME NEW S \in SUBSET FD, NEW n \in Nat
    PROVE  /\ Lowest(S, n) \subseteq S
           /\ IsFiniteSet(Lowest(S, n))
           /\ Cardinality(Lowest(S, n)) \in 0..n
<1> DEFINE below(f) == {g \in S : g < f}
           new == Lowest(S, n)
           index == [f \in new |-> Cardinality(below(f)) + 1]
<1>1. IsFiniteSet(S) /\ S \subseteq Nat
  BY KernelAssumption, FS_Subset
<1>2. new \subseteq S
  BY DEF Lowest
<1>3. IsFiniteSet(new)
  BY <1>1, <1>2, FS_Subset
<1>4. \A f \in S : IsFiniteSet(below(f)) /\ Cardinality(below(f)) \in Nat
  BY <1>1, FS_Subset, FS_CardinalityType
<1>5. \A f \in new : Cardinality(below(f)) < n
  BY DEF Lowest
<1>6. \A f, g \in S : f < g => Cardinality(below(f)) < Cardinality(below(g))
  <2> SUFFICES ASSUME NEW f \in S, NEW g \in S, f < g
               PROVE  Cardinality(below(f)) < Cardinality(below(g))
    OBVIOUS
  <2>a. f \in Nat /\ g \in Nat /\ \A d \in S : d \in Nat
    BY <1>1
  <2>1. below(f) \subseteq below(g) /\ f \in below(g) /\ f \notin below(f)
    <3>1. \A d \in S : d < f => d < g
      BY <2>a
    <3>2. f < g /\ ~(f < f)
      BY <2>a
    <3> QED BY <3>1, <3>2, Zenon
  <2>2. IsFiniteSet(below(g))
    BY <1>4
  <2> HIDE DEF below
  <2>3. below(f) # below(g)
    BY <2>1
  <2> QED BY <2>1, <2>2, <2>3, FS_Subset, <1>4
<1>7. index \in Injection(new, 1..n)
  <2>1. index \in [new -> 1..n]
    BY <1>2, <1>4, <1>5
  <2>2. ASSUME NEW f \in new, NEW g \in new, index[f] = index[g] PROVE f = g
    <3>1. f \in S /\ g \in S /\ f \in Nat /\ g \in Nat
      BY <1>1, <1>2
    <3>2. Cardinality(below(f)) = Cardinality(below(g))
      BY <2>2, <3>1, <1>4
    <3> HIDE DEF below
    <3>3. ~(f < g) /\ ~(g < f)
      BY <3>1, <3>2, <1>4, <1>6
    <3> QED BY <3>1, <3>3
  <2> QED BY <2>1, <2>2 DEF Injection, IsInjective
<1>8. IsFiniteSet(1..n) /\ Cardinality(1..n) = n
  BY FS_Interval
<1>9. Cardinality(new) <= n
  BY <1>3, <1>7, <1>8, FS_Injection
<1> QED BY <1>2, <1>3, <1>9, FS_CardinalityType

-----------------------------------------------------------------------------
(* One call of handlePollEvent changes one connection.  Either it stays on *)
(* its socket, with the pipes it had or with new ones, or it goes; nobody  *)
(* else's descriptors close, and the table changes for its pipes only.     *)
Stays(f, w) ==
    /\ f \in Live /\ w.c.st \notin {"NONE", "CLOSED"} /\ Owns(f, w.c, w.open)
    /\ w.c.cgi.in  \in {NoFd, conn[f].cgi.in}  \union (FD \ open)
    /\ w.c.cgi.out \in {NoFd, conn[f].cgi.out} \union (FD \ open)
    /\ open \ {conn[f].cgi.in, conn[f].cgi.out} \subseteq w.open

Goes(f, w) ==
    /\ w.c = NoConnection
    /\ \A g \in Live \ {f} : f # conn[g].cgi.in /\ f # conn[g].cgi.out
    /\ open \ {f, conn[f].cgi.in, conn[f].cgi.out} \subseteq w.open

Remaps(f, w) ==
    /\ cgiToSocket' \in [FD -> FD \union {NoFd}]
    /\ \A d \in open \ {conn[f].cgi.in, conn[f].cgi.out} : cgiToSocket'[d] = cgiToSocket[d]
    /\ \A d \in FD \ {w.c.cgi.in, w.c.cgi.out} : cgiToSocket'[d] \in {NoFd, cgiToSocket[d]}
    /\ \A d \in {w.c.cgi.in, w.c.cgi.out} \ {NoFd} : cgiToSocket'[d] = f
    /\ \A d \in FD \ w.open : cgiToSocket'[d] = NoFd

LEMMA CommitTypes ==
    ASSUME TypeOK, NEW f \in FD, NEW w \in Worlds, w.c.st # "CLOSED", Commit(f, w)
    PROVE  /\ conn' \in [FD -> Connections] /\ sock' \in [FD -> Socket]
           /\ child' \in [Pid -> Process] /\ open' \subseteq FD
<1>1. w.c \in Connections
  BY Zenon DEF Worlds, AnyConnection, Connections
<1>2. w.s \in Socket /\ w.child \in [Pid -> Process] /\ w.open \subseteq FD
  BY DEF Worlds
<1> QED BY <1>1, <1>2 DEF TypeOK, KernelTypeOK, Commit

LEMMA CommitOwnership ==
    ASSUME TypeOK, Ownership, NEW f \in FD, NEW w \in Worlds, Commit(f, w),
           Stays(f, w) \/ Goes(f, w)
    PROVE  Ownership'
<1>1. /\ conn'[f] = w.c /\ open' = w.open
      /\ \A g \in FD \ {f} : conn'[g] = conn[g]
  BY DEF Commit, TypeOK
<1>2. NoConnection.st = "NONE" /\ NoConnection.cgi.in = NoFd /\ NoConnection.cgi.out = NoFd
  BY DEF NoConnection, NoCgi
<1>3. f \notin Live => conn[f].cgi.in = NoFd /\ conn[f].cgi.out = NoFd
  BY <1>2 DEF Ownership, FreeSlots
<1>4. \A g \in FD \ {f} : g \in Live' <=> g \in Live
  BY <1>1 DEF Live
<1>5. FreeSlots'
  <2> SUFFICES ASSUME NEW g \in FD, g \notin Live' PROVE conn'[g] = NoConnection
    BY DEF FreeSlots
  <2>1. CASE g = f
    BY <1>1, <2>1 DEF Live, Stays, Goes
  <2>2. CASE g # f
    BY <1>1, <1>4, <2>2 DEF Ownership, FreeSlots
  <2> QED BY <2>1, <2>2
<1>6. ASSUME NEW g \in Live, g # f, NEW d \in {g, conn[g].cgi.in, conn[g].cgi.out}, d # NoFd
      PROVE  d \in open /\ d \notin {f, conn[f].cgi.in, conn[f].cgi.out} /\ d \in w.open
  <2>1. d \in open
    BY <1>6 DEF Ownership, HoldsOwn, Owns
  <2>2. d # conn[f].cgi.in /\ d # conn[f].cgi.out
    BY <1>3, <1>6, <2>1 DEF Ownership, Disjoint
  <2>3. d # f
    BY <1>6 DEF Ownership, Disjoint, Stays, Goes
  <2> QED BY <2>1, <2>2, <2>3 DEF Stays, Goes
<1>7. HoldsOwn'
  <2> SUFFICES ASSUME NEW g \in Live' PROVE Owns(g, conn'[g], open')
    BY DEF HoldsOwn
  <2>1. CASE g = f
    BY <1>1, <1>2, <2>1 DEF Live, Stays, Goes
  <2>2. CASE g # f
    <3>1. g \in Live /\ conn'[g] = conn[g] /\ g \in FD
      BY <1>1, <1>4, <2>2 DEF Live
    <3>2. Owns(g, conn[g], open) /\ g # NoFd
      BY <3>1, Bounds DEF Ownership, HoldsOwn
    <3> QED BY <1>1, <1>6, <2>2, <3>1, <3>2 DEF Owns
  <2> QED BY <2>1, <2>2
<1>8. ASSUME Stays(f, w), NEW g \in Live, g # f
      PROVE  {f, w.c.cgi.in, w.c.cgi.out} \intersect {g, conn[g].cgi.in, conn[g].cgi.out}
             \subseteq {NoFd}
  <2>1. ASSUME NEW d \in {g, conn[g].cgi.in, conn[g].cgi.out}, d # NoFd
        PROVE  d \notin {f, w.c.cgi.in, w.c.cgi.out}
    <3>1. d \in open /\ d # f /\ d # conn[f].cgi.in /\ d # conn[f].cgi.out
      BY <1>6, <1>8, <2>1
    <3>2. /\ w.c.cgi.in = NoFd \/ w.c.cgi.in = conn[f].cgi.in \/ w.c.cgi.in \notin open
          /\ w.c.cgi.out = NoFd \/ w.c.cgi.out = conn[f].cgi.out \/ w.c.cgi.out \notin open
      BY <1>8 DEF Stays
    <3> QED
      BY <2>1, <3>1, <3>2, Zenon
  <2> QED BY <2>1
<1>9. Disjoint'
  <2> SUFFICES ASSUME NEW g \in Live', NEW h \in Live', g # h
               PROVE  /\ conn'[g].cgi.in # h /\ conn'[g].cgi.out # h
                      /\ conn'[g].cgi.in # NoFd =>
                            conn'[g].cgi.in \notin {conn'[h].cgi.in, conn'[h].cgi.out}
                      /\ conn'[g].cgi.out # NoFd => conn'[g].cgi.out # conn'[h].cgi.out
    BY DEF Disjoint
  <2>1. g \in FD /\ h \in FD /\ g # NoFd /\ h # NoFd
    BY Bounds DEF Live
  <2>2. g = f \/ h = f => Stays(f, w)
    BY <1>1, <1>2 DEF Live, Goes
  <2>3. CASE g # f /\ h # f
    BY <1>1, <1>4, <2>1, <2>3 DEF Ownership, Disjoint
  <2>4. CASE g = f
    <3>1. h # f /\ h \in Live /\ conn'[h] = conn[h] /\ conn'[g] = w.c
      BY <1>1, <1>4, <2>1, <2>4
    <3> QED BY <1>8, <2>1, <2>2, <2>4, <3>1
  <2>5. CASE h = f
    <3>1. g # f /\ g \in Live /\ conn'[g] = conn[g] /\ conn'[h] = w.c
      BY <1>1, <1>4, <2>1, <2>5
    <3> QED BY <1>8, <2>1, <2>2, <2>5, <3>1
  <2> QED BY <2>3, <2>4, <2>5
<1> QED BY <1>5, <1>7, <1>9 DEF Ownership

LEMMA CommitMapping ==
    ASSUME TypeOK, Ownership, Ownership', Mapping, NEW f \in FD, NEW w \in Worlds,
           Commit(f, w), Stays(f, w) \/ Goes(f, w), Remaps(f, w)
    PROVE  Mapping'
<1>1. /\ conn'[f] = w.c /\ open' = w.open
      /\ \A g \in FD \ {f} : conn'[g] = conn[g]
  BY DEF Commit, TypeOK
<1>2. \A g \in FD \ {f} : g \in Live' <=> g \in Live
  BY <1>1 DEF Live
<1>3. f \in Live' => f \in Live
  BY <1>1 DEF Live, Stays, Goes, NoConnection
<1>4. f \notin Live => conn[f].cgi.in = NoFd /\ conn[f].cgi.out = NoFd
  BY DEF Ownership, FreeSlots, NoConnection, NoCgi
<1>5. Registered'
  <2> SUFFICES ASSUME NEW g \in Live', NEW d \in {conn'[g].cgi.in, conn'[g].cgi.out}, d # NoFd
               PROVE  cgiToSocket'[d] = g
    BY DEF Registered
  <2>1. CASE g = f
    BY <1>1, <2>1 DEF Remaps
  <2>2. CASE g # f
    <3>1. g \in Live /\ conn'[g] = conn[g] /\ g \in FD
      BY <1>1, <1>2, <2>2 DEF Live
    <3>2. d \in open
      BY <3>1 DEF Ownership, HoldsOwn, Owns
    <3>3. d # conn[f].cgi.in /\ d # conn[f].cgi.out
      BY <1>4, <2>2, <3>1 DEF Ownership, Disjoint
    <3>4. cgiToSocket[d] = g
      BY <3>1 DEF Mapping, Registered
    <3> QED BY <3>2, <3>3, <3>4 DEF Remaps
  <2> QED BY <2>1, <2>2
<1>6. ClosedUnmapped'
  BY <1>1 DEF ClosedUnmapped, Remaps
<1>7. SocketsUnmapped'
  <2> SUFFICES ASSUME NEW g \in Live' PROVE cgiToSocket'[g] = NoFd
    BY DEF SocketsUnmapped
  <2>1. g \in Live /\ g \in FD /\ cgiToSocket[g] = NoFd
    BY <1>2, <1>3 DEF Live, Mapping, SocketsUnmapped
  <2>2. g \notin {w.c.cgi.in, w.c.cgi.out}
    <3>1. CASE g = f
      BY <1>1, <3>1, <2>1, Bounds DEF Ownership, HoldsOwn, Owns
    <3>2. CASE g # f
      <4>1. f \in Live' \/ (w.c.cgi.in = NoFd /\ w.c.cgi.out = NoFd)
        BY <1>1 DEF Live, Stays, Goes, NoConnection, NoCgi
      <4> QED BY <1>1, <3>2, <4>1, <2>1, Bounds DEF Ownership, Disjoint
    <3> QED BY <3>1, <3>2
  <2> QED BY <2>1, <2>2 DEF Remaps
<1> QED BY <1>5, <1>6, <1>7 DEF Mapping

LEMMA CommitLemma ==
    ASSUME IInv, NEW f \in FD, NEW w \in Worlds, w.c.st # "CLOSED", Commit(f, w),
           Stays(f, w) \/ Goes(f, w), Remaps(f, w),
           pollfds' = Watched(conn') \/ pollfds' = pollfds,
           ready' \subseteq ready, UNCHANGED <<backlog, signalled, pc>>
    PROVE  IInv'
<1>1. /\ conn' \in [FD -> Connections] /\ sock' \in [FD -> Socket]
      /\ child' \in [Pid -> Process] /\ open' \subseteq FD
  BY CommitTypes DEF IInv
<1>2. pollfds' \subseteq PollEntry
  BY <1>1, WatchedType DEF IInv, TypeOK
<1>3. cgiToSocket' \in [FD -> FD \union {NoFd}]
  BY DEF Remaps
<1>4. TypeOK'
  BY <1>1, <1>2, <1>3 DEF IInv, TypeOK, KernelTypeOK
<1>5. Ownership'
  BY CommitOwnership DEF IInv
<1>6. Mapping'
  BY <1>5, CommitMapping DEF IInv
<1> QED BY <1>4, <1>5, <1>6 DEF IInv

-----------------------------------------------------------------------------
(* The steps of the loop.                                                  *)
LEMMA WorldType ==
    ASSUME TypeOK, NEW f \in FD
    PROVE  World(f) \in Worlds
<1>1. conn[f] \in Connections /\ sock[f] \in Socket
  BY DEF TypeOK, KernelTypeOK
<1>2. conn[f] \in AnyConnection
  BY <1>1, Zenon DEF Connections, AnyConnection
<1>3. child \in [Pid -> Process] /\ open \in SUBSET FD
  BY DEF TypeOK, KernelTypeOK
<1> QED BY <1>1, <1>2, <1>3, Zenon DEF World, Worlds

LEMMA WorldFields ==
    ASSUME NEW f
    PROVE  World(f).c = conn[f] /\ World(f).open = open
BY DEF World

LEMMA UnchangedLemma ==
    ASSUME IInv, ready' \subseteq ready, UNCHANGED <<kernelVars, conn, cgiToSocket, pollfds, pc>>
    PROVE  IInv'
BY DEF IInv, TypeOK, KernelTypeOK, kernelVars, Ownership, FreeSlots, HoldsOwn, Disjoint,
       Mapping, Registered, ClosedUnmapped, SocketsUnmapped, Live

LEMMA PollStep ==
    ASSUME IInv, Poll
    PROVE  IInv'
<1>1. ready' \subseteq ReadyEntry
  BY SnapshotType DEF Poll, IInv, TypeOK
<1>2. TypeOK'
  BY <1>1 DEF Poll, IInv, TypeOK, KernelTypeOK, kernelVars
<1>3. Ownership' /\ Mapping'
  BY DEF Poll, IInv, kernelVars, Ownership, FreeSlots, HoldsOwn, Disjoint,
         Mapping, Registered, ClosedUnmapped, SocketsUnmapped, Live
<1> QED BY <1>2, <1>3 DEF IInv

LEMMA CgiHandledStep ==
    ASSUME IInv, NEW e, e.fd \in FD, NEW f \in Live, CgiHandled(e, f),
           ready' \subseteq ready, UNCHANGED <<backlog, signalled, pc>>, pc = "dispatch"
    PROVE  IInv'
<1> DEFINE in == conn[f].cgi.in
           out == conn[f].cgi.out
           u == World(f)
<1>1. f \in FD /\ Owns(f, conn[f], open)
  BY DEF Live, IInv, Ownership, HoldsOwn
<1>2. u \in Worlds /\ u.c = conn[f] /\ u.open = open
  BY <1>1, WorldType, WorldFields DEF IInv
<1>3. HasCgi(u.c) \/ (u.c.cgi.in = NoFd /\ u.c.cgi.out = NoFd)
  BY <1>1, <1>2 DEF Owns
<1>4. PICK w \in CgiHandlers(e, u) :
         /\ Commit(f, IF CloseCgi(e, w) THEN FinalizeCgi(w) ELSE w)
         /\ cgiToSocket' =
               Erase(cgiToSocket,
                     (IF w.c.cgi.in = NoFd THEN {in} ELSE {})
                     \union (IF CloseCgi(e, w) THEN {w.c.cgi.in, w.c.cgi.out} ELSE {}))
  BY Zenon DEF CgiHandled
<1>5. w \in Worlds /\ Kept(u, w)
  BY <1>2, <1>3, CgiHandlersLemma
<1> HIDE DEF u
<1> DEFINE v == IF CloseCgi(e, w) THEN FinalizeCgi(w) ELSE w
           gone == (IF w.c.cgi.in = NoFd THEN {in} ELSE {})
                   \union (IF CloseCgi(e, w) THEN {w.c.cgi.in, w.c.cgi.out} ELSE {})
<1>6. /\ w.c.cgi.pid = conn[f].cgi.pid /\ w.c.cgi.out = out
      /\ w.c.st \in {conn[f].st, "CGI_READING"}
      /\ \/ w.c.cgi.in = in /\ w.open = open
         \/ w.c.cgi.in = NoFd /\ w.open = open \ {in}
  BY <1>2, <1>5 DEF Kept
<1>7. conn[f].st \notin {"NONE", "CLOSED"} /\ open \subseteq FD
      /\ cgiToSocket \in [FD -> FD \union {NoFd}]
  BY <1>1 DEF IInv, TypeOK, KernelTypeOK, Connections, Live
<1>8. \A d \in {in, out} \ {NoFd} : cgiToSocket[d] = f
  BY DEF IInv, Mapping, Registered
<1>9. \A d \in FD \ open : cgiToSocket[d] = NoFd
  BY DEF IInv, Mapping, ClosedUnmapped
<1>10. v \in Worlds /\ v.c.st # "CLOSED" /\ Stays(f, v) /\ Remaps(f, v)
  <2>1. \A d \in FD : cgiToSocket'[d] = IF d \in gone THEN NoFd ELSE cgiToSocket[d]
    BY <1>4 DEF Erase
  <2>2. cgiToSocket' \in [FD -> FD \union {NoFd}]
    BY <1>4, <1>7 DEF Erase
  <2>3. gone \subseteq {in, out, NoFd}
    BY <1>6
  <2>4. CASE CloseCgi(e, w)
    <3>1. HasCgi(w.c)
      BY <2>4 DEF CloseCgi
    <3>2. /\ v \in Worlds /\ v.c.cgi = NoCgi /\ v.c.st = "WRITING"
          /\ v.open = w.open \ {w.c.cgi.in, w.c.cgi.out}
      BY <1>5, <2>4, <3>1, FinalizeCgiLemma
    <3>3. NoCgi.in = NoFd /\ NoCgi.out = NoFd /\ NoCgi.pid = NoPid
      BY DEF NoCgi
    <3>4. in \in gone \union {NoFd} /\ out \in gone \union {NoFd}
      BY <1>6, <2>4
    <3> HIDE DEF v, gone
    <3>5. v.open = open \ {in, out} /\ f \in v.open
      BY <1>1, <1>6, <1>7, <3>2, Bounds DEF Owns
    <3>6. Stays(f, v)
      BY <3>2, <3>3, <3>5 DEF Stays, Owns, HasCgi
    <3>7. Remaps(f, v)
      BY <1>9, <2>1, <2>2, <2>3, <3>2, <3>3, <3>4, <3>5, <1>7, Bounds DEF Remaps
    <3> QED BY <3>2, <3>6, <3>7
  <2>5. CASE ~CloseCgi(e, w)
    <3>1. v = w /\ gone = IF w.c.cgi.in = NoFd THEN {in} ELSE {}
      BY <2>5
    <3> HIDE DEF v, gone
    <3>2. w.c.st \notin {"NONE", "CLOSED"}
      BY <1>6, <1>7
    <3>3. Stays(f, w)
      BY <1>1, <1>6, <3>2, Bounds DEF Stays, Owns, HasCgi
    <3>4. Remaps(f, w)
      BY <1>1, <1>6, <1>8, <1>9, <2>1, <2>2, <2>3, <3>1, <1>7, Bounds DEF Remaps, Owns
    <3> QED BY <1>5, <3>1, <3>2, <3>3, <3>4
  <2> QED BY <2>4, <2>5
<1>11. Commit(f, v) /\ pollfds' = Watched(conn')
  BY <1>4 DEF CgiHandled
<1> QED BY <1>1, <1>10, <1>11, CommitLemma

LEMMA CgiEventStep ==
    ASSUME IInv, NEW e \in ready, CgiEvent(e)
    PROVE  IInv'
<1>1. /\ pc = "dispatch" /\ e.fd \in FD /\ cgiToSocket[e.fd] # NoFd
      /\ ready' \subseteq ready /\ UNCHANGED <<backlog, signalled, pc>>
  BY DEF CgiEvent, Turn, Handled
<1>2. CASE cgiToSocket[e.fd] \in Live
  BY <1>1, <1>2, CgiHandledStep DEF CgiEvent
<1>3. CASE cgiToSocket[e.fd] \notin Live
  <2>1. /\ cgiToSocket' = Erase(cgiToSocket, {e.fd})
        /\ UNCHANGED <<conn, sock, child, open, pollfds>>
    BY <1>3 DEF CgiEvent
  <2>2. \A d \in FD : cgiToSocket'[d] = IF d = e.fd THEN NoFd ELSE cgiToSocket[d]
    BY <2>1 DEF Erase
  <2>3. TypeOK'
    BY <1>1, <2>1 DEF IInv, TypeOK, KernelTypeOK, Erase
  <2>4. Ownership'
    BY <2>1 DEF IInv, Ownership, FreeSlots, HoldsOwn, Disjoint, Live
  <2>5. \A f \in Live : e.fd \notin {conn[f].cgi.in, conn[f].cgi.out}
    BY <1>1, <1>3, Bounds DEF IInv, Mapping, Registered
  <2>6. \A f \in Live : \A d \in {conn[f].cgi.in, conn[f].cgi.out} \ {NoFd} : d \in FD /\ d # e.fd
    BY <2>5 DEF IInv, TypeOK, Connections, Cgi, Live
  <2>7. Registered'
    BY <2>1, <2>2, <2>6 DEF IInv, Mapping, Registered, Live
  <2>8. ClosedUnmapped' /\ SocketsUnmapped'
    BY <1>1, <2>1, <2>2 DEF IInv, Mapping, ClosedUnmapped, SocketsUnmapped, Live
  <2> QED BY <2>3, <2>4, <2>7, <2>8 DEF IInv, Mapping
<1> QED BY <1>2, <1>3

LEMMA CloseStep ==
    ASSUME IInv, NEW f \in FD, NEW w \in Worlds, cgiToSocket[f] = NoFd,
           w.c.cgi \in {conn[f].cgi, NoCgi}, w.open = open, CloseConnection(f, w),
           ready' \subseteq ready, UNCHANGED <<backlog, signalled, pc>>, pc = "dispatch"
    PROVE  IInv'
<1> DEFINE v == Closed(f, w)
           in == conn[f].cgi.in
           out == conn[f].cgi.out
<1>1. /\ v \in Worlds /\ v.c = NoConnection
      /\ v.open = open \ {f, w.c.cgi.in, w.c.cgi.out}
  BY ClosedLemma
<1>2. /\ Commit(f, v) /\ pollfds' = Watched(conn')
      /\ cgiToSocket' = Erase(cgiToSocket, {w.c.cgi.in, w.c.cgi.out})
  BY DEF CloseConnection
<1> HIDE DEF v
<1>3. NoConnection.st = "NONE" /\ NoConnection.cgi = NoCgi
      /\ NoCgi.in = NoFd /\ NoCgi.out = NoFd
  BY DEF NoConnection, NoCgi
<1>4. {w.c.cgi.in, w.c.cgi.out} \subseteq {in, out, NoFd}
  BY <1>3
<1>5. Goes(f, v)
  <2>1. \A g \in Live \ {f} : f # conn[g].cgi.in /\ f # conn[g].cgi.out
    BY Bounds DEF IInv, Mapping, Registered, Live
  <2>2. open \ {f, in, out} \subseteq v.open
    BY <1>1, <1>4, Bounds DEF IInv, TypeOK, KernelTypeOK
  <2> QED BY <1>1, <2>1, <2>2 DEF Goes
<1>6. Remaps(f, v)
  <2>1. \A d \in FD : cgiToSocket'[d] =
                      IF d \in {w.c.cgi.in, w.c.cgi.out} THEN NoFd ELSE cgiToSocket[d]
    BY <1>2 DEF Erase
  <2>2. cgiToSocket' \in [FD -> FD \union {NoFd}]
    BY <1>2 DEF Erase, IInv, TypeOK
  <2>3. open \subseteq FD /\ \A d \in FD \ open : cgiToSocket[d] = NoFd
    BY DEF IInv, TypeOK, KernelTypeOK, Mapping, ClosedUnmapped
  <2>4. \A d \in FD \ v.open : cgiToSocket'[d] = NoFd
    BY <1>1, <2>1, <2>3
  <2> QED BY <1>1, <1>3, <1>4, <2>1, <2>2, <2>3, <2>4, Bounds DEF Remaps
<1> QED BY <1>1, <1>2, <1>3, <1>5, <1>6, CommitLemma

LEMMA HangUpStep ==
    ASSUME IInv, NEW e \in ready, HangUp(e)
    PROVE  IInv'
<1>1. /\ pc = "dispatch" /\ e.fd \in FD /\ cgiToSocket[e.fd] = NoFd
      /\ ready' \subseteq ready /\ UNCHANGED <<backlog, signalled, pc>>
      /\ CloseConnection(e.fd, World(e.fd))
  BY DEF HangUp, SocketTurn, Turn, Handled
<1>2. World(e.fd) \in Worlds /\ World(e.fd).c = conn[e.fd] /\ World(e.fd).open = open
  BY <1>1, WorldType, WorldFields DEF IInv
<1> QED BY <1>1, <1>2, CloseStep

LEMMA SocketEventStep ==
    ASSUME IInv, NEW e \in ready, SocketEvent(e)
    PROVE  IInv'
<1> DEFINE f == e.fd
           u == World(f)
           in == conn[f].cgi.in
           out == conn[f].cgi.out
<1>1. /\ pc = "dispatch" /\ f \in FD /\ cgiToSocket[f] = NoFd /\ f \in Live
      /\ ready' \subseteq ready /\ UNCHANGED <<backlog, signalled, pc>>
  BY DEF SocketEvent, SocketTurn, Turn, Handled
<1>2. u \in Worlds /\ u.c = conn[f] /\ u.open = open
  BY <1>1, WorldType, WorldFields DEF IInv
<1>3. PICK w \in IF "IN" \in e.revents THEN OnReadable(u) ELSE {u} :
         IF HasCgi(w.c) /\ cgiToSocket[w.c.cgi.out] = NoFd
         THEN /\ Commit(f, w)
              /\ cgiToSocket' = [d \in FD |-> IF d \in {w.c.cgi.in, w.c.cgi.out}
                                              THEN f ELSE cgiToSocket[d]]
              /\ pollfds' = Watched(conn')
         ELSE \E v \in IF "OUT" \in e.revents /\ WantsWrite(w.c) THEN OnWritable(w) ELSE {w} :
                IF IsClosed(v.c)
                THEN CloseConnection(f, v)
                ELSE /\ Commit(f, v)
                     /\ pollfds' = IF WantsWrite(v.c) THEN Watched(conn') ELSE pollfds
                     /\ UNCHANGED cgiToSocket
  BY Zenon DEF SocketEvent
<1> HIDE DEF u
<1>4. conn[f].st \notin {"NONE", "CLOSED"} /\ Owns(f, conn[f], open)
  BY <1>1 DEF IInv, TypeOK, Connections, Live, Ownership, HoldsOwn
<1>5. /\ w \in Worlds
      /\ \/ Untouched(u, w) /\ w.c.st # "NONE"
         \/ Forgotten(u, w) /\ w.c.st = "WRITING"
         \/ Relaunched(u, w) /\ w.c.st \in {"CGI_WRITING", "CGI_READING"}
  BY <1>2, <1>3, <1>4, OnReadableLemma DEF Untouched
<1>6. /\ cgiToSocket \in [FD -> FD \union {NoFd}] /\ open \subseteq FD
      /\ \A d \in FD \ open : cgiToSocket[d] = NoFd
      /\ \A d \in {in, out} \ {NoFd} : cgiToSocket[d] = f
      /\ NoCgi.in = NoFd /\ NoCgi.out = NoFd /\ NoCgi.pid = NoPid
      /\ f # NoFd
  BY <1>1, Bounds DEF IInv, TypeOK, KernelTypeOK, Mapping, ClosedUnmapped, Registered, NoCgi
<1>7. CASE HasCgi(w.c) /\ cgiToSocket[w.c.cgi.out] = NoFd
  <2>1. /\ Commit(f, w) /\ pollfds' = Watched(conn')
        /\ cgiToSocket' = [d \in FD |-> IF d \in {w.c.cgi.in, w.c.cgi.out}
                                        THEN f ELSE cgiToSocket[d]]
    BY <1>3, <1>7
  <2>2. ~Untouched(u, w)
    BY <1>2, <1>4, <1>6, <1>7 DEF Untouched, Owns, HasCgi
  <2>3. ~Forgotten(u, w)
    BY <1>6, <1>7 DEF Forgotten, HasCgi
  <2>4. /\ w.c.cgi.out \in FD \ open /\ w.c.cgi.in \in {NoFd} \union (FD \ open)
        /\ w.c.cgi.in # w.c.cgi.out /\ w.c.st \in {"CGI_WRITING", "CGI_READING"}
        /\ w.open = open \union ({w.c.cgi.in, w.c.cgi.out} \ {NoFd})
    BY <1>2, <1>5, <2>2, <2>3 DEF Relaunched
  <2>5. Stays(f, w)
    BY <1>1, <1>4, <1>7, <2>4, Bounds DEF Stays, Owns
  <2>6. Remaps(f, w)
    <3>1. cgiToSocket' \in [FD -> FD \union {NoFd}]
      BY <1>1, <1>6, <2>1
    <3>2. \A d \in FD : cgiToSocket'[d] = IF d \in {w.c.cgi.in, w.c.cgi.out}
                                        THEN f ELSE cgiToSocket[d]
      BY <2>1
    <3> QED BY <1>6, <2>4, <3>1, <3>2, Bounds DEF Remaps
  <2> QED BY <1>1, <1>5, <2>1, <2>4, <2>5, <2>6, CommitLemma
<1>8. CASE ~(HasCgi(w.c) /\ cgiToSocket[w.c.cgi.out] = NoFd)
  <2>1. PICK v \in IF "OUT" \in e.revents /\ WantsWrite(w.c) THEN OnWritable(w) ELSE {w} :
           IF IsClosed(v.c)
           THEN CloseConnection(f, v)
           ELSE /\ Commit(f, v)
                /\ pollfds' = IF WantsWrite(v.c) THEN Watched(conn') ELSE pollfds
                /\ UNCHANGED cgiToSocket
    BY <1>3, <1>8, Zenon
  <2>2. ~Relaunched(u, w)
    BY <1>2, <1>6, <1>8 DEF Relaunched
  <2>3. /\ w.c.cgi \in {conn[f].cgi, NoCgi} /\ w.open = open /\ w.c.st # "NONE"
    BY <1>2, <1>5, <2>2 DEF Untouched, Forgotten
  <2>4. /\ v \in Worlds /\ v.c.cgi \in {conn[f].cgi, NoCgi} /\ v.open = open
        /\ v.c.st # "NONE"
    BY <1>5, <2>1, <2>3, OnWritableLemma DEF Untouched
  <2>5. CASE IsClosed(v.c)
    BY <1>1, <2>1, <2>4, <2>5, CloseStep
  <2>6. CASE ~IsClosed(v.c)
    <3>1. /\ Commit(f, v) /\ UNCHANGED cgiToSocket
          /\ pollfds' = Watched(conn') \/ pollfds' = pollfds
      BY <2>1, <2>6
    <3>2. v.c.st \notin {"NONE", "CLOSED"}
      BY <2>4, <2>6 DEF IsClosed
    <3>3. Stays(f, v)
      BY <1>1, <1>4, <1>6, <2>4, <3>2 DEF Stays, Owns, HasCgi
    <3>4. Remaps(f, v)
      BY <1>4, <1>6, <2>4, <3>1 DEF Remaps
    <3> QED BY <1>1, <2>4, <3>1, <3>2, <3>3, <3>4, CommitLemma
  <2> QED BY <2>5, <2>6
<1> QED BY <1>7, <1>8

LEMMA AcceptStep ==
    ASSUME IInv, NEW e \in ready, Accept(e)
    PROVE  IInv'
<1> DEFINE new == Lowest(FD \ open, backlog[e.fd])
<1>1. /\ pc = "dispatch" /\ e.fd \in Listener
      /\ open' = open \union new
      /\ backlog' = [backlog EXCEPT ![e.fd] = @ - Cardinality(new)]
      /\ sock' = [f \in FD |-> IF f \in new THEN FreshSocket ELSE sock[f]]
      /\ conn' = [f \in FD |-> IF f \in new THEN NewConnection ELSE conn[f]]
      /\ pollfds' = pollfds \union
            {[Entry(f, f, 0, {"IN"}) EXCEPT !.late = TRUE] : f \in new}
      /\ ready' \subseteq ready /\ UNCHANGED <<child, signalled, cgiToSocket, pc>>
  BY Zenon DEF Accept, Turn
<1>2. backlog \in [Listener -> 0..MaxBacklog] /\ backlog[e.fd] \in Nat
  BY <1>1 DEF IInv, TypeOK, KernelTypeOK
<1>3. new \subseteq FD \ open /\ Cardinality(new) \in 0..backlog[e.fd]
  BY <1>2, LowestLemma
<1> HIDE DEF new
<1>4. TypeOK'
  <2>1. open' \subseteq FD
    BY <1>1, <1>3 DEF IInv, TypeOK, KernelTypeOK
  <2>2. backlog' \in [Listener -> 0..MaxBacklog]
    <3>1. backlog[e.fd] - Cardinality(new) \in 0..MaxBacklog
      BY <1>1, <1>2, <1>3, KernelAssumption
    <3> QED BY <1>1, <1>2, <3>1
  <2>3. sock' \in [FD -> Socket]
    BY <1>1, KernelTypes DEF IInv, TypeOK, KernelTypeOK
  <2>4. conn' \in [FD -> Connections]
    BY <1>1, ConnectionTypes DEF IInv, TypeOK
  <2>5. pollfds' \subseteq PollEntry
    <3>1. ASSUME NEW f \in new
          PROVE  [Entry(f, f, 0, {"IN"}) EXCEPT !.late = TRUE] \in PollEntry
      <4>1. f \in Descriptor /\ 0 \in 0..2 /\ {"IN"} \in SUBSET {"IN", "OUT"}
        BY <1>3 DEF Descriptor
      <4> QED BY <4>1, Zenon DEF Entry, PollEntry
    <3> QED BY <1>1, <3>1 DEF IInv, TypeOK
  <2> QED BY <1>1, <2>1, <2>2, <2>3, <2>4, <2>5 DEF IInv, TypeOK, KernelTypeOK
<1>5. /\ NewConnection.st = "READING" /\ NewConnection.cgi = NoCgi
      /\ NoCgi.in = NoFd /\ NoCgi.out = NoFd /\ NoCgi.pid = NoPid
  BY DEF NewConnection, NoConnection, NoCgi
<1>6. /\ \A f \in new : f \notin Live /\ f \in Live' /\ conn'[f] = NewConnection
      /\ \A f \in FD \ new : conn'[f] = conn[f] /\ (f \in Live' <=> f \in Live)
  BY <1>1, <1>3, <1>5 DEF IInv, Ownership, HoldsOwn, Owns, Live
<1>7. \A f \in Live : Owns(f, conn[f], open)
  BY DEF IInv, Ownership, HoldsOwn
<1>8. FreeSlots'
  BY <1>6 DEF IInv, Ownership, FreeSlots
<1>9. HoldsOwn'
  <2> SUFFICES ASSUME NEW f \in Live' PROVE Owns(f, conn'[f], open')
    BY DEF HoldsOwn
  <2>1. CASE f \in new
    BY <1>1, <1>3, <1>5, <1>6, <2>1, Bounds DEF Owns, HasCgi
  <2>2. CASE f \notin new
    <3>1. f \in Live /\ conn'[f] = conn[f]
      BY <1>6, <2>2 DEF Live
    <3> QED BY <1>1, <1>7, <3>1 DEF Owns
  <2> QED BY <2>1, <2>2
<1>10. Disjoint'
  <2>1. \A f \in Live : \A g \in new : conn[f].cgi.in # g /\ conn[f].cgi.out # g
    BY <1>3, <1>7, Bounds DEF Owns
  <2>2. \A f \in Live' : f \in new \/ f \in Live
    BY <1>6 DEF Live
  <2>3. \A f \in Live' : f \in FD /\ f # NoFd
    BY Bounds DEF Live
  <2> QED BY <1>5, <1>6, <2>1, <2>2, <2>3 DEF Disjoint, IInv, Ownership
<1>11. Mapping'
  <2>1. Registered'
    BY <1>1, <1>5, <1>6 DEF IInv, Mapping, Registered, Live
  <2>2. ClosedUnmapped'
    BY <1>1 DEF IInv, Mapping, ClosedUnmapped
  <2>3. SocketsUnmapped'
    BY <1>1, <1>3, <1>6 DEF IInv, Mapping, SocketsUnmapped, ClosedUnmapped, Live
  <2> QED BY <2>1, <2>2, <2>3 DEF Mapping
<1> QED BY <1>4, <1>8, <1>9, <1>10, <1>11 DEF IInv, Ownership

(* The descriptors that a late CGI and an idle connection give up are      *)
(* theirs alone, so all of them can be closed at once.                     *)
LEMMA CheckTimeoutsStep ==
    ASSUME IInv, CheckTimeouts
    PROVE  IInv'
<1> DEFINE pipes == UNION {{conn[f].cgi.in, conn[f].cgi.out} : f \in LateCgi}
           v(f) == HandleCgiTimeout(World(f))
<1>1. /\ pc = "dispatch" /\ pc' = "poll"
      /\ open' = open \ (pipes \union Idlers)
      /\ cgiToSocket' = Erase(cgiToSocket, pipes)
      /\ child' = [p \in Pid |-> IF \E f \in LateCgi : conn[f].cgi.pid = p
                                 THEN NoProcess ELSE child[p]]
      /\ conn' = [f \in FD |-> IF f \in LateCgi THEN v(f).c
                               ELSE IF f \in Idlers THEN NoConnection ELSE conn[f]]
      /\ sock' = [f \in FD |-> IF f \in Idlers THEN NoSocket ELSE sock[f]]
      /\ pollfds' = Watched(conn') \/ pollfds' = pollfds
      /\ UNCHANGED <<backlog, signalled, ready>>
  BY Zenon DEF CheckTimeouts
<1>2. /\ LateCgi \subseteq Live /\ Idlers \subseteq Live /\ LateCgi \intersect Idlers = {}
      /\ \A f \in LateCgi : HasCgi(conn[f])
      /\ \A f \in Idlers : ~HasCgi(conn[f])
      /\ Live \subseteq FD
  BY DEF LateCgi, Idlers, Live
<1>3. \A f \in LateCgi : v(f).c \in Connections /\ v(f).c.cgi = NoCgi /\ v(f).c.st = "WRITING"
  <2> SUFFICES ASSUME NEW f \in LateCgi
               PROVE  v(f).c \in Connections /\ v(f).c.cgi = NoCgi /\ v(f).c.st = "WRITING"
    OBVIOUS
  <2> DEFINE k == KillCgi(World(f))
  <2>1. World(f) \in Worlds
    BY <1>2, WorldType DEF IInv
  <2>2. k \in Worlds /\ k.c.cgi = NoCgi
    BY <2>1, ForgetCgiLemma, KernelTypes DEF KillCgi
  <2>3. v(f) = Respond(k, "timeout")
    BY DEF HandleCgiTimeout
  <2>4. "timeout" \in Reply
    BY DEF Reply
  <2> HIDE DEF v, k
  <2>5. v(f) \in Worlds /\ v(f).c.cgi = NoCgi /\ v(f).c.st = "WRITING"
    BY <2>2, <2>3, <2>4, RespondLemma
  <2>6. v(f).c \in AnyConnection
    BY <2>5, Zenon DEF Worlds
  <2>7. v(f).c \in Connections
    BY <2>5, <2>6, Zenon DEF AnyConnection, Connections
  <2> QED BY <2>5, <2>7
<1> HIDE DEF v
<1>4. TypeOK'
  <2>1. conn' \in [FD -> Connections]
    BY <1>1, <1>3, ConnectionTypes DEF IInv, TypeOK
  <2>2. child' \in [Pid -> Process] /\ sock' \in [FD -> Socket] /\ open' \subseteq FD
    BY <1>1, KernelTypes DEF IInv, TypeOK, KernelTypeOK
  <2>3. cgiToSocket' \in [FD -> FD \union {NoFd}]
    BY <1>1 DEF Erase, IInv, TypeOK
  <2>4. pollfds' \subseteq PollEntry
    BY <1>1, <2>1, WatchedType DEF IInv, TypeOK
  <2> QED BY <1>1, <2>1, <2>2, <2>3, <2>4 DEF IInv, TypeOK, KernelTypeOK
<1>5. /\ NoConnection.st = "NONE"
      /\ NoCgi.in = NoFd /\ NoCgi.out = NoFd /\ NoCgi.pid = NoPid
  BY DEF NoConnection, NoCgi
<1>6. /\ \A f \in LateCgi : conn'[f].cgi = NoCgi /\ conn'[f].st = "WRITING"
      /\ \A f \in Idlers : conn'[f] = NoConnection
      /\ \A f \in FD \ (LateCgi \union Idlers) : conn'[f] = conn[f]
  BY <1>1, <1>2, <1>3
<1>7. Live' = Live \ Idlers
  BY <1>2, <1>5, <1>6 DEF Live
<1>8. \A f \in Live : Owns(f, conn[f], open) /\ cgiToSocket[f] = NoFd
  BY DEF IInv, Ownership, HoldsOwn, Mapping, SocketsUnmapped
<1>9. \A d \in pipes : \E f \in LateCgi : d = conn[f].cgi.in \/ d = conn[f].cgi.out
  OBVIOUS
<1>10. \A f \in LateCgi : conn[f].cgi.in \in pipes /\ conn[f].cgi.out \in pipes
  OBVIOUS
<1> HIDE DEF pipes
<1>11. ASSUME NEW f \in Live \ Idlers PROVE f \in open'
  <2>1. f \in open /\ f \notin Idlers /\ f # NoFd
    BY <1>2, <1>8, <1>11, Bounds DEF Owns
  <2>2. f \notin pipes
    <3> SUFFICES ASSUME NEW g \in LateCgi, f = conn[g].cgi.in \/ f = conn[g].cgi.out
                 PROVE  FALSE
      BY <1>9
    <3> QED BY <1>2, <1>8, <2>1 DEF Owns, IInv, Ownership, Disjoint
  <2> QED BY <1>1, <2>1, <2>2
<1>12. ASSUME NEW f \in Live \ (Idlers \union LateCgi),
              NEW d \in {conn[f].cgi.in, conn[f].cgi.out}, d # NoFd
       PROVE  d \in open' /\ d \notin pipes
  <2>1. d \in open
    BY <1>8, <1>12 DEF Owns
  <2>2. d \notin Idlers
    BY <1>2, <1>8, <1>12 DEF IInv, Ownership, Disjoint, Owns
  <2>3. d \notin pipes
    <3> SUFFICES ASSUME NEW g \in LateCgi, d = conn[g].cgi.in \/ d = conn[g].cgi.out
                 PROVE  FALSE
      BY <1>9
    <3> QED BY <1>2, <1>12 DEF IInv, Ownership, Disjoint
  <2> QED BY <1>1, <2>1, <2>2, <2>3
<1>13. Ownership'
  <2>1. FreeSlots'
    BY <1>2, <1>6, <1>7 DEF FreeSlots, IInv, Ownership
  <2>2. HoldsOwn'
    <3> SUFFICES ASSUME NEW f \in Live \ Idlers PROVE Owns(f, conn'[f], open')
      BY <1>7 DEF HoldsOwn
    <3>1. CASE f \in LateCgi
      BY <1>5, <1>6, <1>11, <3>1 DEF Owns, HasCgi
    <3>2. CASE f \notin LateCgi
      <4>1. conn'[f] = conn[f]
        BY <1>2, <1>6, <3>2
      <4>2. Owns(f, conn[f], open)
        BY <1>8
      <4> QED BY <1>11, <1>12, <3>2, <4>1, <4>2 DEF Owns
    <3> QED BY <3>1, <3>2
  <2>3. Disjoint'
    <3>1. \A f \in Live \ Idlers : conn'[f].cgi = conn[f].cgi \/ conn'[f].cgi = NoCgi
      BY <1>2, <1>6
    <3>2. \A f \in Live : f # NoFd
      BY <1>2, Bounds
    <3> QED BY <1>5, <1>7, <3>1, <3>2 DEF Disjoint, IInv, Ownership
  <2> QED BY <2>1, <2>2, <2>3 DEF Ownership
<1>14. Mapping'
  <2>1. \A d \in FD : cgiToSocket'[d] = IF d \in pipes THEN NoFd ELSE cgiToSocket[d]
    BY <1>1 DEF Erase
  <2>2. Registered'
    <3> SUFFICES ASSUME NEW f \in Live \ Idlers,
                        NEW d \in {conn'[f].cgi.in, conn'[f].cgi.out}, d # NoFd
                 PROVE  cgiToSocket'[d] = f
      BY <1>7 DEF Registered
    <3>1. f \notin LateCgi
      BY <1>5, <1>6
    <3>2. conn'[f] = conn[f]
      BY <1>2, <1>6, <3>1
    <3>3. d \notin pipes /\ d \in FD
      BY <1>8, <1>12, <3>1, <3>2 DEF Owns, IInv, TypeOK, KernelTypeOK
    <3> QED BY <2>1, <3>2, <3>3 DEF IInv, Mapping, Registered
  <2>3. ClosedUnmapped'
    BY <1>1, <1>2, <1>8, <2>1 DEF IInv, Mapping, ClosedUnmapped
  <2>4. SocketsUnmapped'
    BY <1>2, <1>7, <1>8, <2>1 DEF SocketsUnmapped
  <2> QED BY <2>2, <2>3, <2>4 DEF Mapping
<1> QED BY <1>4, <1>13, <1>14 DEF IInv

LEMMA ShutdownStep ==
    ASSUME IInv, NEW e \in ready, Shutdown(e)
    PROVE  IInv'
<1>1. /\ child' = [p \in Pid |->
                     IF \E f \in {g \in Live : HasCgi(conn[g])} : conn[f].cgi.pid = p
                     THEN NoProcess ELSE child[p]]
      /\ open' \subseteq open
      /\ conn' = [f \in FD |-> NoConnection] /\ sock' = [f \in FD |-> NoSocket]
      /\ pollfds' = {} /\ ready' = {} /\ pc' = "stopped"
      /\ UNCHANGED <<backlog, signalled, cgiToSocket>>
  BY DEF Shutdown
<1>2. TypeOK'
  BY <1>1, KernelTypes, ConnectionTypes DEF IInv, TypeOK, KernelTypeOK
<1>3. Live' = {} /\ \A f \in FD : conn'[f] = NoConnection
  BY <1>1 DEF Live, NoConnection
<1>4. Ownership'
  BY <1>3 DEF Ownership, FreeSlots, HoldsOwn, Disjoint
<1>5. Mapping'
  BY <1>1, <1>3 DEF Mapping, Registered, ClosedUnmapped, SocketsUnmapped
<1> QED BY <1>2, <1>4, <1>5 DEF IInv

(* Time changes nothing that the invariant speaks of.                      *)
LEMMA TickStep ==
    ASSUME IInv, Tick
    PROVE  IInv'
<1>1. /\ conn' = [f \in FD |-> IF f \notin Live THEN conn[f] ELSE
             [conn[f] EXCEPT !.idle = IF @ < IdleTimeout THEN @ + 1 ELSE @,
                             !.age = IF HasCgi(conn[f]) /\ @ < CgiTimeout THEN @ + 1 ELSE @]]
      /\ UNCHANGED <<kernelVars, cgiToSocket, pollfds, ready, pc>>
  BY Zenon DEF Tick
<1>2. ASSUME NEW f \in FD
      PROVE  /\ conn'[f] \in Connections /\ conn'[f].cgi = conn[f].cgi
             /\ conn'[f].st = conn[f].st
             /\ f \notin Live => conn'[f] = conn[f]
  <2> DEFINE c == conn[f]
             idle == IF c.idle < IdleTimeout THEN c.idle + 1 ELSE c.idle
             age == IF HasCgi(c) /\ c.age < CgiTimeout THEN c.age + 1 ELSE c.age
  <2>1. c \in Connections /\ c.idle \in 0..IdleTimeout /\ c.age \in 0..CgiTimeout
    BY DEF IInv, TypeOK, Connections
  <2>2. idle \in 0..IdleTimeout /\ age \in 0..CgiTimeout
    BY <2>1, ConnectionAssumption
  <2>3. conn'[f] = IF f \notin Live THEN c ELSE [c EXCEPT !.idle = idle, !.age = age]
    BY <1>1, Zenon
  <2> HIDE DEF c, idle, age
  <2>4. [c EXCEPT !.idle = idle, !.age = age] \in Connections
        /\ [c EXCEPT !.idle = idle, !.age = age].cgi = c.cgi
        /\ [c EXCEPT !.idle = idle, !.age = age].st = c.st
    BY <2>1, <2>2, Zenon DEF Connections
  <2>5. CASE f \in Live
    BY <2>3, <2>4, <2>5, Zenon DEF c
  <2>6. CASE f \notin Live
    BY <2>1, <2>3, <2>6, Zenon DEF c
  <2> QED BY <2>5, <2>6
<1>3. conn' \in [FD -> Connections]
  <2>1. conn' = [f \in FD |-> conn'[f]]
    BY <1>1, Zenon
  <2> QED BY <1>2, <2>1
<1>4. TypeOK'
  BY <1>1, <1>3 DEF IInv, TypeOK, KernelTypeOK, kernelVars
<1>5. Live' = Live
  BY <1>2 DEF Live
<1>6. Ownership'
  <2>1. open' = open
    BY <1>1 DEF kernelVars
  <2>2. FreeSlots'
    BY <1>2, <1>5 DEF IInv, Ownership, FreeSlots
  <2>3. \A f \in Live : Owns(f, conn'[f], open')
    BY <1>2, <2>1 DEF IInv, Ownership, HoldsOwn, Owns, HasCgi, Live
  <2>4. HoldsOwn'
    BY <1>5, <2>3 DEF HoldsOwn
  <2>5. Disjoint'
    BY <1>2, <1>5 DEF IInv, Ownership, Disjoint, Live
  <2> QED BY <2>2, <2>4, <2>5 DEF Ownership
<1>7. Mapping'
  BY <1>1, <1>2, <1>5 DEF IInv, Mapping, Registered, ClosedUnmapped, SocketsUnmapped,
                          Live, kernelVars
<1> QED BY <1>4, <1>6, <1>7 DEF IInv

(* Clients and programs change sockets and processes, never descriptors.   *)
LEMMA OutsideStep ==
    ASSUME IInv, Outside
    PROVE  IInv'
<1>1. UNCHANGED engineVars
  BY DEF Outside
<1>2. KernelTypeOK
  BY DEF IInv, TypeOK
<1>3. KernelTypeOK' /\ open' = open
  <2>1. ASSUME NEW l \in Listener, Connect(l) PROVE KernelTypeOK' /\ open' = open
    <3>1. backlog[l] + 1 \in 0..MaxBacklog
      BY <1>2, <2>1, KernelAssumption DEF Connect, KernelTypeOK
    <3> QED BY <1>2, <2>1, <3>1 DEF Connect, KernelTypeOK
  <2>2. ASSUME NEW f \in FD,
               ClientSend(f) \/ ClientFin(f) \/ ClientReset(f) \/ ClientDrain(f)
        PROVE  KernelTypeOK' /\ open' = open
    <3>1. sock[f] \in Socket /\ sock[f].more \in 0..MaxSegments
      BY <1>2 DEF KernelTypeOK, Socket
    <3> DEFINE s == sock[f]
    <3>2. \E t \in Socket : sock' = [sock EXCEPT ![f] = t]
      <4>1. CASE ClientSend(f)
        <5> DEFINE n == s.more - 1
        <5>1. n \in 0..MaxSegments
          BY <3>1, <4>1, KernelAssumption DEF ClientSend
        <5>2. sock' = [sock EXCEPT ![f] = [s EXCEPT !.rx = TRUE, !.more = n]]
          BY <1>2, <3>1, <4>1 DEF ClientSend, KernelTypeOK, Socket
        <5> HIDE DEF n
        <5>3. [s EXCEPT !.rx = TRUE, !.more = n] \in Socket
          BY <3>1, <5>1, Zenon DEF Socket
        <5> QED BY <5>2, <5>3
      <4>2. CASE ClientFin(f)
        <5>1. sock' = [sock EXCEPT ![f] = [s EXCEPT !.peer = "fin", !.more = 0]]
          BY <1>2, <3>1, <4>2 DEF ClientFin, KernelTypeOK, Socket
        <5>2. [s EXCEPT !.peer = "fin", !.more = 0] \in Socket
          BY <3>1, Bounds, Zenon DEF Socket
        <5> QED BY <5>1, <5>2
      <4>3. CASE ClientReset(f)
        <5>1. [NoSocket EXCEPT !.peer = "reset"] \in Socket
          BY KernelTypes, Zenon DEF Socket
        <5> QED BY <4>3, <5>1 DEF ClientReset
      <4>4. CASE ClientDrain(f)
        <5>1. sock' = [sock EXCEPT ![f] = [s EXCEPT !.room = TRUE]]
          BY <1>2, <3>1, <4>4 DEF ClientDrain, KernelTypeOK, Socket
        <5>2. [s EXCEPT !.room = TRUE] \in Socket
          BY <3>1, Zenon DEF Socket
        <5> QED BY <5>1, <5>2
      <4> QED BY <2>2, <4>1, <4>2, <4>3, <4>4
    <3>3. UNCHANGED <<open, backlog, child, signalled>>
      BY <2>2 DEF ClientSend, ClientFin, ClientReset, ClientDrain
    <3> QED BY <1>2, <3>2, <3>3 DEF KernelTypeOK
  <2>3. ASSUME NEW p \in Pid,
               ChildWrite(p) \/ ChildRead(p) \/ ChildCloseIn(p) \/ ChildCloseOut(p)
                 \/ ChildEnd(p)
        PROVE  KernelTypeOK' /\ open' = open
    <3> DEFINE ch == child[p]
    <3>1. ch \in Process /\ ch.data \in Nat /\ ch.todo \in 0..MaxOutput
      BY <1>2 DEF KernelTypeOK, Process
    <3>2. \E t \in Process : child' = [child EXCEPT ![p] = t]
      <4>1. CASE ChildWrite(p)
        <5> DEFINE data == ch.data + 1
                   todo == ch.todo - 1
        <5>1. data \in Nat /\ todo \in 0..MaxOutput
          BY <3>1, <4>1, KernelAssumption DEF ChildWrite
        <5>2. child' = [child EXCEPT ![p] = [ch EXCEPT !.data = data, !.todo = todo]]
          BY <1>2, <3>1, <4>1 DEF ChildWrite, KernelTypeOK, Process
        <5> HIDE DEF data, todo
        <5>3. [ch EXCEPT !.data = data, !.todo = todo] \in Process
          BY <3>1, <5>1, Zenon DEF Process
        <5> QED BY <5>2, <5>3
      <4>2. CASE ChildRead(p)
        <5>1. child' = [child EXCEPT ![p] = [ch EXCEPT !.full = FALSE]]
          BY <1>2, <3>1, <4>2 DEF ChildRead, KernelTypeOK, Process
        <5>2. [ch EXCEPT !.full = FALSE] \in Process
          BY <3>1, Zenon DEF Process
        <5> QED BY <5>1, <5>2
      <4>3. CASE ChildCloseIn(p)
        <5>1. child' = [child EXCEPT ![p] = [ch EXCEPT !.reads = FALSE]]
          BY <1>2, <3>1, <4>3 DEF ChildCloseIn, KernelTypeOK, Process
        <5>2. [ch EXCEPT !.reads = FALSE] \in Process
          BY <3>1, Zenon DEF Process
        <5> QED BY <5>1, <5>2
      <4>4. CASE ChildCloseOut(p)
        <5>1. child' = [child EXCEPT ![p] = [ch EXCEPT !.writes = FALSE, !.todo = 0]]
          BY <1>2, <3>1, <4>4 DEF ChildCloseOut, KernelTypeOK, Process
        <5>2. [ch EXCEPT !.writes = FALSE, !.todo = 0] \in Process
          BY <3>1, Bounds, Zenon DEF Process
        <5> QED BY <5>1, <5>2
      <4>5. CASE ChildEnd(p)
        <5>1. PICK status \in {"exited", "killed"} :
                 child' = [child EXCEPT ![p].run = status, ![p].reads = FALSE,
                                        ![p].writes = FALSE, ![p].todo = 0]
          BY <4>5 DEF ChildEnd
        <5>2. child' = [child EXCEPT ![p] = [ch EXCEPT !.run = status, !.reads = FALSE,
                                                      !.writes = FALSE, !.todo = 0]]
          BY <1>2, <3>1, <5>1 DEF KernelTypeOK, Process
        <5>3. status \in {"none", "running", "exited", "killed"}
          OBVIOUS
        <5>4. [ch EXCEPT !.run = status, !.reads = FALSE, !.writes = FALSE, !.todo = 0]
                \in Process
          BY <3>1, <5>3, Bounds, Zenon DEF Process
        <5> QED BY <5>2, <5>4
      <4> QED BY <2>3, <4>1, <4>2, <4>3, <4>4, <4>5
    <3>3. UNCHANGED <<open, backlog, sock, signalled>>
      BY <2>3 DEF ChildWrite, ChildRead, ChildCloseIn, ChildCloseOut, ChildEnd
    <3> QED BY <1>2, <3>2, <3>3 DEF KernelTypeOK
  <2>4. ASSUME Signal PROVE KernelTypeOK' /\ open' = open
    BY <1>2, <2>4 DEF Signal, KernelTypeOK
  <2> QED BY <2>1, <2>2, <2>3, <2>4 DEF Outside, Arrival, Client, Program
<1>4. TypeOK'
  BY <1>1, <1>3 DEF IInv, TypeOK, engineVars
<1>5. Ownership' /\ Mapping'
  BY <1>1, <1>3 DEF IInv, engineVars, Ownership, FreeSlots, HoldsOwn, Disjoint,
                    Mapping, Registered, ClosedUnmapped, SocketsUnmapped, Live
<1> QED BY <1>4, <1>5 DEF IInv

-----------------------------------------------------------------------------
LEMMA InitIInv == Init => IInv
<1> SUFFICES ASSUME Init PROVE IInv
  OBVIOUS
<1>1. /\ conn = [f \in FD |-> NoConnection] /\ cgiToSocket = [f \in FD |-> NoFd]
      /\ pollfds = Watched(conn) /\ ready = {} /\ pc = "poll" /\ KernelInit
  BY DEF Init
<1>2. conn \in [FD -> Connections]
  BY <1>1, ConnectionTypes
<1>3. KernelTypeOK
  <2>1. 0 \in 0..MaxBacklog
    BY KernelAssumption
  <2>2. /\ open = {} /\ backlog = [l \in Listener |-> 0] /\ sock = [f \in FD |-> NoSocket]
        /\ child = [p \in Pid |-> NoProcess] /\ signalled = FALSE
    BY <1>1 DEF KernelInit
  <2>3. backlog \in [Listener -> 0..MaxBacklog]
    BY <2>1, <2>2
  <2>4. sock \in [FD -> Socket] /\ child \in [Pid -> Process]
    BY <2>2, KernelTypes
  <2> QED BY <2>2, <2>3, <2>4 DEF KernelTypeOK
<1>4. TypeOK
  BY <1>1, <1>2, <1>3, WatchedType DEF TypeOK
<1>5. Live = {} /\ \A f \in FD : conn[f] = NoConnection
  BY <1>1 DEF Live, NoConnection
<1>6. Ownership
  BY <1>5 DEF Ownership, FreeSlots, HoldsOwn, Disjoint
<1>7. Mapping
  BY <1>1, <1>5 DEF Mapping, Registered, ClosedUnmapped, SocketsUnmapped
<1> QED BY <1>4, <1>6, <1>7 DEF IInv

LEMMA NextIInv == IInv /\ [Next]_vars => IInv'
<1> SUFFICES ASSUME IInv, [Next]_vars PROVE IInv'
  OBVIOUS
<1>1. CASE Poll
  BY <1>1, PollStep
<1>2. ASSUME NEW e \in ready, Handle(e) PROVE IInv'
  <2>1. CASE CgiEvent(e)
    BY <2>1, CgiEventStep
  <2>2. CASE HangUp(e)
    BY <2>2, HangUpStep
  <2>3. CASE UnknownEvent(e)
    BY <2>3, UnchangedLemma DEF UnknownEvent, SocketTurn, Turn, Handled, kernelVars
  <2>4. CASE SocketEvent(e)
    BY <2>4, SocketEventStep
  <2>5. CASE Accept(e)
    BY <2>5, AcceptStep
  <2>6. CASE Shutdown(e)
    BY <2>6, ShutdownStep
  <2> QED BY <1>2, <2>1, <2>2, <2>3, <2>4, <2>5, <2>6 DEF Handle
<1>3. CASE CheckTimeouts
  BY <1>3, CheckTimeoutsStep
<1>4. CASE Tick
  BY <1>4, TickStep
<1>5. CASE Outside
  BY <1>5, OutsideStep
<1>6. CASE UNCHANGED vars
  BY <1>6, UnchangedLemma DEF vars, engineVars
<1> QED BY <1>1, <1>2, <1>3, <1>4, <1>5, <1>6 DEF Next, Loop

LEMMA IInvOwnership == IInv => DescriptorOwnership
<1> SUFFICES ASSUME IInv, NEW f \in Live, NEW g \in Live, NEW r \in Role, NEW s \in Role,
                    Held(f, r) # NoFd
             PROVE  /\ Held(f, r) \in open
                    /\ Held(f, r) = Held(g, s) => f = g /\ r = s
  BY DEF DescriptorOwnership
<1> DEFINE in(h)  == conn[h].cgi.in
           out(h) == conn[h].cgi.out
<1>1. /\ Owns(f, conn[f], open) /\ Owns(g, conn[g], open)
      /\ f # NoFd /\ g # NoFd
  BY Bounds DEF IInv, Ownership, HoldsOwn, Live
<1>2. /\ Held(f, "socket") = f /\ Held(f, "in") = in(f) /\ Held(f, "out") = out(f)
      /\ Held(g, "socket") = g /\ Held(g, "in") = in(g) /\ Held(g, "out") = out(g)
  BY DEF Held
<1>3. f # g => /\ in(f) # g /\ out(f) # g /\ in(g) # f /\ out(g) # f
               /\ in(f) # NoFd => in(f) # in(g) /\ in(f) # out(g)
               /\ out(f) # NoFd => out(f) # out(g) /\ out(f) # in(g)
  BY DEF IInv, Ownership, Disjoint
<1> HIDE DEF in, out
<1>4. /\ r \in {"socket", "in", "out"} /\ s \in {"socket", "in", "out"}
  BY DEF Role
<1>5. /\ f \in open
      /\ in(f) # NoFd => in(f) \in open /\ in(f) # f /\ in(f) # out(f)
      /\ out(f) # NoFd => out(f) \in open /\ out(f) # f
  BY <1>1 DEF Owns, in, out
<1>6. CASE f = g
  BY <1>1, <1>2, <1>4, <1>5, <1>6
<1>7. CASE f # g
  BY <1>1, <1>2, <1>3, <1>4, <1>5, <1>7
<1> QED BY <1>6, <1>7

(* The state keeps its types: in particular a transfer never takes more    *)
(* than a buffer holds, accept() never more than the backlog, and a        *)
(* connection that a handler has marked CLOSED never outlives the call.    *)
THEOREM TypeCorrect == Spec => []TypeOK
<1>1. IInv => TypeOK
  BY DEF IInv
<1> QED BY InitIInv, NextIInv, <1>1, PTL DEF Spec

(* The sockets and pipes that the connections hold are open and held once, *)
(* in every history of accepts, launches, relaunches, hang-ups, timeouts   *)
(* and shutdown: no close() of ServerEngine or Connection hits a number    *)
(* that meanwhile belongs to another connection.                           *)
THEOREM DescriptorsOwned == Spec => []DescriptorOwnership
BY InitIInv, NextIInv, IInvOwnership, PTL DEF Spec

-----------------------------------------------------------------------------
CgiRoute == Route \ {"page"}

(* What a connection says of itself between two calls.  The verdict of the *)
(* parser is what decides: it stands from the first state that follows the *)
(* reading to the end, and only a verdict that has asked for a CGI leads   *)
(* to one, again when more data comes.                                     *)
Fits(c) ==
    /\ c.st \in {"CGI_READING", "CGI_WRITING"} <=> HasCgi(c)
    /\ c.st = "CGI_WRITING" <=> c.cgi.in # NoFd
    /\ ~HasCgi(c) => c.cgi = NoCgi
    /\ c.st \in {"NONE", "READING"} <=> c.req = "partial"
    /\ c.st \in {"NONE", "READING"} => c.resp = "none" /\ c.left = 0
    /\ HasCgi(c) => c.req \in CgiRoute
    /\ c.st = "WRITING" => c.left > 0

States == \A f \in FD : Fits(conn[f])
SInv   == IInv /\ States /\ PidOwnership

-----------------------------------------------------------------------------
(* What a call leaves of the request and the response.                     *)
SameAnswer(w, x) == x.c.req = w.c.req /\ x.c.resp = w.c.resp /\ x.c.left = w.c.left
SameRuns(w, x)   == \A p \in Pid : x.child[p].run = w.child[p].run

(* The outcomes of one recv(): the end of the stream; a part of a request; *)
(* a response, after which the connection has no CGI or the one it had;    *)
(* and a CGI on a pid that was free.                                       *)
Ended(w, x) ==
    /\ ~w.s.rx /\ x.c.st = "CLOSED" /\ SameAnswer(w, x) /\ x.c.cgi = w.c.cgi
    /\ x.s = w.s /\ x.child = w.child /\ x.open = w.open

Asked(w, x) ==
    /\ w.c.req = "partial" /\ x.c.st = "READING" /\ SameAnswer(w, x)
    /\ x.c.cgi = w.c.cgi /\ x.child = w.child /\ x.open = w.open

Answered(w, x) ==
    /\ x.c.req # "partial" /\ w.c.req \in {"partial", x.c.req}
    /\ x.c.st = "WRITING" /\ x.c.left = MaxResponse /\ x.c.resp \in {"page", "error"}
    /\ x.c.cgi = NoCgi \/ (x.c.cgi = w.c.cgi /\ x.c.req \notin CgiRoute)
    /\ x.child = w.child /\ x.open = w.open

Started(w, x) ==
    /\ x.c.req \in CgiRoute /\ w.c.req \in {"partial", x.c.req}
    /\ x.c.resp = w.c.resp /\ x.c.left = w.c.left
    /\ x.c.st \in {"CGI_WRITING", "CGI_READING"}
    /\ x.c.st = "CGI_WRITING" <=> x.c.cgi.in # NoFd
    /\ Relaunched(w, x)
    /\ x.c.cgi.pid \in Pid
    /\ w.child[x.c.cgi.pid].run = "none" /\ x.child[x.c.cgi.pid].run = "running"
    /\ \A p \in Pid \ {x.c.cgi.pid} : x.child[p] = w.child[p]

Taken(w, x) == x.s = [w.s EXCEPT !.rx = FALSE]

LEMMA RespondFields ==
    ASSUME NEW w \in Worlds, NEW r \in Reply
    PROVE  /\ Respond(w, r).c.st = "WRITING" /\ Respond(w, r).c.resp = r
           /\ Respond(w, r).c.left = MaxResponse /\ Respond(w, r).c.req = w.c.req
           /\ Respond(w, r).c.cgi = w.c.cgi /\ Respond(w, r).s = w.s
           /\ Respond(w, r).child = w.child /\ Respond(w, r).open = w.open
BY Zenon DEF Respond, Worlds, AnyConnection

LEMMA LaunchFields ==
    ASSUME NEW w \in Worlds, NEW body \in 0..MaxInput, NEW x \in LaunchSucceeded(w, body)
    PROVE  /\ x.c.req = w.c.req /\ x.c.resp = w.c.resp /\ x.c.left = w.c.left
           /\ x.s = w.s /\ x.c.st = "CGI_WRITING"
           /\ x.c.cgi.pid \in Pid /\ w.child[x.c.cgi.pid].run = "none"
           /\ x.child = [w.child EXCEPT ![x.c.cgi.pid] = FreshProcess]
<1>1. PICK p \in Pid, i \in Nth(FD \ w.open, 3), o \in Nth(FD \ w.open, 0) :
         w.child[p].run = "none" /\ x = Launched(w, body, p, i, o)
  BY DEF LaunchSucceeded
<1> DEFINE cgi == [pid |-> p, in |-> i, out |-> o, input |-> body,
                   output |-> 0, done |-> FALSE]
<1>2. cgi.pid = p
  OBVIOUS
<1>3. x = [w EXCEPT !.open = @ \union {o, i}, !.child[p] = FreshProcess,
                    !.c.st = "CGI_WRITING", !.c.age = 0, !.c.cgi = cgi]
  BY <1>1, Zenon DEF Launched
<1> HIDE DEF cgi
<1>4. /\ x.c.req = w.c.req /\ x.c.resp = w.c.resp /\ x.c.left = w.c.left
      /\ x.s = w.s /\ x.c.st = "CGI_WRITING" /\ x.c.cgi = cgi
      /\ x.child = [w.child EXCEPT ![p] = FreshProcess]
  BY <1>3, Zenon DEF Worlds, AnyConnection
<1> QED BY <1>1, <1>2, <1>4

LEMMA CloseInFields ==
    ASSUME NEW w \in Worlds
    PROVE  /\ SameAnswer(w, CloseIn(w)) /\ CloseIn(w).s = w.s
           /\ CloseIn(w).child = w.child /\ CloseIn(w).c.st = w.c.st
BY DEF CloseIn, Worlds, AnyConnection, Cgi, SameAnswer

LEMMA LaunchFailedFields ==
    ASSUME NEW w \in Worlds, w.c.req \in CgiRoute
    PROVE  Answered(w, LaunchFailed(w)) /\ LaunchFailed(w).s = w.s
<1> DEFINE v == [w EXCEPT !.c.cgi = NoCgi]
<1>1. /\ v \in Worlds /\ v.c.cgi = NoCgi /\ v.open = w.open /\ v.child = w.child
      /\ v.s = w.s /\ v.c.req = w.c.req
  BY NoCgiType, Zenon DEF Worlds, AnyConnection
<1>2. "error" \in Reply /\ "partial" \notin CgiRoute
  BY DEF Reply, CgiRoute, Route
<1>3. LaunchFailed(w) = Respond(v, "error")
  BY DEF LaunchFailed
<1> HIDE DEF v
<1> QED BY <1>1, <1>2, <1>3, RespondFields DEF Answered

LEMMA StartedLemma ==
    ASSUME NEW w \in Worlds, w.c.req \in CgiRoute, NEW x \in ProcessRequest(w),
           x # LaunchFailed(w)
    PROVE  Started(w, x) /\ x.s = w.s
<1>1. FreshProcess.run = "running" /\ w.child \in [Pid -> Process]
  BY DEF FreshProcess, Worlds
<1>2. CASE w.c.req = "cgiBody"
  <2>1. x \in LaunchSucceeded(w, MaxInput)
    BY <1>2 DEF ProcessRequest
  <2>2. /\ x.c.cgi.in \in FD \ w.open /\ x.c.cgi.out \in FD \ w.open
        /\ x.c.cgi.in # x.c.cgi.out
        /\ x.open = w.open \union {x.c.cgi.in, x.c.cgi.out}
        /\ HasCgi(x.c)
    BY <2>1, LaunchLemma, Bounds
  <2>3. Relaunched(w, x)
    BY <2>2, Bounds DEF Relaunched
  <2>4. /\ x.c.req = w.c.req /\ x.c.resp = w.c.resp /\ x.c.left = w.c.left
        /\ x.s = w.s /\ x.c.st = "CGI_WRITING"
        /\ x.c.cgi.pid \in Pid /\ w.child[x.c.cgi.pid].run = "none"
        /\ x.child = [w.child EXCEPT ![x.c.cgi.pid] = FreshProcess]
    BY <2>1, LaunchFields, Bounds
  <2> QED BY <1>1, <2>2, <2>3, <2>4, Bounds DEF Started
<1>3. CASE w.c.req = "cgi"
  <2>1. PICK v \in LaunchSucceeded(w, 0) : x = [CloseIn(v) EXCEPT !.c.st = "CGI_READING"]
    BY <1>3 DEF ProcessRequest
  <2>2. Relaunched(w, x) /\ x.c.st = "CGI_READING"
    BY <2>1, InputlessLemma
  <2>3. /\ v.c.req = w.c.req /\ v.c.resp = w.c.resp /\ v.c.left = w.c.left
        /\ v.s = w.s
        /\ v.c.cgi.pid \in Pid /\ w.child[v.c.cgi.pid].run = "none"
        /\ v.child = [w.child EXCEPT ![v.c.cgi.pid] = FreshProcess]
        /\ v \in Worlds
    BY <2>1, LaunchFields, LaunchLemma, Bounds
  <2> DEFINE u == CloseIn(v)
  <2>4. /\ SameAnswer(v, u) /\ u.s = v.s /\ u.child = v.child
        /\ u.c.cgi.pid = v.c.cgi.pid /\ u.c.cgi.in = NoFd /\ u \in Worlds
    BY <2>3, CloseInLemma, CloseInFields
  <2>5. x = [u EXCEPT !.c.st = "CGI_READING"]
    BY <2>1
  <2> HIDE DEF u
  <2>6. SameAnswer(u, x) /\ x.s = u.s /\ x.child = u.child /\ x.c.cgi = u.c.cgi
    BY <2>4, <2>5, Zenon DEF Worlds, AnyConnection, SameAnswer
  <2> QED BY <1>1, <2>2, <2>3, <2>4, <2>6 DEF Started, SameAnswer
<1> QED BY <1>2, <1>3 DEF CgiRoute, Route

LEMMA ProcessRequestOutcome ==
    ASSUME NEW w \in Worlds, w.c.req \in Route, NEW x \in ProcessRequest(w)
    PROVE  (Answered(w, x) \/ Started(w, x)) /\ x.s = w.s
<1>1. CASE w.c.req = "page"
  <2>1. x = Respond(w, "page")
    BY <1>1 DEF ProcessRequest
  <2>2. "page" \in Reply /\ "page" \notin CgiRoute
    BY DEF Reply, CgiRoute
  <2> QED BY <1>1, <2>1, <2>2, RespondFields DEF Answered
<1>2. CASE w.c.req \in CgiRoute /\ x = LaunchFailed(w)
  BY <1>2, LaunchFailedFields
<1>3. CASE w.c.req \in CgiRoute /\ x # LaunchFailed(w)
  BY <1>3, StartedLemma
<1> QED BY <1>1, <1>2, <1>3 DEF CgiRoute

LEMMA OnReadableOutcome ==
    ASSUME NEW w \in Worlds, NEW x \in OnReadable(w)
    PROVE  \/ Ended(w, x)
           \/ w.s.rx /\ Taken(w, x) /\ (Asked(w, x) \/ Answered(w, x) \/ Started(w, x))
<1>1. CASE ~w.s.rx
  <2>1. x = [w EXCEPT !.c.st = "CLOSED"]
    BY <1>1 DEF OnReadable
  <2> QED BY <1>1, <2>1, Zenon DEF Worlds, AnyConnection, Ended, SameAnswer
<1>2. CASE w.s.rx
  <2> DEFINE v == MarkActivity([w EXCEPT !.s.rx = FALSE])
  <2>1. PICK verdict \in Verdict :
           /\ x \in Judge(v, verdict)
           /\ w.c.req = "partial" \/ verdict = w.c.req
    <3>1. w.c.req \in Verdict
      BY DEF Worlds, AnyConnection
    <3> QED BY <1>2, <3>1, VerdictAssumption DEF OnReadable
  <2>2. v \in Worlds /\ SameAnswer(w, v) /\ v.c.cgi = w.c.cgi /\ v.open = w.open
        /\ v.child = w.child /\ Taken(w, v)
    <3>1. w.s \in Socket
      BY DEF Worlds
    <3>2. [w.s EXCEPT !.rx = FALSE] \in Socket
      BY <3>1, Zenon DEF Socket
    <3> QED BY <3>2, Bounds, Zenon DEF MarkActivity, Worlds, AnyConnection, SameAnswer, Taken
  <2> HIDE DEF v
  <2>3. CASE verdict = "partial"
    <3>1. x = [v EXCEPT !.c.st = "READING"]
      BY <2>1, <2>3, JudgeCases, Zenon
    <3>2. x.c.st = "READING" /\ SameAnswer(v, x) /\ x.c.cgi = v.c.cgi /\ x.s = v.s
          /\ x.child = v.child /\ x.open = v.open
      BY <2>2, <3>1, Zenon DEF Worlds, AnyConnection, SameAnswer
    <3>3. w.c.req = "partial"
      BY <2>1, <2>3
    <3> QED BY <1>2, <2>2, <3>2, <3>3 DEF Asked, SameAnswer, Taken
  <2> DEFINE u == [v EXCEPT !.c.req = verdict]
  <2>4. /\ u \in Worlds /\ u.c.req = verdict /\ u.c.resp = v.c.resp /\ u.c.left = v.c.left
        /\ u.c.cgi = v.c.cgi /\ u.open = v.open /\ u.child = v.child /\ u.s = v.s
    BY <2>2, Zenon DEF Worlds, AnyConnection
  <2> HIDE DEF u
  <2>5. CASE verdict = "error"
    <3>1. x = Respond(u, "error")
      BY <2>1, <2>5, JudgeCases, Zenon DEF u
    <3>2. "error" \in Reply /\ "error" \notin CgiRoute
      BY DEF Reply, CgiRoute, Route
    <3> QED BY <1>2, <2>1, <2>2, <2>4, <2>5, <3>1, <3>2, RespondFields
            DEF Answered, SameAnswer, Taken
  <2>6. CASE verdict \in Route
    <3>1. x \in ProcessRequest(u)
      BY <2>1, <2>6 DEF Judge, u, Route
    <3>2. u.c.req \in Route
      BY <2>4, <2>6
    <3>3. (Answered(u, x) \/ Started(u, x)) /\ x.s = u.s
      BY <2>4, <3>1, <3>2, ProcessRequestOutcome
    <3>4. w.c.req \in {"partial", u.c.req} /\ u.c.cgi = w.c.cgi /\ u.c.resp = w.c.resp
          /\ u.c.left = w.c.left /\ u.child = w.child /\ u.open = w.open
      BY <2>1, <2>2, <2>4 DEF SameAnswer
    <3>5. verdict # "partial"
      BY <2>6 DEF Route
    <3>6. Answered(u, x) => Answered(w, x)
      BY <2>4, <3>4, <3>5 DEF Answered
    <3>7. Started(u, x) => Started(w, x)
      BY <2>4, <3>4, <3>5 DEF Started, Relaunched
    <3>8. Taken(w, x)
      BY <2>2, <2>4, <3>3 DEF Taken
    <3> QED BY <1>2, <3>3, <3>6, <3>7, <3>8
  <2> QED BY <2>3, <2>5, <2>6 DEF Verdict
<1> QED BY <1>1, <1>2

(* The outcomes of one send(): the connection breaks, or n units leave.    *)
Broken(w, x) ==
    /\ w.s.peer = "reset" \/ ~w.s.room
    /\ x.c.st = "CLOSED" /\ SameAnswer(w, x) /\ x.c.cgi = w.c.cgi
    /\ x.s = w.s /\ x.child = w.child /\ x.open = w.open

Sent(w, x) == \E n \in 1..w.c.left :
    /\ x.c.left = w.c.left - n /\ x.c.st = IF n = w.c.left THEN "CLOSED" ELSE w.c.st
    /\ x.c.req = w.c.req /\ x.c.resp = w.c.resp /\ x.c.cgi = w.c.cgi
    /\ x.s = [w.s EXCEPT !.room = (n = w.c.left)] /\ x.child = w.child /\ x.open = w.open

LEMMA OnWritableOutcome ==
    ASSUME NEW w \in Worlds, w.c.left > 0, NEW x \in OnWritable(w)
    PROVE  Broken(w, x) \/ Sent(w, x)
<1>1. w.c \in AnyConnection /\ w.c.left \in 0..MaxResponse /\ w.s \in Socket
  BY DEF Worlds, AnyConnection
<1>2. w.c.left # 0
  BY <1>1
<1>3. CASE w.s.peer = "reset" \/ ~w.s.room
  <2>1. x = [w EXCEPT !.c.st = "CLOSED"]
    BY <1>2, <1>3 DEF OnWritable
  <2> QED BY <1>3, <2>1, Zenon DEF Worlds, AnyConnection, Broken, SameAnswer
<1>4. CASE ~(w.s.peer = "reset" \/ ~w.s.room)
  <2>1. PICK n \in 1..w.c.left :
           x = MarkActivity([w EXCEPT !.c.left = @ - n,
                                      !.s.room = (n = w.c.left),
                                      !.c.st = IF n = w.c.left THEN "CLOSED" ELSE @])
    BY <1>2, <1>4 DEF OnWritable
  <2> DEFINE l == w.c.left - n
             room == (n = w.c.left)
             st == IF n = w.c.left THEN "CLOSED" ELSE w.c.st
  <2>2. x = [w EXCEPT !.c.left = l, !.s.room = room, !.c.st = st, !.c.idle = 0]
    BY <2>1, Zenon DEF MarkActivity
  <2> HIDE DEF l, room, st
  <2>3. /\ x.c.left = l /\ x.c.st = st /\ x.c.req = w.c.req /\ x.c.resp = w.c.resp
        /\ x.c.cgi = w.c.cgi /\ x.s = [w.s EXCEPT !.room = room]
        /\ x.child = w.child /\ x.open = w.open
    BY <2>2, Zenon DEF Worlds, AnyConnection
  <2> QED BY <2>3 DEF Sent, l, room, st
<1> QED BY <1>3, <1>4

(* What a pipe event changes besides the descriptors: at most, the state   *)
(* follows a stdin that closes.                                            *)
Piped(w, x) ==
    /\ SameAnswer(w, x) /\ x.s = w.s /\ SameRuns(w, x)
    /\ x.c.cgi.pid = w.c.cgi.pid
    /\ \/ x.c.st = w.c.st /\ x.c.cgi.in = w.c.cgi.in
       \/ x.c.st = "CGI_READING" /\ x.c.cgi.in = NoFd

LEMMA OnCgiReadablePiped ==
    ASSUME NEW w \in Worlds, HasCgi(w.c), NEW x \in OnCgiReadable(w)
    PROVE  Piped(w, x)
<1> DEFINE p == w.c.cgi.pid
           ch == w.child[p]
<1>1. w.c \in AnyConnection /\ w.c.cgi \in Cgi /\ w.child \in [Pid -> Process]
  BY DEF Worlds, AnyConnection
<1>2. p \in Pid /\ ch \in Process
  BY <1>1 DEF HasCgi, Cgi
<1>3. CASE w.c.cgi.out = NoFd
  BY <1>3 DEF OnCgiReadable, Piped, SameAnswer, SameRuns
<1>4. CASE w.c.cgi.out # NoFd /\ ch.data = 0
  <2>1. x = [w EXCEPT !.c.cgi.done = TRUE]
    BY <1>4 DEF OnCgiReadable
  <2> QED BY <1>1, <2>1 DEF Worlds, AnyConnection, Cgi, Piped, SameAnswer, SameRuns
<1>5. CASE w.c.cgi.out # NoFd /\ ch.data # 0
  <2>1. PICK n \in 1..ch.data :
           x = MarkActivity([w EXCEPT !.c.cgi.output = @ + n,
                                      !.child[w.c.cgi.pid].data = @ - n])
    BY <1>5 DEF OnCgiReadable
  <2> DEFINE cgi == [w.c.cgi EXCEPT !.output = @ + n]
             read == [ch EXCEPT !.data = @ - n]
  <2>2. cgi.in = w.c.cgi.in /\ cgi.pid = w.c.cgi.pid /\ read.run = ch.run
    BY <1>1, <1>2, Zenon DEF Cgi, Process
  <2>3. x = [w EXCEPT !.c.cgi = cgi, !.child[p] = read, !.c.idle = 0]
    BY <2>1, <1>1, <1>2 DEF MarkActivity, Worlds, AnyConnection, Cgi
  <2> HIDE DEF cgi, read, p
  <2>4. /\ SameAnswer(w, x) /\ x.s = w.s /\ x.c.st = w.c.st /\ x.c.cgi = cgi
        /\ x.child = [w.child EXCEPT ![p] = read]
    BY <1>1, <2>3, Zenon DEF Worlds, AnyConnection, SameAnswer
  <2> QED BY <1>1, <2>2, <2>4 DEF Piped, SameRuns, p
<1> QED BY <1>3, <1>4, <1>5

LEMMA OnCgiWritablePiped ==
    ASSUME NEW w \in Worlds, HasCgi(w.c), NEW x \in OnCgiWritable(w)
    PROVE  Piped(w, x)
<1> DEFINE p == w.c.cgi.pid
           ch == w.child[p]
           blocked == w.c.cgi.input = 0 \/ ~ch.reads \/ ch.full
<1>1. w.c \in AnyConnection /\ w.c.cgi \in Cgi /\ w.child \in [Pid -> Process]
  BY DEF Worlds, AnyConnection
<1>2. p \in Pid /\ ch \in Process
  BY <1>1 DEF HasCgi, Cgi
<1>3. CASE w.c.cgi.in = NoFd
  BY <1>3 DEF OnCgiWritable, Piped, SameAnswer, SameRuns
<1>4. CASE w.c.cgi.in # NoFd /\ blocked
  <2> DEFINE v == CloseIn(w)
             z == [v EXCEPT !.c.st = "CGI_READING"]
  <2>1. x = z
    BY <1>4 DEF OnCgiWritable
  <2>2. /\ v \in Worlds /\ v.c.cgi.in = NoFd /\ v.c.cgi.pid = w.c.cgi.pid
        /\ SameAnswer(w, v) /\ v.s = w.s /\ v.child = w.child
    BY CloseInLemma, CloseInFields
  <2> HIDE DEF v
  <2>3. z.c.st = "CGI_READING" /\ SameAnswer(v, z) /\ z.c.cgi = v.c.cgi /\ z.s = v.s
        /\ z.child = v.child
    BY <2>2, Zenon DEF Worlds, AnyConnection, SameAnswer
  <2> HIDE DEF z
  <2> QED BY <2>1, <2>2, <2>3 DEF Piped, SameAnswer, SameRuns
<1>5. CASE w.c.cgi.in # NoFd /\ ~blocked
  <2>1. PICK n \in 1..w.c.cgi.input :
           x = MarkActivity([w EXCEPT !.c.cgi.input = @ - n,
                                      !.child[w.c.cgi.pid].full = (n < w.c.cgi.input)])
    BY <1>5 DEF OnCgiWritable
  <2> DEFINE cgi == [w.c.cgi EXCEPT !.input = @ - n]
             written == [ch EXCEPT !.full = (n < w.c.cgi.input)]
  <2>2. cgi.in = w.c.cgi.in /\ cgi.pid = w.c.cgi.pid /\ written.run = ch.run
    BY <1>1, <1>2, Zenon DEF Cgi, Process
  <2>3. x = [w EXCEPT !.c.cgi = cgi, !.child[p] = written, !.c.idle = 0]
    BY <2>1, <1>1, <1>2 DEF MarkActivity, Worlds, AnyConnection, Cgi
  <2> HIDE DEF cgi, written, p
  <2>4. /\ SameAnswer(w, x) /\ x.s = w.s /\ x.c.st = w.c.st /\ x.c.cgi = cgi
        /\ x.child = [w.child EXCEPT ![p] = written]
    BY <1>1, <2>3, Zenon DEF Worlds, AnyConnection, SameAnswer
  <2> QED BY <1>1, <2>2, <2>4 DEF Piped, SameRuns, p
<1> QED BY <1>3, <1>4, <1>5

LEMMA CgiHandlersPiped ==
    ASSUME NEW e, e.fd \in FD, NEW w \in Worlds,
           HasCgi(w.c) \/ (w.c.cgi.in = NoFd /\ w.c.cgi.out = NoFd),
           NEW x \in CgiHandlers(e, w)
    PROVE  Piped(w, x) /\ (HasCgi(w.c) \/ x = w)
<1> DEFINE reads == e.fd = w.c.cgi.out /\ e.revents \intersect {"IN", "HUP"} # {}
           writes == e.fd = w.c.cgi.in /\ "OUT" \in e.revents
           read == IF reads THEN OnCgiReadable(w) ELSE {w}
<1>1. reads \/ writes => HasCgi(w.c)
  BY Bounds DEF NoCgi
<1>2. ASSUME NEW v \in read
      PROVE  v \in Worlds /\ Piped(w, v) /\ (HasCgi(w.c) => HasCgi(v.c)) /\ (HasCgi(w.c) \/ v = w)
  <2>1. CASE reads
    <3>1. v \in OnCgiReadable(w) /\ HasCgi(w.c)
      BY <1>1, <1>2, <2>1
    <3>2. v \in Worlds /\ Piped(w, v)
      BY <3>1, OnCgiReadableLemma, OnCgiReadablePiped
    <3> QED BY <3>1, <3>2 DEF Piped, HasCgi
  <2>2. CASE ~reads
    BY <1>2, <2>2 DEF Piped, SameAnswer, SameRuns
  <2> QED BY <2>1, <2>2
<1>3. x \in (IF writes THEN UNION {OnCgiWritable(v) : v \in read} ELSE read)
  BY DEF CgiHandlers
<1> HIDE DEF read
<1>4. CASE writes
  <2>1. PICK v \in read : x \in OnCgiWritable(v)
    BY <1>3, <1>4
  <2>2. v \in Worlds /\ Piped(w, v) /\ HasCgi(v.c)
    BY <1>1, <1>2, <1>4
  <2>3. Piped(v, x)
    BY <2>1, <2>2, OnCgiWritablePiped
  <2> QED BY <1>1, <1>4, <2>2, <2>3 DEF Piped, SameAnswer, SameRuns
<1>5. CASE ~writes
  BY <1>2, <1>3, <1>5
<1> QED BY <1>4, <1>5

LEMMA ForgetCgiFields ==
    ASSUME NEW w \in Worlds, HasCgi(w.c), NEW ch \in Process
    PROVE  /\ SameAnswer(w, ForgetCgi(w, ch)) /\ ForgetCgi(w, ch).s = w.s
           /\ \A p \in Pid \ {w.c.cgi.pid} : ForgetCgi(w, ch).child[p] = w.child[p]
<1>1. w.child \in [Pid -> Process]
  BY DEF Worlds
<1>2. /\ SameAnswer(w, ForgetCgi(w, ch)) /\ ForgetCgi(w, ch).s = w.s
      /\ ForgetCgi(w, ch).child = [w.child EXCEPT ![w.c.cgi.pid] = ch]
  BY Zenon DEF ForgetCgi, Worlds, AnyConnection, SameAnswer
<1> QED BY <1>1, <1>2

(* A CGI that ends leaves a reply of its own, and every other process.     *)
Finished(w, x, replies) ==
    /\ x.c.st = "WRITING" /\ x.c.resp \in replies /\ x.c.left = MaxResponse
    /\ x.c.req = w.c.req /\ x.c.cgi = NoCgi /\ x.s = w.s
    /\ \A p \in Pid \ {w.c.cgi.pid} : x.child[p] = w.child[p]

LEMMA FinalizeCgiOutcome ==
    ASSUME NEW w \in Worlds, HasCgi(w.c)
    PROVE  Finished(w, FinalizeCgi(w), {"badGateway", "truncated", "output"})
<1> DEFINE ch == w.child[w.c.cgi.pid]
           reply == IF ch.run = "killed" \/ w.c.cgi.output = 0 THEN "badGateway"
                    ELSE IF ch.data > 0 \/ ch.writes THEN "truncated" ELSE "output"
           left == IF Zombie(ch) THEN NoProcess ELSE Abandoned(ch)
<1>1. ch \in Process
  BY DEF Worlds, AnyConnection, Cgi, HasCgi
<1>2. reply \in Reply /\ reply \in {"badGateway", "truncated", "output"}
  BY DEF Reply
<1>3. left \in Process
  BY <1>1, KernelTypes
<1>4. FinalizeCgi(w) = Respond(ForgetCgi(w, left), reply)
  BY Zenon DEF FinalizeCgi
<1> HIDE DEF reply, left
<1> QED BY <1>2, <1>3, <1>4, ForgetCgiLemma, ForgetCgiFields, RespondFields
        DEF Finished, SameAnswer

LEMMA TimeoutOutcome ==
    ASSUME NEW w \in Worlds, HasCgi(w.c)
    PROVE  Finished(w, HandleCgiTimeout(w), {"timeout"})
<1>1. KillCgi(w) = ForgetCgi(w, NoProcess) /\ "timeout" \in Reply
  BY DEF KillCgi, Reply
<1> QED BY <1>1, KernelTypes, ForgetCgiLemma, ForgetCgiFields, RespondFields
        DEF HandleCgiTimeout, Finished, SameAnswer

LEMMA ClosedRuns ==
    ASSUME NEW f, NEW w \in Worlds
    PROVE  SameRuns(w, Closed(f, w)) /\ Closed(f, w).s = NoSocket
<1>1. Closed(f, w).s = NoSocket
      /\ Closed(f, w).child = IF HasCgi(w.c)
                              THEN [w.child EXCEPT ![w.c.cgi.pid] = Abandoned(@)] ELSE w.child
  BY DEF Closed
<1>2. w.child \in [Pid -> Process]
  BY DEF Worlds
<1>3. \A ch \in Process : Abandoned(ch).run = ch.run
  BY DEF Abandoned, NoProcess
<1> QED BY <1>1, <1>2, <1>3 DEF SameRuns

-----------------------------------------------------------------------------
(* handlePollEvent on a client's socket: what the recv() makes of the      *)
(* world u and the send() of w; and what the event does with the result.   *)
Received(e, u, w) ==
    IF "IN" \in e.revents
    THEN \/ Ended(u, w)
         \/ u.s.rx /\ Taken(u, w) /\ (Asked(u, w) \/ Answered(u, w) \/ Started(u, w))
    ELSE w = u

Written(e, w, v) ==
    IF "OUT" \in e.revents /\ w.c.st = "WRITING" THEN Broken(w, v) \/ Sent(w, v) ELSE v = w

Registers(f, w) ==
    /\ Commit(f, w)
    /\ pollfds' = Watched(conn')
    /\ cgiToSocket' = [d \in FD |-> IF d \in {w.c.cgi.in, w.c.cgi.out} THEN f ELSE cgiToSocket[d]]

Continues(f, v) ==
    /\ Commit(f, v) /\ v.c.st # "CLOSED"
    /\ pollfds' = IF v.c.st = "WRITING" THEN Watched(conn') ELSE pollfds
    /\ UNCHANGED cgiToSocket

SocketStep(e, w, v) ==
    LET f == e.fd  u == World(f)
    IN  /\ Received(e, u, w)
        /\ \/ Started(u, w) /\ v = w /\ Registers(f, w)
           \/ /\ ~Started(u, w) /\ Written(e, w, v)
              /\ \/ v.c.st = "CLOSED" /\ CloseConnection(f, v)
                 \/ Continues(f, v)

LEMMA SocketOutcome ==
    ASSUME IInv, States, NEW e \in ready, SocketEvent(e)
    PROVE  /\ e.fd \in FD /\ e.fd \in Live /\ cgiToSocket[e.fd] = NoFd /\ "HUP" \notin e.revents
           /\ ready' = ready \ {e} /\ Turn(e) /\ UNCHANGED <<backlog, signalled, pc>>
           /\ \E w, v \in Worlds : SocketStep(e, w, v)
<1> DEFINE f == e.fd
           u == World(f)
<1>1. /\ f \in FD /\ f \in Live /\ cgiToSocket[f] = NoFd /\ "HUP" \notin e.revents
      /\ ready' = ready \ {e} /\ Turn(e) /\ UNCHANGED <<backlog, signalled, pc>>
  BY DEF SocketEvent, SocketTurn, Handled
<1>2. u \in Worlds /\ u.c = conn[f] /\ u.open = open
  BY <1>1, WorldType, WorldFields DEF IInv
<1>3. PICK w \in IF "IN" \in e.revents THEN OnReadable(u) ELSE {u} :
         IF HasCgi(w.c) /\ cgiToSocket[w.c.cgi.out] = NoFd
         THEN Registers(f, w)
         ELSE \E v \in IF "OUT" \in e.revents /\ WantsWrite(w.c) THEN OnWritable(w) ELSE {w} :
                IF IsClosed(v.c)
                THEN CloseConnection(f, v)
                ELSE /\ Commit(f, v)
                     /\ pollfds' = IF WantsWrite(v.c) THEN Watched(conn') ELSE pollfds
                     /\ UNCHANGED cgiToSocket
  BY Zenon DEF SocketEvent, Registers
<1> HIDE DEF u
<1>4. w \in Worlds /\ Received(e, u, w)
  <2>1. CASE "IN" \in e.revents
    BY <1>2, <1>3, <2>1, OnReadableLemma, OnReadableOutcome DEF Received
  <2>2. CASE "IN" \notin e.revents
    BY <1>2, <1>3, <2>2 DEF Received
  <2> QED BY <2>1, <2>2
<1>5. Owns(f, conn[f], open) /\ Fits(conn[f])
  BY <1>1 DEF IInv, Ownership, HoldsOwn, States
<1>6. /\ \A d \in FD \ open : cgiToSocket[d] = NoFd
      /\ \A d \in {conn[f].cgi.in, conn[f].cgi.out} \ {NoFd} : cgiToSocket[d] = f
      /\ ~HasCgi([cgi |-> NoCgi]) /\ f # NoFd
  BY <1>1, Bounds DEF Turn, IInv, Mapping, ClosedUnmapped, Registered, NoCgi, HasCgi
<1>7. Started(u, w) => HasCgi(w.c) /\ cgiToSocket[w.c.cgi.out] = NoFd
  BY <1>2, <1>6 DEF Started, Relaunched
<1>8. ~Started(u, w) => ~(HasCgi(w.c) /\ cgiToSocket[w.c.cgi.out] = NoFd)
  <2> SUFFICES ASSUME ~Started(u, w), HasCgi(w.c), cgiToSocket[w.c.cgi.out] = NoFd
               PROVE  FALSE
    OBVIOUS
  <2>1. w.c.cgi = u.c.cgi \/ w.c.cgi = NoCgi
    BY <1>4 DEF Received, Ended, Asked, Answered
  <2>2. w.c.cgi # NoCgi
    BY <1>6 DEF HasCgi
  <2>3. w.c.cgi = conn[f].cgi
    BY <1>2, <2>1, <2>2
  <2> QED BY <1>5, <1>6, <2>3 DEF Owns, HasCgi
<1>9. CASE Started(u, w)
  <2>1. SocketStep(e, w, w)
    BY <1>3, <1>4, <1>7, <1>9 DEF SocketStep, u
  <2> QED BY <1>1, <1>4, <2>1
<1>10. CASE ~Started(u, w)
  <2>1. PICK v \in IF "OUT" \in e.revents /\ WantsWrite(w.c) THEN OnWritable(w) ELSE {w} :
           IF IsClosed(v.c)
           THEN CloseConnection(f, v)
           ELSE /\ Commit(f, v)
                /\ pollfds' = IF WantsWrite(v.c) THEN Watched(conn') ELSE pollfds
                /\ UNCHANGED cgiToSocket
    BY <1>3, <1>8, <1>10, Zenon
  <2>2. w.c.st = "WRITING" => w.c.left > 0
    <3>1. MaxResponse > 0
      BY ConnectionAssumption
    <3> QED BY <1>2, <1>4, <1>5, <1>10, <3>1 DEF Received, Ended, Asked, Answered, Fits
  <2>3. v \in Worlds /\ Written(e, w, v)
    <3>1. CASE "OUT" \in e.revents /\ WantsWrite(w.c)
      BY <1>4, <2>1, <2>2, <3>1, OnWritableLemma, OnWritableOutcome DEF Written, WantsWrite
    <3>2. CASE ~("OUT" \in e.revents /\ WantsWrite(w.c))
      BY <1>4, <2>1, <3>2 DEF Written, WantsWrite
    <3> QED BY <3>1, <3>2
  <2>4. (v.c.st = "CLOSED" /\ CloseConnection(f, v)) \/ Continues(f, v)
    BY <2>1 DEF IsClosed, WantsWrite, Continues
  <2>5. SocketStep(e, w, v)
    BY <1>4, <1>10, <2>3, <2>4 DEF SocketStep, u
  <2> QED BY <1>1, <1>4, <2>3, <2>5
<1> QED BY <1>9, <1>10

(* The connection that results still says of itself what it should.        *)
LEMMA ReceivedFits ==
    ASSUME NEW e, NEW u \in Worlds, NEW w \in Worlds, Fits(u.c), Received(e, u, w)
    PROVE  Fits(w.c) \/ w.c.st = "CLOSED"
<1>1. MaxResponse > 0
  BY ConnectionAssumption
<1>2. /\ NoCgi.pid = NoPid /\ NoCgi.in = NoFd /\ "page" \notin CgiRoute
      /\ "partial" \notin CgiRoute /\ "error" \notin CgiRoute
  BY DEF NoCgi, CgiRoute, Route
<1>3. CASE w = u \/ Ended(u, w)
  BY <1>3 DEF Ended
<1>4. CASE Asked(u, w)
  BY <1>2, <1>4 DEF Asked, Fits, SameAnswer, HasCgi
<1>5. CASE Answered(u, w)
  BY <1>1, <1>2, <1>5 DEF Answered, Fits, HasCgi
<1>6. CASE Started(u, w)
  BY <1>2, <1>6 DEF Started, Relaunched, Fits, HasCgi
<1> QED BY <1>3, <1>4, <1>5, <1>6 DEF Received

LEMMA WrittenFits ==
    ASSUME NEW e, NEW w \in Worlds, NEW v \in Worlds,
           Fits(w.c) \/ w.c.st = "CLOSED", Written(e, w, v)
    PROVE  Fits(v.c) \/ v.c.st = "CLOSED"
<1>1. CASE v = w \/ Broken(w, v)
  BY <1>1 DEF Broken
<1>2. CASE "OUT" \in e.revents /\ w.c.st = "WRITING" /\ Sent(w, v)
  <2>1. PICK n \in 1..w.c.left :
           /\ v.c.left = w.c.left - n /\ v.c.st = IF n = w.c.left THEN "CLOSED" ELSE w.c.st
           /\ v.c.req = w.c.req /\ v.c.resp = w.c.resp /\ v.c.cgi = w.c.cgi
    BY <1>2 DEF Sent
  <2>2. w.c.left \in 0..MaxResponse /\ MaxResponse \in Nat
    BY ConnectionAssumption DEF Worlds, AnyConnection
  <2>3. n # w.c.left => v.c.left > 0
    BY <2>1, <2>2
  <2> QED BY <1>2, <2>1, <2>3 DEF Fits, HasCgi
<1> QED BY <1>1, <1>2 DEF Written

LEMMA PipedFits ==
    ASSUME NEW w \in Worlds, NEW x \in Worlds, Fits(w.c), Piped(w, x), HasCgi(w.c) \/ x = w
    PROVE  Fits(x.c)
BY DEF Piped, Fits, SameAnswer, HasCgi

LEMMA FinishedFits ==
    ASSUME NEW w \in Worlds, NEW x \in Worlds, Fits(w.c), HasCgi(w.c), NEW R, Finished(w, x, R)
    PROVE  Fits(x.c)
<1>1. MaxResponse > 0
  BY ConnectionAssumption
<1>2. NoCgi.pid = NoPid /\ NoCgi.in = NoFd /\ "partial" \notin CgiRoute
  BY DEF NoCgi, CgiRoute, Route
<1> QED BY <1>1, <1>2 DEF Finished, Fits, HasCgi

LEMMA NoConnectionFits == Fits(NoConnection) /\ Fits(NewConnection)
BY DEF Fits, NoConnection, NewConnection, NoCgi, HasCgi

(* A call on connection f leaves the processes of the others alone: the    *)
(* one it starts was nobody's.                                             *)
KeepsRuns(f, w) ==
    /\ \A p \in Pid \ {conn[f].cgi.pid} : child[p].run # "none" => w.child[p].run # "none"
    /\ HasCgi(w.c) =>
          /\ w.child[w.c.cgi.pid].run # "none"
          /\ w.c.cgi.pid = conn[f].cgi.pid \/ child[w.c.cgi.pid].run = "none"

LEMMA CommitState ==
    ASSUME SInv, NEW f \in FD, NEW w \in Worlds, Commit(f, w), Fits(w.c), KeepsRuns(f, w)
    PROVE  States' /\ PidOwnership'
<1>1. /\ conn'[f] = w.c /\ child' = w.child
      /\ \A g \in FD \ {f} : conn'[g] = conn[g]
  BY DEF Commit, SInv, IInv, TypeOK
<1>2. States'
  BY <1>1 DEF SInv, States
<1>3. \A g \in FD : HasCgi(conn[g]) => conn[g].cgi.pid \in Pid /\ child[conn[g].cgi.pid].run # "none"
  BY DEF SInv, PidOwnership, IInv, TypeOK, Connections, Cgi, HasCgi
<1>4. \A g \in FD : \A h \in FD \ {g} : HasCgi(conn[g]) => conn[h].cgi.pid # conn[g].cgi.pid
  BY DEF SInv, PidOwnership
<1>5. ASSUME NEW g \in FD \ {f}, HasCgi(conn[g])
      PROVE  w.child[conn[g].cgi.pid].run # "none" /\ w.c.cgi.pid # conn[g].cgi.pid
  <2>1. conn[g].cgi.pid # conn[f].cgi.pid /\ conn[g].cgi.pid \in Pid
    BY <1>3, <1>4, <1>5
  <2> QED BY <1>3, <1>5, <2>1 DEF KeepsRuns, HasCgi
<1>6. PidOwnership'
  <2> SUFFICES ASSUME NEW g \in FD, HasCgi(conn'[g])
               PROVE  /\ child'[conn'[g].cgi.pid].run # "none"
                      /\ \A h \in FD \ {g} : conn'[h].cgi.pid # conn'[g].cgi.pid
    BY DEF PidOwnership, HasCgi
  <2>1. CASE g = f
    BY <1>1, <1>5, <2>1 DEF KeepsRuns, HasCgi
  <2>2. CASE g # f
    BY <1>1, <1>4, <1>5, <2>2
  <2> QED BY <2>1, <2>2
<1> QED BY <1>2, <1>6

-----------------------------------------------------------------------------
(* handlePollEvent on a pipe: what the reads and writes make of the world, *)
(* and closeCgi of that.                                                   *)
CgiStep(e, f, w, x) ==
    /\ Kept(World(f), w) /\ Piped(World(f), w) /\ (HasCgi(conn[f]) \/ w = World(f))
    /\ IF CloseCgi(e, w)
       THEN /\ HasCgi(w.c) /\ Finished(w, x, {"badGateway", "truncated", "output"})
            /\ x.open = w.open \ {w.c.cgi.in, w.c.cgi.out}
       ELSE x = w
    /\ Commit(f, x)
    /\ cgiToSocket' = Erase(cgiToSocket,
                            (IF w.c.cgi.in = NoFd THEN {conn[f].cgi.in} ELSE {})
                            \union (IF CloseCgi(e, w) THEN {w.c.cgi.in, w.c.cgi.out} ELSE {}))
    /\ pollfds' = Watched(conn')

LEMMA CgiOutcome ==
    ASSUME IInv, NEW e, e.fd \in FD, NEW f \in Live, CgiHandled(e, f)
    PROVE  f \in FD /\ \E w, x \in Worlds : CgiStep(e, f, w, x)
<1> DEFINE u == World(f)
<1>1. f \in FD /\ Owns(f, conn[f], open)
  BY DEF Live, IInv, Ownership, HoldsOwn
<1>2. u \in Worlds /\ u.c = conn[f]
  BY <1>1, WorldType, WorldFields DEF IInv
<1>3. HasCgi(u.c) \/ (u.c.cgi.in = NoFd /\ u.c.cgi.out = NoFd)
  BY <1>1, <1>2 DEF Owns
<1>4. PICK w \in CgiHandlers(e, u) :
         /\ Commit(f, IF CloseCgi(e, w) THEN FinalizeCgi(w) ELSE w)
         /\ cgiToSocket' =
               Erase(cgiToSocket,
                     (IF w.c.cgi.in = NoFd THEN {conn[f].cgi.in} ELSE {})
                     \union (IF CloseCgi(e, w) THEN {w.c.cgi.in, w.c.cgi.out} ELSE {}))
  BY Zenon DEF CgiHandled
<1> HIDE DEF u
<1>5. /\ w \in Worlds /\ Kept(u, w) /\ Piped(u, w)
      /\ HasCgi(conn[f]) \/ w = u
  BY <1>2, <1>3, CgiHandlersLemma, CgiHandlersPiped
<1> DEFINE x == IF CloseCgi(e, w) THEN FinalizeCgi(w) ELSE w
<1>6. /\ x \in Worlds
      /\ IF CloseCgi(e, w)
         THEN /\ HasCgi(w.c) /\ Finished(w, x, {"badGateway", "truncated", "output"})
              /\ x.open = w.open \ {w.c.cgi.in, w.c.cgi.out}
         ELSE x = w
  <2>1. CASE CloseCgi(e, w)
    <3>1. HasCgi(w.c)
      BY <2>1 DEF CloseCgi
    <3> QED BY <1>5, <2>1, <3>1, FinalizeCgiLemma, FinalizeCgiOutcome
  <2>2. CASE ~CloseCgi(e, w)
    BY <1>5, <2>2
  <2> QED BY <2>1, <2>2
<1>7. Commit(f, x) /\ pollfds' = Watched(conn')
  BY <1>4 DEF CgiHandled
<1> HIDE DEF x
<1>8. CgiStep(e, f, w, x)
  BY <1>4, <1>5, <1>6, <1>7, Zenon DEF CgiStep, u
<1> QED BY <1>1, <1>5, <1>6, <1>8

LEMMA WorldRuns ==
    ASSUME NEW f
    PROVE  World(f).child = child /\ World(f).s = sock[f]
BY DEF World

LEMMA ConnectionHasPid ==
    ASSUME TypeOK, NEW f \in FD, HasCgi(conn[f])
    PROVE  conn[f].cgi.pid \in Pid
BY DEF TypeOK, Connections, Cgi, HasCgi

LEMMA CgiEventState ==
    ASSUME SInv, NEW e \in ready, CgiEvent(e)
    PROVE  States' /\ PidOwnership'
<1>1. e.fd \in FD
  BY DEF CgiEvent
<1>2. CASE cgiToSocket[e.fd] \notin Live
  BY <1>2 DEF CgiEvent, SInv, States, PidOwnership
<1>3. CASE cgiToSocket[e.fd] \in Live
  <2> DEFINE f == cgiToSocket[e.fd]
             u == World(f)
  <2>1. CgiHandled(e, f)
    BY <1>3 DEF CgiEvent
  <2>2. f \in FD /\ \E w, x \in Worlds : CgiStep(e, f, w, x)
    BY <1>1, <1>3, <2>1, CgiOutcome DEF SInv
  <2>3. PICK w \in Worlds, x \in Worlds : CgiStep(e, f, w, x)
    BY <2>2
  <2>4. u \in Worlds /\ u.c = conn[f] /\ u.child = child /\ Fits(conn[f])
    BY <2>2, WorldType, WorldFields, WorldRuns DEF SInv, IInv, States
  <2> HIDE DEF f, u
  <2>5. Piped(u, w) /\ (HasCgi(u.c) \/ w = u) /\ Commit(f, x)
    BY <2>3, <2>4 DEF CgiStep, u
  <2>6. Fits(w.c)
    BY <2>4, <2>5, PipedFits
  <2>7. w.c.cgi.pid = conn[f].cgi.pid /\ \A p \in Pid : w.child[p].run = child[p].run
    BY <2>4, <2>5 DEF Piped, SameRuns
  <2>8. CASE CloseCgi(e, w)
    <3>1. HasCgi(w.c) /\ Finished(w, x, {"badGateway", "truncated", "output"})
      BY <2>3, <2>8 DEF CgiStep
    <3>2. Fits(x.c)
      BY <2>6, <3>1, FinishedFits
    <3>3. KeepsRuns(f, x)
      BY <2>7, <3>1 DEF KeepsRuns, Finished, HasCgi, NoCgi
    <3> QED BY <2>2, <2>5, <3>2, <3>3, CommitState DEF f
  <2>9. CASE ~CloseCgi(e, w)
    <3>1. x = w
      BY <2>3, <2>9 DEF CgiStep
    <3>2. HasCgi(w.c) => w.child[w.c.cgi.pid].run # "none"
      BY <2>2, <2>7, ConnectionHasPid DEF SInv, IInv, PidOwnership, HasCgi, f
    <3>3. KeepsRuns(f, x)
      BY <2>7, <3>1, <3>2 DEF KeepsRuns
    <3> QED BY <2>2, <2>5, <2>6, <3>1, <3>3, CommitState DEF f
  <2> QED BY <2>8, <2>9
<1> QED BY <1>2, <1>3

LEMMA CloseState ==
    ASSUME SInv, NEW f \in FD, NEW v \in Worlds, CloseConnection(f, v), v.child = child
    PROVE  States' /\ PidOwnership'
<1> DEFINE x == Closed(f, v)
<1>1. x \in Worlds /\ x.c = NoConnection /\ SameRuns(v, x) /\ Commit(f, x)
  BY ClosedLemma, ClosedRuns DEF CloseConnection
<1> HIDE DEF x
<1>2. ~HasCgi(NoConnection)
  BY DEF NoConnection, NoCgi, HasCgi
<1>3. KeepsRuns(f, x)
  BY <1>1, <1>2 DEF KeepsRuns, SameRuns
<1> QED BY <1>1, <1>3, NoConnectionFits, CommitState

LEMMA HangUpState ==
    ASSUME SInv, NEW e \in ready, HangUp(e)
    PROVE  States' /\ PidOwnership'
<1>1. e.fd \in FD /\ CloseConnection(e.fd, World(e.fd))
  BY DEF HangUp, SocketTurn
<1>2. World(e.fd) \in Worlds /\ World(e.fd).child = child
  BY <1>1, WorldType, WorldRuns DEF SInv, IInv
<1> QED BY <1>1, <1>2, CloseState

LEMMA SocketEventState ==
    ASSUME SInv, NEW e \in ready, SocketEvent(e)
    PROVE  States' /\ PidOwnership'
<1> DEFINE f == e.fd
           u == World(f)
<1>1. f \in FD /\ \E w, v \in Worlds : SocketStep(e, w, v)
  BY SocketOutcome DEF SInv
<1>2. PICK w \in Worlds, v \in Worlds : SocketStep(e, w, v)
  BY <1>1
<1>3. u \in Worlds /\ u.c = conn[f] /\ u.child = child /\ Fits(conn[f])
  BY <1>1, WorldType, WorldFields, WorldRuns DEF SInv, IInv, States
<1>4. Received(e, u, w)
  BY <1>2 DEF SocketStep
<1> HIDE DEF u
<1>5. Fits(w.c) \/ w.c.st = "CLOSED"
  BY <1>3, <1>4, ReceivedFits
<1>6. CASE Started(u, w)
  <2>1. v = w /\ Commit(f, w)
    BY <1>2, <1>6 DEF SocketStep, Registers, u
  <2>2. Fits(w.c) /\ KeepsRuns(f, w)
    BY <1>3, <1>5, <1>6 DEF Started, KeepsRuns
  <2> QED BY <1>1, <2>1, <2>2, CommitState
<1>7. CASE ~Started(u, w)
  <2>1. Written(e, w, v)
    BY <1>2, <1>7 DEF SocketStep, u
  <2>2. Fits(v.c) \/ v.c.st = "CLOSED"
    BY <1>5, <2>1, WrittenFits
  <2>3. v.child = child /\ (v.c.cgi = conn[f].cgi \/ v.c.cgi = NoCgi)
    BY <1>3, <1>4, <1>7, <2>1
       DEF Received, Ended, Asked, Answered, Written, Broken, Sent
  <2>4. CASE v.c.st = "CLOSED" /\ CloseConnection(f, v)
    BY <1>1, <2>3, <2>4, CloseState
  <2>5. CASE Continues(f, v)
    <3>1. Fits(v.c) /\ Commit(f, v)
      BY <2>2, <2>5 DEF Continues
    <3>2. ~HasCgi([cgi |-> NoCgi])
      BY DEF HasCgi, NoCgi
    <3>3. HasCgi(v.c) => HasCgi(conn[f]) /\ v.c.cgi.pid = conn[f].cgi.pid
      BY <2>3, <3>2 DEF HasCgi
    <3>4. HasCgi(v.c) => v.child[v.c.cgi.pid].run # "none"
      BY <1>1, <2>3, <3>3 DEF SInv, PidOwnership
    <3>5. KeepsRuns(f, v)
      BY <2>3, <3>3, <3>4 DEF KeepsRuns
    <3> QED BY <1>1, <3>1, <3>5, CommitState
  <2> QED BY <1>2, <1>7, <2>4, <2>5 DEF SocketStep, u
<1> QED BY <1>6, <1>7

LEMMA AcceptState ==
    ASSUME SInv, NEW e \in ready, Accept(e)
    PROVE  States' /\ PidOwnership'
<1> DEFINE new == Lowest(FD \ open, backlog[e.fd])
<1>1. /\ conn' = [f \in FD |-> IF f \in new THEN NewConnection ELSE conn[f]]
      /\ child' = child
  BY Zenon DEF Accept
<1> HIDE DEF new
<1>2. NewConnection.cgi.pid = NoPid
  BY DEF NewConnection, NoConnection, NoCgi
<1>3. States'
  BY <1>1, NoConnectionFits DEF SInv, States
<1>4. PidOwnership'
  BY <1>1, <1>2 DEF SInv, PidOwnership, HasCgi
<1> QED BY <1>3, <1>4

(* Every program that checkTimeouts or cleanup waits for was its own       *)
(* connection's, which forgets it.                                         *)
LEMMA CheckTimeoutsConn ==
    ASSUME SInv, CheckTimeouts
    PROVE  /\ \A f \in LateCgi : /\ f \in FD /\ HasCgi(conn[f])
                                 /\ conn'[f] = HandleCgiTimeout(World(f)).c
                                 /\ Fits(conn'[f]) /\ conn'[f].cgi = NoCgi
                                 /\ conn'[f].st = "WRITING" /\ conn'[f].resp = "timeout"
                                 /\ conn'[f].left = MaxResponse
           /\ \A f \in Idlers : f \in FD /\ f \notin LateCgi /\ conn'[f] = NoConnection
           /\ \A f \in FD \ (LateCgi \union Idlers) : conn'[f] = conn[f]
<1>1. conn' = [f \in FD |-> IF f \in LateCgi THEN HandleCgiTimeout(World(f)).c
                            ELSE IF f \in Idlers THEN NoConnection ELSE conn[f]]
  BY Zenon DEF CheckTimeouts
<1>2. /\ \A f \in LateCgi : f \in FD /\ HasCgi(conn[f])
      /\ \A f \in Idlers : f \in FD /\ f \notin LateCgi
  BY DEF LateCgi, Idlers, Live
<1>3. ASSUME NEW f \in LateCgi
      PROVE  /\ Fits(HandleCgiTimeout(World(f)).c)
             /\ Finished(World(f), HandleCgiTimeout(World(f)), {"timeout"})
  <2>1. World(f) \in Worlds /\ World(f).c = conn[f] /\ Fits(conn[f])
    BY <1>2, <1>3, WorldType, WorldFields DEF SInv, IInv, States
  <2>2. Finished(World(f), HandleCgiTimeout(World(f)), {"timeout"})
    BY <1>2, <2>1, TimeoutOutcome
  <2>3. HandleCgiTimeout(World(f)) \in Worlds
    BY <2>1, KernelTypes, ForgetCgiLemma, RespondLemma DEF HandleCgiTimeout, KillCgi, Reply
  <2> QED BY <1>2, <2>1, <2>2, <2>3, FinishedFits
<1> QED BY <1>1, <1>2, <1>3 DEF Finished

LEMMA CheckTimeoutsState ==
    ASSUME SInv, CheckTimeouts
    PROVE  States' /\ PidOwnership'
<1>1. child' = [p \in Pid |-> IF \E f \in LateCgi : conn[f].cgi.pid = p
                              THEN NoProcess ELSE child[p]]
  BY Zenon DEF CheckTimeouts
<1>2. States'
  BY CheckTimeoutsConn, NoConnectionFits DEF SInv, States
<1>3. NoCgi.pid = NoPid /\ NoConnection.cgi = NoCgi
  BY DEF NoCgi, NoConnection
<1>4. ASSUME NEW f \in FD, HasCgi(conn'[f]) PROVE f \notin LateCgi /\ conn'[f] = conn[f]
  BY <1>3, <1>4, CheckTimeoutsConn DEF HasCgi
<1>5. ASSUME NEW f \in FD, HasCgi(conn'[f]), NEW g \in FD \ {f}
      PROVE  conn'[g].cgi.pid # conn'[f].cgi.pid
  <2>1. conn'[g].cgi.pid = conn[g].cgi.pid \/ conn'[g].cgi.pid = NoPid
    BY <1>3, CheckTimeoutsConn
  <2> QED BY <1>4, <1>5, <2>1 DEF SInv, PidOwnership, HasCgi
<1>6. ASSUME NEW f \in FD, HasCgi(conn'[f]) PROVE child'[conn'[f].cgi.pid].run # "none"
  <2>1. conn'[f] = conn[f] /\ f \notin LateCgi /\ HasCgi(conn[f])
    BY <1>4, <1>6
  <2>2. conn[f].cgi.pid \in Pid
    BY <2>1, ConnectionHasPid DEF SInv, IInv
  <2>3. \A g \in LateCgi : conn[g].cgi.pid # conn[f].cgi.pid
    BY <2>1 DEF SInv, PidOwnership, LateCgi, Live
  <2> QED BY <1>1, <2>1, <2>2, <2>3 DEF SInv, PidOwnership
<1> QED BY <1>2, <1>5, <1>6 DEF PidOwnership

LEMMA ShutdownState ==
    ASSUME NEW e, Shutdown(e)
    PROVE  States' /\ PidOwnership'
<1>1. conn' = [f \in FD |-> NoConnection]
  BY DEF Shutdown
<1>2. ~HasCgi(NoConnection)
  BY DEF NoConnection, NoCgi, HasCgi
<1> QED BY <1>1, <1>2, NoConnectionFits DEF States, PidOwnership

(* A tick changes the clocks only.                                         *)
LEMMA TickConn ==
    ASSUME TypeOK, Tick, NEW f \in FD
    PROVE  /\ conn'[f].st = conn[f].st /\ conn'[f].cgi = conn[f].cgi
           /\ conn'[f].req = conn[f].req /\ conn'[f].resp = conn[f].resp
           /\ conn'[f].left = conn[f].left
<1> DEFINE c == conn[f]
           idle == IF c.idle < IdleTimeout THEN c.idle + 1 ELSE c.idle
           age == IF HasCgi(c) /\ c.age < CgiTimeout THEN c.age + 1 ELSE c.age
<1>1. conn'[f] = IF f \notin Live THEN c ELSE [c EXCEPT !.idle = idle, !.age = age]
  BY Zenon DEF Tick
<1>2. c \in Connections
  BY DEF TypeOK
<1> HIDE DEF c, idle, age
<1>3. LET d == [c EXCEPT !.idle = idle, !.age = age]
      IN  d.st = c.st /\ d.cgi = c.cgi /\ d.req = c.req /\ d.resp = c.resp /\ d.left = c.left
  BY <1>2, Zenon DEF Connections
<1>4. CASE f \in Live
  BY <1>1, <1>3, <1>4 DEF c
<1>5. CASE f \notin Live
  BY <1>1, <1>5 DEF c
<1> QED BY <1>4, <1>5

LEMMA TickState ==
    ASSUME SInv, Tick
    PROVE  States' /\ PidOwnership'
<1>1. child' = child
  BY DEF Tick, kernelVars
<1>2. \A f \in FD : /\ conn'[f].st = conn[f].st /\ conn'[f].cgi = conn[f].cgi
                    /\ conn'[f].req = conn[f].req /\ conn'[f].resp = conn[f].resp
                    /\ conn'[f].left = conn[f].left
  BY TickConn DEF SInv, IInv
<1>3. States'
  BY <1>2 DEF SInv, States, Fits, HasCgi
<1>4. PidOwnership'
  BY <1>1, <1>2 DEF SInv, PidOwnership, HasCgi
<1> QED BY <1>3, <1>4

(* A process that runs may end, but stays to be waited for.                *)
LEMMA OutsideRuns ==
    ASSUME TypeOK, Outside, NEW p \in Pid, child[p].run # "none"
    PROVE  child'[p].run # "none"
<1>1. child \in [Pid -> Process]
  BY DEF TypeOK, KernelTypeOK
<1>2. CASE child' = child
  BY <1>2
<1>3. ASSUME NEW q \in Pid, Program(q) PROVE child'[p].run # "none"
  <2>1. CASE ChildEnd(q)
    <3>1. PICK status \in {"exited", "killed"} :
             child' = [child EXCEPT ![q].run = status, ![q].reads = FALSE,
                                    ![q].writes = FALSE, ![q].todo = 0]
      BY <2>1 DEF ChildEnd
    <3> QED BY <1>1, <3>1 DEF Process
  <2>2. CASE ChildWrite(q)
    BY <1>1, <2>2 DEF ChildWrite, Process
  <2>3. CASE ChildRead(q)
    BY <1>1, <2>3 DEF ChildRead, Process
  <2>4. CASE ChildCloseIn(q)
    BY <1>1, <2>4 DEF ChildCloseIn, Process
  <2>5. CASE ChildCloseOut(q)
    BY <1>1, <2>5 DEF ChildCloseOut, Process
  <2> QED BY <1>3, <2>1, <2>2, <2>3, <2>4, <2>5 DEF Program
<1>4. child' = child \/ \E q \in Pid : Program(q)
  BY DEF Outside, Arrival, Connect, Client, ClientSend, ClientFin, ClientReset,
         ClientDrain, Signal
<1> QED BY <1>2, <1>3, <1>4

LEMMA OutsideState ==
    ASSUME SInv, Outside
    PROVE  States' /\ PidOwnership'
<1>1. conn' = conn
  BY DEF Outside, engineVars
<1>2. PidOwnership'
  <2> SUFFICES ASSUME NEW f \in FD, HasCgi(conn[f])
               PROVE  /\ child'[conn[f].cgi.pid].run # "none"
                      /\ \A g \in FD \ {f} : conn[g].cgi.pid # conn[f].cgi.pid
    BY <1>1 DEF PidOwnership
  <2>1. conn[f].cgi.pid \in Pid /\ child[conn[f].cgi.pid].run # "none"
    BY ConnectionHasPid DEF SInv, IInv, PidOwnership
  <2> QED BY <2>1, OutsideRuns DEF SInv, IInv, PidOwnership
<1> QED BY <1>1, <1>2 DEF SInv, States

-----------------------------------------------------------------------------
LEMMA InitSInv == Init => SInv
<1> SUFFICES ASSUME Init PROVE SInv
  OBVIOUS
<1>1. \A f \in FD : conn[f] = NoConnection
  BY DEF Init
<1>2. ~HasCgi(NoConnection)
  BY DEF NoConnection, NoCgi, HasCgi
<1> QED BY <1>1, <1>2, InitIInv, NoConnectionFits DEF SInv, States, PidOwnership

LEMMA NextSInv == SInv /\ [Next]_vars => SInv'
<1> SUFFICES ASSUME SInv, [Next]_vars PROVE SInv'
  OBVIOUS
<1>1. IInv'
  BY NextIInv DEF SInv
<1>2. States' /\ PidOwnership'
  <2>1. CASE Poll
    BY <2>1 DEF Poll, kernelVars, SInv, States, PidOwnership
  <2>2. ASSUME NEW e \in ready, Handle(e) PROVE States' /\ PidOwnership'
    <3>1. CASE CgiEvent(e)
      BY <3>1, CgiEventState
    <3>2. CASE HangUp(e)
      BY <3>2, HangUpState
    <3>3. CASE UnknownEvent(e)
      BY <3>3 DEF UnknownEvent, SInv, States, PidOwnership
    <3>4. CASE SocketEvent(e)
      BY <3>4, SocketEventState
    <3>5. CASE Accept(e)
      BY <3>5, AcceptState
    <3>6. CASE Shutdown(e)
      BY <3>6, ShutdownState
    <3> QED BY <2>2, <3>1, <3>2, <3>3, <3>4, <3>5, <3>6 DEF Handle
  <2>3. CASE CheckTimeouts
    BY <2>3, CheckTimeoutsState
  <2>4. CASE Tick
    BY <2>4, TickState
  <2>5. CASE Outside
    BY <2>5, OutsideState
  <2>6. CASE UNCHANGED vars
    BY <2>6 DEF vars, engineVars, kernelVars, SInv, States, PidOwnership
  <2> QED BY <2>1, <2>2, <2>3, <2>4, <2>5, <2>6 DEF Next, Loop
<1> QED BY <1>1, <1>2 DEF SInv

LEMMA SInvStates == SInv => StateMatchesCgi
<1> SUFFICES ASSUME SInv, NEW f \in FD
             PROVE  LET c == conn[f] IN
                    /\ c.st \in {"CGI_READING", "CGI_WRITING"} <=> HasCgi(c)
                    /\ HasCgi(c) => c.cgi.out # NoFd
                    /\ c.st = "CGI_WRITING" <=> c.cgi.in # NoFd
                    /\ ~HasCgi(c) => c.cgi = NoCgi
                    /\ c.st \in {"NONE", "READING"} => c.req = "partial" /\ c.resp = "none"
                    /\ c.st = "WRITING" => c.left > 0
  BY DEF StateMatchesCgi
<1>1. Fits(conn[f])
  BY DEF SInv, States
<1>2. HasCgi(conn[f]) => f \in Live
  BY <1>1 DEF Fits, Live
<1>3. HasCgi(conn[f]) => conn[f].cgi.out # NoFd
  BY <1>2 DEF SInv, IInv, Ownership, HoldsOwn, Owns
<1> QED BY <1>1, <1>3 DEF Fits

(* The 504 belongs to checkTimeouts: whatever else happens to a connection, *)
(* its response is another one, or the one it had.                         *)
LEMMA CommitResp ==
    ASSUME TypeOK, NEW f \in FD, NEW w, Commit(f, w),
           w.c.resp = conn[f].resp \/ w.c.resp # "timeout", NEW g \in FD
    PROVE  conn'[g].resp = "timeout" => conn[g].resp = "timeout"
BY DEF Commit, TypeOK

LEMMA HandleResp ==
    ASSUME SInv, NEW e \in ready, Handle(e), NEW g \in FD
    PROVE  conn'[g].resp = "timeout" => conn[g].resp = "timeout"
<1>1. NoConnection.resp = "none" /\ NewConnection.resp = "none"
  BY DEF NoConnection, NewConnection
<1>2. ASSUME NEW f \in FD, NEW v \in Worlds, CloseConnection(f, v)
      PROVE  conn'[g].resp = "timeout" => conn[g].resp = "timeout"
  BY <1>1, <1>2, ClosedLemma, CommitResp DEF CloseConnection, SInv, IInv
<1>3. CASE CgiEvent(e)
  <2>1. CASE cgiToSocket[e.fd] \in Live
    <3> DEFINE f == cgiToSocket[e.fd]
    <3>1. f \in FD /\ \E w, x \in Worlds : CgiStep(e, f, w, x)
      BY <1>3, <2>1, CgiOutcome DEF CgiEvent, SInv
    <3>2. PICK w \in Worlds, x \in Worlds : CgiStep(e, f, w, x)
      BY <3>1
    <3>3. Commit(f, x) /\ w.c.resp = conn[f].resp
          /\ (x = w \/ Finished(w, x, {"badGateway", "truncated", "output"}))
      BY <3>2, WorldFields DEF CgiStep, Piped, SameAnswer
    <3>4. x.c.resp = conn[f].resp \/ x.c.resp # "timeout"
      BY <3>3 DEF Finished
    <3> QED BY <3>1, <3>3, <3>4, CommitResp DEF SInv, IInv
  <2>2. CASE cgiToSocket[e.fd] \notin Live
    BY <1>3, <2>2 DEF CgiEvent
  <2> QED BY <2>1, <2>2
<1>4. CASE HangUp(e)
  <2>1. e.fd \in FD /\ World(e.fd) \in Worlds /\ CloseConnection(e.fd, World(e.fd))
    BY <1>4, WorldType DEF HangUp, SocketTurn, SInv, IInv
  <2> QED BY <1>2, <2>1
<1>5. CASE UnknownEvent(e)
  BY <1>5 DEF UnknownEvent
<1>6. CASE SocketEvent(e)
  <2> DEFINE f == e.fd
             u == World(f)
  <2>1. f \in FD /\ \E w, v \in Worlds : SocketStep(e, w, v)
    BY <1>6, SocketOutcome DEF SInv
  <2>2. PICK w \in Worlds, v \in Worlds : SocketStep(e, w, v)
    BY <2>1
  <2>3. u.c = conn[f]
    BY WorldFields
  <2>4. Received(e, u, w)
    BY <2>2 DEF SocketStep
  <2> HIDE DEF u
  <2>5. w.c.resp = conn[f].resp \/ w.c.resp # "timeout"
    BY <2>3, <2>4 DEF Received, Ended, Asked, Answered, Started, SameAnswer
  <2>6. v = w \/ Written(e, w, v)
    BY <2>2 DEF SocketStep
  <2>7. v.c.resp = conn[f].resp \/ v.c.resp # "timeout"
    BY <2>5, <2>6 DEF Written, Broken, Sent, SameAnswer
  <2>8. Commit(f, v) \/ CloseConnection(f, v)
    BY <2>2 DEF SocketStep, Registers, Continues
  <2> QED BY <1>2, <2>1, <2>7, <2>8, CommitResp DEF SInv, IInv
<1>7. CASE Accept(e)
  <2> DEFINE new == Lowest(FD \ open, backlog[e.fd])
  <2>1. conn' = [f \in FD |-> IF f \in new THEN NewConnection ELSE conn[f]]
    BY <1>7, Zenon DEF Accept
  <2> HIDE DEF new
  <2> QED BY <1>1, <2>1
<1>8. CASE Shutdown(e)
  BY <1>1, <1>8 DEF Shutdown
<1> QED BY <1>3, <1>4, <1>5, <1>6, <1>7, <1>8 DEF Handle

LEMMA StepDeadline ==
    ASSUME SInv, [Next]_vars, NEW f \in FD
    PROVE  /\ conn'[f].resp = "timeout" /\ conn[f].resp # "timeout" =>
                 conn[f].age = CgiTimeout
           /\ pc = "dispatch" /\ pc' = "poll" /\ HasCgi(conn'[f]) =>
                 conn'[f].age < CgiTimeout
<1>1. conn[f].age \in 0..CgiTimeout /\ CgiTimeout \in Nat
  BY ConnectionAssumption DEF SInv, IInv, TypeOK, Connections
<1>2. CASE CheckTimeouts
  <2>1. f \in LateCgi => conn[f].age = CgiTimeout
    BY <1>1 DEF LateCgi
  <2>2. NoConnection.resp = "none" /\ NoConnection.cgi = NoCgi /\ NoCgi.pid = NoPid
    BY DEF NoConnection, NoCgi
  <2>3. CASE f \in LateCgi
    BY <1>2, <2>1, <2>2, <2>3, CheckTimeoutsConn DEF HasCgi
  <2>4. CASE f \in Idlers
    BY <1>2, <2>2, <2>4, CheckTimeoutsConn DEF HasCgi
  <2>5. CASE f \notin LateCgi /\ f \notin Idlers
    <3>1. conn'[f] = conn[f]
      BY <1>2, <2>5, CheckTimeoutsConn
    <3>2. HasCgi(conn[f]) => f \in Live
      BY DEF SInv, States, Fits, Live
    <3> QED BY <1>1, <2>5, <3>1, <3>2 DEF LateCgi
  <2> QED BY <2>3, <2>4, <2>5
<1>3. ASSUME NEW e \in ready, Handle(e)
      PROVE  (conn'[f].resp = "timeout" => conn[f].resp = "timeout") /\ pc' # "poll"
  <2>1. pc' \in {"dispatch", "stopped"}
    BY <1>3 DEF Handle, CgiEvent, HangUp, UnknownEvent, SocketEvent, SocketTurn, Turn,
                Handled, Accept, Shutdown
  <2> QED BY <1>3, <2>1, HandleResp
<1>4. CASE Tick
  BY <1>4, TickConn DEF SInv, IInv, Tick
<1>5. CASE Poll \/ Outside \/ UNCHANGED vars
  BY <1>5 DEF Poll, Outside, vars, engineVars
<1> QED BY <1>2, <1>3, <1>4, <1>5 DEF Next, Loop

LEMMA StepIdle ==
    ASSUME SInv, [Next]_vars, NEW f \in Live, pc = "dispatch", pc' = "poll", conn'[f].st = "NONE"
    PROVE  conn[f].st = "READING" /\ conn[f].idle = IdleTimeout
<1>1. CheckTimeouts
  <2>1. ASSUME NEW e \in ready, Handle(e) PROVE pc' # "poll"
    BY <2>1 DEF Handle, CgiEvent, HangUp, UnknownEvent, SocketEvent, SocketTurn, Turn,
                Handled, Accept, Shutdown
  <2> QED BY <2>1 DEF Next, Loop, Poll, Tick, Outside, vars, engineVars
<1>2. f \in FD /\ Fits(conn[f]) /\ conn[f].st # "NONE"
      /\ conn[f].st \in {"NONE", "READING", "WRITING", "CGI_WRITING", "CGI_READING"}
      /\ conn[f].idle \in 0..IdleTimeout /\ IdleTimeout \in Nat
  BY ConnectionAssumption DEF Live, SInv, IInv, States, TypeOK, Connections
<1>3. f \in Idlers
  BY <1>1, <1>2, CheckTimeoutsConn
<1> QED BY <1>2, <1>3 DEF Idlers, Fits, WantsWrite

-----------------------------------------------------------------------------
(* kill() and waitpid() are only ever called for a process that is this    *)
(* connection's own and has not been waited for.                           *)
THEOREM PidsOwned == Spec => []PidOwnership
<1>1. SInv => PidOwnership
  BY DEF SInv
<1> QED BY InitSInv, NextSInv, <1>1, PTL DEF Spec

(* In every state a connection can be in, _state, _cgi, the parser's       *)
(* verdict and the response agree, pipelined requests included.            *)
THEOREM StatesMatch == Spec => []StateMatchesCgi
BY InitSInv, NextSInv, SInvStates, PTL DEF Spec

(* checkTimeouts kills no CGI before its deadline and leaves none past it. *)
THEOREM DeadlineKept == Spec => CgiDeadline
<1>1. SInv /\ [Next]_vars =>
         [\A f \in FD :
            /\ conn'[f].resp = "timeout" /\ conn[f].resp # "timeout" =>
                  conn[f].age = CgiTimeout
            /\ pc = "dispatch" /\ pc' = "poll" /\ HasCgi(conn'[f]) =>
                  conn'[f].age < CgiTimeout]_vars
  BY StepDeadline
<1> QED BY InitSInv, NextSInv, <1>1, PTL DEF Spec, CgiDeadline

(* checkTimeouts closes idle readers only, and only after their time.      *)
THEOREM IdleOnly == Spec => OnlyIdleClosed
<1>1. SInv /\ [Next]_vars =>
         [\A f \in Live : pc = "dispatch" /\ pc' = "poll" /\ conn'[f].st = "NONE" =>
            conn[f].st = "READING" /\ conn[f].idle = IdleTimeout]_vars
  BY StepIdle
<1> QED BY InitSInv, NextSInv, <1>1, PTL DEF Spec, OnlyIdleClosed

-----------------------------------------------------------------------------
(* The poll set and the snapshot.                                          *)
Plain(e) == [e EXCEPT !.late = FALSE]

(* The poll set, up to the order of its entries, is at all times what a    *)
(* rebuild would give; an entry that accept() has appended is the only one *)
(* of a connection that has not got beyond its request.                    *)
Current  == pc # "stopped" => {Plain(e) : e \in pollfds} = Watched(conn)
LateOnes == \A d \in pollfds : d.late =>
               /\ d.of \in FD /\ conn[d.of].st = "READING"
               /\ \A e \in pollfds : e.fd = d.fd => e = d

(* An event on a socket whose turn is still to come.  The connection is    *)
(* alive and nothing of it has been handled since poll(): what the event   *)
(* reports is still the case, and the other events are on its pipes.       *)
OnSocket(e) ==
    /\ e.fd = e.of /\ e.of \in Live
    /\ "IN" \in e.revents => sock[e.fd].rx \/ sock[e.fd].peer \in {"fin", "reset"}
    /\ "OUT" \in e.revents => /\ conn[e.fd].st = "WRITING"
                              /\ sock[e.fd].room \/ sock[e.fd].peer = "reset"
    /\ "HUP" \in e.revents => sock[e.fd].peer = "reset"
    /\ \A d \in ready : d.of = e.of /\ d # e => d.fd \in {conn[e.fd].cgi.in, conn[e.fd].cgi.out}

(* An event on a pipe whose turn is still to come.  Either the pipe is in  *)
(* _cgiToSocket for its connection, which is alive; or it has been closed, *)
(* and only events on the same connection's pipes come before this one, so *)
(* that nothing can be opened until then.                                  *)
OnPipe(e) ==
    /\ ~e.late /\ e.of \in FD
    /\ \/ e.of \in Live /\ cgiToSocket[e.fd] = e.of /\ e.fd \in open
       \/ e.fd \notin open /\ \A d \in ready : Before(d, e) => d.of = e.of /\ d.rank # 0

Pending(e) ==
    /\ e.fd \in FD /\ e.rank = 0 => OnSocket(e)
    /\ e.fd \in FD /\ e.rank # 0 => OnPipe(e)
    /\ e.fd \notin FD => e.rank = 0 /\ e.of = e.fd
    /\ \A d \in ready : d.fd = e.fd \/ (d.late /\ d.of = e.of) => d = e

Events == \A e \in ready : Pending(e)
Idle   == pc # "dispatch" => ready = {}

EInv == Current /\ LateOnes /\ Events /\ Idle
PInv == SInv /\ EInv

-----------------------------------------------------------------------------
(* What an entry of the poll set says of the connection table c.           *)
Watches(c, x) ==
    \/ x.fd = x.of /\ x.rank = 0 /\ x.of \in Listener \union {SignalPipe} /\ x.events = {"IN"}
    \/ /\ x.fd = x.of /\ x.rank = 0 /\ x.of \in FD /\ c[x.of].st # "NONE"
       /\ x.events = IF WantsWrite(c[x.of]) THEN {"IN", "OUT"} ELSE {"IN"}
    \/ /\ x.rank = 1 /\ x.of \in FD /\ HasCgi(c[x.of])
       /\ x.fd = c[x.of].cgi.in /\ x.fd # NoFd /\ x.events = {"OUT"}
    \/ /\ x.rank = 2 /\ x.of \in FD /\ HasCgi(c[x.of])
       /\ x.fd = c[x.of].cgi.out /\ x.fd # NoFd /\ x.events = {"IN"}

LEMMA WatchedMeaning ==
    ASSUME NEW c, NEW x \in Watched(c)
    PROVE  Watches(c, x) /\ x.late = FALSE
<1>1. CASE x \in {Entry(d, d, 0, {"IN"}) : d \in Listener \union {SignalPipe}}
  <2>1. PICK d \in Listener \union {SignalPipe} : x = Entry(d, d, 0, {"IN"})
    BY <1>1, Zenon
  <2>2. x.fd = d /\ x.of = d /\ x.rank = 0 /\ x.late = FALSE /\ x.events = {"IN"}
    BY <2>1 DEF Entry
  <2> QED BY <2>1, <2>2 DEF Watches
<1>2. CASE x \in {Entry(f, f, 0, IF WantsWrite(c[f]) THEN {"IN", "OUT"} ELSE {"IN"}) :
                  f \in {g \in FD : c[g].st # "NONE"}}
  <2>1. PICK f \in FD :
           /\ c[f].st # "NONE"
           /\ x = Entry(f, f, 0, IF WantsWrite(c[f]) THEN {"IN", "OUT"} ELSE {"IN"})
    BY <1>2, Zenon
  <2>2. /\ x.fd = f /\ x.of = f /\ x.rank = 0 /\ x.late = FALSE
        /\ x.events = IF WantsWrite(c[f]) THEN {"IN", "OUT"} ELSE {"IN"}
    BY <2>1 DEF Entry
  <2> QED BY <2>1, <2>2 DEF Watches
<1>3. CASE x \in {Entry(c[f].cgi.in, f, 1, {"OUT"}) :
                  f \in {g \in FD : HasCgi(c[g]) /\ c[g].cgi.in # NoFd}}
  <2>1. PICK f \in FD : HasCgi(c[f]) /\ c[f].cgi.in # NoFd /\ x = Entry(c[f].cgi.in, f, 1, {"OUT"})
    BY <1>3, Zenon
  <2>2. /\ x.fd = c[f].cgi.in /\ x.of = f /\ x.rank = 1 /\ x.late = FALSE
        /\ x.events = {"OUT"}
    BY <2>1 DEF Entry
  <2> QED BY <2>1, <2>2 DEF Watches
<1>4. CASE x \in {Entry(c[f].cgi.out, f, 2, {"IN"}) :
                  f \in {g \in FD : HasCgi(c[g]) /\ c[g].cgi.out # NoFd}}
  <2>1. PICK f \in FD : HasCgi(c[f]) /\ c[f].cgi.out # NoFd /\ x = Entry(c[f].cgi.out, f, 2, {"IN"})
    BY <1>4, Zenon
  <2>2. /\ x.fd = c[f].cgi.out /\ x.of = f /\ x.rank = 2 /\ x.late = FALSE
        /\ x.events = {"IN"}
    BY <2>1 DEF Entry
  <2> QED BY <2>1, <2>2 DEF Watches
<1> QED BY <1>1, <1>2, <1>3, <1>4, Zenon DEF Watched

LEMMA PlainWatched ==
    ASSUME NEW c \in [FD -> Connections]
    PROVE  {Plain(e) : e \in Watched(c)} = Watched(c)
<1>1. \A x \in Watched(c) : Plain(x) = x
  <2> SUFFICES ASSUME NEW x \in Watched(c) PROVE Plain(x) = x
    OBVIOUS
  <2>1. x \in PollEntry
    BY WatchedType, Zenon
  <2>2. x.late = FALSE
    BY WatchedMeaning, Zenon
  <2> QED BY <2>1, <2>2, Zenon DEF Plain, PollEntry
<1>2. ASSUME NEW x \in Watched(c) PROVE x \in {Plain(e) : e \in Watched(c)}
  BY <1>1, Zenon
<1>3. ASSUME NEW x \in {Plain(e) : e \in Watched(c)} PROVE x \in Watched(c)
  BY <1>1, Zenon
<1> QED BY <1>2, <1>3

(* Only the state, as far as it asks to write, and the pipes matter.       *)
LEMMA WatchedSame ==
    ASSUME NEW c, NEW d,
           \A f \in FD : /\ d[f].cgi = c[f].cgi
                         /\ d[f].st = "NONE" <=> c[f].st = "NONE"
                         /\ WantsWrite(d[f]) <=> WantsWrite(c[f])
    PROVE  Watched(d) = Watched(c)
<1>1. {f \in FD : d[f].st # "NONE"} = {f \in FD : c[f].st # "NONE"}
  OBVIOUS
<1>2. /\ {f \in FD : HasCgi(d[f]) /\ d[f].cgi.in # NoFd}
            = {f \in FD : HasCgi(c[f]) /\ c[f].cgi.in # NoFd}
      /\ {f \in FD : HasCgi(d[f]) /\ d[f].cgi.out # NoFd}
            = {f \in FD : HasCgi(c[f]) /\ c[f].cgi.out # NoFd}
  BY DEF HasCgi
<1>3. \A f \in FD : /\ Entry(d[f].cgi.in, f, 1, {"OUT"}) = Entry(c[f].cgi.in, f, 1, {"OUT"})
                    /\ Entry(d[f].cgi.out, f, 2, {"IN"}) = Entry(c[f].cgi.out, f, 2, {"IN"})
                    /\ Entry(f, f, 0, IF WantsWrite(d[f]) THEN {"IN", "OUT"} ELSE {"IN"})
                          = Entry(f, f, 0, IF WantsWrite(c[f]) THEN {"IN", "OUT"} ELSE {"IN"})
  OBVIOUS
<1>4. {Entry(f, f, 0, IF WantsWrite(d[f]) THEN {"IN", "OUT"} ELSE {"IN"}) :
         f \in {g \in FD : d[g].st # "NONE"}}
      = {Entry(f, f, 0, IF WantsWrite(c[f]) THEN {"IN", "OUT"} ELSE {"IN"}) :
         f \in {g \in FD : c[g].st # "NONE"}}
  BY <1>1, <1>3, Zenon
<1>5. {Entry(d[f].cgi.in, f, 1, {"OUT"}) : f \in {g \in FD : HasCgi(d[g]) /\ d[g].cgi.in # NoFd}}
      = {Entry(c[f].cgi.in, f, 1, {"OUT"}) : f \in {g \in FD : HasCgi(c[g]) /\ c[g].cgi.in # NoFd}}
  BY <1>2, <1>3, Zenon
<1>6. {Entry(d[f].cgi.out, f, 2, {"IN"}) : f \in {g \in FD : HasCgi(d[g]) /\ d[g].cgi.out # NoFd}}
      = {Entry(c[f].cgi.out, f, 2, {"IN"}) : f \in {g \in FD : HasCgi(c[g]) /\ c[g].cgi.out # NoFd}}
  BY <1>2, <1>3, Zenon
<1> QED BY <1>4, <1>5, <1>6, Zenon DEF Watched

(* What an entry watches is open, and belongs to a live connection.        *)
LEMMA WatchedOpen ==
    ASSUME SInv, NEW x, Watches(conn, x)
    PROVE  \/ x.fd \notin FD /\ x.fd = x.of /\ x.rank = 0
           \/ x.fd \in open /\ x.fd \in FD /\ x.of \in Live /\ x.of \in FD
<1>1. \A f \in FD : HasCgi(conn[f]) => f \in Live
  BY DEF SInv, States, Fits, Live
<1>2. /\ \A f \in Live : Owns(f, conn[f], open)
      /\ open \subseteq FD
  BY DEF SInv, IInv, Ownership, HoldsOwn, TypeOK, KernelTypeOK
<1>3. CASE x.fd = x.of /\ x.rank = 0 /\ x.of \in Listener \union {SignalPipe}
  BY <1>3, Apart
<1>4. CASE x.fd = x.of /\ x.of \in FD /\ conn[x.of].st # "NONE"
  BY <1>2, <1>4 DEF Live, Owns
<1>5. CASE x.of \in FD /\ HasCgi(conn[x.of]) /\ x.fd = conn[x.of].cgi.in /\ x.fd # NoFd
  BY <1>1, <1>2, <1>5 DEF Owns
<1>6. CASE x.of \in FD /\ HasCgi(conn[x.of]) /\ x.fd = conn[x.of].cgi.out /\ x.fd # NoFd
  BY <1>1, <1>2, <1>6 DEF Owns
<1> QED BY <1>3, <1>4, <1>5, <1>6 DEF Watches

(* No two entries watch the same descriptor.                               *)
LEMMA WatchedOnce ==
    ASSUME SInv, NEW x \in Watched(conn), NEW y \in Watched(conn), x.fd = y.fd
    PROVE  x = y
<1>1. /\ x \in PollEntry /\ y \in PollEntry
      /\ Watches(conn, x) /\ Watches(conn, y) /\ x.late = FALSE /\ y.late = FALSE
  BY WatchedMeaning, WatchedType DEF SInv, IInv, TypeOK
<1>2. x.of = y.of /\ x.rank = y.rank
  <2>1. CASE x.fd \notin FD
    BY <1>1, <2>1, WatchedOpen
  <2>2. CASE x.fd \in FD
    <3> DEFINE f == x.of
               g == y.of
               d == x.fd
    <3>1. f \in Live /\ g \in Live /\ f \in FD /\ g \in FD /\ d # NoFd
      BY <1>1, <2>2, WatchedOpen, Bounds
    <3>2. /\ \/ x.rank = 0 /\ d = f
             \/ x.rank = 1 /\ d = conn[f].cgi.in
             \/ x.rank = 2 /\ d = conn[f].cgi.out
          /\ \/ y.rank = 0 /\ d = g
             \/ y.rank = 1 /\ d = conn[g].cgi.in
             \/ y.rank = 2 /\ d = conn[g].cgi.out
      BY <1>1 DEF Watches
    <3>3. Owns(f, conn[f], open) /\ Disjoint
      BY <3>1 DEF SInv, IInv, Ownership, HoldsOwn
    <3>a. x.rank \in 0..2 /\ y.rank \in 0..2
      BY <1>1 DEF PollEntry
    <3> HIDE DEF f, g, d
    <3>4. f = g
      <4> SUFFICES ASSUME f # g PROVE FALSE
        OBVIOUS
      <4>1. /\ conn[f].cgi.in # g /\ conn[f].cgi.out # g
            /\ conn[g].cgi.in # f /\ conn[g].cgi.out # f
            /\ conn[f].cgi.in # NoFd => conn[f].cgi.in \notin {conn[g].cgi.in, conn[g].cgi.out}
            /\ conn[g].cgi.in # NoFd => conn[g].cgi.in \notin {conn[f].cgi.in, conn[f].cgi.out}
            /\ conn[f].cgi.out # NoFd => conn[f].cgi.out # conn[g].cgi.out
        BY <3>1, <3>3 DEF Disjoint
      <4> QED BY <3>1, <3>2, <4>1
    <3>5. x.rank = y.rank
      BY <3>1, <3>2, <3>3, <3>4 DEF Owns
    <3> QED BY <3>4, <3>5 DEF f, g
  <2> QED BY <2>1, <2>2
<1>3. x.events = y.events
  <2>1. CASE x.rank = 0 /\ x.of \in FD
    BY <1>1, <1>2, <2>1, Apart DEF Watches
  <2>2. CASE x.rank = 0 /\ x.of \notin FD
    BY <1>1, <1>2, <2>2, Apart DEF Watches
  <2>3. CASE x.rank # 0
    BY <1>1, <1>2, <2>3 DEF Watches
  <2> QED BY <2>1, <2>2, <2>3
<1>4. x.fd = y.fd /\ x.of = y.of /\ x.rank = y.rank /\ x.late = y.late /\ x.events = y.events
  BY <1>1, <1>2, <1>3
<1>5. \A z \in PollEntry : z = [fd |-> z.fd, of |-> z.of, rank |-> z.rank, late |-> z.late,
                                  events |-> z.events]
  BY DEF PollEntry
<1> QED BY <1>1, <1>4, <1>5, Zenon

-----------------------------------------------------------------------------
(* An entry of the poll set means what the rebuilt one does; one that      *)
(* accept() appended belongs to a connection without a CGI.                *)
LEMMA PollEntryMeaning ==
    ASSUME PInv, pc # "stopped", NEW e \in pollfds
    PROVE  /\ e \in PollEntry /\ Plain(e) \in Watched(conn) /\ Watches(conn, e)
           /\ e.late = TRUE => /\ e.of \in FD /\ conn[e.of].st = "READING"
                               /\ conn[e.of].cgi = NoCgi /\ e.rank = 0 /\ e.fd = e.of
<1>1. e \in PollEntry
  BY DEF PInv, SInv, IInv, TypeOK
<1>2. Plain(e) \in Watched(conn)
  BY DEF PInv, EInv, Current
<1>3. Watches(conn, Plain(e))
  BY <1>2, WatchedMeaning
<1>a. /\ Plain(e).fd = e.fd /\ Plain(e).of = e.of /\ Plain(e).rank = e.rank
      /\ Plain(e).events = e.events
  BY <1>1, Zenon DEF Plain, PollEntry
<1>4. Watches(conn, e)
  BY <1>3, <1>a, Zenon DEF Watches
<1>5. ASSUME e.late = TRUE
      PROVE  /\ e.of \in FD /\ conn[e.of].st = "READING"
             /\ conn[e.of].cgi = NoCgi /\ e.rank = 0 /\ e.fd = e.of
  <2>1. e.of \in FD /\ conn[e.of].st = "READING"
    BY <1>5, Zenon DEF PInv, EInv, LateOnes
  <2>2. Fits(conn[e.of])
    BY <2>1 DEF PInv, SInv, States
  <2>3. conn[e.of].cgi = NoCgi /\ ~HasCgi(conn[e.of])
    BY <2>1, <2>2 DEF Fits
  <2> QED BY <1>4, <2>1, <2>3 DEF Watches
<1> QED BY <1>1, <1>2, <1>4, <1>5

(* No two entries of the poll set watch the same descriptor.               *)
LEMMA PollOnce ==
    ASSUME PInv, pc # "stopped", NEW d \in pollfds, NEW e \in pollfds, d.fd = e.fd
    PROVE  d = e
<1>1. /\ d \in PollEntry /\ Plain(d) \in Watched(conn)
      /\ e \in PollEntry /\ Plain(e) \in Watched(conn)
  BY PollEntryMeaning
<1>2. CASE d.late = TRUE \/ e.late = TRUE
  BY <1>2, Zenon DEF PInv, EInv, LateOnes
<1>3. CASE d.late = FALSE /\ e.late = FALSE
  <2>1. Plain(d) = d /\ Plain(e) = e
    BY <1>1, <1>3, Zenon DEF Plain, PollEntry
  <2> QED BY <1>1, <2>1, WatchedOnce DEF PInv
<1>4. d.late \in BOOLEAN /\ e.late \in BOOLEAN
  BY <1>1, Zenon DEF PollEntry
<1> QED BY <1>2, <1>3, <1>4, Zenon

(* The entries of a connection are its socket's and those of its pipes.    *)
LEMMA PollSameOf ==
    ASSUME PInv, pc # "stopped", NEW d \in pollfds, NEW e \in pollfds,
           e.of \in FD, d.of = e.of, d # e, e.fd = e.of
    PROVE  d.fd \in {conn[e.of].cgi.in, conn[e.of].cgi.out}
<1>1. Watches(conn, d)
  BY PollEntryMeaning
<1>2. d.fd # e.fd
  BY PollOnce
<1> QED BY <1>1, <1>2, Apart DEF Watches

LEMMA SnapshotOf ==
    ASSUME NEW x \in Snapshot
    PROVE  \E e \in pollfds : /\ x.fd = e.fd /\ x.of = e.of /\ x.rank = e.rank
                              /\ x.late = e.late /\ x.revents = Revents(e)
<1>1. PICK e \in pollfds : x = [fd |-> e.fd, of |-> e.of, rank |-> e.rank, late |-> e.late,
                                revents |-> Revents(e)]
  BY Zenon DEF Snapshot
<1> QED BY <1>1

LEMMA SnapshotEq ==
    ASSUME NEW x \in Snapshot, NEW y \in Snapshot, NEW e \in pollfds,
           x.fd = e.fd, x.of = e.of, x.rank = e.rank, x.late = e.late, x.revents = Revents(e),
           y.fd = e.fd, y.of = e.of, y.rank = e.rank, y.late = e.late, y.revents = Revents(e)
    PROVE  x = y
<1>1. PICK d \in pollfds : x = [fd |-> d.fd, of |-> d.of, rank |-> d.rank, late |-> d.late,
                                revents |-> Revents(d)]
  BY Zenon DEF Snapshot
<1>2. PICK c \in pollfds : y = [fd |-> c.fd, of |-> c.of, rank |-> c.rank, late |-> c.late,
                                revents |-> Revents(c)]
  BY Zenon DEF Snapshot
<1>3. /\ x.fd = d.fd /\ x.of = d.of /\ x.rank = d.rank /\ x.late = d.late /\ x.revents = Revents(d)
      /\ y.fd = c.fd /\ y.of = c.of /\ y.rank = c.rank /\ y.late = c.late /\ y.revents = Revents(c)
  BY <1>1, <1>2
<1>4. /\ d.fd = c.fd /\ d.of = c.of /\ d.rank = c.rank /\ d.late = c.late
      /\ Revents(d) = Revents(c)
  BY <1>3
<1> QED BY <1>1, <1>2, <1>4, Zenon

(* What poll() reports for a socket, in terms of the socket.               *)
LEMMA SocketReported ==
    ASSUME NEW e, e.fd \in open, e.fd \in FD, e.rank = 0
    PROVE  /\ "IN" \in Revents(e) => sock[e.fd].rx \/ sock[e.fd].peer \in {"fin", "reset"}
           /\ "OUT" \in Revents(e) => "OUT" \in e.events /\ sock[e.fd].room
           /\ "HUP" \in Revents(e) => sock[e.fd].peer = "reset"
<1> DEFINE a == IF signalled THEN {"IN"} ELSE {}
           b == IF backlog[e.fd] > 0 THEN {"IN"} ELSE {}
           s == SocketReady(sock[e.fd], e.events)
           i == StdinReady(child[conn[e.of].cgi.pid])
           o == StdoutReady(child[conn[e.of].cgi.pid])
<1>1. Revents(e) = CASE e.fd = SignalPipe    -> a
                     [] e.fd \in Listener    -> b
                     [] e.fd \in FD \ open   -> {"HUP"}
                     [] e.fd \in open /\ e.rank = 0 -> s
                     [] e.fd \in open /\ e.rank = 1 -> i
                     [] e.fd \in open /\ e.rank = 2 -> o
  BY Zenon DEF Revents
<1> HIDE DEF a, b, s, i, o
<1>2. Revents(e) = s
  BY <1>1, Apart
<1> QED BY <1>2 DEF s, SocketReady

(* Nothing has happened yet when poll() returns.                           *)
LEMMA PollEvents ==
    ASSUME PInv, Poll
    PROVE  Events'
<1>1. /\ pc # "stopped" /\ ready' = Snapshot
      /\ UNCHANGED <<conn, cgiToSocket, open, sock>>
  BY DEF Poll, kernelVars
<1> SUFFICES ASSUME NEW x \in Snapshot PROVE Pending(x)'
  BY <1>1 DEF Events
<1>2. PICK e \in pollfds : /\ x.fd = e.fd /\ x.of = e.of /\ x.rank = e.rank
                           /\ x.late = e.late /\ x.revents = Revents(e)
  BY SnapshotOf
<1>3. /\ e \in PollEntry /\ Watches(conn, e)
      /\ e.late = TRUE => /\ e.of \in FD /\ conn[e.of].st = "READING"
                          /\ conn[e.of].cgi = NoCgi /\ e.rank = 0 /\ e.fd = e.of
  BY <1>1, PollEntryMeaning
<1>4. \/ e.fd \notin FD /\ e.fd = e.of /\ e.rank = 0
      \/ e.fd \in open /\ e.fd \in FD /\ e.of \in Live /\ e.of \in FD
  BY <1>3, WatchedOpen DEF PInv
<1>5. ASSUME NEW y \in Snapshot
      PROVE  \E d \in pollfds : /\ y.fd = d.fd /\ y.of = d.of /\ y.rank = d.rank
                                /\ y.late = d.late /\ y.revents = Revents(d)
                                /\ (d = e => y = x)
  <2>1. PICK d \in pollfds : /\ y.fd = d.fd /\ y.of = d.of /\ y.rank = d.rank
                             /\ y.late = d.late /\ y.revents = Revents(d)
    BY <1>5, SnapshotOf
  <2>2. d = e => y = x
    BY <1>2, <2>1, SnapshotEq
  <2> QED BY <2>1, <2>2
<1>6. ASSUME x.fd \in FD, x.rank = 0 PROVE OnSocket(x)'
  <2>1. e.fd \in open /\ e.fd \in FD /\ e.of \in FD /\ e.of \in Live /\ e.rank = 0
    BY <1>2, <1>4, <1>6
  <2>2. e.fd = e.of /\ ("OUT" \in e.events => conn[e.fd].st = "WRITING")
    BY <1>3, <2>1, Apart DEF Watches, WantsWrite
  <2>3. /\ "IN" \in x.revents => sock[e.fd].rx \/ sock[e.fd].peer \in {"fin", "reset"}
        /\ "OUT" \in x.revents => conn[e.fd].st = "WRITING" /\ sock[e.fd].room
        /\ "HUP" \in x.revents => sock[e.fd].peer = "reset"
    BY <1>2, <2>1, <2>2, SocketReported
  <2>4. ASSUME NEW y \in Snapshot, y.of = x.of, y # x
        PROVE  y.fd \in {conn[e.fd].cgi.in, conn[e.fd].cgi.out}
    <3>1. PICK d \in pollfds : y.fd = d.fd /\ y.of = d.of /\ (d = e => y = x)
      BY <1>5
    <3>2. d.fd \in {conn[e.of].cgi.in, conn[e.of].cgi.out}
      BY <1>1, <1>2, <2>1, <2>2, <2>4, <3>1, PollSameOf
    <3> QED BY <2>2, <3>1, <3>2
  <2>5. Live' = Live
    BY <1>1 DEF Live
  <2> QED BY <1>1, <1>2, <2>1, <2>2, <2>3, <2>4, <2>5 DEF OnSocket
<1>7. ASSUME x.fd \in FD, x.rank # 0 PROVE OnPipe(x)'
  <2>1. e.fd \in open /\ e.of \in FD /\ e.of \in Live /\ e.rank # 0
    BY <1>2, <1>4, <1>7
  <2>2. e.fd \in {conn[e.of].cgi.in, conn[e.of].cgi.out} \ {NoFd}
    BY <1>3, <2>1 DEF Watches
  <2>3. cgiToSocket[e.fd] = e.of
    BY <2>1, <2>2 DEF PInv, SInv, IInv, Mapping, Registered
  <2>4. e.late = FALSE
    <3>1. e.late # TRUE
      BY <1>3, <2>1
    <3> QED BY <1>3, <3>1, Zenon DEF PollEntry
  <2>5. Live' = Live
    BY <1>1 DEF Live
  <2> QED BY <1>1, <1>2, <2>1, <2>3, <2>4, <2>5 DEF OnPipe
<1>8. x.fd \notin FD => x.rank = 0 /\ x.of = x.fd
  BY <1>2, <1>4
<1>9. ASSUME NEW y \in Snapshot, y.fd = x.fd \/ (y.late /\ y.of = x.of)
      PROVE  y = x
  <2>1. PICK d \in pollfds : /\ y.fd = d.fd /\ y.of = d.of /\ y.late = d.late
                             /\ (d = e => y = x)
    BY <1>5
  <2>2. CASE y.fd = x.fd
    BY <1>1, <1>2, <2>1, <2>2, PollOnce
  <2>3. CASE y.late /\ y.of = x.of
    <3>1. d.late = TRUE
      <4>1. d.late \in BOOLEAN
        BY <1>1, PollEntryMeaning, Zenon DEF PollEntry
      <4> QED BY <2>1, <2>3, <4>1
    <3>2. /\ d.of \in FD /\ conn[d.of].cgi = NoCgi /\ d.fd = d.of /\ e.of = d.of
      BY <1>1, <1>2, <2>1, <2>3, <3>1, PollEntryMeaning
    <3>3. e.fd \notin {conn[d.of].cgi.in, conn[d.of].cgi.out}
      BY <1>3, <1>4, <3>2, Bounds DEF NoCgi
    <3>4. e = d
      BY <1>1, <3>2, <3>3, PollSameOf
    <3> QED BY <2>1, <3>4
  <2> QED BY <1>9, <2>2, <2>3
<1> QED BY <1>1, <1>6, <1>7, <1>8, <1>9 DEF Pending

-----------------------------------------------------------------------------
(* A step that rebuilds the poll set, and one that leaves it as it is and  *)
(* changes nothing that a rebuild would look at.                           *)
LEMMA Rebuilt ==
    ASSUME conn' \in [FD -> Connections], pollfds' = Watched(conn')
    PROVE  Current' /\ LateOnes'
<1>1. {Plain(e) : e \in pollfds'} = Watched(conn')
  BY PlainWatched
<1>2. ASSUME NEW d \in pollfds' PROVE ~d.late
  BY <1>2, WatchedMeaning
<1> QED BY <1>1, <1>2 DEF Current, LateOnes

LEMMA LeftAlone ==
    ASSUME PInv, pc # "stopped", pollfds' = pollfds,
           \A f \in FD : conn'[f].st = conn[f].st /\ conn'[f].cgi = conn[f].cgi
    PROVE  Current' /\ LateOnes'
<1>1. Watched(conn') = Watched(conn)
  BY WatchedSame DEF WantsWrite
<1>2. Current'
  BY <1>1, Zenon DEF PInv, EInv, Current
<1>3. LateOnes'
  BY DEF PInv, EInv, LateOnes
<1> QED BY <1>2, <1>3

(* A connection that reads or waits and is not closed is as it was.        *)
LEMMA ContinuesSame ==
    ASSUME NEW e, NEW u \in Worlds, NEW w, NEW v, Fits(u.c), u.c.st # "NONE",
           Received(e, u, w), ~Started(u, w), Written(e, w, v),
           v.c.st \notin {"CLOSED", "WRITING"}
    PROVE  v.c.st = u.c.st /\ v.c.cgi = u.c.cgi
<1>1. CASE w = u
  BY <1>1 DEF Written, Broken, Sent
<1>2. CASE Ended(u, w)
  BY <1>2 DEF Ended, Written
<1>3. CASE Asked(u, w)
  <2>1. v = w
    BY <1>3 DEF Asked, Written
  <2>2. u.c.st = "READING"
    BY <1>3 DEF Asked, Fits
  <2> QED BY <1>3, <2>1, <2>2 DEF Asked
<1>4. CASE Answered(u, w)
  BY <1>4 DEF Answered, Written, Broken, Sent
<1> QED BY <1>1, <1>2, <1>3, <1>4 DEF Received

LEMMA SocketEventCurrent ==
    ASSUME PInv, SInv', NEW e \in ready, SocketEvent(e)
    PROVE  Current' /\ LateOnes'
<1> DEFINE f == e.fd
           u == World(f)
<1>1. f \in FD /\ f \in Live /\ pc # "stopped" /\ \E w, v \in Worlds : SocketStep(e, w, v)
  BY SocketOutcome DEF PInv, SInv, Turn
<1>2. PICK w \in Worlds, v \in Worlds : SocketStep(e, w, v)
  BY <1>1
<1>3. u \in Worlds /\ u.c = conn[f] /\ Fits(conn[f]) /\ conn[f].st # "NONE"
  BY <1>1, WorldType, WorldFields DEF PInv, SInv, IInv, States, Live
<1>4. conn' \in [FD -> Connections] /\ conn \in [FD -> Connections]
  BY DEF PInv, SInv, IInv, TypeOK
<1>5. CASE pollfds' = Watched(conn')
  BY <1>4, <1>5, Rebuilt
<1>6. CASE pollfds' # Watched(conn')
  <2>1. /\ ~Started(u, w) /\ Received(e, u, w) /\ Written(e, w, v) /\ Continues(f, v)
        /\ v.c.st \notin {"CLOSED", "WRITING"} /\ pollfds' = pollfds
    BY <1>2, <1>6 DEF SocketStep, Registers, CloseConnection, Continues
  <2>2. v.c.st = conn[f].st /\ v.c.cgi = conn[f].cgi
    BY <1>3, <2>1, ContinuesSame
  <2>3. conn' = [conn EXCEPT ![f] = v.c]
    BY <2>1 DEF Continues, Commit
  <2>4. \A g \in FD : conn'[g].st = conn[g].st /\ conn'[g].cgi = conn[g].cgi
    BY <1>1, <1>4, <2>2, <2>3
  <2> QED BY <1>1, <2>1, <2>4, LeftAlone
<1> QED BY <1>5, <1>6

LEMMA AcceptCurrent ==
    ASSUME PInv, NEW e \in ready, Accept(e)
    PROVE  Current' /\ LateOnes'
<1> DEFINE new == Lowest(FD \ open, backlog[e.fd])
           Appended(f) == [Entry(f, f, 0, {"IN"}) EXCEPT !.late = TRUE]
<1>1. /\ pc # "stopped" /\ e.fd \in Listener
      /\ conn' = [f \in FD |-> IF f \in new THEN NewConnection ELSE conn[f]]
      /\ pollfds' = pollfds \union {Appended(f) : f \in new}
  BY Zenon DEF Accept, Turn
<1>2. new \subseteq FD \ open
  <2>1. backlog[e.fd] \in Nat
    BY <1>1 DEF PInv, SInv, IInv, TypeOK, KernelTypeOK
  <2> QED BY <2>1, LowestLemma
<1> HIDE DEF new
<1>3. ASSUME NEW f \in new
      PROVE  /\ Appended(f).fd = f /\ Appended(f).of = f
             /\ Plain(Appended(f)) = Entry(f, f, 0, {"IN"})
  <2> DEFINE r == Entry(f, f, 0, {"IN"})
  <2>1. f \in Descriptor /\ 0 \in 0..2 /\ {"IN"} \in SUBSET {"IN", "OUT"}
    BY <1>2, <1>3 DEF Descriptor
  <2>2. r \in PollEntry /\ r.late = FALSE /\ r.fd = f /\ r.of = f
    BY <2>1, Zenon DEF Entry, PollEntry
  <2>3. Appended(f) = [r EXCEPT !.late = TRUE]
    BY Zenon
  <2> HIDE DEF r
  <2>4. Appended(f).fd = f /\ Appended(f).of = f /\ Plain(Appended(f)) = r
    BY <2>2, <2>3, Zenon DEF Plain, PollEntry
  <2> QED BY <2>4 DEF r
<1> HIDE DEF Appended
<1>4. \A f \in new : f \notin Live
  BY <1>2 DEF PInv, SInv, IInv, Ownership, HoldsOwn, Owns
<1>5. /\ \A f \in new : conn[f] = NoConnection
      /\ NoConnection.st = "NONE" /\ ~HasCgi(NoConnection)
      /\ NewConnection.st = "READING" /\ ~HasCgi(NewConnection) /\ ~WantsWrite(NewConnection)
  BY <1>2, <1>4 DEF PInv, SInv, IInv, Ownership, FreeSlots, NewConnection, NoConnection,
                    NoCgi, HasCgi, WantsWrite
<1>6. Watched(conn') = Watched(conn) \union {Entry(f, f, 0, {"IN"}) : f \in new}
  <2>1. /\ {f \in FD : conn'[f].st # "NONE"} = {f \in FD : conn[f].st # "NONE"} \union new
        /\ {f \in FD : HasCgi(conn'[f]) /\ conn'[f].cgi.in # NoFd}
              = {f \in FD : HasCgi(conn[f]) /\ conn[f].cgi.in # NoFd}
        /\ {f \in FD : HasCgi(conn'[f]) /\ conn'[f].cgi.out # NoFd}
              = {f \in FD : HasCgi(conn[f]) /\ conn[f].cgi.out # NoFd}
    BY <1>1, <1>2, <1>5
  <2>2. /\ \A f \in FD \ new : conn'[f] = conn[f]
        /\ \A f \in new : conn'[f] = NewConnection
    BY <1>1, <1>2
  <2> DEFINE S(c) == {Entry(f, f, 0, IF WantsWrite(c[f]) THEN {"IN", "OUT"} ELSE {"IN"}) :
                      f \in {g \in FD : c[g].st # "NONE"}}
             I(c) == {Entry(c[f].cgi.in, f, 1, {"OUT"}) :
                      f \in {g \in FD : HasCgi(c[g]) /\ c[g].cgi.in # NoFd}}
             O(c) == {Entry(c[f].cgi.out, f, 2, {"IN"}) :
                      f \in {g \in FD : HasCgi(c[g]) /\ c[g].cgi.out # NoFd}}
             L == {Entry(d, d, 0, {"IN"}) : d \in Listener \union {SignalPipe}}
             N == {Entry(f, f, 0, {"IN"}) : f \in new}
  <2>3. \A f \in {g \in FD : HasCgi(conn[g])} : f \notin new
    BY <1>5
  <2>4. I(conn') = I(conn)
    <3> DEFINE J == {f \in FD : HasCgi(conn[f]) /\ conn[f].cgi.in # NoFd}
    <3>1. \A f \in J : Entry(conn'[f].cgi.in, f, 1, {"OUT"}) = Entry(conn[f].cgi.in, f, 1, {"OUT"})
      BY <2>2, <2>3
    <3>2. {Entry(conn'[f].cgi.in, f, 1, {"OUT"}) : f \in J} = {Entry(conn[f].cgi.in, f, 1, {"OUT"}) : f \in J}
      BY <3>1, Zenon
    <3> QED BY <2>1, <3>2, Zenon
  <2>5. O(conn') = O(conn)
    <3> DEFINE J == {f \in FD : HasCgi(conn[f]) /\ conn[f].cgi.out # NoFd}
    <3>1. \A f \in J : Entry(conn'[f].cgi.out, f, 2, {"IN"}) = Entry(conn[f].cgi.out, f, 2, {"IN"})
      BY <2>2, <2>3
    <3>2. {Entry(conn'[f].cgi.out, f, 2, {"IN"}) : f \in J} = {Entry(conn[f].cgi.out, f, 2, {"IN"}) : f \in J}
      BY <3>1, Zenon
    <3> QED BY <2>1, <3>2, Zenon
  <2>6. S(conn') = S(conn) \union N
    <3>1. \A f \in new : Entry(f, f, 0, IF WantsWrite(conn'[f]) THEN {"IN", "OUT"} ELSE {"IN"})
                         = Entry(f, f, 0, {"IN"})
      BY <1>5, <2>2
    <3>2. \A f \in {g \in FD : conn[g].st # "NONE"} : f \notin new /\ conn'[f] = conn[f]
      BY <1>5, <2>2
    <3>3. ASSUME NEW x \in S(conn') PROVE x \in S(conn) \union N
      <4>1. PICK f \in {g \in FD : conn'[g].st # "NONE"} :
               x = Entry(f, f, 0, IF WantsWrite(conn'[f]) THEN {"IN", "OUT"} ELSE {"IN"})
        BY <3>3, Zenon
      <4>2. f \in {g \in FD : conn[g].st # "NONE"} \/ f \in new
        BY <2>1
      <4>3. CASE f \in new
        BY <3>1, <4>1, <4>3, Zenon
      <4>4. CASE f \in {g \in FD : conn[g].st # "NONE"}
        <5>1. conn'[f] = conn[f]
          BY <3>2, <4>4
        <5> QED BY <4>1, <4>4, <5>1, Zenon
      <4> QED BY <4>2, <4>3, <4>4
    <3>4. ASSUME NEW x \in S(conn) PROVE x \in S(conn')
      <4>1. PICK f \in {g \in FD : conn[g].st # "NONE"} :
               x = Entry(f, f, 0, IF WantsWrite(conn[f]) THEN {"IN", "OUT"} ELSE {"IN"})
        BY <3>4, Zenon
      <4>2. conn'[f] = conn[f] /\ f \in {g \in FD : conn'[g].st # "NONE"}
        BY <2>1, <3>2
      <4> QED BY <4>1, <4>2, Zenon
    <3>5. ASSUME NEW x \in N PROVE x \in S(conn')
      <4>1. PICK f \in new : x = Entry(f, f, 0, {"IN"})
        BY <3>5, Zenon
      <4>2. f \in {g \in FD : conn'[g].st # "NONE"}
        BY <2>1
      <4>3. x = Entry(f, f, 0, IF WantsWrite(conn'[f]) THEN {"IN", "OUT"} ELSE {"IN"})
        BY <3>1, <4>1
      <4> QED BY <4>2, <4>3, Zenon
    <3> HIDE DEF S, N
    <3> QED BY <3>3, <3>4, <3>5
  <2>7. Watched(conn') = L \union S(conn') \union I(conn') \union O(conn')
        /\ Watched(conn) = L \union S(conn) \union I(conn) \union O(conn)
    BY Zenon DEF Watched
  <2> HIDE DEF S, I, O, L, N
  <2>8. Watched(conn') = Watched(conn) \union N
    BY <2>4, <2>5, <2>6, <2>7
  <2> QED BY <2>8 DEF N
<1>7. Current'
  <2>1. {Plain(d) : d \in pollfds'} =
           {Plain(d) : d \in pollfds} \union {Plain(d) : d \in {Appended(f) : f \in new}}
    <3> DEFINE A == {Appended(f) : f \in new}
    <3>1. pollfds' = pollfds \union A
      BY <1>1
    <3> HIDE DEF A
    <3>2. {Plain(d) : d \in pollfds'} = {Plain(d) : d \in pollfds} \union {Plain(d) : d \in A}
      BY <3>1
    <3> QED BY <3>2 DEF A
  <2>2. {Plain(d) : d \in {Appended(f) : f \in new}} = {Entry(f, f, 0, {"IN"}) : f \in new}
    <3>1. \A f \in new : Plain(Appended(f)) = Entry(f, f, 0, {"IN"})
      BY <1>3, Zenon
    <3>2. {Plain(d) : d \in {Appended(f) : f \in new}} = {Plain(Appended(f)) : f \in new}
      BY Zenon
    <3> QED BY <3>1, <3>2, Zenon
  <2>3. {Plain(d) : d \in pollfds} = Watched(conn)
    BY <1>1 DEF PInv, EInv, Current
  <2>4. {Plain(d) : d \in pollfds'} = Watched(conn')
    BY <1>6, <2>1, <2>2, <2>3
  <2> QED BY <2>4 DEF Current
<1>8. ASSUME NEW d \in pollfds PROVE d.fd \notin new
  <2>1. Watches(conn, d)
    BY <1>1, PollEntryMeaning
  <2> QED BY <1>2, <2>1, WatchedOpen DEF PInv
<1>9. LateOnes'
  <2> SUFFICES ASSUME NEW d \in pollfds', d.late
               PROVE  /\ d.of \in FD /\ conn'[d.of].st = "READING"
                      /\ \A c \in pollfds' : c.fd = d.fd => c = d
    BY DEF LateOnes
  <2>1. CASE d \in pollfds
    <3>1. /\ d.of \in FD /\ conn[d.of].st = "READING"
          /\ \A c \in pollfds : c.fd = d.fd => c = d
      BY <2>1 DEF PInv, EInv, LateOnes
    <3>2. conn'[d.of] = conn[d.of]
      BY <1>1, <1>4, <3>1 DEF Live
    <3>3. ASSUME NEW c \in pollfds', c.fd = d.fd PROVE c \in pollfds
      <4>1. c.fd \notin new
        BY <1>8, <2>1, <3>3
      <4> QED BY <1>1, <1>3, <3>3, <4>1
    <3> QED BY <3>1, <3>2, <3>3
  <2>2. CASE d \notin pollfds
    <3>1. PICK f \in new : d = Appended(f)
      BY <1>1, <2>2
    <3>2. d.fd = f /\ d.of = f
      BY <1>3, <3>1
    <3>3. ASSUME NEW c \in pollfds', c.fd = f PROVE c = d
      <4>1. c \notin pollfds
        BY <1>8, <3>3
      <4>2. PICK g \in new : c = Appended(g)
        BY <1>1, <4>1
      <4> QED BY <1>3, <3>1, <3>3, <4>2
    <3> QED BY <1>1, <1>2, <1>5, <3>2, <3>3
  <2> QED BY <2>1, <2>2
<1> QED BY <1>7, <1>9

LEMMA CheckTimeoutsCurrent ==
    ASSUME PInv, SInv', CheckTimeouts
    PROVE  Current' /\ LateOnes'
<1>1. /\ pc # "stopped"
      /\ pollfds' = IF LateCgi \union Idlers # {} THEN Watched(conn') ELSE pollfds
  BY DEF CheckTimeouts
<1>2. CASE LateCgi \union Idlers # {}
  BY <1>1, <1>2, Rebuilt DEF SInv, IInv, TypeOK
<1>3. CASE LateCgi \union Idlers = {}
  <2>1. \A f \in FD : conn'[f] = conn[f]
    BY <1>3, CheckTimeoutsConn DEF PInv
  <2> QED BY <1>1, <1>3, <2>1, LeftAlone
<1> QED BY <1>2, <1>3

LEMMA NextCurrent ==
    ASSUME PInv, SInv', [Next]_vars
    PROVE  Current' /\ LateOnes'
<1>1. conn' \in [FD -> Connections]
  BY DEF SInv, IInv, TypeOK
<1>2. ASSUME NEW e \in ready, Handle(e) PROVE Current' /\ LateOnes'
  <2>1. CASE CgiEvent(e)
    <3>1. CASE cgiToSocket[e.fd] \in Live
      BY <1>1, <2>1, <3>1, Rebuilt DEF CgiEvent, CgiHandled
    <3>2. CASE cgiToSocket[e.fd] \notin Live
      BY <2>1, <3>2, LeftAlone DEF CgiEvent, Turn
    <3> QED BY <3>1, <3>2
  <2>2. CASE HangUp(e)
    BY <1>1, <2>2, Rebuilt DEF HangUp, CloseConnection
  <2>3. CASE UnknownEvent(e)
    BY <2>3, LeftAlone DEF UnknownEvent, SocketTurn, Turn
  <2>4. CASE SocketEvent(e)
    BY <2>4, SocketEventCurrent
  <2>5. CASE Accept(e)
    BY <2>5, AcceptCurrent
  <2>6. CASE Shutdown(e)
    BY <2>6 DEF Shutdown, Current, LateOnes
  <2> QED BY <1>2, <2>1, <2>2, <2>3, <2>4, <2>5, <2>6 DEF Handle
<1>3. CASE CheckTimeouts
  BY <1>3, CheckTimeoutsCurrent
<1>4. CASE Tick
  <2>1. pc # "stopped" /\ pollfds' = pollfds
    BY <1>4 DEF Tick
  <2>2. \A f \in FD : conn'[f].st = conn[f].st /\ conn'[f].cgi = conn[f].cgi
    BY <1>4, TickConn DEF PInv, SInv, IInv
  <2> QED BY <2>1, <2>2, LeftAlone
<1>5. CASE Poll \/ Outside \/ UNCHANGED vars
  <2>1. conn' = conn /\ pollfds' = pollfds /\ (pc' # "stopped" => pc # "stopped")
    BY <1>5 DEF Poll, Outside, engineVars, vars
  <2> QED BY <2>1, Zenon DEF PInv, EInv, Current, LateOnes
<1> QED BY <1>2, <1>3, <1>4, <1>5 DEF Next, Loop

-----------------------------------------------------------------------------
(* A turn ends with one event less.  What the handler does concerns one    *)
(* connection f, and it is the one its event is about: the pending events  *)
(* of the others mean what they did; those on f's own pipes still do too,  *)
(* or else the pipes are closed and nothing is opened before their turn.   *)
LEMMA TurnEvents ==
    ASSUME PInv, NEW e \in ready, e.fd \in FD, Turn(e), ready' = ready \ {e},
           NEW f \in FD, f \in Live => e.of = f,
           \A g \in FD \ {f} : conn'[g] = conn[g] /\ sock'[g] = sock[g],
           \A x \in open : cgiToSocket[x] \in Live \ {f} =>
                              x \in open' /\ cgiToSocket'[x] = cgiToSocket[x],
           \A d \in ready' : d.of = f /\ d.rank # 0 /\ cgiToSocket[d.fd] = f /\ f \in Live =>
                              \/ f \in Live' /\ cgiToSocket'[d.fd] = f /\ d.fd \in open'
                              \/ d.fd \notin open',
           e.rank # 0 => open' \subseteq open
    PROVE  Events'
<1> SUFFICES ASSUME NEW d \in ready, d # e PROVE Pending(d)'
  BY DEF Events
<1>1. /\ Pending(d) /\ Pending(e) /\ Before(e, d)
      /\ d \in ReadyEntry /\ e \in ReadyEntry
      /\ FD \subseteq Nat
  BY KernelAssumption DEF PInv, EInv, Events, Turn, SInv, IInv, TypeOK
<1>2. /\ d.rank \in 0..2 /\ e.rank \in 0..2 /\ d.late \in BOOLEAN /\ e.late \in BOOLEAN
  BY <1>1 DEF ReadyEntry
<1>3. d.fd # e.fd /\ ~(d.late /\ d.of = e.of) /\ ~(e.late /\ d.of = e.of)
  BY <1>1 DEF Pending
<1>4. ASSUME d.fd \in FD, d.rank = 0 PROVE OnSocket(d)'
  <2>1. OnSocket(d)
    BY <1>1, <1>4 DEF Pending
  <2>2. d.of \in FD /\ d.of \in Live /\ d.fd = d.of
    BY <2>1 DEF OnSocket, Live
  <2>3. d.of # f
    <3> SUFFICES ASSUME d.of = f PROVE FALSE
      OBVIOUS
    <3>1. e.of = d.of
      BY <2>2
    <3>2. e.rank # 0
      BY <1>1, <1>3, <2>2, <3>1 DEF Pending, OnSocket
    <3>3. e.rank < d.rank
      BY <1>1, <1>2, <1>3, <2>2, <3>1 DEF Before
    <3> QED BY <1>2, <1>4, <3>2, <3>3
  <2>4. conn'[d.of] = conn[d.of] /\ sock'[d.of] = sock[d.of] /\ d.of \in Live'
    BY <2>2, <2>3 DEF Live
  <2> QED BY <2>1, <2>2, <2>4 DEF OnSocket
<1>5. ASSUME d.fd \in FD, d.rank # 0 PROVE OnPipe(d)'
  <2>1. OnPipe(d)
    BY <1>1, <1>5 DEF Pending
  <2>2. ~d.late /\ d.of \in FD
    BY <2>1 DEF OnPipe
  <2>3. CASE d.fd \notin open
    <3>1. e.rank # 0 /\ \A c \in ready : Before(c, d) => c.of = d.of /\ c.rank # 0
      BY <1>1, <2>1, <2>3 DEF OnPipe
    <3> QED BY <2>2, <2>3, <3>1 DEF OnPipe
  <2>4. CASE d.fd \in open /\ d.of # f
    <3>1. d.of \in Live /\ cgiToSocket[d.fd] = d.of
      BY <2>1, <2>4 DEF OnPipe
    <3>2. d.fd \in open' /\ cgiToSocket'[d.fd] = d.of
      BY <2>4, <3>1
    <3>3. d.of \in Live'
      BY <2>2, <2>4, <3>1 DEF Live
    <3> QED BY <2>2, <3>2, <3>3 DEF OnPipe
  <2>5. CASE d.fd \in open /\ d.of = f
    <3>1. d.of \in Live /\ cgiToSocket[d.fd] = d.of
      BY <2>1, <2>5 DEF OnPipe
    <3>2. e.of = f
      BY <2>5, <3>1
    <3>3. \/ f \in Live' /\ cgiToSocket'[d.fd] = f /\ d.fd \in open'
          \/ d.fd \notin open'
      BY <1>5, <2>5, <3>1
    <3>4. ASSUME NEW c \in ready', Before(c, d) PROVE c.of = f /\ c.rank # 0
      <4>1. /\ Before(e, c) /\ c \in ReadyEntry /\ c.rank \in 0..2 /\ c.late \in BOOLEAN
            /\ Pending(c)
        BY <3>4 DEF PInv, EInv, Events, Turn, SInv, IInv, TypeOK, ReadyEntry
      <4>2. ~e.late /\ ~c.late
        BY <1>2, <1>3, <2>2, <2>5, <3>2, <3>4, <4>1 DEF Before
      <4>3. c.of \in Nat
        <5>1. c.of \in Descriptor /\ Descriptor \subseteq Nat
          BY <4>1, KernelAssumption DEF ReadyEntry, Descriptor
        <5> QED BY <5>1
      <4>4. e.of < c.of \/ (e.of = c.of /\ e.rank < c.rank)
        BY <4>1, <4>2 DEF Before
      <4>5. c.of < d.of \/ c.of = d.of
        BY <2>2, <3>4, <4>2 DEF Before
      <4>6. e.of \in Nat /\ d.of \in Nat /\ e.of = d.of
        BY <1>1, <2>5, <3>2
      <4> QED BY <1>2, <2>5, <4>1, <4>3, <4>4, <4>5, <4>6
    <3> QED BY <2>2, <2>5, <3>3, <3>4 DEF OnPipe
  <2> QED BY <2>3, <2>4, <2>5
<1>6. /\ d.fd \notin FD => d.rank = 0 /\ d.of = d.fd
      /\ \A c \in ready' : c.fd = d.fd \/ (c.late /\ c.of = d.of) => c = d
  BY <1>1 DEF Pending
<1> QED BY <1>4, <1>5, <1>6 DEF Pending

(* The branches of handlePollEvent, told apart by what the event is on: a  *)
(* descriptor in _cgiToSocket is a pipe of the connection it names, which  *)
(* is alive; a live connection is met on its socket; and any other number  *)
(* is that of a pipe which has been closed.                                *)
LEMMA PipeTurn ==
    ASSUME PInv, NEW e \in ready, Turn(e), e.fd \in FD, cgiToSocket[e.fd] # NoFd
    PROVE  /\ e.rank # 0 /\ e.of \in FD /\ e.of \in Live /\ cgiToSocket[e.fd] = e.of
           /\ e.fd \in open
<1>1. Pending(e) /\ pc # "stopped"
  BY DEF PInv, EInv, Events, Turn
<1>2. e.rank # 0
  BY <1>1 DEF Pending, OnSocket, PInv, SInv, IInv, Mapping, SocketsUnmapped
<1>3. e.fd \in open
  BY <1>1 DEF PInv, SInv, IInv, Mapping, ClosedUnmapped
<1> QED BY <1>1, <1>2, <1>3 DEF Pending, OnPipe

LEMMA SocketTurnKinds ==
    ASSUME PInv, NEW e \in ready, Turn(e), e.fd \in FD, cgiToSocket[e.fd] = NoFd
    PROVE  /\ e.fd \in Live => e.rank = 0 /\ e.of = e.fd /\ OnSocket(e)
           /\ e.fd \notin Live => e.rank # 0 /\ e.fd \notin open
<1>1. Pending(e)
  BY DEF PInv, EInv, Events
<1>2. \A f \in Live : f \in open
  BY DEF PInv, SInv, IInv, Ownership, HoldsOwn, Owns
<1> QED BY <1>1, <1>2, Bounds DEF Pending, OnSocket, OnPipe

LEMMA CgiEventEvents ==
    ASSUME PInv, SInv', NEW e \in ready, CgiEvent(e)
    PROVE  Events'
<1> DEFINE f == cgiToSocket[e.fd]
           u == World(f)
<1>1. /\ e.fd \in FD /\ f # NoFd /\ Turn(e) /\ ready' = ready \ {e}
      /\ f \in Live => CgiHandled(e, f)
  BY DEF CgiEvent, Handled
<1>2. e.rank # 0 /\ e.of \in FD /\ f \in Live /\ f = e.of /\ pc # "stopped" /\ pc' # "stopped"
  BY <1>1, PipeTurn DEF Turn, CgiEvent, Handled
<1>3. f \in FD /\ \E w, x \in Worlds : CgiStep(e, f, w, x)
  BY <1>1, <1>2, CgiOutcome DEF PInv, SInv
<1>4. PICK w \in Worlds, x \in Worlds : CgiStep(e, f, w, x)
  BY <1>3
<1>5. u.c = conn[f] /\ u.open = open /\ Owns(f, conn[f], open) /\ NoFd \notin open
      /\ Fits(conn[f])
  BY <1>2, <1>3, WorldFields, Bounds
     DEF PInv, SInv, IInv, Ownership, HoldsOwn, TypeOK, KernelTypeOK, States
<1> HIDE DEF f, u
<1> DEFINE shut == (IF w.c.cgi.in = NoFd THEN {conn[f].cgi.in} ELSE {})
                   \union (IF CloseCgi(e, w) THEN {w.c.cgi.in, w.c.cgi.out} ELSE {})
<1>6. /\ Kept(u, w) /\ (IF CloseCgi(e, w)
                        THEN /\ x.c.st = "WRITING" /\ x.open = w.open \ {w.c.cgi.in, w.c.cgi.out}
                        ELSE x = w)
      /\ Commit(f, x) /\ cgiToSocket' = Erase(cgiToSocket, shut)
  BY <1>4 DEF CgiStep, Finished, u
<1>7. /\ w.c.cgi.out = conn[f].cgi.out
      /\ \/ w.c.cgi.in = conn[f].cgi.in /\ w.open = open
         \/ w.c.cgi.in = NoFd /\ w.open = open \ {conn[f].cgi.in}
      /\ w.c.st \in {conn[f].st, "CGI_READING"}
  BY <1>5, <1>6 DEF Kept
<1>8. open' = x.open /\ x.open = open \ shut
  <2>1. w.open = open \ (IF w.c.cgi.in = NoFd THEN {conn[f].cgi.in} ELSE {})
    BY <1>5, <1>7
  <2>2. CASE CloseCgi(e, w)
    BY <1>6, <2>1, <2>2 DEF Commit
  <2>3. CASE ~CloseCgi(e, w)
    BY <1>6, <2>1, <2>3 DEF Commit
  <2> QED BY <2>2, <2>3
<1>9. /\ conn' = [conn EXCEPT ![f] = x.c] /\ sock' = [sock EXCEPT ![f] = x.s]
      /\ conn \in [FD -> Connections] /\ sock \in [FD -> Socket]
  BY <1>6 DEF Commit, PInv, SInv, IInv, TypeOK, KernelTypeOK
<1>10. f \in Live'
  <2>1. conn[f].st # "NONE"
    BY <1>2 DEF Live
  <2>2. conn'[f] = x.c
    BY <1>3, <1>9
  <2> QED BY <1>3, <1>6, <1>7, <2>1, <2>2 DEF Live
<1>11. \A d \in FD : cgiToSocket'[d] = IF d \in shut THEN NoFd ELSE cgiToSocket[d]
  BY <1>6 DEF Erase
<1>12. \A d \in shut : d \in {conn[f].cgi.in, conn[f].cgi.out, NoFd}
  BY <1>7
<1>13. open \subseteq FD
  BY DEF PInv, SInv, IInv, TypeOK, KernelTypeOK
<1> HIDE DEF shut
<1>14. \A d \in open : cgiToSocket[d] \in Live \ {f} =>
                          d \in open' /\ cgiToSocket'[d] = cgiToSocket[d]
  <2> SUFFICES ASSUME NEW d \in open, cgiToSocket[d] # f PROVE d \notin shut
    BY <1>8, <1>11, <1>13
  <2>1. d # NoFd
    BY <1>5
  <2>2. d \notin {conn[f].cgi.in, conn[f].cgi.out}
    BY <1>2, <2>1 DEF PInv, SInv, IInv, Mapping, Registered
  <2> QED BY <1>12, <2>1, <2>2
<1>15. \A d \in ready' : d.of = f /\ d.rank # 0 /\ cgiToSocket[d.fd] = f /\ f \in Live =>
          \/ f \in Live' /\ cgiToSocket'[d.fd] = f /\ d.fd \in open'
          \/ d.fd \notin open'
  BY <1>8, <1>10, <1>11, <1>13
<1>16. \A g \in FD \ {f} : conn'[g] = conn[g] /\ sock'[g] = sock[g]
  BY <1>9
<1>17. open' \subseteq open
  BY <1>8
<1> QED BY <1>1, <1>2, <1>3, <1>14, <1>15, <1>16, <1>17, TurnEvents

(* closeConnection on the socket of a connection, with the CGI it has; or  *)
(* on a number that is closed already.                                     *)
LEMMA CloseEvents ==
    ASSUME PInv, NEW e \in ready, e.fd \in FD, Turn(e), ready' = ready \ {e},
           cgiToSocket[e.fd] = NoFd, NEW v \in Worlds, v.open = open,
           v.c.cgi = conn[e.fd].cgi, CloseConnection(e.fd, v)
    PROVE  Events'
<1> DEFINE f == e.fd
           x == Closed(f, v)
           shut == {conn[f].cgi.in, conn[f].cgi.out}
<1>1. f \in FD /\ e.fd = f
  OBVIOUS
<1>2. /\ conn' = [conn EXCEPT ![f] = x.c] /\ sock' = [sock EXCEPT ![f] = x.s]
      /\ open' = open \ ({f} \union shut) /\ cgiToSocket' = Erase(cgiToSocket, shut)
      /\ conn \in [FD -> Connections] /\ sock \in [FD -> Socket] /\ open \subseteq FD
  BY ClosedLemma DEF CloseConnection, Commit, PInv, SInv, IInv, TypeOK, KernelTypeOK
<1>3. /\ f \in Live => e.rank = 0 /\ e.of = f /\ OnSocket(e)
      /\ f \notin Live => e.rank # 0 /\ f \notin open
  BY SocketTurnKinds
<1>4. f \notin Live => shut = {NoFd}
  BY DEF PInv, SInv, IInv, Ownership, FreeSlots, NoConnection, NoCgi
<1>5. \A d \in FD : cgiToSocket'[d] = IF d \in shut THEN NoFd ELSE cgiToSocket[d]
  BY <1>2 DEF Erase
<1>6. NoFd \notin open /\ NoFd \notin FD
  BY <1>2, Bounds
<1>7. \A d \in open : cgiToSocket[d] \in Live \ {f} =>
                          d \in open' /\ cgiToSocket'[d] = cgiToSocket[d]
  <2> SUFFICES ASSUME NEW d \in open, cgiToSocket[d] \in Live \ {f}
               PROVE  d \notin shut /\ d # f
    BY <1>2, <1>5
  <2>1. d # f
    BY <1>6 DEF Live
  <2>2. d \notin shut
    BY <1>4, <1>6 DEF PInv, SInv, IInv, Mapping, Registered
  <2> QED BY <2>1, <2>2
<1>8. \A d \in ready' : d.of = f /\ d.rank # 0 /\ cgiToSocket[d.fd] = f /\ f \in Live =>
          d.fd \notin open'
  BY <1>2, <1>3 DEF OnSocket
<1>9. \A g \in FD \ {f} : conn'[g] = conn[g] /\ sock'[g] = sock[g]
  BY <1>2
<1>10. open' \subseteq open
  BY <1>2
<1> HIDE DEF f, x, shut
<1>11. f \in Live => e.of = f
  BY <1>3
<1> QED BY <1>1, <1>7, <1>8, <1>9, <1>10, <1>11, TurnEvents

LEMMA HangUpEvents ==
    ASSUME PInv, NEW e \in ready, HangUp(e)
    PROVE  Events'
<1>1. /\ e.fd \in FD /\ Turn(e) /\ ready' = ready \ {e} /\ cgiToSocket[e.fd] = NoFd
      /\ CloseConnection(e.fd, World(e.fd))
  BY DEF HangUp, SocketTurn, Handled
<1>2. World(e.fd) \in Worlds /\ World(e.fd).open = open /\ World(e.fd).c = conn[e.fd]
  BY <1>1, WorldType, WorldFields DEF PInv, SInv, IInv
<1> QED BY <1>1, <1>2, CloseEvents

LEMMA UnknownEvents ==
    ASSUME PInv, NEW e \in ready, UnknownEvent(e)
    PROVE  Events'
<1>1. /\ e.fd \in FD /\ Turn(e) /\ ready' = ready \ {e} /\ cgiToSocket[e.fd] = NoFd
      /\ e.fd \notin Live /\ UNCHANGED <<conn, sock, open, cgiToSocket>>
  BY DEF UnknownEvent, SocketTurn, Handled
<1>2. /\ \A x \in open : cgiToSocket[x] \in Live \ {e.fd} =>
                            x \in open' /\ cgiToSocket'[x] = cgiToSocket[x]
      /\ \A d \in ready' : d.of = e.fd /\ d.rank # 0 /\ cgiToSocket[d.fd] = e.fd /\ e.fd \in Live =>
            \/ e.fd \in Live' /\ cgiToSocket'[d.fd] = e.fd /\ d.fd \in open'
            \/ d.fd \notin open'
      /\ \A g \in FD \ {e.fd} : conn'[g] = conn[g] /\ sock'[g] = sock[g]
      /\ open' \subseteq open
  BY <1>1
<1> QED BY <1>1, <1>2, TurnEvents

LEMMA SocketEventEvents ==
    ASSUME PInv, SInv', NEW e \in ready, SocketEvent(e)
    PROVE  Events'
<1> DEFINE f == e.fd
           u == World(f)
<1>1. /\ f \in FD /\ f \in Live /\ Turn(e) /\ ready' = ready \ {e} /\ cgiToSocket[f] = NoFd
      /\ pc # "stopped" /\ \E w, v \in Worlds : SocketStep(e, w, v)
  BY SocketOutcome DEF PInv, SInv, Turn
<1>2. PICK w \in Worlds, v \in Worlds : SocketStep(e, w, v)
  BY <1>1
<1>3. e.rank = 0 /\ e.of = f /\ OnSocket(e)
  BY <1>1, SocketTurnKinds
<1>4. /\ u \in Worlds /\ u.c = conn[f] /\ u.open = open /\ Fits(conn[f])
      /\ conn[f].st # "NONE" /\ open \subseteq FD
  BY <1>1, WorldType, WorldFields DEF PInv, SInv, IInv, TypeOK, KernelTypeOK, States, Live
<1> DEFINE Remains(x) ==
         /\ Commit(f, x) /\ x.c.st # "NONE" /\ open \subseteq x.open
         /\ \A d \in open : cgiToSocket'[d] = cgiToSocket[d]
<1>5. ASSUME NEW x \in Worlds, Remains(x) PROVE Events'
  <2>1. /\ conn' = [conn EXCEPT ![f] = x.c] /\ sock' = [sock EXCEPT ![f] = x.s]
        /\ open \subseteq open'
        /\ conn \in [FD -> Connections] /\ sock \in [FD -> Socket]
    BY <1>5 DEF Commit, PInv, SInv, IInv, TypeOK, KernelTypeOK
  <2>2. f \in Live'
    BY <1>1, <1>5, <2>1 DEF Live
  <2>3. \A d \in open : cgiToSocket[d] \in Live \ {f} =>
                            d \in open' /\ cgiToSocket'[d] = cgiToSocket[d]
    BY <1>5, <2>1
  <2>4. ASSUME NEW d \in ready', d.of = f, d.rank # 0, cgiToSocket[d.fd] = f
        PROVE  \/ f \in Live' /\ cgiToSocket'[d.fd] = f /\ d.fd \in open'
               \/ d.fd \notin open'
    <3>1. Pending(d)
      BY <1>1, <2>4 DEF PInv, EInv, Events
    <3>2. d.fd \in open
      BY <1>1, <1>4, <2>4, <3>1, Bounds
         DEF Pending, OnPipe, PInv, SInv, IInv, Mapping, ClosedUnmapped
    <3> QED BY <1>5, <2>1, <2>2, <2>4, <3>2
  <2>5. \A g \in FD \ {f} : conn'[g] = conn[g] /\ sock'[g] = sock[g]
    BY <2>1
  <2> HIDE DEF f
  <2> QED BY <1>1, <1>3, <2>3, <2>4, <2>5, TurnEvents DEF f
<1>6. CASE Started(u, w)
  <2>1. Registers(f, w) /\ Relaunched(u, w) /\ w.c.st \in {"CGI_WRITING", "CGI_READING"}
    BY <1>2, <1>6 DEF SocketStep, Started
  <2> HIDE DEF u
  <2>2. open \subseteq w.open /\ open \intersect {w.c.cgi.in, w.c.cgi.out} = {}
    BY <1>4, <2>1, Bounds DEF Relaunched
  <2>3. Remains(w)
    BY <1>4, <2>1, <2>2 DEF Registers
  <2> QED BY <1>5, <2>3
<1>7. CASE ~Started(u, w)
  <2>1. /\ Received(e, u, w) /\ Written(e, w, v)
        /\ \/ v.c.st = "CLOSED" /\ CloseConnection(f, v)
           \/ Continues(f, v)
    BY <1>2, <1>7 DEF SocketStep
  <2> HIDE DEF u
  <2>2. v.open = open
    BY <1>4, <1>7, <2>1 DEF Received, Ended, Asked, Answered, Written, Broken, Sent
  <2>3. CASE Continues(f, v)
    <3>1. v.c.st # "NONE"
      <4>1. w.c.st # "NONE"
        BY <1>4, <1>7, <2>1 DEF Received, Ended, Asked, Answered
      <4> QED BY <2>1, <4>1 DEF Written, Broken, Sent
    <3> QED BY <1>5, <2>2, <2>3, <3>1 DEF Continues
  <2>4. CASE v.c.st = "CLOSED" /\ CloseConnection(f, v)
    <3>1. v.c.cgi = conn[f].cgi
      <4>1. CASE "OUT" \in e.revents
        <5>1. conn[f].st = "WRITING" /\ ~HasCgi(conn[f]) /\ conn[f].cgi = NoCgi
          BY <1>3, <1>4, <4>1 DEF OnSocket, Fits
        <5>2. w.c.cgi = conn[f].cgi
          BY <1>4, <1>7, <2>1, <5>1 DEF Received, Ended, Asked, Answered
        <5> QED BY <2>1, <5>2 DEF Written, Broken, Sent
      <4>2. CASE "OUT" \notin e.revents
        <5>1. v = w
          BY <2>1, <4>2 DEF Written
        <5> QED BY <1>4, <1>7, <2>1, <2>4, <5>1 DEF Received, Ended, Asked, Answered, Fits, Live
      <4> QED BY <4>1, <4>2
    <3> QED BY <1>1, <2>2, <2>4, <3>1, CloseEvents
  <2> QED BY <2>1, <2>3, <2>4
<1> QED BY <1>6, <1>7

LEMMA AcceptEvents ==
    ASSUME PInv, NEW e \in ready, Accept(e)
    PROVE  Events'
<1> DEFINE new == Lowest(FD \ open, backlog[e.fd])
<1>1. /\ Turn(e) /\ e.fd \in Listener /\ open' = open \union new /\ ready' = ready \ {e}
      /\ sock' = [f \in FD |-> IF f \in new THEN FreshSocket ELSE sock[f]]
      /\ conn' = [f \in FD |-> IF f \in new THEN NewConnection ELSE conn[f]]
      /\ UNCHANGED cgiToSocket
  BY Zenon DEF Accept
<1>2. new \subseteq FD \ open
  <2>1. backlog[e.fd] \in Nat
    BY <1>1 DEF PInv, SInv, IInv, TypeOK, KernelTypeOK
  <2> QED BY <2>1, LowestLemma
<1> HIDE DEF new
<1>3. Pending(e) /\ e.fd \notin FD
  BY <1>1, Apart DEF PInv, EInv, Events
<1>4. \A f \in Live : /\ f \notin new /\ f \in FD
                      /\ conn'[f] = conn[f] /\ sock'[f] = sock[f] /\ f \in Live'
  BY <1>1, <1>2 DEF PInv, SInv, IInv, Ownership, HoldsOwn, Owns, Live
<1> SUFFICES ASSUME NEW d \in ready, d # e PROVE Pending(d)'
  BY <1>1 DEF Events
<1>5. Pending(d) /\ Before(e, d)
  BY <1>1 DEF PInv, EInv, Events, Turn
<1>6. d.fd \in FD /\ d.rank = 0 => OnSocket(d)'
  BY <1>1, <1>4, <1>5 DEF Pending, OnSocket
<1>7. ASSUME d.fd \in FD, d.rank # 0 PROVE OnPipe(d)'
  <2>1. OnPipe(d)
    BY <1>5, <1>7 DEF Pending
  <2>2. d.fd \in open
    BY <1>3, <1>5, <2>1 DEF Pending, OnPipe
  <2> QED BY <1>1, <1>4, <2>1, <2>2 DEF OnPipe
<1>8. /\ d.fd \notin FD => d.rank = 0 /\ d.of = d.fd
      /\ \A c \in ready' : c.fd = d.fd \/ (c.late /\ c.of = d.of) => c = d
  BY <1>1, <1>5 DEF Pending
<1> QED BY <1>6, <1>7, <1>8 DEF Pending

(* What a client or a CGI program does leaves what poll() reported true.   *)
LEMMA OutsideEvents ==
    ASSUME PInv, Outside
    PROVE  Events'
<1>1. UNCHANGED <<conn, cgiToSocket, pollfds, ready, pc>>
  BY DEF Outside, engineVars
<1>2. open' = open
  BY DEF Outside, Arrival, Connect, Client, ClientSend, ClientFin, ClientReset, ClientDrain,
         Program, ChildWrite, ChildRead, ChildCloseIn, ChildCloseOut, ChildEnd, Signal
<1>3. sock \in [FD -> Socket]
  BY DEF PInv, SInv, IInv, TypeOK, KernelTypeOK
<1>4. ASSUME NEW f \in FD
      PROVE  /\ sock[f].rx \/ sock[f].peer \in {"fin", "reset"} =>
                   sock'[f].rx \/ sock'[f].peer \in {"fin", "reset"}
             /\ sock[f].room \/ sock[f].peer = "reset" => sock'[f].room \/ sock'[f].peer = "reset"
             /\ sock[f].peer = "reset" => sock'[f].peer = "reset"
  <2>1. CASE sock' = sock
    BY <2>1
  <2>2. ASSUME NEW g \in FD, ClientSend(g)
        PROVE  /\ sock'[f].peer = sock[f].peer /\ sock'[f].room = sock[f].room
               /\ sock[f].rx => sock'[f].rx
    BY <1>3, <2>2 DEF ClientSend, Socket
  <2>3. ASSUME NEW g \in FD, ClientFin(g)
        PROVE  /\ sock'[f].rx = sock[f].rx /\ sock'[f].room = sock[f].room
               /\ sock'[f].peer = sock[f].peer \/ (sock'[f].peer = "fin" /\ sock[f].peer = "open")
    <3>1. sock' = [sock EXCEPT ![g].peer = "fin", ![g].more = 0] /\ sock[g].peer = "open"
      BY <2>3 DEF ClientFin
    <3>2. f # g => sock'[f] = sock[f]
      BY <1>3, <3>1
    <3>3. sock'[g] = [sock[g] EXCEPT !.peer = "fin", !.more = 0]
      BY <1>3, <3>1
    <3>4. sock[g] \in Socket
      BY <1>3
    <3> QED BY <3>1, <3>2, <3>3, <3>4 DEF Socket
  <2>4. ASSUME NEW g \in FD, ClientReset(g)
        PROVE  sock'[f] = sock[f] \/ sock'[f].peer = "reset"
    BY <1>3, <2>4 DEF ClientReset, NoSocket
  <2>5. ASSUME NEW g \in FD, ClientDrain(g)
        PROVE  /\ sock'[f].rx = sock[f].rx /\ sock'[f].peer = sock[f].peer
               /\ sock[f].room => sock'[f].room
    BY <1>3, <2>5 DEF ClientDrain, Socket
  <2>6. sock' = sock \/ \E g \in FD : Client(g)
    BY DEF Outside, Arrival, Connect, Program, ChildWrite, ChildRead, ChildCloseIn,
           ChildCloseOut, ChildEnd, Signal
  <2> QED BY <2>1, <2>2, <2>3, <2>4, <2>5, <2>6 DEF Client
<1> SUFFICES ASSUME NEW e \in ready PROVE Pending(e)'
  BY <1>1 DEF Events
<1>5. Pending(e) /\ Live' = Live
  BY <1>1 DEF PInv, EInv, Events, Live
<1>6. ASSUME OnSocket(e) PROVE OnSocket(e)'
  <2>1. e.fd \in FD
    BY <1>6 DEF OnSocket, Live
  <2> QED BY <1>1, <1>4, <1>5, <1>6, <2>1 DEF OnSocket
<1>7. OnPipe(e) => OnPipe(e)'
  BY <1>1, <1>2, <1>5 DEF OnPipe
<1> QED BY <1>1, <1>5, <1>6, <1>7 DEF Pending

-----------------------------------------------------------------------------
LEMMA InitPInv == Init => PInv
<1> SUFFICES ASSUME Init PROVE PInv
  OBVIOUS
<1>1. SInv
  BY InitSInv
<1>2. pollfds = Watched(conn) /\ conn \in [FD -> Connections] /\ ready = {}
  BY <1>1 DEF Init, SInv, IInv, TypeOK
<1>3. {Plain(e) : e \in pollfds} = Watched(conn)
  BY <1>2, PlainWatched
<1>4. LateOnes
  BY <1>2, WatchedMeaning DEF LateOnes
<1> QED BY <1>1, <1>2, <1>3, <1>4 DEF PInv, EInv, Current, Events, Idle

LEMMA NextPInv == PInv /\ [Next]_vars => PInv'
<1> SUFFICES ASSUME PInv, [Next]_vars PROVE PInv'
  OBVIOUS
<1>1. SInv'
  BY NextSInv DEF PInv
<1>2. Current' /\ LateOnes'
  BY <1>1, NextCurrent
<1>3. Events' /\ Idle'
  <2>1. CASE Poll
    BY <2>1, PollEvents DEF Poll, Idle
  <2>2. ASSUME NEW e \in ready, Handle(e) PROVE Events' /\ Idle'
    <3>1. CASE CgiEvent(e)
      BY <1>1, <3>1, CgiEventEvents DEF CgiEvent, Handled, Turn, Idle
    <3>2. CASE HangUp(e)
      BY <3>2, HangUpEvents DEF HangUp, SocketTurn, Handled, Turn, Idle
    <3>3. CASE UnknownEvent(e)
      BY <3>3, UnknownEvents DEF UnknownEvent, SocketTurn, Handled, Turn, Idle
    <3>4. CASE SocketEvent(e)
      BY <1>1, <3>4, SocketEventEvents DEF SocketEvent, SocketTurn, Handled, Turn, Idle
    <3>5. CASE Accept(e)
      BY <3>5, AcceptEvents DEF Accept, Turn, Idle
    <3>6. CASE Shutdown(e)
      BY <3>6 DEF Shutdown, Events, Idle
    <3> QED BY <2>2, <3>1, <3>2, <3>3, <3>4, <3>5, <3>6 DEF Handle
  <2>3. CASE CheckTimeouts
    BY <2>3 DEF CheckTimeouts, Events, Idle
  <2>4. CASE Tick
    <3>1. ready' = {}
      BY <2>4 DEF Tick, PInv, EInv, Idle
    <3> QED BY <3>1 DEF Events, Idle
  <2>5. CASE Outside
    BY <2>5, OutsideEvents DEF Outside, engineVars, PInv, EInv, Idle
  <2>6. CASE UNCHANGED vars
    BY <2>6 DEF vars, engineVars, kernelVars, PInv, EInv, Events, Idle, Pending, OnSocket,
                OnPipe, Live
  <2> QED BY <2>1, <2>2, <2>3, <2>4, <2>5, <2>6 DEF Next, Loop
<1> QED BY <1>1, <1>2, <1>3 DEF PInv, EInv

LEMMA PInvCurrent == PInv => PollSetCurrent
BY Zenon DEF PInv, EInv, Current, Plain, PollSetCurrent

LEMMA PInvRegistered == PInv => CgiRegistered
<1> SUFFICES ASSUME PInv PROVE CgiRegistered
  OBVIOUS
<1>1. ASSUME NEW f \in FD, HasCgi(conn[f]), NEW d \in {conn[f].cgi.in, conn[f].cgi.out} \ {NoFd}
      PROVE  cgiToSocket[d] = f
  <2>1. f \in Live
    BY <1>1 DEF PInv, SInv, States, Fits, Live
  <2> QED BY <1>1, <2>1 DEF PInv, SInv, IInv, Mapping, Registered
<1>2. ASSUME NEW e \in ready, e.fd \in FD PROVE cgiToSocket[e.fd] \in Live \union {NoFd}
  <2>1. Pending(e) /\ pc # "stopped"
    BY <1>2 DEF PInv, EInv, Events, Idle
  <2>2. CASE e.rank = 0
    BY <1>2, <2>1, <2>2
       DEF Pending, OnSocket, PInv, SInv, IInv, Mapping, SocketsUnmapped
  <2>3. CASE e.rank # 0
    BY <1>2, <2>1, <2>3
       DEF Pending, OnPipe, PInv, SInv, IInv, Mapping, ClosedUnmapped
  <2> QED BY <2>2, <2>3
<1> QED BY <1>1, <1>2 DEF CgiRegistered, PInv, SInv, IInv, Mapping, ClosedUnmapped

(* Only accept() and a launch open anything, on the turn of a listener's   *)
(* or a socket's event.                                                    *)
LEMMA OpensOnSocketTurns ==
    ASSUME PInv, NEW e \in ready, Handle(e), e.rank # 0
    PROVE  open' \subseteq open
<1>1. CASE CgiEvent(e)
  <2> DEFINE f == cgiToSocket[e.fd]
  <2>1. f \in Live /\ CgiHandled(e, f) /\ e.fd \in FD
    BY <1>1, PipeTurn DEF CgiEvent
  <2>2. PICK w \in Worlds, x \in Worlds : CgiStep(e, f, w, x)
    BY <2>1, CgiOutcome DEF PInv, SInv
  <2>3. w.open \subseteq open /\ x.open \subseteq w.open /\ open' = x.open
    BY <2>2, WorldFields DEF CgiStep, Kept, Commit
  <2> QED BY <2>3
<1>2. CASE HangUp(e)
  <2>1. e.fd \in FD /\ Commit(e.fd, Closed(e.fd, World(e.fd)))
    BY <1>2 DEF HangUp, SocketTurn, CloseConnection
  <2> QED BY <2>1, WorldType, WorldFields, ClosedLemma DEF Commit, PInv, SInv, IInv
<1>3. CASE UnknownEvent(e)
  BY <1>3 DEF UnknownEvent
<1>4. CASE SocketEvent(e)
  BY <1>4, SocketTurnKinds DEF SocketEvent, SocketTurn
<1>5. CASE Accept(e)
  BY <1>5, Apart DEF Accept, PInv, EInv, Events, Pending
<1>6. CASE Shutdown(e)
  BY <1>6 DEF Shutdown
<1> QED BY <1>1, <1>2, <1>3, <1>4, <1>5, <1>6 DEF Handle

LEMMA StepNoReuse ==
    ASSUME PInv, [Next]_vars, NEW e \in ready \intersect ready', e.fd \in FD \ open
    PROVE  e.fd \notin open'
<1>1. Pending(e)
  BY DEF PInv, EInv, Events
<1>2. \A f \in Live : f \in open
  BY DEF PInv, SInv, IInv, Ownership, HoldsOwn, Owns
<1>3. e.rank # 0 /\ \A d \in ready : Before(d, e) => d.rank # 0
  BY <1>1, <1>2 DEF Pending, OnSocket, OnPipe
<1>4. ASSUME NEW d \in ready, Handle(d) PROVE e.fd \notin open'
  <2>1. CASE Shutdown(d)
    BY <2>1 DEF Shutdown
  <2>2. CASE ~Shutdown(d)
    <3>1. Turn(d) /\ ready' = ready \ {d}
      BY <1>4, <2>2 DEF Handle, CgiEvent, HangUp, UnknownEvent, SocketEvent, SocketTurn,
                        Handled, Accept
    <3>2. Before(d, e)
      BY <3>1 DEF Turn
    <3> QED BY <1>3, <1>4, <3>2, OpensOnSocketTurns
  <2> QED BY <2>1, <2>2
<1>5. CASE CheckTimeouts
  BY <1>5 DEF CheckTimeouts
<1>6. CASE Poll \/ Tick \/ UNCHANGED vars
  BY <1>6 DEF Poll, Tick, vars, kernelVars
<1>7. CASE Outside
  BY <1>7 DEF Outside, Arrival, Connect, Client, ClientSend, ClientFin, ClientReset,
              ClientDrain, Program, ChildWrite, ChildRead, ChildCloseIn, ChildCloseOut,
              ChildEnd, Signal
<1> QED BY <1>4, <1>5, <1>6, <1>7 DEF Next, Loop

-----------------------------------------------------------------------------
(* At every poll(), _pollfds holds what rebuildPollfds would write: no     *)
(* path through the handlers leaves a wake-up out.                         *)
THEOREM PollSetKept == Spec => []PollSetCurrent
BY InitPInv, NextPInv, PInvCurrent, PTL DEF Spec

(* The pipes of every running CGI are registered, no closed number is, and *)
(* no event meets the entry of a connection that is gone.                  *)
THEOREM RegistrationKept == Spec => []CgiRegistered
BY InitPInv, NextPInv, PInvRegistered, PTL DEF Spec

(* A descriptor that is closed while its event is pending is not opened    *)
(* again before the event has had its turn.                                *)
THEOREM NumbersNotReused == Spec => NoReuseWhilePending
<1>1. PInv /\ [Next]_vars =>
         [\A e \in ready \intersect ready' :
            e.fd \in FD \ open => e.fd \notin open']_vars
  BY StepNoReuse
<1> QED BY InitPInv, NextPInv, <1>1, PTL DEF Spec, NoReuseWhilePending
=============================================================================
