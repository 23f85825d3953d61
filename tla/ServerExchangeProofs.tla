------------------------- MODULE ServerExchangeProofs -------------------------
(***************************************************************************)
(* Theorems about the event loop as its clients see it: that it implements *)
(* Exchange, and what follows for the response and for the descriptors, of *)
(* clients that send one request on a connection.                          *)
(***************************************************************************)
EXTENDS ServerExchange, ServerEngineProofs

(* What Exchange sees of a connection c and its socket s, and the step or  *)
(* the stutter that takes it from there to d and t.                        *)
Gone(s)     == s.peer \in {"fin", "reset"}
Shown(c, s) == [phase |-> Phase(c), reply |-> c.resp, left |-> c.left, gone |-> Gone(s)]
Moves(c, s, d, t) == Shown(d, t) = Shown(c, s) \/ Promise!Step(Shown(c, s), Shown(d, t))

(* A connection has a client, a free slot has none; and with clients that  *)
(* send one request nothing waits to be received once it is complete, so   *)
(* that a CGI is started once and no response precedes it.                 *)
Slot(c, s) ==
    /\ c.st = "NONE" => s = NoSocket
    /\ c.st # "NONE" => s.peer # "none"
    /\ ~Pipelines => /\ c.req # "partial" => ~s.rx
                     /\ HasCgi(c) => c.resp = "none" /\ c.left = 0

Slots == \A f \in FD : Slot(conn[f], sock[f])
Owed  == ~Pipelines => \A d \in open : \E f \in Live : d \in {f, conn[f].cgi.in, conn[f].cgi.out}
Down  == pc = "stopped" => Live = {}

XInv == PInv /\ Slots /\ Owed /\ Down

-----------------------------------------------------------------------------
LEMMA PhaseCases ==
    ASSUME NEW c
    PROVE  /\ c.st = "NONE" => Phase(c) = "free"
           /\ c.st = "READING" => Phase(c) = "reading"
           /\ c.st = "WRITING" => Phase(c) = "writing"
           /\ c.st \in {"CGI_WRITING", "CGI_READING"} => Phase(c) = "waiting"
BY DEF Phase

LEMMA ShownFields ==
    ASSUME NEW c, NEW s
    PROVE  /\ Shown(c, s).phase = Phase(c) /\ Shown(c, s).reply = c.resp
           /\ Shown(c, s).left = c.left /\ Shown(c, s).gone = Gone(s)
BY DEF Shown

LEMMA ShownPhase ==
    ASSUME NEW phase, NEW reply, NEW left, NEW gone, NEW x
    PROVE  [[phase |-> phase, reply |-> reply, left |-> left, gone |-> gone] EXCEPT !.phase = x] =
              [phase |-> x, reply |-> reply, left |-> left, gone |-> gone]
OBVIOUS

LEMMA ShownLeft ==
    ASSUME NEW phase, NEW reply, NEW left, NEW gone, NEW x
    PROVE  [[phase |-> phase, reply |-> reply, left |-> left, gone |-> gone] EXCEPT !.left = x] =
              [phase |-> phase, reply |-> reply, left |-> x, gone |-> gone]
OBVIOUS

LEMMA ShownGone ==
    ASSUME NEW c, NEW s
    PROVE  [Shown(c, s) EXCEPT !.gone = TRUE] =
              [phase |-> Phase(c), reply |-> c.resp, left |-> c.left, gone |-> TRUE]
<1> DEFINE z == [Shown(c, s) EXCEPT !.gone = TRUE]
<1>1. z \in [phase : {Phase(c)}, reply : {c.resp}, left : {c.left}, gone : {TRUE}]
  BY Zenon DEF Shown
<1> HIDE DEF z
<1>2. z = [phase |-> Phase(c), reply |-> c.resp, left |-> c.left, gone |-> TRUE]
  BY <1>1, Zenon
<1> QED BY <1>2, Zenon DEF z

LEMMA ReadingFields ==
    Promise!Reading = [phase |-> "reading", reply |-> "none", left |-> 0, gone |-> FALSE]
<1> DEFINE z == Promise!Reading
<1>1. z \in [phase : {"reading"}, reply : {"none"}, left : {0}, gone : {FALSE}]
  BY Zenon DEF Promise!Reading, Promise!Free
<1> HIDE DEF z
<1>2. z = [phase |-> "reading", reply |-> "none", left |-> 0, gone |-> FALSE]
  BY <1>1, Zenon
<1> QED BY <1>2, Zenon DEF z

LEMMA ShownAnswer ==
    ASSUME NEW phase, NEW reply, NEW left, NEW gone, NEW x
    PROVE  Promise!Answer([phase |-> phase, reply |-> reply, left |-> left, gone |-> gone], x) =
              [phase |-> "writing", reply |-> x, left |-> MaxResponse, gone |-> gone]
<1> DEFINE y == [phase |-> phase, reply |-> reply, left |-> left, gone |-> gone]
           z == [y EXCEPT !.phase = "writing", !.reply = x, !.left = MaxResponse]
<1>1. z \in [phase : {"writing"}, reply : {x}, left : {MaxResponse}, gone : {gone}]
  OBVIOUS
<1> HIDE DEF z
<1>2. z = [phase |-> "writing", reply |-> x, left |-> MaxResponse, gone |-> gone]
  BY <1>1
<1> QED BY <1>2, Zenon DEF z, Promise!Answer

LEMMA GoneCases ==
    /\ ~Gone(NoSocket) /\ ~Gone(FreshSocket)
    /\ Gone(NoSocket) = FALSE /\ Gone(FreshSocket) = FALSE
    /\ \A s, t : t.peer = s.peer => Gone(t) = Gone(s)
    /\ \A t : Gone(t) => Gone(t) = TRUE
BY DEF Gone, NoSocket, FreshSocket

LEMMA FreeShown == Shown(NoConnection, NoSocket) = Promise!Free
<1>1. Phase(NoConnection) = "free" /\ NoConnection.resp = "none" /\ NoConnection.left = 0
  BY DEF NoConnection, Phase
<1> QED BY <1>1, GoneCases DEF Shown, Promise!Free

LEMMA SameMoves ==
    ASSUME NEW c, NEW s, NEW d, NEW t, Phase(d) = Phase(c), d.resp = c.resp, d.left = c.left,
           t.peer = s.peer \/ (Gone(s) /\ Gone(t))
    PROVE  Moves(c, s, d, t)
BY GoneCases DEF Moves, Shown

LEMMA DropMoves ==
    ASSUME NEW c \in Connections, NEW s, c.st # "NONE", Gone(s) \/ c.st = "READING"
    PROVE  Moves(c, s, NoConnection, NoSocket)
<1>1. Phase(c) # "free" /\ (c.st = "READING" => Phase(c) = "reading")
  BY PhaseCases DEF Connections
<1> QED BY <1>1, FreeShown, ShownFields DEF Moves, Promise!Step, Promise!Drop

LEMMA AnswerMoves ==
    ASSUME NEW c \in Connections, NEW s, NEW d, NEW t, t.peer = s.peer,
           d.st = "WRITING", d.left = MaxResponse,
           \/ c.st = "READING" /\ d.resp \in Promise!Immediate
           \/ c.st \in {"CGI_WRITING", "CGI_READING"} /\ d.resp \in Promise!Delayed
    PROVE  Moves(c, s, d, t)
<1>1. Gone(t) = Gone(s) /\ Phase(d) = "writing"
  BY PhaseCases, GoneCases
<1>2. Shown(d, t) = Promise!Answer(Shown(c, s), d.resp)
  BY <1>1, ShownAnswer DEF Shown
<1>3. Promise!Reply(Shown(c, s), Shown(d, t))
  BY <1>2, PhaseCases, ShownFields DEF Promise!Reply
<1> QED BY <1>3 DEF Moves, Promise!Step

LEMMA DelegateMoves ==
    ASSUME NEW c, NEW s, NEW d, NEW t, t.peer = s.peer, c.st = "READING",
           d.st \in {"CGI_WRITING", "CGI_READING"}, d.resp = c.resp, d.left = c.left
    PROVE  Moves(c, s, d, t)
<1>1. Gone(t) = Gone(s) /\ Phase(d) = "waiting"
  BY PhaseCases, GoneCases
<1>2. Shown(d, t) = [Shown(c, s) EXCEPT !.phase = "waiting"]
  BY <1>1, ShownPhase DEF Shown
<1> QED BY <1>2, PhaseCases, ShownFields DEF Moves, Promise!Step, Promise!Delegate

LEMMA TransmitMoves ==
    ASSUME NEW c, NEW s, NEW d, NEW t, NEW n \in 1..c.left, c.st = "WRITING",
           \/ n = c.left /\ d = NoConnection /\ t = NoSocket
           \/ /\ n # c.left /\ t.peer = s.peer
              /\ d.st = "WRITING" /\ d.resp = c.resp /\ d.left = c.left - n
    PROVE  Moves(c, s, d, t)
<1>1. Shown(c, s).phase = "writing" /\ Shown(c, s).left = c.left
  BY PhaseCases, ShownFields
<1>2. CASE n = c.left
  BY <1>1, <1>2, FreeShown DEF Moves, Promise!Step, Promise!Transmit
<1>3. CASE n # c.left
  <2> DEFINE left == Shown(c, s).left - n
  <2>1. Shown(d, t) = [Shown(c, s) EXCEPT !.left = left]
    <3>1. Gone(t) = Gone(s) /\ Phase(d) = "writing" /\ Phase(c) = "writing" /\ d.left = left
      BY <1>1, <1>3, PhaseCases, GoneCases
    <3> HIDE DEF left
    <3> QED BY <1>3, <3>1, ShownLeft DEF Shown
  <2>2. Promise!Transmit(Shown(c, s), Shown(d, t))
    BY <1>1, <1>3, <2>1 DEF Promise!Transmit
  <2> QED BY <2>2 DEF Moves, Promise!Step
<1> QED BY <1>2, <1>3

LEMMA ArriveMoves == Moves(NoConnection, NoSocket, NewConnection, FreshSocket)
<1>1. /\ Phase(NewConnection) = "reading" /\ NewConnection.resp = "none"
      /\ NewConnection.left = 0
  BY DEF NewConnection, NoConnection, Phase
<1>2. Shown(NewConnection, FreshSocket) = Promise!Reading
  <2>1. Shown(NewConnection, FreshSocket) =
           [phase |-> "reading", reply |-> "none", left |-> 0, gone |-> FALSE]
    BY <1>1, GoneCases DEF Shown
  <2> QED BY <2>1, ReadingFields, Zenon
<1> QED BY <1>2, FreeShown DEF Moves, Promise!Step, Promise!Arrive

LEMMA DepartMoves ==
    ASSUME NEW c \in Connections, NEW s, NEW t, c.st # "NONE", ~Gone(s), Gone(t)
    PROVE  Moves(c, s, c, t)
<1>1. Phase(c) # "free" /\ Gone(t) = TRUE
  BY PhaseCases, GoneCases DEF Connections
<1>2. Shown(c, t) = [Shown(c, s) EXCEPT !.gone = TRUE]
  <2>1. Shown(c, t) = [phase |-> Phase(c), reply |-> c.resp, left |-> c.left, gone |-> TRUE]
    BY <1>1, Zenon DEF Shown
  <2> QED BY <2>1, ShownGone, Zenon
<1> QED BY <1>1, <1>2, ShownFields DEF Moves, Promise!Step, Promise!Depart

-----------------------------------------------------------------------------
(* One call of handlePollEvent on connection f: what it leaves on f's slot *)
(* is a connection like any other and a move of its exchange; and what it  *)
(* leaves open is a pipe of it or was nobody's business of f's before.     *)
AllMove == \A f \in FD : Moves(conn[f], sock[f], conn'[f], sock'[f])

Settles(f, x) == \A d \in x.open :
    \/ d \in {x.c.cgi.in, x.c.cgi.out}
    \/ d \in open \ {conn[f].cgi.in, conn[f].cgi.out} /\ (x.c.st = "NONE" => d # f)

Proceeds(f, x) ==
    /\ Commit(f, x) /\ Slot(x.c, x.s)
    /\ ~Pipelines => Moves(conn[f], sock[f], x.c, x.s) /\ Settles(f, x)

LEMMA SlotWorld ==
    ASSUME XInv, NEW f \in FD
    PROVE  /\ World(f) \in Worlds /\ World(f).c = conn[f] /\ World(f).s = sock[f]
           /\ World(f).child = child /\ World(f).open = open
           /\ conn[f] \in Connections /\ Fits(conn[f]) /\ Slot(conn[f], sock[f])
           /\ open \subseteq FD /\ NoFd \notin open
           /\ f \in Live => Owns(f, conn[f], open)
           /\ f \notin Live => conn[f] = NoConnection /\ sock[f] = NoSocket
<1>1. /\ conn[f] \in Connections /\ open \subseteq FD
  BY DEF XInv, PInv, SInv, IInv, TypeOK, KernelTypeOK
<1>2. World(f) \in Worlds
  BY WorldType DEF XInv, PInv, SInv, IInv
<1>3. Fits(conn[f]) /\ Slot(conn[f], sock[f])
  BY DEF XInv, PInv, SInv, States, Slots
<1>4. f \in Live => Owns(f, conn[f], open)
  BY DEF XInv, PInv, SInv, IInv, Ownership, HoldsOwn
<1>5. f \notin Live => conn[f] = NoConnection /\ sock[f] = NoSocket
  BY <1>3 DEF XInv, PInv, SInv, IInv, Ownership, FreeSlots, Slot, Live
<1> QED BY <1>1, <1>2, <1>3, <1>4, <1>5, WorldFields, WorldRuns, Bounds

LEMMA CommitProceeds ==
    ASSUME XInv, SInv', NEW f \in FD, NEW x \in Worlds, Proceeds(f, x)
    PROVE  Slots' /\ Owed' /\ (~Pipelines => AllMove)
<1>1. /\ conn'[f] = x.c /\ sock'[f] = x.s /\ open' = x.open
      /\ \A g \in FD \ {f} : conn'[g] = conn[g] /\ sock'[g] = sock[g]
  BY DEF Proceeds, Commit, XInv, PInv, SInv, IInv, TypeOK, KernelTypeOK
<1>2. Slots'
  BY <1>1 DEF XInv, Slots, Proceeds
<1>3. ASSUME ~Pipelines PROVE AllMove
  <2>1. \A g \in FD \ {f} : Moves(conn[g], sock[g], conn'[g], sock'[g])
    BY <1>1, SameMoves
  <2> QED BY <1>1, <1>3, <2>1 DEF AllMove, Proceeds
<1>4. Owed'
  <2> SUFFICES ASSUME ~Pipelines, NEW d \in open'
               PROVE  \E g \in Live' : d \in {g, conn'[g].cgi.in, conn'[g].cgi.out}
    BY DEF Owed
  <2>1. d \in FD /\ d # NoFd
    BY Bounds DEF SInv, IInv, TypeOK, KernelTypeOK
  <2>2. CASE d \in {x.c.cgi.in, x.c.cgi.out}
    <3>1. Fits(conn'[f])
      BY DEF SInv, States
    <3>2. conn'[f].st # "NONE"
      BY <1>1, <2>1, <2>2, <3>1 DEF Fits, NoCgi
    <3> QED BY <1>1, <2>2, <3>2 DEF Live
  <2>3. CASE d \notin {x.c.cgi.in, x.c.cgi.out}
    <3>1. d \in open \ {conn[f].cgi.in, conn[f].cgi.out} /\ (x.c.st = "NONE" => d # f)
      BY <1>1, <2>3 DEF Proceeds, Settles
    <3>2. PICK g \in Live : d \in {g, conn[g].cgi.in, conn[g].cgi.out}
      BY <3>1 DEF XInv, Owed
    <3>3. CASE g = f
      BY <1>1, <3>1, <3>2, <3>3 DEF Live
    <3>4. CASE g # f
      BY <1>1, <3>2, <3>4 DEF Live
    <3> QED BY <3>3, <3>4
  <2> QED BY <2>2, <2>3
<1> QED BY <1>2, <1>3, <1>4

(* closeConnection, when the client has gone.                              *)
LEMMA CloseProceeds ==
    ASSUME XInv, NEW f \in FD, NEW v \in Worlds, CloseConnection(f, v),
           v.open = open /\ v.c.cgi = conn[f].cgi,
           \/ f \notin Live
           \/ f \in Live /\ Gone(sock[f])
           \/ conn[f].st = "WRITING" /\ conn[f].left > 0 /\ Sent(World(f), v) /\ v.c.left = 0
    PROVE  Proceeds(f, Closed(f, v)) /\ Closed(f, v) \in Worlds
<1> DEFINE x == Closed(f, v)
<1>1. /\ x \in Worlds /\ x.c = NoConnection /\ x.s = NoSocket /\ Commit(f, x)
      /\ x.open = open \ {f, conn[f].cgi.in, conn[f].cgi.out}
  BY ClosedLemma, ClosedRuns DEF CloseConnection
<1> HIDE DEF x
<1>2. Slot(NoConnection, NoSocket)
  BY DEF Slot, NoConnection, NoSocket, NoCgi, HasCgi
<1>3. Moves(conn[f], sock[f], NoConnection, NoSocket)
  <2>1. CASE f \notin Live
    BY <2>1, SlotWorld, SameMoves
  <2>2. CASE f \in Live /\ Gone(sock[f])
    BY <2>2, SlotWorld, DropMoves DEF Live
  <2>3. CASE conn[f].st = "WRITING" /\ conn[f].left > 0 /\ Sent(World(f), v) /\ v.c.left = 0
    <3>1. conn[f].left \in 1..conn[f].left
      BY <2>3, SlotWorld, ConnectionAssumption DEF Connections
    <3> QED BY <2>3, <3>1, TransmitMoves
  <2> QED BY <2>1, <2>2, <2>3
<1>4. Settles(f, x)
  BY <1>1 DEF Settles
<1>5. Proceeds(f, x)
  BY <1>1, <1>2, <1>3, <1>4 DEF Proceeds
<1> QED BY <1>1, <1>5 DEF x

LEMMA HangUpProceeds ==
    ASSUME XInv, NEW e \in ready, HangUp(e)
    PROVE  e.fd \in FD /\ \E x \in Worlds : Proceeds(e.fd, x)
<1>1. /\ e.fd \in FD /\ Turn(e) /\ "HUP" \in e.revents /\ cgiToSocket[e.fd] = NoFd
      /\ CloseConnection(e.fd, World(e.fd))
  BY DEF HangUp, SocketTurn
<1>2. e.fd \in Live => Gone(sock[e.fd])
  BY <1>1, SocketTurnKinds DEF XInv, OnSocket, Gone
<1> QED BY <1>1, <1>2, SlotWorld, CloseProceeds

LEMMA CgiEventProceeds ==
    ASSUME XInv, NEW e \in ready, CgiEvent(e)
    PROVE  \E f \in FD : \E x \in Worlds : Proceeds(f, x)
<1> DEFINE f == cgiToSocket[e.fd]
           u == World(f)
<1>1. e.fd \in FD /\ f # NoFd /\ Turn(e) /\ (f \in Live => CgiHandled(e, f))
  BY DEF CgiEvent
<1>2. f \in Live
  BY <1>1, PipeTurn DEF XInv
<1>3. f \in FD /\ \E w, x \in Worlds : CgiStep(e, f, w, x)
  BY <1>1, <1>2, CgiOutcome DEF XInv, PInv, SInv
<1>4. PICK w \in Worlds, x \in Worlds : CgiStep(e, f, w, x)
  BY <1>3
<1>5. /\ u.c = conn[f] /\ u.s = sock[f] /\ u.open = open /\ NoFd \notin open
      /\ conn[f] \in Connections /\ Fits(conn[f]) /\ Slot(conn[f], sock[f])
      /\ conn[f].st # "NONE"
  BY <1>2, <1>3, SlotWorld DEF Live
<1> HIDE DEF f, u
<1>6. /\ Kept(u, w) /\ Piped(u, w) /\ (HasCgi(conn[f]) \/ w = u) /\ Commit(f, x)
      /\ IF CloseCgi(e, w)
         THEN /\ HasCgi(w.c) /\ Finished(w, x, {"badGateway", "truncated", "output"})
              /\ x.open = w.open \ {w.c.cgi.in, w.c.cgi.out}
         ELSE x = w
  BY <1>4 DEF CgiStep, u
<1>7. /\ w.s = sock[f] /\ SameAnswer(u, w) /\ w.c.cgi.pid = conn[f].cgi.pid
      /\ w.c.st \in {conn[f].st, "CGI_READING"}
      /\ w.c.cgi.out = conn[f].cgi.out
      /\ \/ w.c.cgi.in = conn[f].cgi.in /\ w.open = open
         \/ w.c.cgi.in = NoFd /\ w.open = open \ {conn[f].cgi.in}
  BY <1>5, <1>6 DEF Piped, Kept
<1>8. CASE CloseCgi(e, w)
  <2>1. /\ HasCgi(conn[f]) /\ x.c.st = "WRITING" /\ x.c.left = MaxResponse
        /\ x.c.resp \in {"badGateway", "truncated", "output"} /\ x.c.req = conn[f].req
        /\ x.c.cgi = NoCgi /\ x.s = sock[f] /\ x.open = w.open \ {w.c.cgi.in, w.c.cgi.out}
    BY <1>5, <1>6, <1>7, <1>8 DEF Finished, HasCgi, SameAnswer
  <2>2. Slot(x.c, x.s)
    BY <1>5, <2>1 DEF Slot, HasCgi, NoCgi
  <2>3. Moves(conn[f], sock[f], x.c, x.s)
    <3>1. conn[f].st \in {"CGI_WRITING", "CGI_READING"}
      BY <1>5, <2>1 DEF Fits
    <3>2. x.c.resp \in Promise!Delayed
      BY <2>1 DEF Promise!Delayed
    <3> QED BY <1>5, <2>1, <3>1, <3>2, AnswerMoves
  <2>4. Settles(f, x)
    BY <1>5, <1>7, <2>1 DEF Settles
  <2> QED BY <1>3, <1>6, <2>2, <2>3, <2>4 DEF Proceeds, f
<1>9. CASE ~CloseCgi(e, w)
  <2>1. x = w
    BY <1>6, <1>9
  <2>2. Slot(x.c, x.s)
    BY <1>5, <1>6, <1>7, <2>1 DEF Slot, HasCgi, SameAnswer
  <2>3. Moves(conn[f], sock[f], x.c, x.s)
    <3>1. CASE HasCgi(conn[f])
      <4>1. Phase(x.c) = Phase(conn[f])
        BY <1>5, <1>7, <2>1, <3>1, PhaseCases DEF Fits
      <4> QED BY <1>5, <1>7, <2>1, <4>1, SameMoves DEF SameAnswer
    <3>2. CASE ~HasCgi(conn[f])
      BY <1>5, <1>6, <2>1, <3>2, SameMoves
    <3> QED BY <3>1, <3>2
  <2>4. Settles(f, x)
    BY <1>5, <1>6, <1>7, <2>1 DEF Settles
  <2> QED BY <1>3, <1>6, <2>1, <2>2, <2>3, <2>4 DEF Proceeds, f
<1> QED BY <1>8, <1>9

(* An event on a client's socket.  A request that is complete has taken    *)
(* all its data, and poll() asks for room only while a response is sent:   *)
(* so the event is either about the request or about the response.         *)
LEMMA SocketEventProceeds ==
    ASSUME XInv, NEW e \in ready, SocketEvent(e)
    PROVE  e.fd \in FD /\ \E x \in Worlds : Proceeds(e.fd, x)
<1> DEFINE f == e.fd
           u == World(f)
<1>1. /\ f \in FD /\ f \in Live /\ Turn(e) /\ cgiToSocket[f] = NoFd
      /\ \E w, v \in Worlds : SocketStep(e, w, v)
  BY SocketOutcome DEF XInv, PInv, SInv
<1>2. PICK w \in Worlds, v \in Worlds : SocketStep(e, w, v)
  BY <1>1
<1>3. /\ "IN" \in e.revents => sock[f].rx \/ Gone(sock[f])
      /\ "OUT" \in e.revents => /\ conn[f].st = "WRITING"
                                /\ sock[f].room \/ Gone(sock[f])
  BY <1>1, SocketTurnKinds DEF XInv, OnSocket, Gone
<1>4. /\ u \in Worlds /\ u.c = conn[f] /\ u.s = sock[f] /\ u.open = open
      /\ conn[f] \in Connections /\ Fits(conn[f]) /\ Slot(conn[f], sock[f])
      /\ conn[f].st \notin {"NONE", "CLOSED"} /\ NoFd \notin open /\ Owns(f, conn[f], open)
  BY <1>1, SlotWorld DEF Live, Connections
<1>5. NoCgi.in = NoFd /\ NoCgi.out = NoFd /\ NoCgi.pid = NoPid /\ sock[f] \in Socket
  BY <1>1 DEF NoCgi, XInv, PInv, SInv, IInv, TypeOK, KernelTypeOK
<1>6. Received(e, u, w)
  BY <1>2 DEF SocketStep
<1>7. CASE Started(u, w)
  <2>1. Commit(f, w) /\ u.s.rx /\ Taken(u, w)
    <3>1. w # u
      BY <1>4, <1>7 DEF Started, Relaunched, Owns
    <3>2. ~Ended(u, w)
      BY <1>7 DEF Started, Ended
    <3> QED BY <1>2, <1>6, <1>7, <3>1, <3>2 DEF SocketStep, Registers, Received
  <2> HIDE DEF u
  <2>2. w.s.peer = sock[f].peer /\ ~w.s.rx
    BY <1>4, <1>5, <2>1 DEF Taken, Socket
  <2>3. /\ w.c.resp = conn[f].resp /\ w.c.left = conn[f].left
        /\ w.c.st \in {"CGI_WRITING", "CGI_READING"} /\ HasCgi(w.c)
        /\ w.open = open \union ({w.c.cgi.in, w.c.cgi.out} \ {NoFd})
    BY <1>4, <1>7 DEF Started, Relaunched
  <2>4. ~Pipelines => /\ conn[f].st = "READING" /\ conn[f].resp = "none" /\ conn[f].left = 0
                      /\ conn[f].cgi = NoCgi
    BY <1>4, <2>1 DEF Slot, Fits
  <2>5. Slot(w.c, w.s)
    BY <1>4, <2>2, <2>3, <2>4 DEF Slot
  <2>6. ~Pipelines => Moves(conn[f], sock[f], w.c, w.s)
    BY <2>2, <2>3, <2>4, DelegateMoves
  <2>7. ~Pipelines => Settles(f, w)
    BY <1>4, <1>5, <2>3, <2>4 DEF Settles
  <2> QED BY <1>1, <2>1, <2>5, <2>6, <2>7 DEF Proceeds
<1>8. CASE ~Started(u, w)
  <2>1. /\ Written(e, w, v)
        /\ \/ v.c.st = "CLOSED" /\ CloseConnection(f, v)
           \/ v.c.st # "CLOSED" /\ Commit(f, v)
    BY <1>2, <1>8 DEF SocketStep, Continues
  <2> HIDE DEF u
  <2>2. v.open = open
    BY <1>4, <1>6, <1>8, <2>1 DEF Received, Ended, Asked, Answered, Written, Broken, Sent
  <2>3. v.s.peer = sock[f].peer
    <3>1. w.s.peer = sock[f].peer /\ w.s \in Socket
      BY <1>4, <1>5, <1>6, <1>8 DEF Received, Ended, Taken, Socket, Worlds
    <3> QED BY <2>1, <3>1 DEF Written, Broken, Sent, Socket
  <2>4. CASE Pipelines
    <3>1. CASE v.c.st = "CLOSED" /\ CloseConnection(f, v)
      <4>1. /\ Commit(f, Closed(f, v)) /\ Closed(f, v) \in Worlds
            /\ Closed(f, v).c = NoConnection /\ Closed(f, v).s = NoSocket
        BY <1>1, <3>1, ClosedLemma, ClosedRuns DEF CloseConnection
      <4>2. Slot(NoConnection, NoSocket)
        BY <2>4 DEF Slot, NoConnection
      <4> QED BY <1>1, <2>4, <4>1, <4>2 DEF Proceeds
    <3>2. CASE v.c.st # "CLOSED" /\ Commit(f, v)
      <4>1. v.c.st # "NONE"
        BY <1>4, <1>6, <1>8, <2>1 DEF Received, Ended, Asked, Answered, Written, Broken, Sent
      <4>2. Slot(v.c, v.s)
        BY <1>4, <2>3, <2>4, <4>1 DEF Slot
      <4> QED BY <1>1, <2>4, <3>2, <4>2 DEF Proceeds
    <3> QED BY <2>1, <3>1, <3>2
  <2> DEFINE Alone == v.c.cgi = conn[f].cgi
  <2>5. ASSUME ~Pipelines, Commit(f, v), Slot(v.c, v.s), Alone,
               Moves(conn[f], sock[f], v.c, v.s), v.c.st # "NONE"
        PROVE  Proceeds(f, v)
    BY <2>2, <2>5 DEF Proceeds, Settles
  <2>6. CASE ~Pipelines /\ Ended(u, w)
    <3>1. "IN" \in e.revents /\ ~sock[f].rx /\ v = w /\ v.c.st = "CLOSED"
      BY <1>4, <1>6, <2>1, <2>6 DEF Received, Ended, Written
    <3>2. v.c.cgi = conn[f].cgi /\ CloseConnection(f, v) /\ Gone(sock[f])
      BY <1>3, <1>4, <2>1, <2>6, <3>1 DEF Ended
    <3> QED BY <1>1, <2>2, <3>2, CloseProceeds
  <2>7. CASE ~Pipelines /\ "IN" \in e.revents /\ ~Ended(u, w)
    <3>1. /\ sock[f].rx /\ Taken(u, w) /\ conn[f].req = "partial"
          /\ Asked(u, w) \/ Answered(u, w)
      BY <1>4, <1>6, <1>8, <2>7 DEF Received, Slot
    <3>2. /\ conn[f].st = "READING" /\ conn[f].cgi = NoCgi /\ "OUT" \notin e.revents
          /\ conn[f].resp = "none" /\ conn[f].left = 0
      BY <1>3, <1>4, <3>1 DEF Fits
    <3>3. v = w /\ ~v.s.rx
      <4>1. ~w.s.rx
        BY <1>4, <1>5, <3>1 DEF Taken, Socket
      <4> QED BY <2>1, <3>2, <4>1 DEF Written
    <3>4. v.c.cgi = NoCgi /\ v.c.st \in {"READING", "WRITING"} /\ Commit(f, v)
      BY <1>4, <2>1, <3>1, <3>2, <3>3 DEF Asked, Answered
    <3>5. Slot(v.c, v.s)
      BY <1>4, <1>5, <2>3, <3>3, <3>4 DEF Slot, HasCgi
    <3>6. Moves(conn[f], sock[f], v.c, v.s)
      <4>1. CASE Asked(u, w)
        <5>1. Phase(v.c) = Phase(conn[f]) /\ v.c.resp = conn[f].resp /\ v.c.left = conn[f].left
          BY <1>4, <3>2, <3>3, <4>1, PhaseCases DEF Asked, SameAnswer
        <5> QED BY <2>3, <5>1, SameMoves
      <4>2. CASE Answered(u, w)
        <5>1. v.c.st = "WRITING" /\ v.c.left = MaxResponse /\ v.c.resp \in Promise!Immediate
          BY <3>3, <4>2 DEF Answered, Promise!Immediate
        <5> QED BY <1>4, <2>3, <3>2, <5>1, AnswerMoves
      <4> QED BY <3>1, <4>1, <4>2
    <3> QED BY <1>1, <2>5, <2>7, <3>2, <3>4, <3>5, <3>6
  <2>8. CASE ~Pipelines /\ "IN" \notin e.revents
    <3>1. w = u /\ v.c.cgi = conn[f].cgi
      BY <1>4, <1>6, <2>1, <2>8 DEF Received, Written, Broken, Sent
    <3>2. CASE v = u
      <4>1. Moves(conn[f], sock[f], v.c, v.s)
        BY <1>4, <3>2, SameMoves
      <4> QED BY <1>1, <1>4, <2>1, <2>5, <2>8, <3>1, <3>2, <4>1
    <3>3. CASE v # u
      <4>1. /\ "OUT" \in e.revents /\ conn[f].st = "WRITING" /\ conn[f].left > 0
            /\ Broken(u, v) \/ Sent(u, v)
        BY <1>3, <1>4, <2>1, <3>1, <3>3 DEF Written, Fits
      <4>2. CASE Broken(u, v)
        <5>1. v.c.st = "CLOSED" /\ CloseConnection(f, v) /\ Gone(sock[f])
          BY <1>3, <1>4, <2>1, <4>1, <4>2 DEF Broken, Gone
        <5> QED BY <1>1, <2>2, <3>1, <5>1, CloseProceeds
      <4>3. CASE Sent(u, v)
        <5>1. PICK n \in 1..conn[f].left :
                 /\ v.c.left = conn[f].left - n
                 /\ v.c.st = IF n = conn[f].left THEN "CLOSED" ELSE conn[f].st
                 /\ v.c.req = conn[f].req /\ v.c.resp = conn[f].resp
                 /\ v.s = [sock[f] EXCEPT !.room = (n = conn[f].left)]
          BY <1>4, <4>3 DEF Sent
        <5>2. conn[f].left \in Nat
          BY <1>4, ConnectionAssumption DEF Connections
        <5>3. CASE n = conn[f].left
          <6>1. v.c.left = 0 /\ CloseConnection(f, v) /\ Sent(World(f), v)
            BY <2>1, <4>3, <5>1, <5>2, <5>3 DEF u
          <6> QED BY <1>1, <2>2, <3>1, <4>1, <6>1, CloseProceeds
        <5>4. CASE n # conn[f].left
          <6>1. v.c.st = "WRITING" /\ Commit(f, v)
            BY <2>1, <4>1, <5>1, <5>4
          <6>2. v.s.rx = sock[f].rx
            BY <1>5, <5>1 DEF Socket
          <6>3. Slot(v.c, v.s)
            BY <1>4, <2>3, <3>1, <4>1, <5>1, <6>1, <6>2 DEF Slot, Fits, HasCgi
          <6>4. Moves(conn[f], sock[f], v.c, v.s)
            BY <2>3, <4>1, <5>1, <5>4, <6>1, TransmitMoves
          <6> QED BY <1>1, <2>5, <2>8, <3>1, <6>1, <6>3, <6>4
        <5> QED BY <5>3, <5>4
      <4> QED BY <4>1, <4>2, <4>3
    <3> QED BY <3>2, <3>3
  <2> QED BY <2>4, <2>6, <2>7, <2>8
<1> QED BY <1>7, <1>8

-----------------------------------------------------------------------------
(* The other steps of the loop, its clients and its programs.              *)
LEMMA SameSlots ==
    ASSUME XInv, open' = open,
           \A f \in FD : /\ conn'[f].st = conn[f].st /\ conn'[f].cgi = conn[f].cgi
                         /\ conn'[f].req = conn[f].req /\ conn'[f].resp = conn[f].resp
                         /\ conn'[f].left = conn[f].left /\ sock'[f] = sock[f]
    PROVE  Slots' /\ Owed' /\ AllMove
<1>1. Slots'
  BY DEF XInv, Slots, Slot, HasCgi
<1>2. Owed'
  BY DEF XInv, Owed, Live
<1>3. AllMove
  BY SameMoves DEF AllMove, Phase
<1> QED BY <1>1, <1>2, <1>3

LEMMA AcceptSlots ==
    ASSUME XInv, NEW e \in ready, Accept(e)
    PROVE  Slots' /\ Owed' /\ AllMove
<1> DEFINE new == Lowest(FD \ open, backlog[e.fd])
<1>1. /\ e.fd \in Listener /\ open' = open \union new
      /\ sock' = [f \in FD |-> IF f \in new THEN FreshSocket ELSE sock[f]]
      /\ conn' = [f \in FD |-> IF f \in new THEN NewConnection ELSE conn[f]]
  BY Zenon DEF Accept
<1>2. new \subseteq FD \ open
  <2>1. backlog[e.fd] \in Nat
    BY <1>1 DEF XInv, PInv, SInv, IInv, TypeOK, KernelTypeOK
  <2> QED BY <2>1, LowestLemma
<1> HIDE DEF new
<1>3. \A f \in new : f \in FD /\ f \notin Live /\ conn[f] = NoConnection /\ sock[f] = NoSocket
  BY <1>2, SlotWorld DEF Owns
<1>4. \A f \in FD \ new : conn'[f] = conn[f] /\ sock'[f] = sock[f]
  BY <1>1
<1>5. \A f \in new : conn'[f] = NewConnection /\ sock'[f] = FreshSocket
  BY <1>1, <1>3
<1>6. Slot(NewConnection, FreshSocket) /\ NewConnection.st = "READING"
  BY DEF Slot, NewConnection, NoConnection, NoCgi, HasCgi, FreshSocket
<1>7. Slots'
  BY <1>4, <1>5, <1>6 DEF XInv, Slots
<1>8. AllMove
  BY <1>3, <1>4, <1>5, ArriveMoves, SameMoves DEF AllMove
<1>9. Owed'
  <2> SUFFICES ASSUME ~Pipelines, NEW d \in open'
               PROVE  \E g \in Live' : d \in {g, conn'[g].cgi.in, conn'[g].cgi.out}
    BY DEF Owed
  <2>1. CASE d \in new
    BY <1>3, <1>5, <1>6, <2>1 DEF Live
  <2>2. CASE d \notin new
    <3>1. PICK g \in Live : d \in {g, conn[g].cgi.in, conn[g].cgi.out}
      BY <1>1, <2>2 DEF XInv, Owed
    <3> QED BY <1>3, <1>4, <3>1 DEF Live
  <2> QED BY <2>1, <2>2
<1> QED BY <1>7, <1>8, <1>9

LEMMA CheckTimeoutsSlots ==
    ASSUME XInv, CheckTimeouts
    PROVE  Slots' /\ Owed' /\ (~Pipelines => AllMove)
<1> DEFINE pipes == UNION {{conn[f].cgi.in, conn[f].cgi.out} : f \in LateCgi}
<1>1. /\ open' = open \ (pipes \union Idlers)
      /\ sock' = [f \in FD |-> IF f \in Idlers THEN NoSocket ELSE sock[f]]
  BY Zenon DEF CheckTimeouts
<1>2. ASSUME NEW f \in LateCgi
      PROVE  /\ f \in FD /\ f \in Live /\ HasCgi(conn[f]) /\ f \notin Idlers /\ sock'[f] = sock[f]
             /\ conn'[f].cgi = NoCgi /\ conn'[f].st = "WRITING" /\ conn'[f].resp = "timeout"
             /\ conn'[f].left = MaxResponse
             /\ conn[f].cgi.in \in pipes /\ conn[f].cgi.out \in pipes
  BY <1>1, CheckTimeoutsConn DEF XInv, PInv, LateCgi, Idlers
<1>3. ASSUME NEW f \in Idlers
      PROVE  /\ f \in FD /\ f \in Live /\ conn[f].st = "READING" /\ conn[f].cgi = NoCgi
             /\ conn'[f] = NoConnection /\ sock'[f] = NoSocket
  <2>1. f \in FD /\ f \in Live /\ ~HasCgi(conn[f]) /\ ~WantsWrite(conn[f])
        /\ conn'[f] = NoConnection /\ sock'[f] = NoSocket
    BY <1>1, CheckTimeoutsConn DEF XInv, PInv, Idlers, Live
  <2> QED BY <2>1, SlotWorld DEF Fits, WantsWrite, Live, Connections
<1>4. ASSUME NEW f \in FD, f \notin LateCgi, f \notin Idlers
      PROVE  conn'[f] = conn[f] /\ sock'[f] = sock[f]
  BY <1>1, <1>4, CheckTimeoutsConn DEF XInv, PInv
<1> HIDE DEF pipes
<1>5. Slots'
  <2> SUFFICES ASSUME NEW f \in FD PROVE Slot(conn'[f], sock'[f])
    BY DEF Slots
  <2>1. Slot(conn[f], sock[f]) /\ Fits(conn[f])
    BY SlotWorld
  <2>2. CASE f \in LateCgi
    <3>1. conn[f].req # "partial" /\ conn[f].st # "NONE"
      BY <1>2, <2>1, <2>2 DEF Fits, CgiRoute, Route, Live
    <3> QED BY <1>2, <2>1, <2>2, <3>1 DEF Slot, HasCgi, NoCgi
  <2>3. CASE f \in Idlers
    BY <1>3, <2>3 DEF Slot, NoConnection, NoSocket, NoCgi, HasCgi
  <2> QED BY <1>4, <2>1, <2>2, <2>3
<1>6. AllMove
  <2> SUFFICES ASSUME NEW f \in FD PROVE Moves(conn[f], sock[f], conn'[f], sock'[f])
    BY DEF AllMove
  <2>1. conn[f] \in Connections /\ Fits(conn[f])
    BY SlotWorld
  <2>2. CASE f \in LateCgi
    <3>1. conn[f].st \in {"CGI_WRITING", "CGI_READING"} /\ "timeout" \in Promise!Delayed
      BY <1>2, <2>1, <2>2 DEF Fits, Promise!Delayed
    <3> QED BY <1>2, <2>1, <2>2, <3>1, AnswerMoves
  <2>3. CASE f \in Idlers
    BY <1>3, <2>1, <2>3, DropMoves
  <2> QED BY <1>4, <2>2, <2>3, SameMoves
<1>7. Owed'
  <2> SUFFICES ASSUME ~Pipelines, NEW d \in open'
               PROVE  \E g \in Live' : d \in {g, conn'[g].cgi.in, conn'[g].cgi.out}
    BY DEF Owed
  <2>1. d \in open /\ d # NoFd /\ d \notin pipes /\ d \notin Idlers
    BY <1>1, Bounds DEF XInv, PInv, SInv, IInv, TypeOK, KernelTypeOK
  <2>2. PICK g \in Live : d \in {g, conn[g].cgi.in, conn[g].cgi.out}
    BY <2>1 DEF XInv, Owed
  <2>3. CASE g \in LateCgi
    BY <1>2, <2>1, <2>2, <2>3 DEF Live
  <2>4. CASE g \in Idlers
    BY <1>3, <2>1, <2>2, <2>4 DEF NoCgi
  <2>5. CASE g \notin LateCgi /\ g \notin Idlers
    BY <1>4, <2>2, <2>5 DEF Live
  <2> QED BY <2>3, <2>4, <2>5
<1> QED BY <1>5, <1>6, <1>7

LEMMA ShutdownSlots ==
    ASSUME XInv, NEW e \in ready, Shutdown(e)
    PROVE  Slots' /\ Owed' /\ Live' = {}
<1> DEFINE withCgi == {f \in Live : HasCgi(conn[f])}
           pipes == UNION {{conn[f].cgi.in, conn[f].cgi.out} : f \in withCgi}
<1>1. /\ open' = open \ (Live \union pipes)
      /\ conn' = [f \in FD |-> NoConnection] /\ sock' = [f \in FD |-> NoSocket]
  BY Zenon DEF Shutdown
<1>2. Live' = {}
  BY <1>1 DEF Live, NoConnection
<1>3. Slots'
  BY <1>1 DEF Slots, Slot, NoConnection, NoSocket, NoCgi, HasCgi
<1>4. ~Pipelines => open' = {}
  <2> SUFFICES ASSUME ~Pipelines, NEW d \in open' PROVE FALSE
    OBVIOUS
  <2>1. d \in open /\ d # NoFd /\ d \notin Live /\ d \notin pipes
    BY <1>1, Bounds DEF XInv, PInv, SInv, IInv, TypeOK, KernelTypeOK
  <2>2. PICK g \in Live : d \in {g, conn[g].cgi.in, conn[g].cgi.out}
    BY <2>1 DEF XInv, Owed
  <2>3. HasCgi(conn[g])
    BY <2>1, <2>2, SlotWorld DEF Owns, Live
  <2> QED BY <2>1, <2>2, <2>3
<1> QED BY <1>2, <1>3, <1>4 DEF Owed

LEMMA ClientMoves ==
    ASSUME XInv, NEW f \in FD, Client(f)
    PROVE  /\ f \in Live /\ UNCHANGED open
           /\ Slot(conn[f], sock'[f]) /\ Moves(conn[f], sock[f], conn[f], sock'[f])
           /\ \A g \in FD \ {f} : sock'[g] = sock[g]
<1>1. sock \in [FD -> Socket] /\ sock[f] \in Socket
  BY DEF XInv, PInv, SInv, IInv, TypeOK, KernelTypeOK
<1>2. Slot(conn[f], sock[f]) /\ conn[f] \in Connections
  BY SlotWorld
<1>3. sock[f].peer \in {"open", "fin"}
  BY DEF Client, ClientSend, ClientFin, ClientReset, ClientDrain
<1>4. f \in Live
  BY <1>3, SlotWorld DEF NoSocket
<1>5. conn[f].st # "NONE"
  BY <1>4 DEF Live
<1>6. CASE (Pipelines \/ conn[f].req = "partial") /\ ClientSend(f)
  <2>1. sock' = [sock EXCEPT ![f].rx = TRUE, ![f].more = @ - 1]
    BY <1>6 DEF ClientSend
  <2>2. sock'[f].peer = sock[f].peer /\ \A g \in FD \ {f} : sock'[g] = sock[g]
    BY <1>1, <2>1 DEF Socket
  <2>3. Slot(conn[f], sock'[f])
    BY <1>2, <1>5, <1>6, <2>2 DEF Slot
  <2> QED BY <1>4, <1>6, <2>2, <2>3, SameMoves DEF ClientSend
<1>7. CASE ClientFin(f)
  <2>1. sock' = [sock EXCEPT ![f].peer = "fin", ![f].more = 0] /\ sock[f].peer = "open"
    BY <1>7 DEF ClientFin
  <2>2. /\ sock'[f].peer = "fin" /\ sock'[f].rx = sock[f].rx
        /\ \A g \in FD \ {f} : sock'[g] = sock[g]
    BY <1>1, <2>1 DEF Socket
  <2>3. Slot(conn[f], sock'[f])
    BY <1>2, <1>5, <2>2 DEF Slot
  <2> QED BY <1>2, <1>4, <1>5, <1>7, <2>1, <2>2, <2>3, DepartMoves DEF ClientFin, Gone
<1>8. CASE ClientReset(f)
  <2>1. sock' = [sock EXCEPT ![f] = [NoSocket EXCEPT !.peer = "reset"]]
    BY <1>8 DEF ClientReset
  <2>2. /\ sock'[f].peer = "reset" /\ ~sock'[f].rx
        /\ \A g \in FD \ {f} : sock'[g] = sock[g]
    BY <1>1, <2>1 DEF NoSocket
  <2>3. Slot(conn[f], sock'[f])
    BY <1>2, <1>5, <2>2 DEF Slot
  <2>4. Moves(conn[f], sock[f], conn[f], sock'[f])
    <3>1. CASE Gone(sock[f])
      BY <2>2, <3>1, SameMoves DEF Gone
    <3>2. CASE ~Gone(sock[f])
      BY <1>2, <1>5, <2>2, <3>2, DepartMoves DEF Gone
    <3> QED BY <3>1, <3>2
  <2> QED BY <1>4, <1>8, <2>2, <2>3, <2>4 DEF ClientReset
<1>9. CASE ClientDrain(f)
  <2>1. sock' = [sock EXCEPT ![f].room = TRUE]
    BY <1>9 DEF ClientDrain
  <2>2. /\ sock'[f].peer = sock[f].peer /\ sock'[f].rx = sock[f].rx
        /\ \A g \in FD \ {f} : sock'[g] = sock[g]
    BY <1>1, <2>1 DEF Socket
  <2>3. Slot(conn[f], sock'[f])
    BY <1>2, <1>5, <2>2 DEF Slot
  <2> QED BY <1>4, <1>9, <2>2, <2>3, SameMoves DEF ClientDrain
<1> QED BY <1>6, <1>7, <1>8, <1>9 DEF Client

LEMMA OutsideSlots ==
    ASSUME XInv, Outside
    PROVE  /\ Slots' /\ Owed' /\ AllMove
           /\ Live = {} => \A f \in FD : sock'[f] = sock[f]
<1>1. UNCHANGED <<conn, cgiToSocket, pollfds, ready, pc>>
  BY DEF Outside, engineVars
<1>2. CASE \E f \in FD : Client(f)
  <2>1. PICK f \in FD : Client(f)
    BY <1>2
  <2>2. /\ f \in Live /\ UNCHANGED open
        /\ Slot(conn[f], sock'[f]) /\ Moves(conn[f], sock[f], conn[f], sock'[f])
        /\ \A g \in FD \ {f} : sock'[g] = sock[g]
    BY <2>1, ClientMoves
  <2>3. Slots' /\ Owed'
    BY <1>1, <2>2 DEF XInv, Slots, Owed, Live
  <2>4. AllMove
    BY <1>1, <2>2, SameMoves DEF AllMove
  <2> QED BY <2>2, <2>3, <2>4
<1>3. CASE ~\E f \in FD : Client(f)
  <2>1. sock' = sock /\ open' = open
    BY <1>3 DEF Outside, Arrival, Connect, Program, ChildWrite, ChildRead, ChildCloseIn,
                ChildCloseOut, ChildEnd, Signal
  <2> QED BY <1>1, <2>1, SameSlots
<1> QED BY <1>2, <1>3

-----------------------------------------------------------------------------
LEMMA InitXInv == Init => XInv
<1> SUFFICES ASSUME Init PROVE XInv
  OBVIOUS
<1>1. PInv
  BY InitPInv
<1>2. \A f \in FD : conn[f] = NoConnection /\ sock[f] = NoSocket
  BY DEF Init, KernelInit
<1>3. Slots
  BY <1>2 DEF Slots, Slot, NoConnection, NoSocket, NoCgi, HasCgi
<1> QED BY <1>1, <1>3 DEF Init, KernelInit, XInv, Owed, Down

(* A step of the loop serves the exchanges, ends them all when it is the   *)
(* last one, or is none, when only programs are left to go on.             *)
LEMMA NextSlots ==
    ASSUME XInv, [Next]_vars
    PROVE  /\ Slots' /\ Owed' /\ Down'
           /\ ~Pipelines =>
                 \/ pc # "stopped" /\ pc' # "stopped" /\ AllMove
                 \/ /\ pc # "stopped" /\ pc' = "stopped"
                    /\ \A f \in FD : conn'[f] = NoConnection /\ sock'[f] = NoSocket
                 \/ /\ pc = "stopped" /\ pc' = "stopped"
                    /\ \A f \in FD : conn'[f] = conn[f] /\ sock'[f] = sock[f]
<1>1. SInv'
  BY NextSInv DEF XInv, PInv
<1>2. CASE Poll
  <2>1. Slots' /\ Owed' /\ AllMove
    BY <1>2, SameSlots DEF Poll, kernelVars
  <2> QED BY <1>2, <2>1 DEF Poll, Down
<1>3. ASSUME NEW e \in ready, Handle(e), ~Shutdown(e)
      PROVE  /\ Slots' /\ Owed' /\ Down' /\ pc # "stopped" /\ pc' # "stopped"
             /\ ~Pipelines => AllMove
  <2>1. pc # "stopped" /\ pc' # "stopped"
    BY <1>3 DEF Handle, CgiEvent, HangUp, UnknownEvent, SocketEvent, SocketTurn, Handled,
                Accept, Turn
  <2>2. Slots' /\ Owed' /\ (~Pipelines => AllMove)
    <3>1. CASE CgiEvent(e)
      BY <1>1, <3>1, CgiEventProceeds, CommitProceeds
    <3>2. CASE HangUp(e)
      BY <1>1, <3>2, HangUpProceeds, CommitProceeds
    <3>3. CASE UnknownEvent(e)
      BY <3>3, SameSlots DEF UnknownEvent
    <3>4. CASE SocketEvent(e)
      BY <1>1, <3>4, SocketEventProceeds, CommitProceeds
    <3>5. CASE Accept(e)
      BY <3>5, AcceptSlots
    <3> QED BY <1>3, <3>1, <3>2, <3>3, <3>4, <3>5 DEF Handle
  <2> QED BY <2>1, <2>2 DEF Down
<1>4. ASSUME NEW e \in ready, Shutdown(e)
      PROVE  /\ Slots' /\ Owed' /\ Down' /\ pc # "stopped" /\ pc' = "stopped"
             /\ \A f \in FD : conn'[f] = NoConnection /\ sock'[f] = NoSocket
  <2>1. /\ pc # "stopped" /\ pc' = "stopped"
        /\ \A f \in FD : conn'[f] = NoConnection /\ sock'[f] = NoSocket
    BY <1>4 DEF Shutdown, Turn
  <2> QED BY <1>4, <2>1, ShutdownSlots DEF Down
<1>5. CASE CheckTimeouts
  BY <1>5, CheckTimeoutsSlots DEF CheckTimeouts, Down
<1>6. CASE Tick
  <2>1. pc # "stopped" /\ pc' # "stopped" /\ open' = open /\ sock' = sock
    BY <1>6 DEF Tick, kernelVars
  <2>2. \A f \in FD : /\ conn'[f].st = conn[f].st /\ conn'[f].cgi = conn[f].cgi
                      /\ conn'[f].req = conn[f].req /\ conn'[f].resp = conn[f].resp
                      /\ conn'[f].left = conn[f].left
    BY <1>6, TickConn DEF XInv, PInv, SInv, IInv
  <2> QED BY <2>1, <2>2, SameSlots DEF Down
<1>7. CASE Outside
  <2>1. UNCHANGED <<conn, pc>> /\ (pc = "stopped" => Live = {})
    BY <1>7 DEF Outside, engineVars, XInv, Down
  <2> QED BY <1>7, <2>1, OutsideSlots DEF Down, Live
<1>8. CASE UNCHANGED vars
  <2>1. UNCHANGED <<conn, sock, open, pc>>
    BY <1>8 DEF vars, kernelVars, engineVars
  <2> QED BY <2>1, SameSlots DEF XInv, Down, Live
<1> QED BY <1>2, <1>3, <1>4, <1>5, <1>6, <1>7, <1>8 DEF Next, Loop

LEMMA NextXInv == XInv /\ [Next]_vars => XInv'
BY NextSlots, NextPInv DEF XInv

LEMMA XInvNoLeak == ~Pipelines /\ XInv => NoDescriptorLeak
<1> SUFFICES ASSUME ~Pipelines, XInv, NEW d \in open
             PROVE  \E f \in Live, r \in Role : d = Held(f, r)
  BY DEF NoDescriptorLeak
<1>1. PICK f \in Live : d \in {f, conn[f].cgi.in, conn[f].cgi.out}
  BY DEF XInv, Owed
<1> QED BY <1>1 DEF Role, Held

LEMMA StepKeepsResponse ==
    ASSUME ~Pipelines, XInv, [Next]_vars, NEW f \in FD, conn[f].st = "WRITING",
           conn'[f].st # "NONE"
    PROVE  /\ conn'[f].st = "WRITING" /\ conn'[f].resp = conn[f].resp
           /\ conn'[f].left <= conn[f].left
<1>1. XInv'
  BY NextXInv
<1>2. /\ conn[f] \in Connections /\ conn'[f] \in Connections
      /\ conn[f].left \in Nat /\ conn'[f].left \in Nat
  BY <1>1, ConnectionAssumption DEF XInv, PInv, SInv, IInv, TypeOK, Connections
<1> DEFINE x == Shown(conn[f], sock[f])
           y == Shown(conn'[f], sock'[f])
<1>3. /\ x.phase = "writing" /\ x.reply = conn[f].resp /\ x.left = conn[f].left
      /\ y.phase # "free" /\ y.reply = conn'[f].resp /\ y.left = conn'[f].left
      /\ y.phase = "writing" => conn'[f].st = "WRITING"
  BY <1>2, PhaseCases, ShownFields DEF Connections
<1>4. y = x \/ Promise!Step(x, y)
  <2>1. CASE AllMove
    BY <2>1 DEF AllMove, Moves
  <2>2. CASE conn'[f] = NoConnection
    BY <2>2 DEF NoConnection
  <2>3. CASE conn'[f] = conn[f] /\ sock'[f] = sock[f]
    BY <2>3
  <2> QED BY <2>1, <2>2, <2>3, NextSlots
<1>5. x = [phase |-> x.phase, reply |-> x.reply, left |-> x.left, gone |-> x.gone]
  BY DEF Shown
<1> HIDE DEF x, y
<1>6. Promise!Free.phase = "free"
  BY DEF Promise!Free
<1>7. CASE Promise!Transmit(x, y)
  <2>1. PICK n \in 1..x.left : y = [x EXCEPT !.left = @ - n]
    BY <1>3, <1>6, <1>7 DEF Promise!Transmit
  <2>2. y.phase = x.phase /\ y.reply = x.reply /\ y.left = x.left - n
    BY <1>5, <2>1
  <2> QED BY <1>2, <1>3, <2>2
<1>8. CASE Promise!Depart(x, y)
  <2>1. y.phase = x.phase /\ y.reply = x.reply /\ y.left = x.left
    BY <1>5, <1>8, Zenon DEF Promise!Depart
  <2> QED BY <1>2, <1>3, <2>1
<1>9. CASE y = x
  BY <1>2, <1>3, <1>9
<1>10. /\ ~Promise!Arrive(x, y) /\ ~Promise!Reply(x, y)
       /\ ~Promise!Delegate(x, y) /\ ~Promise!Drop(x, y)
  BY <1>3, <1>6 DEF Promise!Arrive, Promise!Reply, Promise!Delegate, Promise!Drop
<1> QED BY <1>4, <1>7, <1>8, <1>9, <1>10 DEF Promise!Step

-----------------------------------------------------------------------------
(* The refinement: the exchanges that Exchange is given are the ones shown *)
(* above, so that the steps found there are the steps it allows.           *)
Exchanged == [f \in FD |-> [phase |-> Phase(conn[f]), reply |-> conn[f].resp,
                            left |-> conn[f].left,
                            gone |-> sock[f].peer \in {"fin", "reset"}]]

LEMMA ExchangedShown ==
    /\ Exchanged = [f \in FD |-> Shown(conn[f], sock[f])]
    /\ Exchanged' = [f \in FD |-> Shown(conn'[f], sock'[f])]
BY Zenon DEF Exchanged, Shown, Gone

LEMMA InitPromise == Init => Promise!Init
<1> SUFFICES ASSUME Init PROVE Promise!Init
  OBVIOUS
<1>1. \A f \in FD : conn[f] = NoConnection /\ sock[f] = NoSocket
  BY DEF Init, KernelInit
<1>2. Exchanged = [f \in FD |-> Promise!Free]
  BY <1>1, ExchangedShown, FreeShown
<1>3. (pc = "stopped") = FALSE
  BY DEF Init
<1> QED BY <1>2, <1>3, Zenon DEF Exchanged, Promise!Init

LEMMA StepPromise ==
    ASSUME ~Pipelines, XInv, [Next]_vars
    PROVE  [Promise!Next]_(Promise!vars)
<1> DEFINE X == Exchanged
           Y == Exchanged'
<1>1. /\ \A f \in FD : X[f] = Shown(conn[f], sock[f])
      /\ \A f \in FD : Y[f] = Shown(conn'[f], sock'[f])
      /\ X = [f \in FD |-> X[f]] /\ Y = [f \in FD |-> Y[f]]
  BY ExchangedShown
<1>2. CASE pc # "stopped" /\ pc' # "stopped" /\ AllMove
  <2>1. \A f \in FD : Y[f] = X[f] \/ Promise!Step(X[f], Y[f])
    BY <1>1, <1>2 DEF AllMove, Moves
  <2>2. Promise!Serve
    BY <1>1, <1>2, <2>1, Zenon DEF Exchanged, Promise!Serve
  <2> QED BY <2>2 DEF Promise!Next
<1>3. CASE /\ pc # "stopped" /\ pc' = "stopped"
           /\ \A f \in FD : conn'[f] = NoConnection /\ sock'[f] = NoSocket
  <2>1. Y = [f \in FD |-> Promise!Free]
    BY <1>1, <1>3, FreeShown
  <2>2. Promise!ShutDown
    BY <1>3, <2>1, Zenon DEF Exchanged, Promise!ShutDown
  <2> QED BY <2>2 DEF Promise!Next
<1>4. CASE /\ pc = "stopped" /\ pc' = "stopped"
           /\ \A f \in FD : conn'[f] = conn[f] /\ sock'[f] = sock[f]
  <2>1. Y = X
    BY <1>1, <1>4
  <2> QED BY <1>4, <2>1, Zenon DEF Exchanged, Promise!vars
<1> QED BY <1>2, <1>3, <1>4, NextSlots

-----------------------------------------------------------------------------
(* Every descriptor that is open is the socket of a live connection or a   *)
(* pipe of its CGI: launch, closeCgi, closeConnection, checkTimeouts and   *)
(* cleanup close what they should, on every path and in every order.       *)
THEOREM NothingLeaks ==
    ASSUME ~Pipelines
    PROVE  Spec => []NoDescriptorLeak
<1>1. XInv => NoDescriptorLeak
  BY XInvNoLeak
<1> QED BY InitXInv, NextXInv, <1>1, PTL DEF Spec

(* A response that is being sent is only ever sent on, or dropped with its *)
(* connection: no event, late CGI or timeout replaces or rewinds it.       *)
THEOREM ResponsesKept ==
    ASSUME ~Pipelines
    PROVE  Spec => ResponseKept
<1>1. XInv /\ [Next]_vars =>
         [\A f \in FD : conn[f].st = "WRITING" /\ conn'[f].st # "NONE" =>
            /\ conn'[f].st = "WRITING"
            /\ conn'[f].resp = conn[f].resp
            /\ conn'[f].left <= conn[f].left]_vars
  BY StepKeepsResponse
<1> QED BY InitXInv, NextXInv, <1>1, PTL DEF Spec, ResponseKept

(* The event loop implements Exchange: every request is answered at most   *)
(* once, by a reply of the right kind, and a client that stays is dropped  *)
(* neither while its program runs nor in the middle of its answer.         *)
THEOREM PromiseKept ==
    ASSUME ~Pipelines
    PROVE  Spec => KeepsPromise
<1>1. XInv /\ [Next]_vars => [Promise!Next]_(Promise!vars)
  BY StepPromise
<1> QED BY InitXInv, InitPromise, NextXInv, <1>1, PTL DEF Spec, KeepsPromise, Promise!Spec
==============================================================================
