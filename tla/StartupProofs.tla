---------------------------- MODULE StartupProofs ----------------------------
(***************************************************************************)
(* Proofs about ServerStart.tla: whatever configuration is loaded, however *)
(* many descriptors there are, whichever call fails and whenever a signal  *)
(* comes, the descriptors are accounted for and the event loop begins with *)
(* what it takes for granted.  And about Startup.tla: whatever file is     *)
(* read, and whatever its addresses leave to chance, the program starts    *)
(* and ends in one of the ways of ServerStart.tla, so that what is shown   *)
(* for every set of addresses holds of what a configuration says; and the  *)
(* servers, locations and settings of an accepted file are those that it   *)
(* says, wherever a directive stands; and a file is refused for its syntax *)
(* exactly when it does not follow the grammar.                            *)
(*                                                                         *)
(* The second part follows a file through the program: what comes out of   *)
(* the tokenizer and the parser is a tree (AcceptedTree), what is made of  *)
(* that is what it says (ResolverProofs.tla), and no server is twice on a  *)
(* socket (NoServerTwice).  The third part compares the parser with the    *)
(* grammar.                                                                *)
(***************************************************************************)
EXTENDS Startup, ResolverProofs, FoldProofs, FiniteSetTheorems, TLAPS

(* Numbers are handed out in order: the pipe has its two, all sockets have *)
(* larger ones, and what is free is larger still.                          *)
InOrder ==
    /\ \E p, q \in pipe : p # q /\ pipe = {p, q}
    /\ \A p \in pipe, f \in DOMAIN listeners : p < f
    /\ \A f \in pipe \union DOMAIN listeners, g \in Free(open) : f < g

(* The keys that were visited have one socket each.                        *)
Visited ==
    /\ \A f \in DOMAIN listeners : listeners[f] \in keys \ todo
    /\ \A k \in keys \ todo : \E f \in DOMAIN listeners : listeners[f] = k
    /\ \A f, g \in DOMAIN listeners : listeners[f] = listeners[g] => f = g

NothingOpen == pipe = {} /\ DOMAIN listeners = {}

Accounts ==
    /\ open = Inherited \union pipe \union DOMAIN listeners
    /\ pipe \intersect DOMAIN listeners = {}
    /\ (pipe \union DOMAIN listeners) \intersect Inherited = {}

(* The inductive invariant.                                                *)
IInv ==
    /\ StartTypeOK
    /\ stage # "killed" => Accounts
    /\ stage \in {"main", "loaded", "setup", "returned", "over"} => NothingOpen
    /\ stage = "setup" => todo = keys
    /\ stage \in {"binding", "looping"} => InOrder /\ Visited
    /\ stage = "looping" => todo = {}

-----------------------------------------------------------------------------
(* The number that a system call hands out.                                *)
LEMMA LowestIsFree ==
    ASSUME NEW used \in SUBSET Fd, Free(used) # {}
    PROVE  /\ Lowest(used) \in Free(used)
           /\ \A g \in Free(used) : Lowest(used) <= g
<1>1. Free(used) \in SUBSET Nat
  BY StartAssumption DEF Free
<1>2. \E f \in Free(used) : \A g \in Free(used) : f <= g
  <2> DEFINE S == Free(used)
  <2>1. S \in SUBSET Nat /\ S # {}
    BY <1>1
  <2> HIDE DEF S
  <2>2. Min(S) \in S /\ \A g \in S : Min(S) <= g
    BY <2>1, SmallestNumber
  <2> QED
    BY <2>2 DEF S
<1> QED
  BY <1>2 DEF Lowest

LEMMA Nothing == DOMAIN <<>> = {} /\ <<>> \in [DOMAIN <<>> -> Key]
  OBVIOUS

LEMMA InitInv == StartInit => IInv
<1> SUFFICES ASSUME StartInit PROVE IInv
  OBVIOUS
<1>1. StartTypeOK
  BY StartAssumption, Nothing DEF StartInit, StartTypeOK, Stages, Errors
<1>2. NothingOpen /\ Accounts
  BY StartAssumption, Nothing DEF StartInit, NothingOpen, Accounts
<1> QED
  BY <1>1, <1>2 DEF StartInit, IInv

-----------------------------------------------------------------------------
(* main() before the engine exists.                                        *)
LEMMA RefusedInv ==
    ASSUME IInv, NEW kind \in Errors, stage \in {"main", "loaded"}, Refused(kind)
    PROVE  IInv'
<1>1. StartTypeOK'
  BY DEF IInv, Refused, StartTypeOK, Stages
<1>2. NothingOpen' /\ Accounts'
  BY DEF IInv, Refused, NothingOpen, Accounts
<1> QED
  BY <1>1, <1>2 DEF IInv, Refused

LEMMA ConfiguredInv ==
    ASSUME IInv, NEW newKeys \in SUBSET Key, stage = "loaded", Configured(newKeys)
    PROVE  IInv'
<1>1. StartTypeOK'
  BY DEF IInv, Configured, StartTypeOK, Stages
<1>2. NothingOpen' /\ Accounts'
  BY DEF IInv, Configured, NothingOpen, Accounts
<1> QED
  BY <1>1, <1>2 DEF IInv, Configured

LEMMA AnyConfigurationInv == IInv /\ AnyConfiguration => IInv'
<1> SUFFICES ASSUME IInv, AnyConfiguration PROVE IInv'
  OBVIOUS
<1>1. CASE /\ stage = "main" /\ stage' = "loaded"
           /\ UNCHANGED <<error, keys, todo, listeners, pipe, open, signalled>>
  <2>1. StartTypeOK'
    BY <1>1 DEF IInv, StartTypeOK, Stages
  <2>2. NothingOpen' /\ Accounts'
    BY <1>1 DEF IInv, NothingOpen, Accounts
  <2> QED
    BY <1>1, <2>1, <2>2 DEF IInv
<1>2. CASE stage \in {"main", "loaded"} /\ \E kind \in Errors : Refused(kind)
  BY <1>2, RefusedInv
<1>3. CASE stage = "loaded" /\ keys' \subseteq Key /\ Configured(keys')
  BY <1>3, ConfiguredInv
<1> QED
  BY <1>1, <1>2, <1>3 DEF AnyConfiguration

-----------------------------------------------------------------------------
(* start(): a call that fails leaves everything as it was.                 *)
LEMMA ThrowInv ==
    ASSUME IInv, stage \in {"setup", "binding"}, Throw,
           UNCHANGED <<keys, todo, listeners, pipe, open, signalled>>
    PROVE  IInv'
<1>1. StartTypeOK'
  BY DEF IInv, Throw, StartTypeOK, Stages, Errors
<1>2. Accounts'
  BY DEF IInv, Accounts
<1> QED
  BY <1>1, <1>2 DEF IInv, Throw

LEMMA LateFailureInv ==
    ASSUME IInv, NEW key \in todo, LateFailure(key)
    PROVE  IInv'
<1>1. open \in SUBSET Fd /\ Free(open) # {}
  BY DEF IInv, StartTypeOK, LateFailure
<1>2. Lowest(open) \notin open
  BY <1>1, LowestIsFree DEF Free
<1>3. open' = open
  BY <1>2 DEF LateFailure
<1> QED
  BY <1>3, ThrowInv DEF LateFailure, IsNext

LEMMA SetupSignalHandlingInv == IInv /\ SetupSignalHandling => IInv'
<1> SUFFICES ASSUME IInv, SetupSignalHandling PROVE IInv'
  OBVIOUS
<1> DEFINE p == Lowest(open)
           q == Lowest(open \union {p})
<1>1. open \in SUBSET Fd /\ NothingOpen /\ Accounts /\ todo = keys
  BY DEF IInv, StartTypeOK, SetupSignalHandling
<1>2. p \in Free(open) /\ \A g \in Free(open) : p <= g
  BY <1>1, LowestIsFree DEF SetupSignalHandling
<1>3. q \in Free(open \union {p}) /\ \A g \in Free(open \union {p}) : q <= g
  <2>1. open \union {p} \in SUBSET Fd
    BY <1>1, <1>2 DEF Free
  <2> QED
    BY <2>1, LowestIsFree DEF SetupSignalHandling
<1>4. p \in Fd \ open /\ q \in Fd \ open /\ p # q
  BY <1>2, <1>3 DEF Free
<1>5. pipe' = {p, q} /\ open' = open \union {p, q} /\ stage' = "binding"
      /\ UNCHANGED <<error, keys, todo, listeners, signalled>>
  BY DEF SetupSignalHandling
<1> HIDE DEF p, q
<1>6. StartTypeOK'
  BY <1>4, <1>5 DEF IInv, StartTypeOK, Stages
<1>7. Accounts'
  BY <1>1, <1>4, <1>5 DEF NothingOpen, Accounts
<1>8. InOrder'
  <2>1. \A g \in Free(open') : p < g /\ q < g
    <3> TAKE g \in Free(open')
    <3>1. g \in Free(open) /\ g \in Free(open \union {p}) /\ g # p /\ g # q
      BY <1>5 DEF Free
    <3>2. g \in Nat /\ p \in Nat /\ q \in Nat
      BY <3>1, <1>4, StartAssumption DEF Free
    <3> QED
      BY <1>2, <1>3, <3>1, <3>2
  <2> QED
    BY <1>1, <1>4, <1>5, <2>1 DEF InOrder, NothingOpen
<1>9. Visited'
  BY <1>1, <1>5 DEF Visited, NothingOpen
<1> QED
  BY <1>5, <1>6, <1>7, <1>8, <1>9 DEF IInv

LEMMA SetupSocketInv ==
    ASSUME IInv, NEW key \in todo, SetupSocket(key)
    PROVE  IInv'
<1> DEFINE n == Lowest(open)
<1>1. StartTypeOK /\ Accounts /\ InOrder /\ Visited /\ stage = "binding"
  BY DEF IInv, SetupSocket, IsNext
<1>2. n \in Free(open) /\ \A g \in Free(open) : n <= g
  <2>1. open \in SUBSET Fd
    BY <1>1 DEF StartTypeOK
  <2> QED
    BY <2>1, LowestIsFree DEF SetupSocket
<1>3. n \in Fd \ open /\ n \notin DOMAIN listeners /\ n \notin pipe /\ n \notin Inherited
  BY <1>1, <1>2 DEF Free, Accounts
<1>4. /\ open' = open \union {n}
      /\ listeners' = [f \in DOMAIN listeners \union {n} |-> IF f = n THEN key ELSE listeners[f]]
      /\ todo' = todo \ {key}
      /\ UNCHANGED <<stage, error, keys, pipe, signalled>>
  BY DEF SetupSocket
<1> HIDE DEF n
<1>5. /\ DOMAIN listeners' = DOMAIN listeners \union {n}
      /\ listeners'[n] = key
      /\ \A f \in DOMAIN listeners : listeners'[f] = listeners[f]
  BY <1>3, <1>4
<1>6. StartTypeOK'
  <2>1. key \in Key /\ \A f \in DOMAIN listeners : listeners[f] \in Key
    BY <1>1 DEF StartTypeOK
  <2>2. listeners' \in [DOMAIN listeners' -> Key]
    BY <1>4, <1>5, <2>1
  <2> QED
    BY <1>1, <1>3, <1>4, <1>5, <2>2 DEF StartTypeOK
<1>7. Accounts'
  BY <1>1, <1>3, <1>4, <1>5 DEF Accounts
<1>8. InOrder'
  <2>1. \A f \in pipe \union DOMAIN listeners : f < n
    BY <1>1, <1>2 DEF InOrder
  <2>2. ASSUME NEW g \in Free(open') PROVE g \in Free(open) /\ n < g
    <3>1. g \in Free(open) /\ g # n
      BY <1>4 DEF Free
    <3>2. g \in Nat /\ n \in Nat
      BY <1>3, <3>1, StartAssumption DEF Free
    <3> QED
      BY <1>2, <3>1, <3>2
  <2>3. \A p \in pipe', f \in DOMAIN listeners' : p < f
    BY <1>1, <1>4, <1>5, <2>1 DEF InOrder
  <2>4. \A f \in pipe' \union DOMAIN listeners', g \in Free(open') : f < g
    BY <1>1, <1>4, <1>5, <2>2 DEF InOrder
  <2> QED
    BY <1>1, <1>4, <2>3, <2>4 DEF InOrder
<1>9. Visited'
  <2>1. keys' \ todo' = (keys \ todo) \union {key}
    BY <1>1, <1>4 DEF StartTypeOK
  <2>2. \A f \in DOMAIN listeners' : listeners'[f] \in keys' \ todo'
    BY <1>1, <1>5, <2>1 DEF Visited
  <2>3. \A k \in keys' \ todo' : \E f \in DOMAIN listeners' : listeners'[f] = k
    BY <1>1, <1>5, <2>1 DEF Visited
  <2>4. \A f \in DOMAIN listeners : listeners'[f] # key
    BY <1>1, <1>5 DEF Visited
  <2>5. \A f, g \in DOMAIN listeners' : listeners'[f] = listeners'[g] => f = g
    BY <1>1, <1>5, <2>4 DEF Visited
  <2> QED
    BY <2>2, <2>3, <2>5 DEF Visited
<1> QED
  BY <1>1, <1>4, <1>6, <1>7, <1>8, <1>9 DEF IInv

LEMMA EnterLoopInv == IInv /\ EnterLoop => IInv'
<1> SUFFICES ASSUME IInv, EnterLoop PROVE IInv'
  OBVIOUS
<1>1. StartTypeOK' /\ Accounts'
  BY DEF IInv, EnterLoop, StartTypeOK, Stages, Accounts
<1>2. InOrder' /\ Visited'
  BY DEF IInv, EnterLoop, InOrder, Visited, Free
<1> QED
  BY <1>1, <1>2 DEF IInv, EnterLoop

-----------------------------------------------------------------------------
(* The way out: cleanup() closes what is the server's own.                 *)
LEMMA CleanupInv ==
    ASSUME IInv, stage # "killed", stage' \in {"returned", "over"},
           Cleanup, signalled' \in BOOLEAN, UNCHANGED <<error, keys, todo>>
    PROVE  IInv'
<1>1. open' = Inherited
  BY DEF IInv, Accounts, Cleanup
<1>2. NothingOpen' /\ Accounts'
  BY <1>1, Nothing DEF Cleanup, NothingOpen, Accounts
<1>3. StartTypeOK'
  BY <1>1, Nothing, StartAssumption DEF IInv, StartTypeOK, Cleanup, Stages
<1> QED
  BY <1>2, <1>3 DEF IInv

LEMMA LeaveLoopInv == IInv /\ LeaveLoop => IInv'
  BY CleanupInv DEF LeaveLoop

LEMMA DestroyInv == IInv /\ Destroy => IInv'
  BY CleanupInv DEF Destroy

LEMMA SignalKillsInv == IInv /\ SignalKills => IInv'
<1> SUFFICES ASSUME IInv, SignalKills PROVE IInv'
  OBVIOUS
<1>1. StartTypeOK'
  BY DEF IInv, SignalKills, StartTypeOK, Stages
<1> QED
  BY <1>1 DEF IInv, SignalKills

LEMMA UnchangedInv ==
    ASSUME IInv, UNCHANGED <<stage, error, keys, todo, listeners, pipe, open>>,
           signalled' \in BOOLEAN
    PROVE  IInv'
<1>1. StartTypeOK' /\ Accounts' = Accounts /\ NothingOpen' = NothingOpen
  BY DEF IInv, StartTypeOK, Accounts, NothingOpen
<1>2. InOrder' = InOrder /\ Visited' = Visited
  BY DEF InOrder, Visited, Free
<1> QED
  BY <1>1, <1>2 DEF IInv

LEMMA SignalHandlerInv == IInv /\ SignalHandler => IInv'
  BY UnchangedInv DEF SignalHandler

-----------------------------------------------------------------------------
LEMMA StepInv == IInv /\ [AnyConfiguration \/ StartStep]_startVars => IInv'
<1> SUFFICES ASSUME IInv, [AnyConfiguration \/ StartStep]_startVars PROVE IInv'
  OBVIOUS
<1>1. CASE AnyConfiguration
  BY <1>1, AnyConfigurationInv
<1>2. CASE SignalHandlingFails
  BY <1>2, ThrowInv DEF SignalHandlingFails
<1>3. CASE SetupSignalHandling
  BY <1>3, SetupSignalHandlingInv
<1>4. ASSUME NEW key \in todo, SocketFails(key) PROVE IInv'
  BY <1>4, ThrowInv DEF SocketFails, IsNext
<1>5. ASSUME NEW key \in todo, LateFailure(key) PROVE IInv'
  BY <1>5, LateFailureInv
<1>6. ASSUME NEW key \in todo, SetupSocket(key) PROVE IInv'
  BY <1>6, SetupSocketInv
<1>7. CASE EnterLoop
  BY <1>7, EnterLoopInv
<1>8. CASE SignalSeen \/ PollFails
  BY <1>8, LeaveLoopInv DEF SignalSeen, PollFails
<1>9. CASE Destroy
  BY <1>9, DestroyInv
<1>10. CASE SignalKills
  BY <1>10, SignalKillsInv
<1>11. CASE SignalHandler
  BY <1>11, SignalHandlerInv
<1>12. CASE UNCHANGED startVars
  BY <1>12, UnchangedInv DEF startVars, IInv, StartTypeOK
<1> QED
  BY <1>1, <1>2, <1>3, <1>4, <1>5, <1>6, <1>7, <1>8, <1>9, <1>10, <1>11, <1>12
  DEF StartStep, EngineStep

LEMMA Invariant == StartSpec => []IInv
  BY InitInv, StepInv, PTL DEF StartSpec

(* The state of the start has its types.                                   *)
THEOREM StartTypeCorrect == StartSpec => []StartTypeOK
<1>1. IInv => StartTypeOK
  BY DEF IInv
<1> QED
  BY <1>1, Invariant, PTL

(* No descriptor is left open or closed twice, however the start ends:     *)
(* what is open is what was inherited, the pipe and the sockets that       *)
(* cleanup() knows of.                                                     *)
THEOREM DescriptorsAccounted == StartSpec => []Accounted
<1>1. IInv => Accounted
  BY DEF IInv, Accounts, Accounted, NothingOpen
<1> QED
  BY <1>1, Invariant, PTL

(* The event loop begins with one socket for each key, and with the pipe,  *)
(* the sockets and the free numbers in the order that ServerEngine assumes. *)
THEOREM HandedOver == StartSpec => []Handover
<1>1. IInv => Handover
  <2> SUFFICES ASSUME IInv, stage = "looping" PROVE Handover
    BY DEF Handover
  <2>1. InOrder /\ Visited /\ todo = {} /\ StartTypeOK
    BY DEF IInv
  <2>2. {listeners[f] : f \in DOMAIN listeners} = keys
    BY <2>1 DEF Visited
  <2>3. Cardinality(pipe) = 2
    <3>1. PICK p, q \in pipe : p # q /\ pipe = {p, q}
      BY <2>1 DEF InOrder
    <3>2. IsFiniteSet({q}) /\ Cardinality({q}) = 1
      BY FS_Singleton
    <3>3. Cardinality({q} \union {p}) = 1 + 1
      BY <3>1, <3>2, FS_AddElement
    <3>4. pipe = {q} \union {p}
      BY <3>1
    <3> QED
      BY <3>3, <3>4
  <2> QED
    BY <2>1, <2>2, <2>3 DEF Handover, InOrder, Visited
<1> QED
  BY <1>1, Invariant, PTL

-----------------------------------------------------------------------------
(* The addresses of a tree that the validator accepts.                     *)

(* Every server is checked, and in it every listen.                        *)
LEMMA PortExists ==
    ASSUME NEW tree, Validate(tree), NEW i \in DOMAIN tree, NEW j \in ListensAt(tree, i)
    PROVE  Number(PortPart(Argument(tree, i, j))) \in Ports
<1>1. ValidBlock(tree[i].directives, "server")
  BY DEF Validate, ValidateServer
<1>2. /\ j \in DOMAIN tree[i].directives
      /\ Named(tree[i].directives[j], "listen")
  BY DEF ListensAt, At
<1>3. ArgsOk(tree[i].directives[j])
  BY <1>1, <1>2 DEF ValidBlock, DirectiveOk
<1>4. ListenOk(tree[i].directives[j].args[1])
  BY <1>2, <1>3 DEF ArgsOk
<1>5. Number(PortPart(tree[i].directives[j].args[1])) \in Ports
  BY <1>4, Zenon DEF ListenOk
<1> QED
  BY <1>5, Zenon DEF Argument

(* What sscanf() reads is a number of Quads; what it does not is junk.     *)
LEMMA AddressExists ==
    ASSUME NEW tree, NEW junks \in [NotRead(tree) -> Junk],
           NEW i \in DOMAIN tree, NEW j \in ListensAt(tree, i)
    PROVE  ListenKey(tree, i, j, junks).ip \in Addresses
<1> DEFINE word == Argument(tree, i, j)
<1>1. CASE ReadsAddress(word)
  BY <1>1 DEF ListenKey, FromString, Addresses, ReadsAddress
<1>2. CASE ~ReadsAddress(word)
  <2>1. <<i, j>> \in NotRead(tree)
    BY <1>2 DEF NotRead
  <2>2. junks[<<i, j>>] \in Junk
    BY <2>1
  <2> QED
    BY <1>2, <2>1, <2>2 DEF ListenKey, FromString, Addresses
<1> QED
  BY <1>1, <1>2

LEMMA KeysAreAddresses ==
    ASSUME NEW tree, Validate(tree), NEW junks \in [NotRead(tree) -> Junk]
    PROVE  DOMAIN Resolve(tree, junks) \subseteq Key
<1>1. ASSUME NEW i \in DOMAIN tree, NEW j \in ListensAt(tree, i)
      PROVE  ListenKey(tree, i, j, junks) \in Key
  <2> DEFINE key  == ListenKey(tree, i, j, junks)
             port == Number(PortPart(Argument(tree, i, j)))
  <2>1. key = [ip |-> key.ip, port |-> port]
    BY DEF ListenKey, FromString
  <2>2. key.ip \in Addresses /\ port \in Ports
    BY PortExists, AddressExists, Zenon
  <2> HIDE DEF key, port
  <2>3. key \in [ip : Addresses, port : Ports]
    BY <2>1, <2>2
  <2> QED
    BY <2>3, KeyAssumption, Zenon DEF key
<1> QED
  BY <1>1 DEF Resolve, Keys

-----------------------------------------------------------------------------
(* The invariant: what was loaded was validated, and the engine has the    *)
(* keys of the configuration.                                              *)
Loaded ==
    /\ stage = "loaded" => Validate(ast)
    /\ keys = DOMAIN runtime

LEMMA InitLoaded == Init => Loaded
  BY DEF Init, StartInit, Loaded

(* Every step of the program is one of the start with any configuration.   *)
LEMMA StepImplements ==
    ASSUME Loaded, [Next]_vars
    PROVE  [AnyConfiguration \/ StartStep]_startVars
<1>1. CASE UsageError
  BY <1>1 DEF UsageError, NotLoaded, AnyConfiguration, Errors
<1>2. CASE FileError
  BY <1>2 DEF FileError, NotLoaded, AnyConfiguration, Errors
<1>3. CASE Load
  <2>1. PICK parse \in {Parsed} :
            IF ~Accepts(parse) THEN NotLoaded("syntax")
            ELSE IF Validate(ast')
                 THEN stage' = "loaded"
                      /\ UNCHANGED <<error, keys, todo, listeners, pipe, open, signalled>>
                 ELSE Refused("validation")
    BY <1>3 DEF Load
  <2> QED
    BY <1>3, <2>1 DEF Load, NotLoaded, AnyConfiguration, Errors
<1>4. CASE ResolveConfig
  <2>1. PICK junks \in [NotRead(ast) -> Junk] :
            IF DuplicateListen(ast, junks) THEN Refused("validation")
            ELSE runtime' = Resolve(ast, junks) /\ Configured(DOMAIN runtime')
    BY <1>4 DEF ResolveConfig
  <2>2. CASE DuplicateListen(ast, junks)
    BY <1>4, <2>1, <2>2 DEF ResolveConfig, AnyConfiguration, Errors
  <2>3. CASE ~DuplicateListen(ast, junks)
    <3>1. stage = "loaded" /\ Validate(ast)
      BY <1>4 DEF ResolveConfig, Loaded
    <3>2. keys' = DOMAIN runtime' /\ Configured(keys')
      BY <2>1, <2>3 DEF Configured
    <3>3. keys' \subseteq Key
      BY <2>1, <2>3, <3>1, <3>2, KeysAreAddresses
    <3> QED
      BY <3>1, <3>2, <3>3 DEF AnyConfiguration
  <2> QED
    BY <2>2, <2>3
<1>5. CASE EngineRuns
  BY <1>5 DEF EngineRuns, StartStep
<1>6. CASE Outside
  BY <1>6 DEF Outside, StartStep
<1>7. CASE UNCHANGED vars
  BY <1>7 DEF vars
<1> QED
  BY <1>1, <1>2, <1>3, <1>4, <1>5, <1>6, <1>7 DEF Next

(* Only the last step of the configuration gives the engine its keys.      *)
LEMMA EngineKeepsKeys ==
    ASSUME EngineStep \/ PollFails \/ SignalKills \/ SignalHandler
    PROVE  /\ keys' = keys
           /\ stage' \in {"loaded", "setup"} => stage' = stage
<1>1. CASE SignalHandlingFails \/ SetupSignalHandling
  BY <1>1 DEF SignalHandlingFails, SetupSignalHandling, Throw
<1>2. ASSUME NEW key \in todo, SocketFails(key) \/ LateFailure(key) \/ SetupSocket(key)
      PROVE  /\ keys' = keys
             /\ stage' \in {"loaded", "setup"} => stage' = stage
  BY <1>2 DEF SocketFails, LateFailure, SetupSocket, Throw
<1>3. CASE EnterLoop \/ SignalSeen \/ PollFails \/ Destroy
  BY <1>3 DEF EnterLoop, SignalSeen, PollFails, LeaveLoop, Destroy
<1>4. CASE SignalKills \/ SignalHandler
  BY <1>4 DEF SignalKills, SignalHandler
<1> QED
  BY <1>1, <1>2, <1>3, <1>4 DEF EngineStep

LEMMA StepLoaded ==
    ASSUME Loaded, [Next]_vars
    PROVE  Loaded'
<1>1. CASE UsageError \/ FileError
  BY <1>1 DEF UsageError, FileError, NotLoaded, Refused, Loaded
<1>2. CASE Load
  BY <1>2 DEF Load, NotLoaded, Refused, Loaded
<1>3. CASE ResolveConfig
  BY <1>3 DEF ResolveConfig, Refused, Configured, Loaded
<1>4. CASE EngineRuns \/ Outside
  BY <1>4, EngineKeepsKeys DEF EngineRuns, Outside, Loaded
<1>5. CASE UNCHANGED vars
  BY <1>5 DEF vars, startVars, Loaded
<1> QED
  BY <1>1, <1>2, <1>3, <1>4, <1>5 DEF Next

LEMMA AlwaysLoaded == Spec => []Loaded
  BY InitLoaded, StepLoaded, PTL DEF Spec

-----------------------------------------------------------------------------
(* The program, with whatever file, is a start with some set of addresses: *)
(* what the validator lets through is what the engine can be made with.    *)
THEOREM StartImplemented == Spec => ImplementsStart
<1>1. Init => StartInit
  BY DEF Init
<1> QED
  BY <1>1, StepImplements, AlwaysLoaded, PTL DEF Spec, ImplementsStart, StartSpec

(* Every address on which the program listens has a port that exists, and  *)
(* the engine has exactly those of the configuration.                      *)
THEOREM StartupTypeCorrect == Spec => []TypeOK
<1>1. Spec => []StartTypeOK
  BY StartImplemented, StartTypeCorrect, PTL DEF ImplementsStart
<1>2. StartTypeOK /\ Loaded => TypeOK
  BY DEF Loaded, TypeOK
<1> QED
  BY <1>1, <1>2, AlwaysLoaded, PTL

(* Whatever a file says, no descriptor is left open or closed twice, and   *)
(* the event loop begins with one socket for each address in the file.     *)
THEOREM ConfiguredStartSafe == Spec => [](Accounted /\ Handover)
  BY StartImplemented, DescriptorsAccounted, HandedOver, PTL DEF ImplementsStart

-----------------------------------------------------------------------------
(* The tokenizer.  A token starts behind what skipWhitespace skips, and    *)
(* ends behind its start.                                                  *)
NextToken(text, i) ==
    LET start == SkipWhitespace(text, i)
    IN  IF text[start] \in Delimiters THEN start + 1 ELSE WordEnd(text, start)

LEMMA SkipIs ==
    ASSUME NEW Y, NEW text \in Seq(Y), NEW i \in 1..Len(text) + 1
    PROVE  /\ SkipWhitespace(text, i) \in i..Len(text) + 1
           /\ SkipWhitespace(text, i) <= Len(text) =>
                 /\ text[SkipWhitespace(text, i)] \notin Blanks
                 /\ text[SkipWhitespace(text, i)] # Hash
<1> DEFINE S == {j \in i..Len(text) : text[j] \notin Blanks /\ ~InRemark(text, i, j)}
           start == Min(S \union {Len(text) + 1})
<1>1. S \union {Len(text) + 1} \in SUBSET Nat /\ S \union {Len(text) + 1} # {}
  OBVIOUS
<1>2. start \in S \union {Len(text) + 1} /\ \A y \in S \union {Len(text) + 1} : start <= y
  <2> HIDE DEF S
  <2> QED
    BY <1>1, SmallestNumber
<1> HIDE DEF start
<1>3. start \in i..Len(text) + 1
  BY <1>2
<1>4. ASSUME start <= Len(text) PROVE text[start] \notin Blanks /\ text[start] # Hash
  <2>1. start \in S
    BY <1>2, <1>3, <1>4
  <2>2. text[start] \notin Blanks /\ ~InRemark(text, i, start)
    BY <2>1
  <2>3. ASSUME text[start] = Hash PROVE InRemark(text, i, start)
    <3>1. start \in i..start
      BY <1>3
    <3>2. SubSeq(text, start, start) = <<text[start]>>
      BY <1>3, <1>4, SubSeqOne
    <3>3. ToSet(<<text[start]>>) = {text[start]}
      BY DEF ToSet
    <3>4. NewLine # Hash
      BY DEF NewLine, Hash
    <3> QED
      BY <2>3, <3>1, <3>2, <3>3, <3>4 DEF InRemark
  <2> QED
    BY <2>2, <2>3
<1>5. SkipWhitespace(text, i) = start
  BY DEF SkipWhitespace, start
<1> QED
  BY <1>3, <1>4, <1>5

LEMMA WordEndIs ==
    ASSUME NEW text, Len(text) \in Nat, NEW i \in 1..Len(text)
    PROVE  /\ WordEnd(text, i) \in i..Len(text) + 1
           /\ \A j \in i..WordEnd(text, i) - 1 :
                 text[j] \notin Blanks \union Delimiters \union {Hash}
           /\ text[i] \notin Blanks \union Delimiters \union {Hash} => WordEnd(text, i) > i
<1> DEFINE S == {j \in i..Len(text) : text[j] \in Blanks \union Delimiters \union {Hash}}
           end == Min(S \union {Len(text) + 1})
<1>1. S \union {Len(text) + 1} \in SUBSET Nat /\ S \union {Len(text) + 1} # {}
  OBVIOUS
<1>2. end \in S \union {Len(text) + 1} /\ \A y \in S \union {Len(text) + 1} : end <= y
  <2> HIDE DEF S
  <2> QED
    BY <1>1, SmallestNumber
<1> HIDE DEF end
<1>3. end \in i..Len(text) + 1
  BY <1>2
<1>4. \A j \in i..end - 1 : j \in i..Len(text) /\ ~(end <= j)
  BY <1>3
<1>5. \A j \in i..end - 1 : text[j] \notin Blanks \union Delimiters \union {Hash}
  BY <1>2, <1>4
<1>6. ASSUME text[i] \notin Blanks \union Delimiters \union {Hash} PROVE end > i
  <2>1. end # i
    BY <1>2, <1>6
  <2> QED
    BY <1>3, <2>1
<1>7. WordEnd(text, i) = end
  BY DEF WordEnd, end
<1> QED
  BY <1>3, <1>5, <1>6, <1>7

LEMMA NextTokenIs ==
    ASSUME NEW Y, NEW text \in Seq(Y), NEW i \in 1..Len(text) + 1,
           SkipWhitespace(text, i) <= Len(text)
    PROVE  /\ SkipWhitespace(text, i) \in i..Len(text)
           /\ NextToken(text, i) \in SkipWhitespace(text, i) + 1..Len(text) + 1
<1> DEFINE start == SkipWhitespace(text, i)
<1>1. start \in i..Len(text) + 1 /\ text[start] \notin Blanks /\ text[start] # Hash
  BY SkipIs
<1>2. NextToken(text, i) = IF text[start] \in Delimiters THEN start + 1 ELSE WordEnd(text, start)
  BY DEF NextToken
<1> HIDE DEF start
<1>3. start \in 1..Len(text) /\ start \in i..Len(text)
  BY <1>1 DEF start
<1>4. CASE text[start] \in Delimiters
  BY <1>2, <1>3, <1>4 DEF start
<1>5. CASE text[start] \notin Delimiters
  <2>1. WordEnd(text, start) \in start..Len(text) + 1 /\ WordEnd(text, start) > start
    BY <1>1, <1>3, <1>5, WordEndIs
  <2> QED
    BY <1>2, <1>3, <1>5, <2>1 DEF start
<1> QED
  BY <1>4, <1>5

(* The tokens from a place on.                                             *)
TokensFrom(text, f, i) ==
    LET start == SkipWhitespace(text, i)
    IN  IF start > Len(text) THEN <<>>
        ELSE <<SubSeq(text, start, NextToken(text, i) - 1)>> \o f[NextToken(text, i)]

LEMMA TokenIs ==
    ASSUME NEW Y, NEW text \in Seq(Y), NEW i \in 1..Len(text) + 1,
           SkipWhitespace(text, i) <= Len(text)
    PROVE  SubSeq(text, SkipWhitespace(text, i), NextToken(text, i) - 1) \in Words(Y)
<1> DEFINE a == SkipWhitespace(text, i)
           b == NextToken(text, i) - 1
<1>1. a \in 1..Len(text) /\ b \in a..Len(text)
  <2>1. a \in i..Len(text) /\ NextToken(text, i) \in a + 1..Len(text) + 1
    BY NextTokenIs
  <2> QED
    BY <2>1
<1> HIDE DEF a, b
<1>2. a \in Int /\ b \in Int /\ \A j \in a..b : text[j] \in Y
  BY <1>1, ElementOfSeq
<1>3. SubSeq(text, a, b) \in Seq(Y) /\ Len(SubSeq(text, a, b)) = IF a <= b THEN b - a + 1 ELSE 0
  BY <1>2, SubSeqProperties
<1>4. Len(SubSeq(text, a, b)) # 0
  BY <1>1, <1>3
<1>5. SubSeq(text, a, b) # <<>>
  BY <1>3, <1>4, EmptySeq
<1> QED
  BY <1>3, <1>5, Zenon DEF a, b, Words

LEMMA TokensFromIn ==
    ASSUME NEW Y, NEW text \in Seq(Y), NEW i \in 1..Len(text) + 1, NEW f,
           \A j \in i + 1..Len(text) + 1 : f[j] \in Seq(Words(Y))
    PROVE  TokensFrom(text, f, i) \in Seq(Words(Y))
<1>1. CASE SkipWhitespace(text, i) > Len(text)
  BY <1>1 DEF TokensFrom
<1>2. CASE ~(SkipWhitespace(text, i) > Len(text))
  <2>1. SkipWhitespace(text, i) <= Len(text)
    BY <1>2, SkipIs
  <2> DEFINE word == SubSeq(text, SkipWhitespace(text, i), NextToken(text, i) - 1)
             next == NextToken(text, i)
  <2>2. TokensFrom(text, f, i) = <<word>> \o f[next]
    BY <1>2, Zenon DEF TokensFrom
  <2>3. word \in Words(Y)
    BY <2>1, TokenIs
  <2>4. next \in i + 1..Len(text) + 1
    <3>1. SkipWhitespace(text, i) \in i..Len(text)
          /\ next \in SkipWhitespace(text, i) + 1..Len(text) + 1
      BY <2>1, NextTokenIs
    <3> HIDE DEF next
    <3> QED
      BY <3>1
  <2> HIDE DEF word, next
  <2>5. <<word>> \in Seq(Words(Y)) /\ f[next] \in Seq(Words(Y))
    BY <2>3, <2>4
  <2> QED
    BY <2>2, <2>5, ConcatProperties
<1> QED
  BY <1>1, <1>2

(* The tokens from a place on depend on what comes behind it.               *)
LEMMA TokensFromLater ==
    ASSUME NEW Y, NEW text \in Seq(Y), NEW i \in 1..Len(text) + 1, NEW f, NEW g,
           \A j \in i + 1..Len(text) + 1 : f[j] = g[j]
    PROVE  TokensFrom(text, f, i) = TokensFrom(text, g, i)
<1>1. CASE SkipWhitespace(text, i) > Len(text)
  BY <1>1 DEF TokensFrom
<1>2. CASE ~(SkipWhitespace(text, i) > Len(text))
  <2>1. SkipWhitespace(text, i) <= Len(text)
    BY <1>2, SkipIs
  <2> DEFINE next == NextToken(text, i)
  <2>2. SkipWhitespace(text, i) \in i..Len(text)
        /\ next \in SkipWhitespace(text, i) + 1..Len(text) + 1
    BY <2>1, NextTokenIs
  <2> HIDE DEF next
  <2>3. f[next] = g[next]
    BY <2>2
  <2> QED
    BY <2>3, Zenon DEF TokensFrom, next
<1> QED
  BY <1>1, <1>2

(* Tokens is the first value of a recursion from the end.                   *)
LEMMA TokensExist ==
    ASSUME NEW Y, NEW text \in Seq(Y)
    PROVE  \E f : f = [i \in 1..Len(text) + 1 |-> TokensFrom(text, f, i)]
<1> DEFINE N == Len(text)
           T(f, i) == TokensFrom(text, f, i)
           S == {k \in 0..N + 1 : \E f : \A i \in N + 2 - k..N + 1 : f[i] = T(f, i)}
<1>1. N \in Nat
  OBVIOUS
<1>2. 0 \in S
  BY <1>1
<1>3. ASSUME NEW k \in 1..N + 1, k - 1 \in S PROVE k \in S
  <2> DEFINE m == N + 2 - k
  <2>1. PICK f : \A i \in m + 1..N + 1 : f[i] = T(f, i)
    <3>1. N + 2 - (k - 1) = m + 1
      BY <1>1
    <3> HIDE DEF T, m
    <3> QED
      BY <1>3, <3>1
  <2>2. m \in 1..N + 1 /\ \A i \in m..N + 1 :
           /\ i \in 1..N + 1 /\ (i = m \/ i \in m + 1..N + 1)
           /\ \A j \in i + 1..N + 1 : j # m /\ j \in m..N + 1
    BY <1>1
  <2> DEFINE g == [i \in m..N + 1 |-> IF i = m THEN T(f, m) ELSE f[i]]
  <2>3. ASSUME NEW i \in m..N + 1 PROVE T(f, i) = T(g, i)
    <3>1. i \in 1..N + 1 /\ \A j \in i + 1..N + 1 : f[j] = g[j]
      <4> HIDE DEF T, m
      <4> QED
        BY <2>2
    <3> HIDE DEF g, m
    <3> QED
      BY <3>1, TokensFromLater
  <2>4. ASSUME NEW i \in m..N + 1 PROVE g[i] = T(g, i)
    <3> HIDE DEF T
    <3>1. CASE i = m
      BY <2>3, <3>1
    <3>2. CASE i # m
      BY <2>1, <2>2, <2>3, <3>2
    <3> QED
      BY <3>1, <3>2
  <2> HIDE DEF g, T
  <2>5. k \in 0..N + 1
    BY <1>1
  <2> QED
    BY <2>4, <2>5
<1> HIDE DEF S
<1>4. 0..N + 1 \subseteq S
  <2>1. N + 1 \in Nat
    BY <1>1
  <2> QED
    BY <1>2, <1>3, <2>1, Counting
<1>5. N + 1 \in S
  BY <1>1, <1>4
<1>6. PICK f : \A i \in N + 2 - (N + 1)..N + 1 : f[i] = T(f, i)
  <2> HIDE DEF T
  <2> QED
    BY <1>5 DEF S
<1>7. N + 2 - (N + 1) = 1
  BY <1>1
<1> DEFINE g == [i \in 1..N + 1 |-> T(f, i)]
<1>8. ASSUME NEW i \in 1..N + 1 PROVE T(f, i) = T(g, i)
  <2>1. \A j \in i + 1..N + 1 : j \in 1..N + 1
    BY <1>1
  <2>2. \A j \in i + 1..N + 1 : f[j] = g[j]
    <3> HIDE DEF T
    <3> QED
      BY <1>6, <1>7, <2>1
  <2> HIDE DEF g
  <2> QED
    BY <2>2, TokensFromLater
<1>9. g = [i \in 1..N + 1 |-> T(g, i)]
  <2> HIDE DEF T
  <2> QED
    BY <1>8
<1> QED
  BY <1>9

LEMMA TokensAre ==
    ASSUME NEW Y, NEW text \in Seq(Y)
    PROVE  \E f \in [1..Len(text) + 1 -> Seq(Words(Y))] :
              /\ Tokens(text) = f[1]
              /\ \A i \in 1..Len(text) + 1 : f[i] = TokensFrom(text, f, i)
<1> DEFINE N == Len(text)
           D == 1..Len(text) + 1
           from == CHOOSE f : f = [i \in D |-> TokensFrom(text, f, i)]
           S == {k \in 0..N + 1 : \A i \in N + 2 - k..N + 1 : from[i] \in Seq(Words(Y))}
<1>1. from = [i \in D |-> TokensFrom(text, from, i)]
  BY TokensExist
<1>2. Tokens(text) = from[1]
  BY Zenon DEF Tokens, TokensFrom, NextToken
<1> HIDE DEF from
<1>3. N \in Nat /\ 0 \in S
  OBVIOUS
<1>4. ASSUME NEW k \in 1..N + 1, k - 1 \in S PROVE k \in S
  <2> DEFINE m == N + 2 - k
  <2>1. m \in 1..N + 1 /\ N + 2 - (k - 1) = m + 1 /\ k \in 0..N + 1
        /\ \A i \in m..N + 1 : i = m \/ i \in m + 1..N + 1
    BY <1>3
  <2>2. \A i \in m + 1..N + 1 : from[i] \in Seq(Words(Y))
    <3> HIDE DEF m
    <3> QED
      BY <1>4, <2>1
  <2> HIDE DEF m
  <2>3. from[m] \in Seq(Words(Y))
    <3>1. TokensFrom(text, from, m) \in Seq(Words(Y))
      BY <2>1, <2>2, TokensFromIn
    <3> QED
      BY <1>1, <2>1, <3>1
  <2>4. \A i \in m..N + 1 : from[i] \in Seq(Words(Y))
    BY <2>1, <2>2, <2>3
  <2> QED
    BY <2>1, <2>4 DEF m
<1> HIDE DEF S
<1>5. 0..N + 1 \subseteq S
  <2>1. N + 1 \in Nat
    BY <1>3
  <2> QED
    BY <1>3, <1>4, <2>1, Counting
<1>6. \A i \in D : from[i] \in Seq(Words(Y))
  <2>1. N + 1 \in S /\ N + 2 - (N + 1) = 1
    BY <1>3, <1>5
  <2> QED
    BY <2>1 DEF S
<1>7. from \in [D -> Seq(Words(Y))] /\ \A i \in D : from[i] = TokensFrom(text, from, i)
  <2>1. \A i \in D : from[i] = TokensFrom(text, from, i)
    BY <1>1, Zenon
  <2> HIDE DEF D
  <2>2. from \in [D -> Seq(Words(Y))]
    BY <1>1, <1>6
  <2> QED
    BY <2>1, <2>2
<1> QED
  BY <1>2, <1>7

LEMMA TokensTyped ==
    ASSUME NEW Y, NEW text \in Seq(Y)
    PROVE  Tokens(text) \in Seq(Words(Y))
<1>1. 1 \in 1..Len(text) + 1
  OBVIOUS
<1>2. PICK f \in [1..Len(text) + 1 -> Seq(Words(Y))] : Tokens(text) = f[1]
  BY TokensAre, Zenon
<1> QED
  BY <1>1, <1>2, Zenon

-----------------------------------------------------------------------------
(* The trees that a parser can make of words over Y.                       *)
Parses(Y) ==
    {p \in [level : {"config", "server", "location", "error"}, words : Seq(Words(Y)), ast : Trees(Y)] :
        /\ p.level \in {"server", "location"} => p.ast # <<>>
        /\ p.level = "location" => p.ast[Len(p.ast)].locations # <<>>}

LEMMA ParseParts ==
    ASSUME NEW Y, NEW p
    PROVE  p \in Parses(Y) <=>
              /\ p \in [level : {"config", "server", "location", "error"}, words : Seq(Words(Y)), ast : Trees(Y)]
              /\ p.level \in {"server", "location"} => p.ast # <<>>
              /\ p.level = "location" => p.ast[Len(p.ast)].locations # <<>>
BY Zenon DEF Parses

LEMMA FailIn ==
    ASSUME NEW Y, NEW p \in Parses(Y)
    PROVE  Fail(p) \in Parses(Y)
<1>1. p \in [level : {"config", "server", "location", "error"}, words : Seq(Words(Y)), ast : Trees(Y)]
  BY ParseParts
<1>2. Fail(p) \in [level : {"config", "server", "location", "error"}, words : Seq(Words(Y)), ast : Trees(Y)]
      /\ Fail(p).level = "error"
  BY <1>1 DEF Fail
<1> QED
  BY <1>2, ParseParts

LEMMA WordIn ==
    ASSUME NEW Y, NEW p \in Parses(Y), NEW t \in Words(Y)
    PROVE  Word(p, t) \in Parses(Y)
<1>1. /\ p \in [level : {"config", "server", "location", "error"}, words : Seq(Words(Y)), ast : Trees(Y)]
      /\ p.level \in {"server", "location"} => p.ast # <<>>
      /\ p.level = "location" => p.ast[Len(p.ast)].locations # <<>>
  BY ParseParts
<1>2. Append(p.words, t) \in Seq(Words(Y))
  <2>1. p.words \in Seq(Words(Y))
    BY <1>1
  <2> QED
    BY <2>1, AppendProperties
<1>3. /\ Word(p, t) \in [level : {"config", "server", "location", "error"}, words : Seq(Words(Y)), ast : Trees(Y)]
      /\ Word(p, t).level = p.level /\ Word(p, t).ast = p.ast
  <2> HIDE DEF Words, Trees
  <2> QED
    BY <1>1, <1>2 DEF Word
<1> QED
  BY <1>1, <1>3, ParseParts

LEMMA EnterIn ==
    ASSUME NEW Y, NEW level \in {"config", "server", "location"}, NEW tree \in Trees(Y),
           level \in {"server", "location"} => tree # <<>>,
           level = "location" => tree[Len(tree)].locations # <<>>
    PROVE  Enter(level, tree) \in Parses(Y)
<1> DEFINE p == Enter(level, tree)
<1>1. /\ p \in [level : {"config", "server", "location", "error"}, words : Seq(Words(Y)), ast : Trees(Y)]
      /\ p.level = level /\ p.ast = tree
  BY EmptySeq DEF Enter
<1> HIDE DEF p
<1>2. p \in Parses(Y)
  BY <1>1, ParseParts
<1> QED
  BY <1>2 DEF p

LEMMA DirectiveIn ==
    ASSUME NEW Y, NEW words \in Seq(Words(Y)), words # <<>>
    PROVE  Directive(words) \in DirectivesOver(Y)
<1>1. Head(words) \in Words(Y) /\ Tail(words) \in Seq(Words(Y))
  BY HeadTailProperties
<1> QED
  BY <1>1 DEF Directive, DirectivesOver

LEMMA EmptyBlocks ==
    ASSUME NEW Y
    PROVE  /\ [directives |-> <<>>, locations |-> <<>>] \in ServersOver(Y)
           /\ \A w \in Words(Y) : [path |-> w, directives |-> <<>>] \in LocationsOver(Y)
<1>1. <<>> \in Seq(DirectivesOver(Y)) /\ <<>> \in Seq(LocationsOver(Y))
  BY EmptySeq
<1> QED
  BY <1>1 DEF ServersOver, LocationsOver

(* The changes to the tree.                                                *)
LEMMA TreeGrows ==
    ASSUME NEW Y, NEW tree \in Trees(Y), NEW s \in ServersOver(Y)
    PROVE  Append(tree, s) \in Trees(Y) /\ Append(tree, s) # <<>>
BY AppendProperties DEF Trees

LEMMA TreeChanges ==
    ASSUME NEW Y, NEW tree \in Trees(Y), tree # <<>>, NEW s \in ServersOver(Y)
    PROVE  /\ tree[Len(tree)] \in ServersOver(Y)
           /\ [tree EXCEPT ![Len(tree)] = s] \in Trees(Y)
           /\ [tree EXCEPT ![Len(tree)] = s] # <<>>
           /\ Len([tree EXCEPT ![Len(tree)] = s]) = Len(tree)
           /\ [tree EXCEPT ![Len(tree)] = s][Len(tree)] = s
<1>1. tree \in Seq(ServersOver(Y))
  BY DEF Trees
<1>2. Len(tree) \in Nat \ {0}
  BY <1>1, EmptySeq
<1> DEFINE n == Len(tree)
           new == [tree EXCEPT ![n] = s]
<1>3. n \in 1..n
  BY <1>2
<1>4. /\ new \in Seq(ServersOver(Y)) /\ Len(new) = Len(tree)
      /\ \A j \in 1..n : new[j] = IF j = n THEN s ELSE tree[j]
  BY <1>1, <1>3, ExceptSeq
<1> HIDE DEF new
<1>5. new # <<>> /\ new[n] = s
  BY <1>2, <1>3, <1>4, EmptySeq
<1>6. tree[n] \in ServersOver(Y)
  BY <1>1, <1>3, ElementOfSeq
<1> QED
  BY <1>4, <1>5, <1>6 DEF new, Trees

ServerDirective(s, d) == [s EXCEPT !.directives = Append(@, d)]
ServerLocation(s, l)  == [s EXCEPT !.locations = Append(@, l)]
LocationDirective(s, d) ==
    [s EXCEPT !.locations[Len(s.locations)].directives = Append(@, d)]

LEMMA ServerDirectiveIn ==
    ASSUME NEW Y, NEW s \in ServersOver(Y), NEW d \in DirectivesOver(Y)
    PROVE  ServerDirective(s, d) \in ServersOver(Y)
<1>1. s.directives \in Seq(DirectivesOver(Y)) /\ s.locations \in Seq(LocationsOver(Y))
  BY DEF ServersOver
<1>2. Append(s.directives, d) \in Seq(DirectivesOver(Y))
  BY <1>1, AppendProperties
<1> QED
  BY <1>1, <1>2 DEF ServersOver, ServerDirective

LEMMA ServerLocationIn ==
    ASSUME NEW Y, NEW s \in ServersOver(Y), NEW l \in LocationsOver(Y)
    PROVE  /\ ServerLocation(s, l) \in ServersOver(Y)
           /\ ServerLocation(s, l).locations # <<>>
<1>1. s.directives \in Seq(DirectivesOver(Y)) /\ s.locations \in Seq(LocationsOver(Y))
  BY DEF ServersOver
<1>2. Append(s.locations, l) \in Seq(LocationsOver(Y)) /\ Append(s.locations, l) # <<>>
  BY <1>1, AppendProperties
<1>3. ServerLocation(s, l).locations = Append(s.locations, l)
  BY DEF ServersOver, ServerLocation
<1> QED
  BY <1>1, <1>2, <1>3 DEF ServersOver, ServerLocation

LEMMA LocationDirectiveIn ==
    ASSUME NEW Y, NEW s \in ServersOver(Y), s.locations # <<>>, NEW d \in DirectivesOver(Y)
    PROVE  /\ LocationDirective(s, d) \in ServersOver(Y)
           /\ LocationDirective(s, d).locations # <<>>
<1> DEFINE ls == s.locations
           n  == Len(ls)
           l  == [ls[n] EXCEPT !.directives = Append(@, d)]
           new == [ls EXCEPT ![n] = l]
<1>1. s.directives \in Seq(DirectivesOver(Y)) /\ ls \in Seq(LocationsOver(Y)) /\ ls # <<>>
  BY DEF ServersOver
<1>2. n \in 1..n
  BY <1>1, EmptySeq
<1>3. ls[n] \in LocationsOver(Y)
  BY <1>1, <1>2, ElementOfSeq
<1>4. l \in LocationsOver(Y)
  <2>1. ls[n].directives \in Seq(DirectivesOver(Y)) /\ ls[n].path \in Words(Y)
    BY <1>3 DEF LocationsOver
  <2>2. Append(ls[n].directives, d) \in Seq(DirectivesOver(Y))
    BY <2>1, AppendProperties
  <2> QED
    BY <1>3, <2>1, <2>2 DEF LocationsOver
<1>5. new \in Seq(LocationsOver(Y)) /\ Len(new) = n
  BY <1>1, <1>2, <1>4, ExceptSeq
<1>6. new # <<>>
  BY <1>2, <1>5, EmptySeq
<1>7. LocationDirective(s, d) = [s EXCEPT !.locations = new]
  BY DEF ServersOver, LocationDirective
<1> HIDE DEF new, l, n, ls
<1>8. [s EXCEPT !.locations = new] \in ServersOver(Y)
      /\ [s EXCEPT !.locations = new].locations = new
  BY <1>1, <1>5 DEF ServersOver
<1> QED
  BY <1>6, <1>7, <1>8

LEMMA InConfigIn ==
    ASSUME NEW Y, NEW p \in Parses(Y), NEW t \in Words(Y), p.level = "config"
    PROVE  InConfig(p, t) \in Parses(Y)
<1> DEFINE s == [directives |-> <<>>, locations |-> <<>>]
<1>1. p.ast \in Trees(Y)
  BY ParseParts
<1>2. Word(p, t) \in Parses(Y) /\ Fail(p) \in Parses(Y)
  BY WordIn, FailIn
<1>3. Append(p.ast, s) \in Trees(Y) /\ Append(p.ast, s) # <<>>
  BY <1>1, EmptyBlocks, TreeGrows
<1>4. Enter("server", Append(p.ast, s)) \in Parses(Y)
  BY <1>3, EnterIn
<1> QED
  BY <1>2, <1>4, Zenon DEF InConfig

LEMMA InServerIn ==
    ASSUME NEW Y, NEW p \in Parses(Y), NEW t \in Words(Y), p.level = "server"
    PROVE  InServer(p, t) \in Parses(Y)
<1> DEFINE n == Len(p.ast)
           locates == p.words # <<>> /\ Head(p.words) = LocationWord
           s == p.ast[n]
           l == [path |-> p.words[2], directives |-> <<>>]
<1>1. p.ast \in Trees(Y) /\ p.words \in Seq(Words(Y)) /\ p.ast # <<>>
  BY ParseParts
<1>2. Word(p, t) \in Parses(Y) /\ Fail(p) \in Parses(Y)
  BY WordIn, FailIn
<1>3. s \in ServersOver(Y)
  BY <1>1, EmptyBlocks, TreeChanges
<1>4. ASSUME Len(p.words) = 2
      PROVE  Enter("location", [p.ast EXCEPT ![n].locations = Append(@, l)]) \in Parses(Y)
  <2>1. p.words[2] \in Words(Y)
    BY <1>1, <1>4, ElementOfSeq
  <2>2. l \in LocationsOver(Y)
    BY <2>1, EmptyBlocks
  <2> DEFINE new == ServerLocation(s, l)
             tree == [p.ast EXCEPT ![n] = new]
  <2>3. new \in ServersOver(Y) /\ new.locations # <<>>
    BY <1>3, <2>2, ServerLocationIn
  <2>4. [p.ast EXCEPT ![n].locations = Append(@, l)] = tree
    BY DEF ServerLocation
  <2> HIDE DEF new
  <2>5. tree \in Trees(Y) /\ tree # <<>> /\ Len(tree) = n /\ tree[n] = new
    BY <1>1, <2>3, TreeChanges
  <2> HIDE DEF tree
  <2>6. Enter("location", tree) \in Parses(Y)
    BY <2>3, <2>5, EnterIn
  <2> QED
    BY <2>4, <2>6
<1>5. ASSUME p.words # <<>>
      PROVE  Enter("server", [p.ast EXCEPT ![n].directives = Append(@, Directive(p.words))]) \in Parses(Y)
  <2> DEFINE d == Directive(p.words)
             new == ServerDirective(s, d)
             tree == [p.ast EXCEPT ![n] = new]
  <2>1. d \in DirectivesOver(Y)
    BY <1>1, <1>5, DirectiveIn
  <2> HIDE DEF d
  <2>3. new \in ServersOver(Y)
    BY <1>3, <2>1, ServerDirectiveIn
  <2>4. [p.ast EXCEPT ![n].directives = Append(@, d)] = tree
    BY DEF ServerDirective
  <2> HIDE DEF new
  <2>5. tree \in Trees(Y) /\ tree # <<>>
    BY <1>1, <2>3, TreeChanges
  <2> HIDE DEF tree
  <2>6. Enter("server", tree) \in Parses(Y)
    BY <2>5, EnterIn
  <2> QED
    BY <2>4, <2>6 DEF d
<1>6. Close(p, "config") \in Parses(Y)
  BY <1>1, EnterIn DEF Close
<1> QED
  BY <1>2, <1>4, <1>5, <1>6, Zenon DEF InServer

LEMMA InLocationIn ==
    ASSUME NEW Y, NEW p \in Parses(Y), NEW t \in Words(Y), p.level = "location"
    PROVE  InLocation(p, t) \in Parses(Y)
<1> DEFINE n == Len(p.ast)
           s == p.ast[n]
           l == Len(p.ast[n].locations)
<1>1. p.ast \in Trees(Y) /\ p.words \in Seq(Words(Y)) /\ p.ast # <<>> /\ s.locations # <<>>
  BY ParseParts
<1>2. Word(p, t) \in Parses(Y) /\ Fail(p) \in Parses(Y)
  BY WordIn, FailIn
<1>3. s \in ServersOver(Y)
  BY <1>1, EmptyBlocks, TreeChanges
<1>4. ASSUME p.words # <<>>
      PROVE  Enter("location", [p.ast EXCEPT ![n].locations[l].directives = Append(@, Directive(p.words))])
                \in Parses(Y)
  <2> DEFINE d == Directive(p.words)
             new == LocationDirective(s, d)
             tree == [p.ast EXCEPT ![n] = new]
  <2>1. d \in DirectivesOver(Y)
    BY <1>1, <1>4, DirectiveIn
  <2> HIDE DEF d
  <2>3. new \in ServersOver(Y) /\ new.locations # <<>>
    BY <1>1, <1>3, <2>1, LocationDirectiveIn
  <2>4. [p.ast EXCEPT ![n].locations[l].directives = Append(@, d)] = tree
    BY DEF LocationDirective
  <2> HIDE DEF new
  <2>5. tree \in Trees(Y) /\ tree # <<>> /\ Len(tree) = n /\ tree[n] = new
    BY <1>1, <2>3, TreeChanges
  <2> HIDE DEF tree
  <2>6. Enter("location", tree) \in Parses(Y)
    BY <2>3, <2>5, EnterIn
  <2> QED
    BY <2>4, <2>6 DEF d
<1>5. Close(p, "server") \in Parses(Y)
  BY <1>1, EnterIn DEF Close
<1> QED
  BY <1>2, <1>4, <1>5, Zenon DEF InLocation

ParseStep(Y) == [q \in Parses(Y) \X Words(Y) |-> ParseToken(q[1], q[2])]
Start == Enter("config", <<>>)

LEMMA ParseTokenIn ==
    ASSUME NEW Y, NEW p \in Parses(Y), NEW t \in Words(Y)
    PROVE  ParseToken(p, t) \in Parses(Y)
<1>1. p.level \in {"config", "server", "location", "error"}
  BY ParseParts
<1>2. CASE p.level = "config"
  BY <1>2, InConfigIn DEF ParseToken
<1>3. CASE p.level = "server"
  BY <1>3, InServerIn DEF ParseToken
<1>4. CASE p.level = "location"
  BY <1>4, InLocationIn DEF ParseToken
<1>5. CASE p.level = "error"
  BY <1>5 DEF ParseToken
<1> QED
  BY <1>1, <1>2, <1>3, <1>4, <1>5

(* Parse goes from token to token.                                         *)
LEMMA ParseRuns ==
    ASSUME NEW Y, NEW ts \in Seq(Words(Y))
    PROVE  /\ Start \in Parses(Y)
           /\ ParseStep(Y) \in [Parses(Y) \X Words(Y) -> Parses(Y)]
           /\ Parse(ts) = Run(ParseStep(Y), Start, ts)
           /\ Parse(ts) \in Parses(Y)
<1> DEFINE X == Parses(Y)
           Z == Words(Y)
           op == ParseStep(Y)
           n == Len(ts)
           Rec(f) == f = [i \in 0..Len(ts) |->
                             IF i = 0 THEN Start ELSE ParseToken(f[i - 1], ts[i])]
           C == CHOOSE f : Rec(f)
           S == {k \in 0..n : C[k] \in X}
<1>1. Start \in X
  <2>1. <<>> \in Trees(Y)
    BY EmptySeq DEF Trees
  <2> QED
    BY <2>1, EnterIn DEF Start
<1>2. op \in [X \X Z -> X] /\ \A x \in X, y \in Z : op[<<x, y>>] = ParseToken(x, y)
  BY ParseTokenIn DEF ParseStep
<1>3. n \in Nat /\ \A i \in 1..n : ts[i] \in Z
  BY ElementOfSeq
<1>4. Parse(ts) = C[n]
  BY DEF Parse, Start
<1> HIDE DEF X, Z, op
<1>5. \E f : Rec(f)
  <2>1. PICK f \in [0..n -> X] : Chain(f, op, Start, ts, n)
    <3>1. op \in [X \X Z -> X] /\ Start \in X /\ n \in Nat
      BY <1>1, <1>2, <1>3, Zenon
    <3>2. \A i \in 1..n : ts[i] \in Z
      BY <1>3, Zenon
    <3> HIDE DEF n
    <3> QED
      BY <3>1, <3>2, ChainsExist
  <2>2. ASSUME NEW i \in 1..n PROVE f[i] = ParseToken(f[i - 1], ts[i])
    <3>1. i - 1 \in 0..n
      BY <1>3
    <3>2. f[i - 1] \in X /\ ts[i] \in Z
      BY <1>3, <2>1, <3>1
    <3> QED
      BY <1>2, <2>1, <3>2 DEF Chain
  <2>3. \A i \in 0..n : i = 0 \/ i \in 1..n
    BY <1>3
  <2>4. f = [i \in 0..n |-> IF i = 0 THEN Start ELSE ParseToken(f[i - 1], ts[i])]
    BY <2>1, <2>2, <2>3 DEF Chain
  <2> QED
    BY <2>4
<1>6. Rec(C)
  BY <1>5
<1> HIDE DEF C
<1>7. C[0] = Start /\ \A i \in 1..n : C[i] = ParseToken(C[i - 1], ts[i])
  BY <1>3, <1>6
<1>8. 0..n \subseteq S
  <2>1. 0 \in S
    BY <1>1, <1>3, <1>7
  <2>2. ASSUME NEW k \in 1..n, k - 1 \in S PROVE k \in S
    <3>1. C[k - 1] \in X /\ ts[k] \in Z /\ k \in 0..n
      BY <1>3, <2>2
    <3>2. C[k] = op[<<C[k - 1], ts[k]>>]
      BY <1>2, <1>7, <3>1
    <3>3. C[k] \in X
      BY <1>2, <3>1, <3>2
    <3> QED
      BY <3>1, <3>3
  <2> HIDE DEF S
  <2> QED
    BY <1>3, <2>1, <2>2, Counting
<1>9. Chain(C, op, Start, ts, n)
  <2>1. ASSUME NEW i \in 1..n PROVE C[i] = op[<<C[i - 1], ts[i]>>]
    <3>1. i - 1 \in 0..n
      BY <1>3
    <3>2. C[i - 1] \in X /\ ts[i] \in Z
      BY <1>3, <1>8, <3>1
    <3> QED
      BY <1>2, <1>7, <3>2
  <2> QED
    BY <1>7, <2>1 DEF Chain
<1>10. Run(op, Start, ts) = C[n]
  BY <1>3, <1>9, RunIs
<1>11. C[n] \in X
  BY <1>3, <1>8
<1> QED
  BY <1>1, <1>2, <1>4, <1>10, <1>11 DEF X, Z, op

LEMMA AcceptedTree ==
    ASSUME NEW Y, NEW text \in Seq(Y)
    PROVE  Parse(Tokens(text)).ast \in Trees(Y)
<1>1. Tokens(text) \in Seq(Words(Y))
  BY TokensTyped
<1>2. Parse(Tokens(text)) \in Parses(Y)
  BY <1>1, ParseRuns
<1> QED
  BY <1>2, ParseParts

-----------------------------------------------------------------------------
(* FoldSet with a sum, which takes one element after the other away.       *)
Sums(it, S, f) ==
    it = [s \in SUBSET S |-> IF s = {} THEN 0
                             ELSE it[s \ {CHOOSE x \in s : TRUE}] + f[CHOOSE x \in s : TRUE]]

Of(P, of, x) == {p \in P : of[p] = x}

(* The size of a set whose members belong to the elements of another one   *)
(* is the sum of what belongs to each.                                     *)
LEMMA SumIs ==
    ASSUME NEW S, IsFiniteSet(S), NEW P, IsFiniteSet(P), NEW of \in [P -> S], NEW f,
           \A x \in S : f[x] = Cardinality(Of(P, of, x))
    PROVE  /\ \E it : Sums(it, S, f)
           /\ \A it : Sums(it, S, f) => it[S] = Cardinality(P)
<1> DEFINE one(s) == CHOOSE x \in s : TRUE
           part(s) == {p \in P : of[p] \in s}
           count(s) == Cardinality(part(s))
           N == Cardinality(S)
<1>1. \A s : s # {} => one(s) \in s
  OBVIOUS
<1>2. ASSUME NEW s
      PROVE  IsFiniteSet(part(s)) /\ count(s) \in Nat
  <2>1. part(s) \in SUBSET P
    OBVIOUS
  <2> HIDE DEF part
  <2>2. IsFiniteSet(part(s))
    BY <2>1, FS_Subset
  <2> QED
    BY <2>2, FS_CardinalityType
<1>3. count({}) = 0
  <2>1. part({}) = {}
    OBVIOUS
  <2> QED
    BY <2>1, FS_EmptySet
<1> HIDE DEF one
<1>4. ASSUME NEW s \in SUBSET S, s # {}
      PROVE  count(s) = count(s \ {one(s)}) + f[one(s)]
  <2> DEFINE x == one(s)
             rest == part(s \ {x})
             own == part({x})
  <2>1. x \in s /\ x \in S
    BY <1>1, <1>4
  <2>2. part(s) = rest \union own /\ rest \cap own = {}
    BY <2>1
  <2>3. own = Of(P, of, x)
    BY DEF Of
  <2>4. f[x] = Cardinality(own)
    BY <2>1, <2>3
  <2>5. IsFiniteSet(rest) /\ IsFiniteSet(own) /\ Cardinality(rest) \in Nat /\ Cardinality(own) \in Nat
    BY <1>2
  <2> HIDE DEF rest, own, x, part
  <2>6. Cardinality(rest \union own) = Cardinality(rest) + Cardinality(own) - Cardinality(rest \cap own)
    BY <2>5, FS_Union
  <2>7. Cardinality(rest \cap own) = 0
    BY <2>2, FS_EmptySet
  <2>8. Cardinality(part(s)) = Cardinality(rest) + Cardinality(own)
    BY <2>2, <2>5, <2>6, <2>7
  <2> QED
    BY <2>4, <2>8 DEF rest, x
<1> HIDE DEF count, part
<1>5. \E it : Sums(it, S, f)
  <2> DEFINE it == [s \in SUBSET S |-> count(s)]
  <2>1. ASSUME NEW s \in SUBSET S
        PROVE  it[s] = IF s = {} THEN 0 ELSE it[s \ {one(s)}] + f[one(s)]
    <3>1. s \ {one(s)} \in SUBSET S
      OBVIOUS
    <3>2. it[s] = count(s) /\ it[s \ {one(s)}] = count(s \ {one(s)})
      BY <3>1
    <3> HIDE DEF it
    <3> QED
      BY <1>3, <1>4, <3>2
  <2>2. it = [s \in SUBSET S |-> it[s]]
    OBVIOUS
  <2> HIDE DEF it
  <2>3. it = [s \in SUBSET S |-> IF s = {} THEN 0 ELSE it[s \ {one(s)}] + f[one(s)]]
    BY <2>1, <2>2
  <2>4. Sums(it, S, f)
    BY <2>3 DEF Sums, one
  <2> QED
    BY <2>4
<1>6. ASSUME NEW it, Sums(it, S, f)
      PROVE  it[S] = Cardinality(P)
  <2> DEFINE T == {k \in 0..N : \A s \in SUBSET S : Cardinality(s) = k => it[s] = count(s)}
  <2>1. N \in Nat /\ \A s \in SUBSET S : IsFiniteSet(s)
    BY FS_CardinalityType, FS_Subset
  <2>2. \A s \in SUBSET S : it[s] = IF s = {} THEN 0 ELSE it[s \ {one(s)}] + f[one(s)]
    BY <1>6 DEF Sums, one
  <2>3. 0 \in T
    <3>1. ASSUME NEW s \in SUBSET S, Cardinality(s) = 0 PROVE it[s] = count(s)
      <4>1. s = {}
        BY <2>1, <3>1, FS_EmptySet
      <4> QED
        BY <1>3, <2>2, <4>1
    <3> HIDE DEF N
    <3> QED
      BY <2>1, <3>1
  <2>4. ASSUME NEW k \in 1..N, k - 1 \in T PROVE k \in T
    <3>1. ASSUME NEW s \in SUBSET S, Cardinality(s) = k PROVE it[s] = count(s)
      <4>1. s # {}
        <5>1. Cardinality(s) # 0
          <6> HIDE DEF N
          <6> QED
            BY <2>1, <3>1
        <5> QED
          BY <5>1, FS_EmptySet
      <4>2. one(s) \in s
        BY <1>1, <4>1
      <4> DEFINE rest == s \ {one(s)}
      <4>3. rest \in SUBSET S /\ Cardinality(rest) = k - 1
        <5>1. IsFiniteSet(s)
          BY <2>1
        <5>2. Cardinality(s \ {one(s)}) = Cardinality(s) - 1
          BY <4>2, <5>1, FS_RemoveElement
        <5> QED
          BY <3>1, <5>2
      <4>4. it[rest] = count(rest)
        <5> HIDE DEF rest
        <5> QED
          BY <2>4, <4>3
      <4>5. it[s] = it[rest] + f[one(s)]
        BY <2>2, <4>1
      <4>6. count(s) = count(rest) + f[one(s)]
        BY <1>4, <4>1
      <4> QED
        BY <4>4, <4>5, <4>6
    <3>2. k \in 0..N
      <4> HIDE DEF N
      <4> QED
        BY <2>1
    <3> QED
      BY <3>1, <3>2
  <2> HIDE DEF T
  <2>5. 0..N \subseteq T
    <3> HIDE DEF N
    <3> QED
      BY <2>1, <2>3, <2>4, Counting
  <2>6. N \in T
    <3> HIDE DEF N
    <3> QED
      BY <2>1, <2>5
  <2>7. it[S] = count(S)
    BY <2>6 DEF T
  <2>8. part(S) = P
    BY DEF part
  <2> QED
    BY <2>7, <2>8 DEF count
<1> QED
  BY <1>5, <1>6

(* The two sums of VirtualHosts.                                           *)
Answering(map) == FoldSet(LAMBDA key, n : n + Len(map[key]), 0, DOMAIN map)
Asked(tree)    == FoldSet(LAMBDA i, n : n + Cardinality(ListensAt(tree, i)), 0, DOMAIN tree)

LEMMA AnsweringIs ==
    ASSUME NEW map, IsFiniteSet(DOMAIN map), NEW P, IsFiniteSet(P), NEW of \in [P -> DOMAIN map],
           \A key \in DOMAIN map : Len(map[key]) = Cardinality(Of(P, of, key))
    PROVE  Answering(map) = Cardinality(P)
<1> DEFINE S == DOMAIN map
           value(x) == Len(map[x])
           f == [x \in S |-> value(x)]
           one(s) == CHOOSE x \in s : TRUE
           Rec(it) == it = [s \in SUBSET S |-> IF s = {} THEN 0 ELSE it[s \ {one(s)}] + value(one(s))]
           C == CHOOSE it : Rec(it)
<1>1. Answering(map) = C[S]
  BY Zenon DEF Answering, FoldSet, MapThenFoldSet
<1>2. \A s : s # {} => one(s) \in s
  OBVIOUS
<1>3. \A x \in S : f[x] = Cardinality(Of(P, of, x))
  OBVIOUS
<1> HIDE DEF value
<1>4. \A x \in S : f[x] = value(x)
  OBVIOUS
<1>5. IsFiniteSet(S) /\ IsFiniteSet(P) /\ of \in [P -> S]
  OBVIOUS
<1> HIDE DEF f, S
<1>6. /\ \E it : Sums(it, S, f)
      /\ \A it : Sums(it, S, f) => it[S] = Cardinality(P)
  BY <1>3, <1>5, SumIs
<1>7. ASSUME NEW it PROVE Rec(it) <=> Sums(it, S, f)
  <2>1. Sums(it, S, f) <=>
           it = [s \in SUBSET S |-> IF s = {} THEN 0 ELSE it[s \ {one(s)}] + f[one(s)]]
    BY DEF Sums
  <2> HIDE DEF one
  <2>2. \A s \in SUBSET S : s # {} => f[one(s)] = value(one(s))
    BY <1>2, <1>4
  <2> QED
    BY <2>1, <2>2
<1> HIDE DEF Rec
<1>8. Rec(C)
  BY <1>6, <1>7
<1> HIDE DEF C
<1>9. C[S] = Cardinality(P)
  BY <1>6, <1>7, <1>8
<1> QED
  BY <1>1, <1>9

LEMMA AskedIs ==
    ASSUME NEW tree, IsFiniteSet(DOMAIN tree), NEW P, IsFiniteSet(P), NEW of \in [P -> DOMAIN tree],
           \A i \in DOMAIN tree : Cardinality(ListensAt(tree, i)) = Cardinality(Of(P, of, i))
    PROVE  Asked(tree) = Cardinality(P)
<1> DEFINE S == DOMAIN tree
           value(x) == Cardinality(ListensAt(tree, x))
           f == [x \in S |-> value(x)]
           one(s) == CHOOSE x \in s : TRUE
           Rec(it) == it = [s \in SUBSET S |-> IF s = {} THEN 0 ELSE it[s \ {one(s)}] + value(one(s))]
           C == CHOOSE it : Rec(it)
<1>1. Asked(tree) = C[S]
  BY Zenon DEF Asked, FoldSet, MapThenFoldSet
<1>2. \A s : s # {} => one(s) \in s
  OBVIOUS
<1>3. \A x \in S : f[x] = Cardinality(Of(P, of, x))
  OBVIOUS
<1> HIDE DEF value
<1>4. \A x \in S : f[x] = value(x)
  OBVIOUS
<1>5. IsFiniteSet(S) /\ IsFiniteSet(P) /\ of \in [P -> S]
  OBVIOUS
<1> HIDE DEF f, S
<1>6. /\ \E it : Sums(it, S, f)
      /\ \A it : Sums(it, S, f) => it[S] = Cardinality(P)
  BY <1>3, <1>5, SumIs
<1>7. ASSUME NEW it PROVE Rec(it) <=> Sums(it, S, f)
  <2>1. Sums(it, S, f) <=>
           it = [s \in SUBSET S |-> IF s = {} THEN 0 ELSE it[s \ {one(s)}] + f[one(s)]]
    BY DEF Sums
  <2> HIDE DEF one
  <2>2. \A s \in SUBSET S : s # {} => f[one(s)] = value(one(s))
    BY <1>2, <1>4
  <2> QED
    BY <2>1, <2>2
<1> HIDE DEF Rec
<1>8. Rec(C)
  BY <1>6, <1>7
<1> HIDE DEF C
<1>9. C[S] = Cardinality(P)
  BY <1>6, <1>7, <1>8
<1> QED
  BY <1>1, <1>9

LEMMA SameSize ==
    ASSUME NEW S, NEW T, IsFiniteSet(S), NEW f \in [S -> T],
           \A x, y \in S : f[x] = f[y] => x = y, \A t \in T : \E x \in S : f[x] = t
    PROVE  IsFiniteSet(T) /\ Cardinality(T) = Cardinality(S)
<1>1. f \in Surjection(S, T) /\ f \in Injection(S, T)
  BY DEF Surjection, Injection, IsInjective
<1> QED
  BY <1>1, FS_Surjection

(* The keys of a server are as many as its addresses, unless one is there  *)
(* twice.                                                                  *)
LEMMA KeysAre ==
    ASSUME NEW Y, NEW tree \in Trees(Y), NEW junks, NEW i \in DOMAIN tree
    PROVE  /\ IsFiniteSet(Keys(tree, i, junks))
           /\ ~DuplicateListen(tree, junks) =>
                 Cardinality(Keys(tree, i, junks)) = Cardinality(ListensAt(tree, i))
<1> DEFINE L == ListensAt(tree, i)
           K == Keys(tree, i, junks)
           f == [j \in L |-> ListenKey(tree, i, j, junks)]
<1>1. tree[i] \in ServersOver(Y)
  BY LenProperties, ElementOfSeq DEF Trees
<1>2. tree[i].directives \in Seq(DirectivesOver(Y))
  BY <1>1 DEF ServersOver
<1> DEFINE n == Len(tree[i].directives)
<1>3. n \in Nat /\ L \in SUBSET (1..n)
  BY <1>2, LenProperties DEF ListensAt, At
<1>4. K = {ListenKey(tree, i, j, junks) : j \in L}
  BY DEF Keys
<1>5. f \in Surjection(L, K)
  BY <1>4 DEF Surjection
<1> HIDE DEF L, K, f, n
<1>6. IsFiniteSet(L)
  <2>1. IsFiniteSet(1..n)
    BY <1>3, FS_Interval
  <2> QED
    BY <1>3, <2>1, FS_Subset
<1>7. IsFiniteSet(K) /\ Cardinality(K) <= Cardinality(L)
  BY <1>5, <1>6, FS_Surjection
<1>8. Cardinality(K) \in Nat /\ Cardinality(L) \in Nat
  BY <1>6, <1>7, FS_CardinalityType
<1>9. ASSUME ~DuplicateListen(tree, junks) PROVE Cardinality(K) = Cardinality(L)
  <2>1. ~(Cardinality(K) < Cardinality(L))
    BY <1>9 DEF DuplicateListen, K, L
  <2> QED
    BY <1>7, <1>8, <2>1
<1> QED
  BY <1>7, <1>9 DEF K, L

LEMMA NoServerTwice ==
    ASSUME NEW Y, NEW tree \in Trees(Y), NEW junks, ~DuplicateListen(tree, junks)
    PROVE  Answering(Resolve(tree, junks)) = Asked(tree)
<1> DEFINE D == DOMAIN tree
           K(i) == Keys(tree, i, junks)
           all == UNION {K(i) : i \in D}
           map == Resolve(tree, junks)
           P == {p \in D \X all : p[2] \in K(p[1])}
           server == [p \in P |-> p[1]]
           socket == [p \in P |-> p[2]]
<1>1. Len(tree) \in Nat /\ D = 1..Len(tree)
  BY LenProperties DEF Trees
<1>2. IsFiniteSet(D)
  BY <1>1, FS_Interval
<1>3. \A i \in D : IsFiniteSet(K(i)) /\ Cardinality(K(i)) = Cardinality(ListensAt(tree, i))
  BY KeysAre
<1>4. DOMAIN map = all
  BY DEF Resolve
<1>5. ASSUME NEW key \in all
      PROVE  /\ IsFiniteSet(ServersOn(tree, junks, key))
             /\ Len(map[key]) = Cardinality(ServersOn(tree, junks, key))
  <2> DEFINE N == Cardinality(ServersOn(tree, junks, key))
             run == map[key]
  <2>1. DOMAIN run = 1..N /\ IsFiniteSet(ServersOn(tree, junks, key))
    BY ResolvedIs
  <2>2. N \in Nat
    BY <2>1, FS_CardinalityType
  <2>3. run = [n \in 1..N |-> run[n]]
    <3>1. run = [n \in 1..N |-> BuildServer(tree[CHOOSE i \in ServersOn(tree, junks, key) :
                     Cardinality({k \in ServersOn(tree, junks, key) : k <= i}) = n])]
      BY DEF Resolve, ServersOn
    <3> HIDE DEF N, run
    <3> QED
      BY <3>1
  <2> HIDE DEF N, run
  <2>4. run \in Seq({run[n] : n \in 1..N})
    BY <2>2, <2>3
  <2>5. Len(run) = N
    BY <2>1, <2>2, <2>4, LenProperties
  <2> QED
    BY <2>1, <2>5 DEF N, run
<1>6. \A key \in all, i \in D : i \in ServersOn(tree, junks, key) <=> key \in K(i)
  BY DEF ServersOn
<1>7. \A key : ServersOn(tree, junks, key) \subseteq D
  BY DEF ServersOn
<1> HIDE DEF D, K, map
<1>8. IsFiniteSet(all)
  <2> DEFINE sets == {K(i) : i \in D}
             f == [i \in D |-> K(i)]
  <2>1. f \in Surjection(D, sets)
    BY DEF Surjection
  <2> HIDE DEF sets, f
  <2>2. IsFiniteSet(sets)
    BY <1>2, <2>1, FS_Surjection
  <2>3. \A T \in sets : IsFiniteSet(T)
    BY <1>3 DEF sets
  <2>4. IsFiniteSet(UNION sets)
    BY <2>2, <2>3, FS_UNION
  <2> QED
    BY <2>4 DEF sets
<1>9. \A i \in D : K(i) \subseteq all
  OBVIOUS
<1> HIDE DEF all
<1>10. IsFiniteSet(P)
  <2>1. IsFiniteSet(D \X all)
    BY <1>2, <1>8, FS_Product
  <2>2. P \in SUBSET (D \X all)
    OBVIOUS
  <2> HIDE DEF P
  <2> QED
    BY <2>1, <2>2, FS_Subset
<1>11. server \in [P -> D] /\ socket \in [P -> all]
  OBVIOUS
<1>12. \A p : p \in P <=> \E i \in D, key \in all : p = <<i, key>> /\ key \in K(i)
  OBVIOUS
<1>13. \A p \in P : server[p] = p[1] /\ socket[p] = p[2]
  OBVIOUS
<1> HIDE DEF P, server, socket
<1>14. \A i \in D : Cardinality(ListensAt(tree, i)) = Cardinality(Of(P, server, i))
  <2> SUFFICES ASSUME NEW i \in D
               PROVE  Cardinality(K(i)) = Cardinality(Of(P, server, i))
    BY <1>3
  <2> DEFINE T == Of(P, server, i)
             A == K(i)
             f == [key \in A |-> <<i, key>>]
  <2>1. f \in [A -> T]
    BY <1>9, <1>12, <1>13 DEF Of
  <2>2. \A x, y \in A : f[x] = f[y] => x = y
    OBVIOUS
  <2>3. \A t \in T : \E x \in A : f[x] = t
    BY <1>12, <1>13 DEF Of
  <2>4. IsFiniteSet(A)
    BY <1>3
  <2> HIDE DEF T, A, f
  <2>5. Cardinality(T) = Cardinality(A)
    BY <2>1, <2>2, <2>3, <2>4, SameSize
  <2> QED
    BY <2>5 DEF T, A
<1>15. \A key \in all : Len(map[key]) = Cardinality(Of(P, socket, key))
  <2> SUFFICES ASSUME NEW key \in all
               PROVE  Cardinality(ServersOn(tree, junks, key)) = Cardinality(Of(P, socket, key))
    BY <1>5
  <2> DEFINE T == Of(P, socket, key)
             A == ServersOn(tree, junks, key)
             f == [i \in A |-> <<i, key>>]
  <2>1. f \in [A -> T]
    BY <1>6, <1>7, <1>12, <1>13 DEF Of
  <2>2. \A x, y \in A : f[x] = f[y] => x = y
    OBVIOUS
  <2>3. \A t \in T : \E x \in A : f[x] = t
    BY <1>6, <1>12, <1>13 DEF Of
  <2>4. IsFiniteSet(A)
    BY <1>5
  <2> HIDE DEF T, A, f
  <2>5. Cardinality(T) = Cardinality(A)
    BY <2>1, <2>2, <2>3, <2>4, SameSize
  <2> QED
    BY <2>5 DEF T, A
<1>16. Answering(map) = Cardinality(P)
  <2>1. /\ IsFiniteSet(DOMAIN map) /\ socket \in [P -> DOMAIN map]
        /\ \A key \in DOMAIN map : Len(map[key]) = Cardinality(Of(P, socket, key))
    BY <1>4, <1>8, <1>11, <1>15
  <2> QED
    BY <1>10, <2>1, AnsweringIs
<1>17. Asked(tree) = Cardinality(P)
  <2>1. /\ IsFiniteSet(DOMAIN tree) /\ server \in [P -> DOMAIN tree]
        /\ \A i \in DOMAIN tree : Cardinality(ListensAt(tree, i)) = Cardinality(Of(P, server, i))
    BY <1>2, <1>11, <1>14 DEF D
  <2> QED
    BY <1>10, <2>1, AskedIs
<1> QED
  BY <1>16, <1>17 DEF map

-----------------------------------------------------------------------------
(* The invariant: what is resolved was read from a file and validated, and *)
(* while the start begins the engine has what the resolver made of it.     *)
Chars == STRING \union {Slash}

Accepted == ast \in Trees(Chars) /\ Validate(ast)
IsResolved ==
    \E junks \in [NotRead(ast) -> Junk] :
        ~DuplicateListen(ast, junks) /\ runtime = Resolve(ast, junks)

Read ==
    /\ file \in Files
    /\ stage \in {"loaded", "setup"} => Accepted
    /\ stage = "setup" => IsResolved
    /\ keys = DOMAIN runtime

LEMMA InitRead == Init => Read
  BY DEF Init, StartInit, Read

LEMMA SeqWidens ==
    ASSUME NEW S, NEW T, S \subseteq T, NEW s \in Seq(S)
    PROVE  s \in Seq(T)
<1>1. Len(s) \in Nat /\ s \in [1..Len(s) -> S]
  BY LenProperties
<1>2. s \in [1..Len(s) -> T]
  BY <1>1
<1> QED
  BY <1>1, <1>2

LEMMA LoadRead ==
    ASSUME Read, Load
    PROVE  Read'
<1>1. PICK parse \in {Parsed} :
          IF ~Accepts(parse) THEN NotLoaded("syntax")
          ELSE /\ ast' = parse.ast
               /\ IF Validate(ast')
                  THEN stage' = "loaded"
                       /\ UNCHANGED <<error, keys, todo, listeners, pipe, open, signalled>>
                  ELSE Refused("validation")
               /\ UNCHANGED <<file, runtime>>
  BY DEF Load
<1>2. CASE ~Accepts(parse)
  BY <1>1, <1>2 DEF NotLoaded, Refused, Read
<1>3. CASE Accepts(parse) /\ ~Validate(ast')
  BY <1>1, <1>3 DEF Refused, Read
<1>4. CASE Accepts(parse) /\ Validate(ast')
  <2>1. file.text \in Seq(STRING)
    BY FilesAssumption DEF Read
  <2>2. file.text \in Seq(Chars)
    <3>1. STRING \subseteq Chars
      BY DEF Chars
    <3> QED
      BY <2>1, <3>1, SeqWidens
  <2>3. Parse(Tokens(file.text)).ast \in Trees(Chars)
    BY <2>2, AcceptedTree
  <2>4. ast' \in Trees(Chars)
    BY <1>1, <1>4, <2>3 DEF Parsed
  <2>5. Accepted'
    BY <1>4, <2>4 DEF Accepted
  <2>6. stage' = "loaded" /\ UNCHANGED <<file, runtime, keys>>
    BY <1>1, <1>4
  <2> QED
    BY <2>5, <2>6 DEF Read
<1> QED
  BY <1>2, <1>3, <1>4

LEMMA ResolveRead ==
    ASSUME Read, ResolveConfig
    PROVE  Read'
<1>1. stage = "loaded" /\ UNCHANGED <<file, ast>> /\ Accepted
  BY DEF ResolveConfig, Read
<1>2. PICK junks \in [NotRead(ast) -> Junk] :
          IF DuplicateListen(ast, junks)
          THEN Refused("validation") /\ UNCHANGED runtime
          ELSE runtime' = Resolve(ast, junks) /\ Configured(DOMAIN runtime')
  BY DEF ResolveConfig
<1>3. CASE DuplicateListen(ast, junks)
  BY <1>1, <1>2, <1>3 DEF Refused, Read
<1>4. CASE ~DuplicateListen(ast, junks)
  <2>1. Accepted'
    BY <1>1 DEF Accepted
  <2>2. IsResolved'
    BY <1>1, <1>2, <1>4 DEF IsResolved
  <2>3. stage' = "setup" /\ keys' = DOMAIN runtime'
    BY <1>2, <1>4 DEF Configured
  <2> QED
    BY <1>1, <2>1, <2>2, <2>3 DEF Read
<1> QED
  BY <1>3, <1>4

LEMMA StepRead ==
    ASSUME Read, [Next]_vars
    PROVE  Read'
<1>1. CASE UsageError \/ FileError
  BY <1>1 DEF UsageError, FileError, NotLoaded, Refused, Read
<1>2. CASE Load
  BY <1>2, LoadRead
<1>3. CASE ResolveConfig
  BY <1>3, ResolveRead
<1>4. CASE EngineRuns \/ Outside
  <2>1. UNCHANGED <<file, ast, runtime>> /\ keys' = keys
    BY <1>4, EngineKeepsKeys DEF EngineRuns, Outside
  <2>2. stage' \in {"loaded", "setup"} => stage' = stage
    BY <1>4, EngineKeepsKeys DEF EngineRuns, Outside
  <2>3. Accepted' = Accepted /\ IsResolved' = IsResolved
    BY <2>1 DEF Accepted, IsResolved
  <2> QED
    BY <2>1, <2>2, <2>3 DEF Read
<1>5. CASE UNCHANGED vars
  <2>1. UNCHANGED <<file, ast, runtime, keys, stage>>
    BY <1>5 DEF vars, startVars
  <2>2. Accepted' = Accepted /\ IsResolved' = IsResolved
    BY <2>1 DEF Accepted, IsResolved
  <2> QED
    BY <2>1, <2>2 DEF Read
<1> QED
  BY <1>1, <1>2, <1>3, <1>4, <1>5 DEF Next

LEMMA AlwaysRead == Spec => []Read
  BY InitRead, StepRead, PTL DEF Spec

-----------------------------------------------------------------------------
(* What was accepted was built server by server.                           *)
LEMMA AllBuilt ==
    ASSUME NEW tree \in Trees(Chars), Validate(tree), NEW i \in DOMAIN tree
    PROVE  /\ ServerAsWritten(BuildServer(tree[i]), tree[i])
           /\ \A l \in ToSet(BuildServer(tree[i]).locations) : LocationUsable(l)
<1>1. Slash \in Chars
  BY DEF Chars
<1>2. tree[i] \in ServersOver(Chars)
  BY LenProperties, ElementOfSeq DEF Trees
<1>3. ValidateServer(tree[i])
  BY DEF Validate
<1> QED
  BY <1>1, <1>2, <1>3, ServerBuilt

LEMMA ReadUsable == Read => Usable
<1> SUFFICES ASSUME Read, stage = "setup", NEW key \in keys,
                    NEW s \in ToSet(runtime[key]), NEW l \in ToSet(s.locations)
             PROVE  LocationUsable(l)
  BY DEF Usable, LocationUsable
<1>1. Accepted
  BY DEF Read
<1>2. PICK junks \in [NotRead(ast) -> Junk] : runtime = Resolve(ast, junks)
  BY DEF Read, IsResolved
<1>3. key \in UNION {Keys(ast, i, junks) : i \in DOMAIN ast}
  BY <1>2 DEF Read, Resolve
<1> DEFINE run == runtime[key]
           N == Cardinality(ServersOn(ast, junks, key))
<1>4. /\ DOMAIN run = 1..N
      /\ \A n \in 1..N : \E i \in ServersOn(ast, junks, key) : run[n] = BuildServer(ast[i])
  BY <1>1, <1>2, <1>3, ResolvedIs DEF Accepted
<1>5. PICK n \in DOMAIN run : s = run[n]
  BY DEF ToSet
<1> HIDE DEF run, N
<1>6. PICK i \in ServersOn(ast, junks, key) : s = BuildServer(ast[i])
  BY <1>4, <1>5
<1>7. i \in DOMAIN ast
  BY DEF ServersOn
<1> QED
  BY <1>1, <1>6, <1>7, AllBuilt DEF Accepted

(* What is read of an address does not depend on the others.               *)
LEMMA KeysReadAre ==
    ASSUME NEW junks, NEW i \in DOMAIN ast, NEW key \in KeysRead(i)
    PROVE  /\ i \in ServersOn(ast, junks, key)
           /\ key \in UNION {Keys(ast, k, junks) : k \in DOMAIN ast}
<1>1. PICK j \in ListensAt(ast, i) : <<i, j>> \notin NotRead(ast) /\ key = ListenKey(ast, i, j, <<>>)
  BY DEF KeysRead
<1>2. ListenKey(ast, i, j, <<>>) = ListenKey(ast, i, j, junks)
  BY <1>1 DEF ListenKey
<1>3. key \in Keys(ast, i, junks)
  BY <1>1, <1>2 DEF Keys
<1> QED
  BY <1>3 DEF ServersOn

LEMMA ReadAsWritten == Read => AsWritten
<1> SUFFICES ASSUME Read, stage = "setup", NEW i \in DOMAIN ast, NEW key \in KeysRead(i)
             PROVE  \E n \in DOMAIN runtime[key] : ServerAsWritten(runtime[key][n], ast[i])
  BY DEF AsWritten
<1>1. Accepted
  BY DEF Read
<1>2. PICK junks \in [NotRead(ast) -> Junk] : runtime = Resolve(ast, junks)
  BY DEF Read, IsResolved
<1> DEFINE run == runtime[key]
           n == Place(ast, junks, key, i)
<1>3. i \in ServersOn(ast, junks, key)
      /\ key \in UNION {Keys(ast, k, junks) : k \in DOMAIN ast}
  BY KeysReadAre
<1>4. n \in DOMAIN run /\ run[n] = BuildServer(ast[i])
  <2> DEFINE N == Cardinality(ServersOn(ast, junks, key))
  <2>1. /\ DOMAIN run = 1..N
        /\ \A h \in ServersOn(ast, junks, key) :
              Place(ast, junks, key, h) \in 1..N /\ run[Place(ast, junks, key, h)] = BuildServer(ast[h])
    BY <1>1, <1>2, <1>3, ResolvedIs DEF Accepted
  <2> HIDE DEF run, N
  <2> QED
    BY <1>3, <2>1
<1> HIDE DEF run, n
<1>5. ServerAsWritten(run[n], ast[i])
  BY <1>1, <1>4, AllBuilt DEF Accepted
<1> QED
  BY <1>4, <1>5 DEF run

LEMMA ReadVirtualHosts == Read => VirtualHosts
<1> SUFFICES ASSUME Read, stage = "setup" PROVE VirtualHosts
  BY DEF VirtualHosts
<1>1. Accepted
  BY DEF Read
<1>2. PICK junks \in [NotRead(ast) -> Junk] :
          ~DuplicateListen(ast, junks) /\ runtime = Resolve(ast, junks)
  BY DEF Read, IsResolved
<1>3. ASSUME NEW i \in DOMAIN ast, NEW k \in DOMAIN ast, i < k,
             NEW key \in KeysRead(i) \intersect KeysRead(k)
      PROVE  \E m, n \in DOMAIN runtime[key] :
                /\ m < n
                /\ ServerAsWritten(runtime[key][m], ast[i])
                /\ ServerAsWritten(runtime[key][n], ast[k])
  <2> DEFINE run == runtime[key]
             place(h) == Place(ast, junks, key, h)
  <2>1. /\ i \in ServersOn(ast, junks, key) /\ k \in ServersOn(ast, junks, key)
        /\ key \in UNION {Keys(ast, h, junks) : h \in DOMAIN ast}
    BY KeysReadAre
  <2>2. \A h \in ServersOn(ast, junks, key) :
            place(h) \in DOMAIN run /\ run[place(h)] = BuildServer(ast[h])
    <3> DEFINE N == Cardinality(ServersOn(ast, junks, key))
    <3>1. /\ DOMAIN run = 1..N
          /\ \A h \in ServersOn(ast, junks, key) :
                place(h) \in 1..N /\ run[place(h)] = BuildServer(ast[h])
      BY <1>1, <1>2, <2>1, ResolvedIs DEF Accepted
    <3> HIDE DEF run, place, N
    <3> QED
      BY <3>1
  <2>3. place(i) < place(k)
    BY <1>1, <1>3, <2>1, ResolvedIs DEF Accepted
  <2> HIDE DEF run, place
  <2>4. ServerAsWritten(run[place(i)], ast[i])
    BY <1>1, <2>1, <2>2, AllBuilt DEF Accepted
  <2>5. ServerAsWritten(run[place(k)], ast[k])
    BY <1>1, <2>1, <2>2, AllBuilt DEF Accepted
  <2>6. \E m, n \in DOMAIN run :
            m < n /\ ServerAsWritten(run[m], ast[i]) /\ ServerAsWritten(run[n], ast[k])
    BY <2>1, <2>2, <2>3, <2>4, <2>5
  <2> QED
    BY <2>6 DEF run
<1>4. Answering(runtime) = Asked(ast)
  BY <1>1, <1>2, NoServerTwice DEF Accepted
<1>5. FoldSet(LAMBDA key, n : n + Len(runtime[key]), 0, DOMAIN runtime)
         = FoldSet(LAMBDA i, n : n + Cardinality(ListensAt(ast, i)), 0, DOMAIN ast)
  BY <1>4, Zenon DEF Answering, Asked
<1> QED
  BY <1>3, <1>5, Zenon DEF VirtualHosts

-----------------------------------------------------------------------------
(* Whatever a file says that is accepted, every location of it has what    *)
(* RequestHandler and its helpers take for granted.                        *)
THEOREM ConfiguredUsable == Spec => []Usable
  BY AlwaysRead, ReadUsable, PTL

(* Whatever a file says that is accepted, every server answers on the      *)
(* addresses that are read in it, with the names, locations and settings   *)
(* that are written in it.                                                 *)
THEOREM ConfiguredAsWritten == Spec => []AsWritten
  BY AlwaysRead, ReadAsWritten, PTL

(* However many servers name one address, they answer there in the order   *)
(* of the file, each once, and none that was not asked for.                *)
THEOREM ConfiguredVirtualHosts == Spec => []VirtualHosts
  BY AlwaysRead, ReadVirtualHosts, PTL

-----------------------------------------------------------------------------
(* The grammar of src/grammar.md, and what ConfigParser accepts.  Star is  *)
(* turned into the sets that Stars builds from the left; then what follows *)
(* the grammar is accepted (ConfigForward), and what is accepted follows   *)
(* it, because of what stands before every token (Reads).                  *)

(* The sequences that are made of members of S, one after the other: those *)
(* of every set that has the empty one and lets each of S be added.        *)
Grows(W, S, T) == <<>> \in T /\ \A a \in T, b \in S : a \o b \in T
Stars(W, S) == {s \in Seq(W) : \A T \in SUBSET Seq(W) : Grows(W, S, T) => s \in T}

LEMMA StarsGrow ==
    ASSUME NEW W, NEW S \in SUBSET Seq(W)
    PROVE  /\ Stars(W, S) \in SUBSET Seq(W)
           /\ <<>> \in Stars(W, S)
           /\ \A a \in Stars(W, S), b \in S : a \o b \in Stars(W, S)
<1>1. Stars(W, S) \in SUBSET Seq(W)
  BY DEF Stars
<1>2. <<>> \in Stars(W, S)
  BY EmptySeq DEF Stars, Grows
<1>3. ASSUME NEW a \in Stars(W, S), NEW b \in S
      PROVE  a \o b \in Stars(W, S)
  <2>1. a \in Seq(W) /\ b \in Seq(W)
    BY <1>1
  <2>2. a \o b \in Seq(W)
    BY <2>1, ConcatProperties
  <2>3. ASSUME NEW T \in SUBSET Seq(W), Grows(W, S, T) PROVE a \o b \in T
    <3>1. a \in T
      BY <2>3 DEF Stars
    <3> QED
      BY <2>3, <3>1 DEF Grows
  <2> QED
    BY <2>2, <2>3 DEF Stars
<1> QED
  BY <1>1, <1>2, <1>3

LEMMA StarsIn ==
    ASSUME NEW W, NEW S, NEW T \in SUBSET Seq(W), Grows(W, S, T)
    PROVE  Stars(W, S) \subseteq T
BY DEF Stars

-----------------------------------------------------------------------------
(* Star, from its end.                                                     *)
Splitting(f, S, ts) ==
    f = [i \in 1..Len(ts) + 1 |->
            \/ i = Len(ts) + 1
            \/ \E j \in i..Len(ts) : SubSeq(ts, i, j) \in S /\ f[j + 1]]

LEMMA SplittingExists ==
    ASSUME NEW S, NEW ts, Len(ts) \in Nat
    PROVE  \E f : Splitting(f, S, ts)
<1> DEFINE n == Len(ts)
           D == 1..n + 1
           Closed(G) == /\ n + 1 \in G
                        /\ \A i \in D : (\E j \in i..n : SubSeq(ts, i, j) \in S /\ j + 1 \in G) => i \in G
           H == {i \in D : \A G \in SUBSET D : Closed(G) => i \in G}
           f == [i \in D |-> i \in H]
<1>1. n + 1 \in H
  <2>1. n + 1 \in D
    BY SMT
  <2> QED
    BY <2>1
<1>2. ASSUME NEW i \in D, NEW j \in i..n, SubSeq(ts, i, j) \in S, j + 1 \in H
      PROVE  i \in H
  <2>1. ASSUME NEW G \in SUBSET D, Closed(G) PROVE i \in G
    <3>1. j + 1 \in G
      BY <1>2, <2>1
    <3> QED
      BY <1>2, <2>1, <3>1
  <2> QED
    BY <2>1
<1>3. ASSUME NEW i \in H, i # n + 1
      PROVE  \E j \in i..n : SubSeq(ts, i, j) \in S /\ j + 1 \in H
  <2> SUFFICES ASSUME \A j \in i..n : SubSeq(ts, i, j) \in S => j + 1 \notin H
               PROVE  FALSE
    OBVIOUS
  <2> DEFINE G == H \ {i}
  <2>1. G \in SUBSET D /\ n + 1 \in G
    BY <1>1, <1>3
  <2>2. ASSUME NEW k \in D, NEW j \in k..n, SubSeq(ts, k, j) \in S, j + 1 \in G
        PROVE  k \in G
    <3>1. k \in H
      BY <1>2, <2>2
    <3>2. k # i
      BY <2>2
    <3> QED
      BY <3>1, <3>2
  <2>3. Closed(G)
    BY <2>1, <2>2
  <2>4. i \in D /\ i \notin G
    OBVIOUS
  <2> HIDE DEF G
  <2>5. i \in G
    BY <2>1, <2>3
  <2> QED
    BY <2>4, <2>5
<1>4. H \in SUBSET D
  OBVIOUS
<1> HIDE DEF H
<1>5. ASSUME NEW i \in D
      PROVE  i \in H <=> \/ i = n + 1
                         \/ \E j \in i..n : SubSeq(ts, i, j) \in S /\ j + 1 \in H
  BY <1>1, <1>2, <1>3
<1>6. ASSUME NEW i \in D, NEW j \in i..n PROVE f[j + 1] <=> j + 1 \in H
  <2>1. j + 1 \in D
    BY SMT
  <2> QED
    BY <2>1
<1>7. f \in [D -> BOOLEAN] /\ \A i \in D : f[i] <=> i \in H
  <2>1. f \in [D -> BOOLEAN]
    OBVIOUS
  <2>2. \A i \in D : f[i] <=> i \in H
    OBVIOUS
  <2> QED
    BY <2>1, <2>2
<1> HIDE DEF f
<1> DEFINE g == [i \in D |-> \/ i = n + 1
                          \/ \E j \in i..n : SubSeq(ts, i, j) \in S /\ f[j + 1]]
<1>8. ASSUME NEW i \in D
      PROVE  g[i] <=> \/ i = n + 1
                      \/ \E j \in i..n : SubSeq(ts, i, j) \in S /\ f[j + 1]
  OBVIOUS
<1>9. g \in [D -> BOOLEAN]
  OBVIOUS
<1>10. \A i \in D : f[i] <=> g[i]
  BY <1>5, <1>6, <1>7, <1>8, Zenon
<1>11. f = g
  <2> HIDE DEF g
  <2> QED
    BY <1>7, <1>9, <1>10
<1> QED
  BY <1>11, Zenon DEF Splitting

LEMMA SplittingIs ==
    ASSUME NEW W, NEW S \in SUBSET Seq(W), <<>> \notin S, NEW ts \in Seq(W),
           NEW f, Splitting(f, S, ts)
    PROVE  f[1] <=> ts \in Stars(W, S)
<1> DEFINE n == Len(ts)
           St == Stars(W, S)
<1>1. n \in Nat
  BY LenProperties
<1>2. ASSUME NEW i \in 1..n + 1
      PROVE  f[i] <=> \/ i = n + 1
                      \/ \E j \in i..n : SubSeq(ts, i, j) \in S /\ f[j + 1]
  BY Zenon DEF Splitting
<1>3. /\ St \in SUBSET Seq(W) /\ <<>> \in St
      /\ \A a \in St, b \in S : a \o b \in St
  BY StarsGrow
<1> HIDE DEF St
<1>4. ASSUME f[1] PROVE ts \in St
  <2> DEFINE A == {i \in 1..n + 1 : f[i] /\ SubSeq(ts, 1, i - 1) \in St}
             m == Max(A)
  <2>1. SubSeq(ts, 1, n) = ts
    BY SubSeqFull
  <2>2. SubSeq(ts, 1, 1 - 1) = <<>>
    <3>1. SubSeq(ts, 1, 0) = <<>>
      BY SubSeqEmpty
    <3> QED
      BY <3>1
  <2>3. 1 \in A
    <3>1. 1 \in 1..n + 1
      BY <1>1
    <3>2. SubSeq(ts, 1, 1 - 1) \in St
      BY <1>3, <2>2, Zenon
    <3> QED
      BY <1>4, <3>1, <3>2, Zenon
  <2>4. n + 1 \in Nat /\ A \in SUBSET (0..n + 1)
    BY <1>1
  <2>5. m \in A /\ \A i \in A : i <= m
    <3> HIDE DEF A
    <3> QED
      BY <2>3, <2>4, LargestNumber
  <2>6. m \in 1..n + 1 /\ f[m] /\ SubSeq(ts, 1, m - 1) \in St
    BY <2>5
  <2> HIDE DEF m
  <2>7. ASSUME m # n + 1 PROVE FALSE
    <3>1. PICK j \in m..n : SubSeq(ts, m, j) \in S /\ f[j + 1]
      BY <1>2, <2>6, <2>7
    <3>2. SubSeq(ts, 1, m - 1) \o SubSeq(ts, m, j) = SubSeq(ts, 1, j)
      <4>1. 1 \in 1..Len(ts) + 1 /\ m - 1 \in 1 - 1..Len(ts) /\ j \in m - 1..Len(ts) /\ m - 1 + 1 = m
        BY <1>1, <2>6, <3>1
      <4>2. SubSeq(ts, 1, m - 1) \o SubSeq(ts, m - 1 + 1, j) = SubSeq(ts, 1, j)
        BY <4>1, ConcatAdjacentSubSeq
      <4> QED
        BY <4>1, <4>2
    <3>3. SubSeq(ts, 1, j) \in St
      BY <1>3, <2>6, <3>1, <3>2
    <3>4. j + 1 \in 1..n + 1 /\ j + 1 - 1 = j /\ j + 1 > m
      BY <1>1, <2>6, <3>1
    <3>5. j + 1 \in A
      BY <3>1, <3>3, <3>4
    <3> HIDE DEF A
    <3> QED
      BY <1>1, <2>5, <2>6, <3>4, <3>5
  <2>8. m = n + 1 /\ m - 1 = n
    BY <1>1, <2>7
  <2> QED
    BY <2>1, <2>6, <2>8
<1>5. ASSUME ts \in St PROVE f[1]
  <2> DEFINE T == {a \in Seq(W) : \A b \in Seq(W) : a \o b = ts /\ f[Len(a) + 1] => f[1]}
  <2>1. <<>> \in T
    <3>1. Len(<<>>) + 1 = 1 /\ <<>> \in Seq(W)
      BY EmptySeq
    <3> QED
      BY <3>1
  <2>2. ASSUME NEW a \in T, NEW s \in S PROVE a \o s \in T
    <3>1. a \in Seq(W) /\ s \in Seq(W) /\ s # <<>>
      OBVIOUS
    <3>2. /\ a \o s \in Seq(W) /\ Len(a \o s) = Len(a) + Len(s)
          /\ Len(a) \in Nat /\ Len(s) \in Nat /\ Len(s) # 0
      BY <3>1, ConcatProperties, LenProperties, EmptySeq
    <3>3. ASSUME NEW b \in Seq(W), (a \o s) \o b = ts, f[Len(a \o s) + 1]
          PROVE  f[1]
      <4> DEFINE i == Len(a) + 1
                 j == Len(a) + Len(s)
      <4>1. a \o (s \o b) = ts /\ s \o b \in Seq(W)
        <5>1. (a \o s) \o b = a \o (s \o b)
          BY <3>1, Grouping DEF Grouped
        <5>2. s \o b \in Seq(W)
          BY <3>1, ConcatProperties
        <5> QED
          BY <3>3, <5>1, <5>2
      <4>2. Len(s \o b) = Len(s) + Len(b) /\ Len(b) \in Nat
        BY <3>1, ConcatProperties, LenProperties
      <4>3. n = Len(a) + (Len(s) + Len(b))
        BY <3>1, <4>1, <4>2, ConcatProperties
      <4>4. SubSeq(ts, i, j) = s
        <5>1. SubSeq(ts, i, j) = SubSeq(s \o b, i - Len(a), j - Len(a))
          <6>1. i \in Len(a) + 1..Len(a) + Len(s \o b) /\ j \in Len(a) + 1..Len(a) + Len(s \o b)
            BY <3>2, <4>2
          <6> HIDE DEF i, j
          <6>2. SubSeq(a \o (s \o b), i, j) = SubSeq(s \o b, i - Len(a), j - Len(a))
            BY <3>1, <4>1, <6>1, SubSeqOfConcat2
          <6> QED
            BY <4>1, <6>2
        <5>2. i - Len(a) = 1 /\ j - Len(a) = Len(s)
          BY <3>2
        <5>3. SubSeq(s \o b, 1, Len(s)) = SubSeq(s, 1, Len(s))
          <6>1. 1 \in 1..Len(s) /\ Len(s) \in 1..Len(s)
            BY <3>2
          <6> QED
            BY <3>1, <6>1, SubSeqOfConcat1
        <5>4. SubSeq(s, 1, Len(s)) = s
          BY <3>1, SubSeqFull
        <5> QED
          BY <5>1, <5>2, <5>3, <5>4
      <4>5. i \in 1..n + 1 /\ j \in i..n /\ j + 1 = Len(a \o s) + 1
        BY <3>2, <4>2, <4>3
      <4> HIDE DEF i, j
      <4>6. f[i]
        BY <1>2, <3>3, <4>4, <4>5
      <4> QED
        BY <4>1, <4>6 DEF i
    <3> QED
      BY <3>2, <3>3
  <2>3. T \in SUBSET Seq(W)
    OBVIOUS
  <2>4. Grows(W, S, T)
    BY <2>1, <2>2 DEF Grows
  <2> HIDE DEF T
  <2>5. ts \in T
    BY <1>5, <2>3, <2>4, StarsIn DEF St
  <2>6. ts \o <<>> = ts /\ <<>> \in Seq(W)
    BY ConcatEmptySeq, EmptySeq
  <2>7. f[n + 1]
    BY <1>1, <1>2
  <2> QED
    BY <2>5, <2>6, <2>7 DEF T
<1> QED
  BY <1>4, <1>5 DEF St

(* The parts of a configuration, as sets of sequences of tokens.           *)
Directives(W) == {s \in Seq(W) : IsDirective(s)}
LocationsOf(W) == {s \in Seq(W) : IsLocation(s)}
Items(W)      == {s \in Seq(W) : s # <<>> /\ IsItem(s)}
Servers(W)    == {s \in Seq(W) : IsServer(s)}

LEMMA PartOf ==
    ASSUME NEW W, NEW ts \in Seq(W), NEW i \in 1..Len(ts) + 1, NEW j \in i..Len(ts)
    PROVE  SubSeq(ts, i, j) \in Seq(W) /\ SubSeq(ts, i, j) # <<>>
<1>1. Len(ts) \in Nat /\ \A k \in 1..Len(ts) : ts[k] \in W
  BY ElementOfSeq
<1>2. i \in Int /\ j \in Int /\ i <= j /\ \A k \in i..j : ts[k] \in W
  BY <1>1
<1>3. SubSeq(ts, i, j) \in Seq(W) /\ Len(SubSeq(ts, i, j)) = j - i + 1
  BY <1>2, SubSeqProperties
<1> QED
  BY <1>2, <1>3, EmptySeq

LEMMA DirectivesAre ==
    ASSUME NEW W
    PROVE  Directives(W) \in SUBSET Seq(W) /\ <<>> \notin Directives(W)
<1>1. Len(<<>>) = 0
  OBVIOUS
<1> QED
  BY <1>1 DEF Directives, IsDirective

LEMMA ItemsAre ==
    ASSUME NEW W
    PROVE  Items(W) \in SUBSET Seq(W) /\ <<>> \notin Items(W)
  BY Zenon DEF Items

LEMMA ServersAre ==
    ASSUME NEW W
    PROVE  Servers(W) \in SUBSET Seq(W) /\ <<>> \notin Servers(W)
<1>1. Len(<<>>) = 0
  OBVIOUS
<1> QED
  BY <1>1 DEF Servers, IsServer

LEMMA StarOfDirectives ==
    ASSUME NEW W, NEW ts \in Seq(W)
    PROVE  Star(IsDirective, ts) <=> ts \in Stars(W, Directives(W))
<1> DEFINE S == Directives(W)
           D == 1..Len(ts) + 1
           Rec(f) == f = [i \in D |->
                             \/ i = Len(ts) + 1
                             \/ \E j \in i..Len(ts) : IsDirective(SubSeq(ts, i, j)) /\ f[j + 1]]
           C == CHOOSE f : Rec(f)
<1>1. Star(IsDirective, ts) <=> C[1]
  BY Zenon DEF Star
<1>2. ASSUME NEW i \in D, NEW j \in i..Len(ts)
      PROVE  SubSeq(ts, i, j) \in S <=> IsDirective(SubSeq(ts, i, j))
  BY PartOf, Zenon DEF Directives
<1>3. S \in SUBSET Seq(W) /\ <<>> \notin S
  BY DirectivesAre
<1> HIDE DEF S
<1>4. ASSUME NEW f PROVE Rec(f) <=> Splitting(f, S, ts)
  <2> DEFINE g == [i \in D |-> \/ i = Len(ts) + 1
                               \/ \E j \in i..Len(ts) : IsDirective(SubSeq(ts, i, j)) /\ f[j + 1]]
             h == [i \in D |-> \/ i = Len(ts) + 1
                               \/ \E j \in i..Len(ts) : SubSeq(ts, i, j) \in S /\ f[j + 1]]
  <2>1. g \in [D -> BOOLEAN]
    OBVIOUS
  <2>2. h \in [D -> BOOLEAN]
    OBVIOUS
  <2>3. \A i \in D : g[i] <=> h[i]
    <3> TAKE i \in D
    <3>1. g[i] <=> \/ i = Len(ts) + 1
                   \/ \E j \in i..Len(ts) : IsDirective(SubSeq(ts, i, j)) /\ f[j + 1]
      OBVIOUS
    <3>2. h[i] <=> \/ i = Len(ts) + 1
                   \/ \E j \in i..Len(ts) : SubSeq(ts, i, j) \in S /\ f[j + 1]
      OBVIOUS
    <3> HIDE DEF g, h
    <3> QED
      BY <1>2, <3>1, <3>2, Zenon
  <2>4. g = h
    <3> HIDE DEF g, h
    <3> QED
      BY <2>1, <2>2, <2>3
  <2>5. Rec(f) <=> f = g
    BY Zenon
  <2>6. Splitting(f, S, ts) <=> f = h
    BY Zenon DEF Splitting
  <2> QED
    BY <2>4, <2>5, <2>6, Zenon
<1> HIDE DEF Rec
<1>5. Len(ts) \in Nat
  BY LenProperties
<1>6. Rec(C)
  BY <1>4, <1>5, SplittingExists, Zenon
<1>7. C[1] <=> ts \in Stars(W, S)
  <2> HIDE DEF C
  <2> QED
    BY <1>3, <1>4, <1>6, SplittingIs
<1> QED
  BY <1>1, <1>7, Zenon DEF S

LEMMA StarOfItems ==
    ASSUME NEW W, NEW ts \in Seq(W)
    PROVE  Star(IsItem, ts) <=> ts \in Stars(W, Items(W))
<1> DEFINE S == Items(W)
           D == 1..Len(ts) + 1
           Rec(f) == f = [i \in D |->
                             \/ i = Len(ts) + 1
                             \/ \E j \in i..Len(ts) : IsItem(SubSeq(ts, i, j)) /\ f[j + 1]]
           C == CHOOSE f : Rec(f)
<1>1. Star(IsItem, ts) <=> C[1]
  BY Zenon DEF Star
<1>2. ASSUME NEW i \in D, NEW j \in i..Len(ts)
      PROVE  SubSeq(ts, i, j) \in S <=> IsItem(SubSeq(ts, i, j))
  BY PartOf, Zenon DEF Items
<1>3. S \in SUBSET Seq(W) /\ <<>> \notin S
  BY ItemsAre
<1> HIDE DEF S
<1>4. ASSUME NEW f PROVE Rec(f) <=> Splitting(f, S, ts)
  <2> DEFINE g == [i \in D |-> \/ i = Len(ts) + 1
                               \/ \E j \in i..Len(ts) : IsItem(SubSeq(ts, i, j)) /\ f[j + 1]]
             h == [i \in D |-> \/ i = Len(ts) + 1
                               \/ \E j \in i..Len(ts) : SubSeq(ts, i, j) \in S /\ f[j + 1]]
  <2>1. g \in [D -> BOOLEAN]
    OBVIOUS
  <2>2. h \in [D -> BOOLEAN]
    OBVIOUS
  <2>3. \A i \in D : g[i] <=> h[i]
    <3> TAKE i \in D
    <3>1. g[i] <=> \/ i = Len(ts) + 1
                   \/ \E j \in i..Len(ts) : IsItem(SubSeq(ts, i, j)) /\ f[j + 1]
      OBVIOUS
    <3>2. h[i] <=> \/ i = Len(ts) + 1
                   \/ \E j \in i..Len(ts) : SubSeq(ts, i, j) \in S /\ f[j + 1]
      OBVIOUS
    <3> HIDE DEF g, h
    <3> QED
      BY <1>2, <3>1, <3>2, Zenon
  <2>4. g = h
    <3> HIDE DEF g, h
    <3> QED
      BY <2>1, <2>2, <2>3
  <2>5. Rec(f) <=> f = g
    BY Zenon
  <2>6. Splitting(f, S, ts) <=> f = h
    BY Zenon DEF Splitting
  <2> QED
    BY <2>4, <2>5, <2>6, Zenon
<1> HIDE DEF Rec
<1>5. Len(ts) \in Nat
  BY LenProperties
<1>6. Rec(C)
  BY <1>4, <1>5, SplittingExists, Zenon
<1>7. C[1] <=> ts \in Stars(W, S)
  <2> HIDE DEF C
  <2> QED
    BY <1>3, <1>4, <1>6, SplittingIs
<1> QED
  BY <1>1, <1>7, Zenon DEF S

LEMMA StarOfServers ==
    ASSUME NEW W, NEW ts \in Seq(W)
    PROVE  Star(IsServer, ts) <=> ts \in Stars(W, Servers(W))
<1> DEFINE S == Servers(W)
           D == 1..Len(ts) + 1
           Rec(f) == f = [i \in D |->
                             \/ i = Len(ts) + 1
                             \/ \E j \in i..Len(ts) : IsServer(SubSeq(ts, i, j)) /\ f[j + 1]]
           C == CHOOSE f : Rec(f)
<1>1. Star(IsServer, ts) <=> C[1]
  BY Zenon DEF Star
<1>2. ASSUME NEW i \in D, NEW j \in i..Len(ts)
      PROVE  SubSeq(ts, i, j) \in S <=> IsServer(SubSeq(ts, i, j))
  BY PartOf, Zenon DEF Servers
<1>3. S \in SUBSET Seq(W) /\ <<>> \notin S
  BY ServersAre
<1> HIDE DEF S
<1>4. ASSUME NEW f PROVE Rec(f) <=> Splitting(f, S, ts)
  <2> DEFINE g == [i \in D |-> \/ i = Len(ts) + 1
                               \/ \E j \in i..Len(ts) : IsServer(SubSeq(ts, i, j)) /\ f[j + 1]]
             h == [i \in D |-> \/ i = Len(ts) + 1
                               \/ \E j \in i..Len(ts) : SubSeq(ts, i, j) \in S /\ f[j + 1]]
  <2>1. g \in [D -> BOOLEAN]
    OBVIOUS
  <2>2. h \in [D -> BOOLEAN]
    OBVIOUS
  <2>3. \A i \in D : g[i] <=> h[i]
    <3> TAKE i \in D
    <3>1. g[i] <=> \/ i = Len(ts) + 1
                   \/ \E j \in i..Len(ts) : IsServer(SubSeq(ts, i, j)) /\ f[j + 1]
      OBVIOUS
    <3>2. h[i] <=> \/ i = Len(ts) + 1
                   \/ \E j \in i..Len(ts) : SubSeq(ts, i, j) \in S /\ f[j + 1]
      OBVIOUS
    <3> HIDE DEF g, h
    <3> QED
      BY <1>2, <3>1, <3>2, Zenon
  <2>4. g = h
    <3> HIDE DEF g, h
    <3> QED
      BY <2>1, <2>2, <2>3
  <2>5. Rec(f) <=> f = g
    BY Zenon
  <2>6. Splitting(f, S, ts) <=> f = h
    BY Zenon DEF Splitting
  <2> QED
    BY <2>4, <2>5, <2>6, Zenon
<1> HIDE DEF Rec
<1>5. Len(ts) \in Nat
  BY LenProperties
<1>6. Rec(C)
  BY <1>4, <1>5, SplittingExists, Zenon
<1>7. C[1] <=> ts \in Stars(W, S)
  <2> HIDE DEF C
  <2> QED
    BY <1>3, <1>4, <1>6, SplittingIs
<1> QED
  BY <1>1, <1>7, Zenon DEF S

(* A sequence with a beginning and an end of its own.                      *)
LEMMA FrameOf ==
    ASSUME NEW Z, NEW s \in Seq(Z), NEW k \in Nat, Len(s) >= k + 1
    PROVE  /\ SubSeq(s, k + 1, Len(s) - 1) \in Seq(Z)
           /\ SubSeq(s, 1, k) \in Seq(Z)
           /\ s = Append(SubSeq(s, 1, k) \o SubSeq(s, k + 1, Len(s) - 1), Last(s))
           /\ Last(s) \in Z
<1> DEFINE n == Len(s)
<1>1. n \in Nat /\ s # <<>> /\ \A i \in 1..n : s[i] \in Z
  BY ElementOfSeq, EmptySeq
<1>2. /\ Front(s) \in Seq(Z) /\ Last(s) \in Z /\ Len(Front(s)) = n - 1
      /\ s = Append(Front(s), Last(s))
  BY <1>1, FrontAndLast
<1>3. Front(s) = SubSeq(s, 1, n - 1)
  BY DEF Front
<1>4. SubSeq(s, 1, k) \o SubSeq(s, k + 1, n - 1) = SubSeq(s, 1, n - 1)
  <2>1. 1 \in 1..n + 1 /\ k \in 1 - 1..n /\ n - 1 \in k..n
    BY <1>1
  <2> HIDE DEF n
  <2> QED
    BY <2>1, ConcatAdjacentSubSeq DEF n
<1>5. SubSeq(s, k + 1, n - 1) \in Seq(Z)
  <2>1. k + 1 \in Int /\ n - 1 \in Int /\ \A i \in k + 1..n - 1 : s[i] \in Z
    BY <1>1
  <2> QED
    BY <2>1, SubSeqProperties
<1>6. SubSeq(s, 1, k) \in Seq(Z)
  <2>1. 1 \in Int /\ k \in Int /\ \A i \in 1..k : s[i] \in Z
    BY <1>1
  <2> QED
    BY <2>1, SubSeqProperties
<1> QED
  BY <1>2, <1>3, <1>4, <1>5, <1>6

LEMMA FrameIs ==
    ASSUME NEW Z, NEW a \in Seq(Z), NEW x \in Seq(Z), NEW c \in Z
    PROVE  /\ Append(a \o x, c) \in Seq(Z)
           /\ Len(Append(a \o x, c)) = Len(a) + Len(x) + 1
           /\ SubSeq(Append(a \o x, c), Len(a) + 1, Len(Append(a \o x, c)) - 1) = x
           /\ Last(Append(a \o x, c)) = c
           /\ \A i \in 1..Len(a) : Append(a \o x, c)[i] = a[i]
<1> DEFINE b == a \o x
           s == Append(b, c)
<1>1. /\ b \in Seq(Z) /\ Len(b) = Len(a) + Len(x) /\ Len(a) \in Nat /\ Len(x) \in Nat
      /\ \A i \in 1..Len(a) : b[i] = a[i]
      /\ \A i \in 1..Len(x) : b[Len(a) + i] = x[i]
  BY ConcatProperties, LenProperties
<1> HIDE DEF b
<1>2. /\ s \in Seq(Z) /\ Len(s) = Len(b) + 1 /\ s[Len(b) + 1] = c
      /\ \A i \in 1..Len(b) : s[i] = b[i]
  <2>1. s \in Seq(Z)
    BY <1>1, AppendProperties
  <2>2. Len(s) = Len(b) + 1
    BY <1>1, AppendProperties
  <2>3. s[Len(b) + 1] = c
    BY <1>1, AppendProperties
  <2>4. \A i \in 1..Len(b) : s[i] = b[i]
    BY <1>1, AppendProperties
  <2> QED
    BY <2>1, <2>2, <2>3, <2>4
<1>3. Last(s) = c
  BY <1>1, AppendParts
<1> DEFINE y == SubSeq(s, Len(a) + 1, Len(s) - 1)
<1>4. /\ y \in Seq(Z)
      /\ Len(y) = Len(x)
      /\ \A i \in 1..Len(x) : y[i] = s[Len(a) + i]
  <2>1. /\ Len(a) + 1 \in Int /\ Len(s) - 1 \in Int
        /\ \A i \in Len(a) + 1..Len(s) - 1 : s[i] \in Z
    BY <1>1, <1>2, ElementOfSeq
  <2>2. /\ y \in Seq(Z)
        /\ Len(y) = IF Len(a) + 1 <= Len(s) - 1 THEN Len(s) - 1 - (Len(a) + 1) + 1 ELSE 0
        /\ \A i \in 1..Len(s) - 1 - (Len(a) + 1) + 1 : y[i] = s[Len(a) + 1 + i - 1]
    <3> HIDE DEF s
    <3> QED
      BY <2>1, SubSeqProperties
  <2> HIDE DEF y, s
  <2>3. Len(s) - 1 - (Len(a) + 1) + 1 = Len(x) /\ Len(s) - 1 = Len(a) + Len(x)
    BY <1>1, <1>2
  <2>4. Len(y) = Len(x)
    BY <1>1, <2>2, <2>3
  <2>5. \A i \in 1..Len(x) : Len(a) + 1 + i - 1 = Len(a) + i
    BY <1>1
  <2> QED
    BY <2>2, <2>3, <2>4, <2>5
<1> HIDE DEF y, s
<1>5. \A i \in 1..Len(x) : y[i] = x[i]
  <2> TAKE i \in 1..Len(x)
  <2>1. Len(a) + i \in 1..Len(b)
    BY <1>1
  <2> QED
    BY <1>1, <1>2, <1>4, <2>1
<1>6. y = x
  BY <1>4, <1>5
<1>7. Len(s) = Len(a) + Len(x) + 1
  BY <1>1, <1>2
<1>8. \A i \in 1..Len(a) : s[i] = a[i]
  BY <1>1, <1>2
<1> QED
  BY <1>2, <1>3, <1>6, <1>7, <1>8 DEF s, b, y

-----------------------------------------------------------------------------
(* The shapes of the parts.                                                *)
KeywordsIn(W) == {ServerWord, LocationWord, LBrace, RBrace, Semicolon} \subseteq W
AllWords(v) == \A i \in 1..Len(v) : IsWord(v[i])

LEMMA DirectiveShape ==
    ASSUME NEW W, KeywordsIn(W), NEW s
    PROVE  s \in Directives(W) <=>
              \E v \in Seq(W) : v # <<>> /\ AllWords(v) /\ s = Append(v, Semicolon)
<1>1. ASSUME s \in Directives(W)
      PROVE  \E v \in Seq(W) : v # <<>> /\ AllWords(v) /\ s = Append(v, Semicolon)
  <2>1. /\ s \in Seq(W) /\ Len(s) >= 2 /\ Last(s) = Semicolon
        /\ \A t \in ToSet(Front(s)) : IsWord(t)
    BY <1>1 DEF Directives, IsDirective
  <2>2. s # <<>>
    BY <2>1, EmptySeq
  <2>3. /\ Front(s) \in Seq(W) /\ Len(Front(s)) = Len(s) - 1 /\ s = Append(Front(s), Last(s))
    BY <2>1, <2>2, FrontAndLast
  <2> DEFINE v == Front(s)
  <2>4. v \in Seq(W) /\ DOMAIN v = 1..Len(v) /\ Len(v) >= 1
    BY <2>1, <2>3, LenProperties
  <2> HIDE DEF v
  <2>5. v # <<>>
    BY <2>4, EmptySeq
  <2>6. AllWords(v)
    BY <2>1, <2>4 DEF AllWords, ToSet, v
  <2> QED
    BY <2>1, <2>3, <2>4, <2>5, <2>6 DEF v
<1>2. ASSUME NEW v \in Seq(W), v # <<>>, AllWords(v), s = Append(v, Semicolon)
      PROVE  s \in Directives(W)
  <2>1. Semicolon \in W
    BY DEF KeywordsIn
  <2>2. s \in Seq(W) /\ Front(s) = v /\ Last(s) = Semicolon
    BY <1>2, <2>1, AppendParts
  <2>3. Len(s) = Len(v) + 1 /\ Len(v) \in Nat /\ Len(v) # 0 /\ DOMAIN v = 1..Len(v)
    BY <1>2, <2>1, AppendProperties, LenProperties, EmptySeq
  <2>4. \A t \in ToSet(v) : IsWord(t)
    BY <1>2, <2>3 DEF ToSet, AllWords
  <2> QED
    BY <2>2, <2>3, <2>4 DEF Directives, IsDirective
<1> QED
  BY <1>1, <1>2

OpenLocation(w) == <<LocationWord, w, LBrace>>
OpenServer == <<ServerWord, LBrace>>

LEMMA LocationShape ==
    ASSUME NEW W, KeywordsIn(W), NEW s
    PROVE  s \in LocationsOf(W) <=>
              \E w \in W, x \in Stars(W, Directives(W)) :
                 IsWord(w) /\ s = Append(OpenLocation(w) \o x, RBrace)
<1>1. Stars(W, Directives(W)) \in SUBSET Seq(W)
  BY DirectivesAre, StarsGrow
<1>2. ASSUME s \in LocationsOf(W)
      PROVE  \E w \in W, x \in Stars(W, Directives(W)) :
                IsWord(w) /\ s = Append(OpenLocation(w) \o x, RBrace)
  <2> DEFINE x == SubSeq(s, 4, Len(s) - 1)
             a == SubSeq(s, 1, 3)
  <2>1. /\ s \in Seq(W) /\ Len(s) >= 4 /\ s[1] = LocationWord /\ IsWord(s[2]) /\ s[3] = LBrace
        /\ Last(s) = RBrace /\ Star(IsDirective, x)
    BY <1>2, Zenon DEF LocationsOf, IsLocation
  <2>2. Len(s) \in Nat /\ s[2] \in W /\ \A i \in 1..3 : s[i] \in W
    BY <2>1, ElementOfSeq
  <2>3. x \in Seq(W) /\ s = Append(a \o x, Last(s)) /\ a \in Seq(W)
    <3>1. 3 \in Nat /\ Len(s) >= 3 + 1 /\ 3 + 1 = 4
      BY <2>1
    <3>2. /\ SubSeq(s, 3 + 1, Len(s) - 1) \in Seq(W)
          /\ SubSeq(s, 1, 3) \in Seq(W)
          /\ s = Append(SubSeq(s, 1, 3) \o SubSeq(s, 3 + 1, Len(s) - 1), Last(s))
      BY <2>1, <3>1, FrameOf
    <3> QED
      BY <3>1, <3>2
  <2>4. Len(a) = 3 /\ \A i \in 1..3 : a[i] = s[i]
    <3>1. /\ Len(a) = IF 1 <= 3 THEN 3 - 1 + 1 ELSE 0
          /\ \A i \in 1..3 - 1 + 1 : a[i] = s[1 + i - 1]
      BY <2>2, SubSeqProperties
    <3> HIDE DEF a
    <3> QED
      BY <3>1
  <2> HIDE DEF x, a
  <2>5. x \in Stars(W, Directives(W))
    BY <2>1, <2>3, StarOfDirectives
  <2>6. a = OpenLocation(s[2])
    BY <2>1, <2>3, <2>4 DEF OpenLocation
  <2> QED
    BY <2>1, <2>2, <2>3, <2>5, <2>6
<1>3. ASSUME NEW w \in W, NEW x \in Stars(W, Directives(W)), IsWord(w),
             s = Append(OpenLocation(w) \o x, RBrace)
      PROVE  s \in LocationsOf(W)
  <2> DEFINE a == OpenLocation(w)
  <2>1. a \in Seq(W) /\ RBrace \in W /\ x \in Seq(W)
    BY <1>1 DEF OpenLocation, KeywordsIn
  <2>2. Len(a) = 3 /\ a[1] = LocationWord /\ a[2] = w /\ a[3] = LBrace
    BY DEF OpenLocation
  <2> HIDE DEF a
  <2>3. /\ s \in Seq(W) /\ Len(s) = 3 + Len(x) + 1
        /\ SubSeq(s, 3 + 1, Len(s) - 1) = x
        /\ Last(s) = RBrace
        /\ \A i \in 1..3 : s[i] = a[i]
    <3>1. s = Append(a \o x, RBrace)
      BY <1>3 DEF a
    <3>2. /\ s \in Seq(W) /\ Len(s) = Len(a) + Len(x) + 1
          /\ SubSeq(s, Len(a) + 1, Len(s) - 1) = x
          /\ Last(s) = RBrace
          /\ \A i \in 1..Len(a) : s[i] = a[i]
      BY <2>1, <3>1, FrameIs
    <3> QED
      BY <2>2, <3>2
  <2>4. Len(x) \in Nat /\ 3 + 1 = 4
    BY <2>1, LenProperties
  <2>5. Star(IsDirective, x)
    BY <2>1, StarOfDirectives
  <2>6. Star(IsDirective, SubSeq(s, 4, Len(s) - 1))
    <3>1. SubSeq(s, 4, Len(s) - 1) = x
      BY <2>3, <2>4
    <3> QED
      BY <2>5, <3>1, Zenon
  <2>7. Len(s) >= 4 /\ s[1] = LocationWord /\ s[2] = w /\ s[3] = LBrace
    BY <2>2, <2>3, <2>4
  <2> QED
    BY <1>3, <2>3, <2>6, <2>7, Zenon DEF LocationsOf, IsLocation
<1> QED
  BY <1>2, <1>3

LEMMA ServerShape ==
    ASSUME NEW W, KeywordsIn(W), NEW s
    PROVE  s \in Servers(W) <=>
              \E x \in Stars(W, Items(W)) : s = Append(OpenServer \o x, RBrace)
<1>1. Stars(W, Items(W)) \in SUBSET Seq(W)
  BY ItemsAre, StarsGrow
<1>2. ASSUME s \in Servers(W)
      PROVE  \E x \in Stars(W, Items(W)) : s = Append(OpenServer \o x, RBrace)
  <2> DEFINE x == SubSeq(s, 3, Len(s) - 1)
             a == SubSeq(s, 1, 2)
  <2>1. /\ s \in Seq(W) /\ Len(s) >= 3 /\ s[1] = ServerWord /\ s[2] = LBrace
        /\ Last(s) = RBrace /\ Star(IsItem, x)
    BY <1>2, Zenon DEF Servers, IsServer
  <2>2. Len(s) \in Nat /\ \A i \in 1..2 : s[i] \in W
    BY <2>1, ElementOfSeq
  <2>3. x \in Seq(W) /\ s = Append(a \o x, Last(s)) /\ a \in Seq(W)
    <3>1. 2 \in Nat /\ Len(s) >= 2 + 1 /\ 2 + 1 = 3
      BY <2>1
    <3>2. /\ SubSeq(s, 2 + 1, Len(s) - 1) \in Seq(W)
          /\ SubSeq(s, 1, 2) \in Seq(W)
          /\ s = Append(SubSeq(s, 1, 2) \o SubSeq(s, 2 + 1, Len(s) - 1), Last(s))
      BY <2>1, <3>1, FrameOf
    <3> QED
      BY <3>1, <3>2
  <2>4. Len(a) = 2 /\ \A i \in 1..2 : a[i] = s[i]
    <3>1. /\ Len(a) = IF 1 <= 2 THEN 2 - 1 + 1 ELSE 0
          /\ \A i \in 1..2 - 1 + 1 : a[i] = s[1 + i - 1]
      BY <2>2, SubSeqProperties
    <3> HIDE DEF a
    <3> QED
      BY <3>1
  <2> HIDE DEF x, a
  <2>5. x \in Stars(W, Items(W))
    BY <2>1, <2>3, StarOfItems
  <2>6. a = OpenServer
    BY <2>1, <2>3, <2>4 DEF OpenServer
  <2> QED
    BY <2>1, <2>3, <2>5, <2>6
<1>3. ASSUME NEW x \in Stars(W, Items(W)), s = Append(OpenServer \o x, RBrace)
      PROVE  s \in Servers(W)
  <2> DEFINE a == OpenServer
  <2>1. a \in Seq(W) /\ RBrace \in W /\ x \in Seq(W)
    BY <1>1 DEF OpenServer, KeywordsIn
  <2>2. Len(a) = 2 /\ a[1] = ServerWord /\ a[2] = LBrace
    BY DEF OpenServer
  <2> HIDE DEF a
  <2>3. /\ s \in Seq(W) /\ Len(s) = 2 + Len(x) + 1
        /\ SubSeq(s, 2 + 1, Len(s) - 1) = x
        /\ Last(s) = RBrace
        /\ \A i \in 1..2 : s[i] = a[i]
    <3>1. s = Append(a \o x, RBrace)
      BY <1>3 DEF a
    <3>2. /\ s \in Seq(W) /\ Len(s) = Len(a) + Len(x) + 1
          /\ SubSeq(s, Len(a) + 1, Len(s) - 1) = x
          /\ Last(s) = RBrace
          /\ \A i \in 1..Len(a) : s[i] = a[i]
      BY <2>1, <3>1, FrameIs
    <3> QED
      BY <2>2, <3>2
  <2>4. Len(x) \in Nat /\ 2 + 1 = 3
    BY <2>1, LenProperties
  <2>5. Star(IsItem, x)
    BY <2>1, StarOfItems
  <2>6. Star(IsItem, SubSeq(s, 3, Len(s) - 1))
    <3>1. SubSeq(s, 3, Len(s) - 1) = x
      BY <2>3, <2>4
    <3> QED
      BY <2>5, <3>1, Zenon
  <2>7. Len(s) >= 3 /\ s[1] = ServerWord /\ s[2] = LBrace
    BY <2>2, <2>3, <2>4
  <2> QED
    BY <2>3, <2>6, <2>7, Zenon DEF Servers, IsServer
<1> QED
  BY <1>2, <1>3

-----------------------------------------------------------------------------
(* What a token does to the block that is open, and to the words since.    *)
Open(p, level) == p.level = level /\ p.words = <<>>
Locates(words) == words # <<>> /\ Head(words) = LocationWord
Takes(p, t, q) == q.level = p.level /\ q.words = Append(p.words, t)

ConfigMoves(p, t, q) ==
    /\ p.words = <<>> /\ t = ServerWord => Takes(p, t, q)
    /\ p.words # <<>> /\ t = LBrace => Open(q, "server")
    /\ ~(p.words = <<>> /\ t = ServerWord) /\ ~(p.words # <<>> /\ t = LBrace) => q.level = "error"

ServerMoves(p, t, q) ==
    /\ IsWord(t) /\ (Locates(p.words) => Len(p.words) < 2) => Takes(p, t, q)
    /\ IsWord(t) /\ Locates(p.words) /\ ~(Len(p.words) < 2) => q.level = "error"
    /\ t = LBrace /\ Locates(p.words) /\ Len(p.words) = 2 => Open(q, "location")
    /\ t = LBrace /\ ~(Locates(p.words) /\ Len(p.words) = 2) => q.level = "error"
    /\ t = Semicolon /\ p.words # <<>> /\ ~Locates(p.words) => Open(q, "server")
    /\ t = Semicolon /\ ~(p.words # <<>> /\ ~Locates(p.words)) => q.level = "error"
    /\ t = RBrace /\ p.words = <<>> => Open(q, "config")
    /\ t = RBrace /\ p.words # <<>> => q.level = "error"
    /\ ~IsWord(t) /\ t \notin {LBrace, RBrace, Semicolon} => q.level = "error"

LocationMoves(p, t, q) ==
    /\ IsWord(t) => Takes(p, t, q)
    /\ t = Semicolon /\ p.words # <<>> => Open(q, "location")
    /\ t = Semicolon /\ p.words = <<>> => q.level = "error"
    /\ t = RBrace /\ p.words = <<>> => Open(q, "server")
    /\ t = RBrace /\ p.words # <<>> => q.level = "error"
    /\ ~IsWord(t) /\ t \notin {RBrace, Semicolon} => q.level = "error"

LEMMA TokensDiffer ==
    /\ ~IsWord(LBrace) /\ ~IsWord(RBrace) /\ ~IsWord(Semicolon)
    /\ LBrace # RBrace /\ LBrace # Semicolon /\ RBrace # Semicolon
    /\ IsWord(ServerWord) /\ IsWord(LocationWord) /\ ServerWord # LocationWord
<1>1. ~IsWord(LBrace) /\ ~IsWord(RBrace) /\ ~IsWord(Semicolon)
  BY DEF IsWord, LBrace, RBrace, Semicolon, Delimiters
<1>2. LBrace # RBrace /\ LBrace # Semicolon /\ RBrace # Semicolon
  BY DEF LBrace, RBrace, Semicolon
<1>3. IsWord(ServerWord) /\ IsWord(LocationWord) /\ ServerWord # LocationWord
  BY DEF IsWord, ServerWord, LocationWord, Delimiters
<1> QED
  BY <1>1, <1>2, <1>3

LEMMA WordTaken ==
    ASSUME NEW Y, NEW p \in Parses(Y), NEW t
    PROVE  /\ Takes(p, t, Word(p, t)) /\ Fail(p).level = "error"
<1>1. p \in [level : {"config", "server", "location", "error"}, words : Seq(Words(Y)), ast : Trees(Y)]
  BY ParseParts
<1> HIDE DEF Words, Trees
<1> QED
  BY <1>1 DEF Takes, Word, Fail

LEMMA Entered ==
    ASSUME NEW level, NEW tree
    PROVE  Open(Enter(level, tree), level)
BY DEF Open, Enter

LEMMA MovesAre ==
    ASSUME NEW Y, NEW p \in Parses(Y), NEW t
    PROVE  /\ p.level = "config" => ConfigMoves(p, t, ParseToken(p, t))
           /\ p.level = "server" => ServerMoves(p, t, ParseToken(p, t))
           /\ p.level = "location" => LocationMoves(p, t, ParseToken(p, t))
           /\ p.level = "error" => ParseToken(p, t).level = "error"
<1> DEFINE q == ParseToken(p, t)
           W == Word(p, t)
           F == Fail(p)
           n == Len(p.ast)
<1>1. Takes(p, t, W) /\ F.level = "error"
  BY WordTaken
<1> HIDE DEF W, F
<1>2. CASE p.level = "config"
  <2> DEFINE E == Enter("server", Append(p.ast, [directives |-> <<>>, locations |-> <<>>]))
  <2>1. Open(E, "server")
    BY Entered
  <2>2. q = CASE p.words = <<>> /\ t = ServerWord -> W
              [] p.words # <<>> /\ t = LBrace -> E
              [] OTHER -> F
    BY <1>2, Zenon DEF ParseToken, InConfig, W, F
  <2> HIDE DEF E, q
  <2>3. ConfigMoves(p, t, q)
    BY <1>1, <2>1, <2>2 DEF ConfigMoves
  <2> QED
    BY <1>2, <2>3 DEF q
<1>3. CASE p.level = "server"
  <2> DEFINE words == p.words
             L == Enter("location",
                        [p.ast EXCEPT ![n].locations =
                            Append(@, [path |-> p.words[2], directives |-> <<>>])])
             D == Enter("server", [p.ast EXCEPT ![n].directives = Append(@, Directive(p.words))])
             C == Close(p, "config")
  <2>1. Open(L, "location") /\ Open(D, "server") /\ Open(C, "config")
    BY Entered, Zenon DEF Close
  <2>2. q = CASE IsWord(t) /\ (Locates(words) => Len(words) < 2) -> W
              [] t = LBrace /\ Locates(words) /\ Len(words) = 2 -> L
              [] t = Semicolon /\ words # <<>> /\ ~Locates(words) -> D
              [] t = RBrace /\ words = <<>> -> C
              [] OTHER -> F
    BY <1>3, Zenon DEF ParseToken, InServer, W, F, Locates
  <2>3. words = <<>> => ~Locates(words)
    BY DEF Locates
  <2> HIDE DEF L, D, C, q, words
  <2> DEFINE lb == LBrace
             rb == RBrace
             sc == Semicolon
             isword == IsWord(t)
             loc == Locates(words)
             len == Len(words)
  <2>4. lb # rb /\ lb # sc /\ rb # sc /\ (t \in {lb, rb, sc} => ~isword)
    BY TokensDiffer
  <2> HIDE DEF lb, rb, sc, isword, loc, len
  <2>5. q = CASE isword /\ (loc => len < 2) -> W
              [] t = lb /\ loc /\ len = 2 -> L
              [] t = sc /\ words # <<>> /\ ~loc -> D
              [] t = rb /\ words = <<>> -> C
              [] OTHER -> F
    BY <2>2, Zenon DEF lb, rb, sc, isword, loc, len
  <2>6. /\ isword /\ (loc => len < 2) => q = W
        /\ isword /\ loc /\ ~(len < 2) => q = F
        /\ t = lb /\ loc /\ len = 2 => q = L
        /\ t = lb /\ ~(loc /\ len = 2) => q = F
        /\ t = sc /\ words # <<>> /\ ~loc => q = D
        /\ t = sc /\ ~(words # <<>> /\ ~loc) => q = F
        /\ t = rb /\ words = <<>> => q = C
        /\ t = rb /\ words # <<>> => q = F
        /\ ~isword /\ t \notin {lb, rb, sc} => q = F
    BY <2>4, <2>5
  <2>7. ServerMoves(p, t, q)
    BY <1>1, <2>1, <2>6, Zenon DEF ServerMoves, lb, rb, sc, isword, loc, len, words
  <2> QED
    BY <1>3, <2>7 DEF q
<1>4. CASE p.level = "location"
  <2> DEFINE words == p.words
             l == Len(p.ast[n].locations)
             D == Enter("location",
                        [p.ast EXCEPT ![n].locations[l].directives = Append(@, Directive(p.words))])
             C == Close(p, "server")
  <2>1. Open(D, "location") /\ Open(C, "server")
    BY Entered, Zenon DEF Close
  <2>2. q = CASE IsWord(t) -> W
              [] t = Semicolon /\ words # <<>> -> D
              [] t = RBrace /\ words = <<>> -> C
              [] OTHER -> F
    BY <1>4, Zenon DEF ParseToken, InLocation, W, F
  <2> HIDE DEF D, C, q, words
  <2> DEFINE rb == RBrace
             sc == Semicolon
             isword == IsWord(t)
  <2>4. rb # sc /\ (t \in {rb, sc} => ~isword)
    BY TokensDiffer
  <2> HIDE DEF rb, sc, isword
  <2>5. q = CASE isword -> W
              [] t = sc /\ words # <<>> -> D
              [] t = rb /\ words = <<>> -> C
              [] OTHER -> F
    BY <2>2, Zenon DEF rb, sc, isword
  <2>6. /\ isword => q = W
        /\ t = sc /\ words # <<>> => q = D
        /\ t = sc /\ words = <<>> => q = F
        /\ t = rb /\ words = <<>> => q = C
        /\ t = rb /\ words # <<>> => q = F
        /\ ~isword /\ t \notin {rb, sc} => q = F
    BY <2>4, <2>5
  <2>7. LocationMoves(p, t, q)
    BY <1>1, <2>1, <2>6, Zenon DEF LocationMoves, rb, sc, isword, words
  <2> QED
    BY <1>4, <2>7 DEF q
<1>5. CASE p.level = "error"
  BY <1>5 DEF ParseToken
<1> QED
  BY <1>2, <1>3, <1>4, <1>5

(* Parse takes one token after the other.                                  *)
LEMMA ParseAppend ==
    ASSUME NEW Y, NEW u \in Seq(Words(Y)), NEW t \in Words(Y)
    PROVE  /\ Parse(u) \in Parses(Y)
           /\ Parse(Append(u, t)) = ParseToken(Parse(u), t)
<1> DEFINE X == Parses(Y)
           Z == Words(Y)
           op == ParseStep(Y)
<1>1. Append(u, t) \in Seq(Z)
  BY AppendProperties
<1>2. /\ Start \in X /\ op \in [X \X Z -> X] /\ Parse(u) \in X
      /\ Parse(u) = Run(op, Start, u)
      /\ Parse(Append(u, t)) = Run(op, Start, Append(u, t))
  BY <1>1, ParseRuns
<1>3. op[<<Parse(u), t>>] = ParseToken(Parse(u), t)
  BY <1>2 DEF ParseStep
<1> HIDE DEF X, Z, op
<1>4. Appended(op, Start, u, t)
  BY <1>2, RunAppend DEF Z
<1> QED
  BY <1>2, <1>3, <1>4 DEF Appended, X

LEMMA ParseStarts == Open(Parse(<<>>), "config")
<1> DEFINE Y == {}
<1>1. <<>> \in Seq(Words(Y))
  BY EmptySeq
<1>2. Parse(<<>>) = Run(ParseStep(Y), Start, <<>>)
  BY <1>1, ParseRuns
<1>3. Parse(<<>>) = Start
  BY <1>2, RunEmpty
<1> QED
  BY <1>3, Entered DEF Start

LEMMA ThreeMore ==
    ASSUME NEW Z, NEW u \in Seq(Z), NEW a \in Z, NEW b \in Z, NEW c \in Z
    PROVE  /\ u \o <<a, b>> = Append(Append(u, a), b)
           /\ u \o <<a, b, c>> = Append(Append(Append(u, a), b), c)
<1>1. <<a>> \in Seq(Z) /\ <<a, b>> \in Seq(Z) /\ <<a, b>> = Append(<<a>>, b)
      /\ <<a, b, c>> = Append(<<a, b>>, c)
  OBVIOUS
<1>2. u \o <<a>> = Append(u, a)
  BY AppendIsConcat
<1>3. u \o <<a, b>> = Append(Append(u, a), b)
  BY <1>1, <1>2, ConcatAppend
<1>4. u \o <<a, b, c>> = Append(u \o <<a, b>>, c)
  BY <1>1, ConcatAppend
<1> QED
  BY <1>3, <1>4

(* Words are collected.                                                    *)
LEMMA AllWordsAppend ==
    ASSUME NEW Z, NEW v \in Seq(Z), NEW c \in Z
    PROVE  AllWords(Append(v, c)) <=> AllWords(v) /\ IsWord(c)
<1>1. Len(v) \in Nat
  BY LenProperties
<1>2. Len(Append(v, c)) = Len(v) + 1
  BY AppendProperties
<1>3. \A i \in 1..Len(v) : Append(v, c)[i] = v[i]
  BY AppendProperties
<1>4. Append(v, c)[Len(v) + 1] = c
  BY AppendProperties
<1> DEFINE s == Append(v, c)
<1> HIDE DEF s
<1>5. \A i \in 1..Len(s) : i \in 1..Len(v) \/ i = Len(v) + 1
  BY <1>1, <1>2 DEF s
<1>6. \A i \in 1..Len(v) : i \in 1..Len(s)
  BY <1>1, <1>2 DEF s
<1>7. Len(v) + 1 \in 1..Len(s)
  BY <1>1, <1>2 DEF s
<1>8. AllWords(s) <=> AllWords(v) /\ IsWord(c)
  BY <1>3, <1>4, <1>5, <1>6, <1>7, Zenon DEF s, AllWords
<1> QED
  BY <1>8 DEF s

NoLocation(v) == v = <<>> \/ v[1] # LocationWord

LEMMA NoLocationAppend ==
    ASSUME NEW Z, NEW v \in Seq(Z), NEW c \in Z
    PROVE  /\ NoLocation(Append(v, c)) => NoLocation(v)
           /\ NoLocation(v) => ~Locates(v)
           /\ v = <<>> /\ NoLocation(Append(v, c)) => c # LocationWord
<1>1. CASE v = <<>>
  <2>1. Append(v, c)[1] = c /\ Append(v, c) # <<>>
    BY <1>1
  <2> QED
    BY <1>1, <2>1 DEF NoLocation, Locates
<1>2. CASE v # <<>>
  <2>1. Len(v) \in Nat /\ Len(v) # 0
    BY <1>2, LenProperties, EmptySeq
  <2>2. 1 \in 1..Len(v)
    BY <2>1
  <2>3. Append(v, c)[1] = v[1]
    BY <2>2, AppendProperties
  <2>4. Append(v, c) # <<>>
    BY AppendProperties
  <2>5. Head(v) = v[1]
    BY <1>2
  <2> QED
    BY <1>2, <2>3, <2>4, <2>5 DEF NoLocation, Locates
<1> QED
  BY <1>1, <1>2

LEMMA WordsCollect ==
    ASSUME NEW Y, NEW u \in Seq(Words(Y)), NEW level \in {"server", "location"},
           Open(Parse(u), level), NEW v \in Seq(Words(Y)), AllWords(v),
           level = "server" => NoLocation(v)
    PROVE  Parse(u \o v).level = level /\ Parse(u \o v).words = v
<1> DEFINE Z == Words(Y)
           Fits(w) == AllWords(w) /\ (level = "server" => NoLocation(w))
           Good(w) == Parse(u \o w).level = level /\ Parse(u \o w).words = w
           S == {w \in Seq(Z) : Fits(w) => Good(w)}
<1>1. <<>> \in S
  <2>1. u \o <<>> = u /\ <<>> \in Seq(Z)
    BY ConcatEmptySeq, EmptySeq
  <2> QED
    BY <2>1 DEF Open
<1>2. ASSUME NEW w \in Seq(Z), NEW c \in Z, w \in S
      PROVE  Append(w, c) \in S
  <2>1. Append(w, c) \in Seq(Z) /\ u \o w \in Seq(Z)
    BY AppendProperties, ConcatProperties
  <2>2. ASSUME Fits(Append(w, c)) PROVE Good(Append(w, c))
    <3>1. AllWords(w) /\ IsWord(c)
      BY <2>2, AllWordsAppend
    <3>2. level = "server" => NoLocation(w) /\ ~Locates(w)
      BY <2>2, NoLocationAppend
    <3>3. Good(w)
      BY <1>2, <3>1, <3>2
    <3> DEFINE p == Parse(u \o w)
               q == ParseToken(p, c)
    <3>4. p \in Parses(Y) /\ Parse(Append(u \o w, c)) = q
      BY <2>1, ParseAppend
    <3>5. u \o Append(w, c) = Append(u \o w, c)
      BY ConcatAppend
    <3>6. p.level = level /\ p.words = w
      BY <3>3
    <3> HIDE DEF p, q, Z
    <3>7. Takes(p, c, q)
      <4>1. CASE level = "server"
        <5>1. ServerMoves(p, c, q)
          BY <3>4, <3>6, <4>1, MovesAre DEF q
        <5> QED
          BY <3>1, <3>2, <3>6, <4>1, <5>1, Zenon DEF ServerMoves
      <4>2. CASE level = "location"
        <5>1. LocationMoves(p, c, q)
          BY <3>4, <3>6, <4>2, MovesAre DEF q
        <5> QED
          BY <3>1, <5>1 DEF LocationMoves
      <4> QED
        BY <4>1, <4>2
    <3>8. q.level = level /\ q.words = Append(w, c)
      BY <3>6, <3>7 DEF Takes
    <3> QED
      BY <3>4, <3>5, <3>8
  <2> QED
    BY <2>1, <2>2
<1> HIDE DEF S
<1>3. Seq(Z) \subseteq S
  BY <1>1, <1>2, Appending
<1> QED
  BY <1>3 DEF S

-----------------------------------------------------------------------------
(* What follows the grammar is accepted.                                   *)
LEMMA DirectiveForward ==
    ASSUME NEW Y, KeywordsIn(Words(Y)), NEW u \in Seq(Words(Y)), NEW level \in {"server", "location"},
           Open(Parse(u), level), NEW s \in Directives(Words(Y)),
           level = "server" => s[1] # LocationWord
    PROVE  Open(Parse(u \o s), level)
<1> DEFINE Z == Words(Y)
<1>1. PICK v \in Seq(Z) : v # <<>> /\ AllWords(v) /\ s = Append(v, Semicolon)
  BY DirectiveShape
<1>2. Semicolon \in Z
  BY DEF KeywordsIn
<1>3. level = "server" => NoLocation(v)
  <2>1. 1 \in 1..Len(v)
    BY <1>1, LenProperties, EmptySeq
  <2>2. Append(v, Semicolon)[1] = v[1]
    BY <1>2, <2>1, AppendProperties
  <2> QED
    BY <1>1, <2>2 DEF NoLocation
<1> DEFINE p == Parse(u \o v)
           q == ParseToken(p, Semicolon)
<1>4. p.level = level /\ p.words = v
  BY <1>1, <1>3, WordsCollect
<1>5. u \o v \in Seq(Z)
  BY ConcatProperties
<1>6. p \in Parses(Y) /\ Parse(Append(u \o v, Semicolon)) = q
  BY <1>2, <1>5, ParseAppend
<1>7. u \o s = Append(u \o v, Semicolon)
  BY <1>1, <1>2, ConcatAppend
<1> HIDE DEF p, q
<1>8. Open(q, level)
  <2>1. CASE level = "server"
    <3>1. ServerMoves(p, Semicolon, q)
      BY <1>4, <1>6, <2>1, MovesAre DEF q
    <3>2. ~Locates(v)
      BY <1>2, <1>3, <2>1, NoLocationAppend
    <3> QED
      BY <1>1, <1>4, <2>1, <3>1, <3>2, Zenon DEF ServerMoves
  <2>2. CASE level = "location"
    <3>1. LocationMoves(p, Semicolon, q)
      BY <1>4, <1>6, <2>2, MovesAre DEF q
    <3> QED
      BY <1>1, <1>4, <2>2, <3>1, Zenon DEF LocationMoves
  <2> QED
    BY <2>1, <2>2
<1> QED
  BY <1>6, <1>7, <1>8

LEMMA DirectivesForward ==
    ASSUME NEW Y, KeywordsIn(Words(Y)), NEW u \in Seq(Words(Y)), Open(Parse(u), "location"),
           NEW x \in Stars(Words(Y), Directives(Words(Y)))
    PROVE  Open(Parse(u \o x), "location")
<1> DEFINE Z == Words(Y)
           D == Directives(Z)
           T == {y \in Seq(Z) : Open(Parse(u \o y), "location")}
<1>1. D \in SUBSET Seq(Z)
  BY DirectivesAre
<1>2. <<>> \in T
  <2>1. u \o <<>> = u /\ <<>> \in Seq(Z)
    BY ConcatEmptySeq, EmptySeq
  <2> QED
    BY <2>1
<1>3. ASSUME NEW a \in T, NEW b \in D PROVE a \o b \in T
  <2>1. a \in Seq(Z) /\ b \in Seq(Z) /\ a \o b \in Seq(Z) /\ u \o a \in Seq(Z)
    BY <1>1, ConcatProperties
  <2>2. Open(Parse((u \o a) \o b), "location")
    BY <2>1, DirectiveForward
  <2>3. (u \o a) \o b = u \o (a \o b)
    BY <2>1, Grouping DEF Grouped
  <2> QED
    BY <2>1, <2>2, <2>3
<1>4. Grows(Z, D, T)
  BY <1>2, <1>3 DEF Grows
<1>5. T \in SUBSET Seq(Z)
  OBVIOUS
<1> HIDE DEF T
<1>6. x \in T
  BY <1>4, <1>5, StarsIn
<1> QED
  BY <1>6 DEF T

LEMMA OneWord ==
    ASSUME NEW Z, NEW a \in Z, NEW b \in Z
    PROVE  /\ Append(<<>>, a) = <<a>> /\ Append(<<a>>, b) = <<a, b>>
           /\ <<a>> # <<>> /\ Head(<<a>>) = a /\ Len(<<a>>) = 1
           /\ <<a, b>> # <<>> /\ Head(<<a, b>>) = a /\ Len(<<a, b>>) = 2
           /\ <<a, b>>[2] = b
<1>1. Append(<<>>, a) = <<a>> /\ Append(<<a>>, b) = <<a, b>>
  <2>1. <<>> \in Seq(Z) /\ <<a>> \in Seq(Z)
    OBVIOUS
  <2>2. Append(<<>>, a) = <<a>>
    BY <2>1, AppendIsConcat, ConcatEmptySeq
  <2>3. <<a, b>> \in Seq(Z)
    OBVIOUS
  <2>4. <<>> \o <<a, b>> = Append(Append(<<>>, a), b)
    BY <2>1, ThreeMore
  <2>5. <<>> \o <<a, b>> = <<a, b>>
    BY <2>3, ConcatEmptySeq
  <2> QED
    BY <2>2, <2>4, <2>5
<1>2. Len(<<a>>) = 1 /\ Len(<<a, b>>) = 2
  OBVIOUS
<1>3. <<a>> # <<>> /\ <<a, b>> # <<>>
  OBVIOUS
<1>4. Head(<<a>>) = a /\ Head(<<a, b>>) = a
  OBVIOUS
<1>5. <<a, b>>[2] = b
  OBVIOUS
<1> QED
  BY <1>1, <1>2, <1>3, <1>4, <1>5

LEMMA LocationOpened ==
    ASSUME NEW Y, KeywordsIn(Words(Y)), NEW u \in Seq(Words(Y)), Open(Parse(u), "server"),
           NEW w \in Words(Y), IsWord(w)
    PROVE  Open(Parse(u \o OpenLocation(w)), "location")
<1> DEFINE Z == Words(Y)
           a == Append(u, LocationWord)
           b == Append(a, w)
           c == Append(b, LBrace)
           p == Parse(u)
           q == Parse(a)
           r == Parse(b)
           s == Parse(c)
<1>1. LocationWord \in Z /\ LBrace \in Z
  BY DEF KeywordsIn
<1>2. a \in Seq(Z) /\ b \in Seq(Z) /\ c \in Seq(Z)
  <2>1. a \in Seq(Z)
    BY <1>1, AppendProperties
  <2>2. b \in Seq(Z)
    BY <2>1, AppendProperties
  <2> QED
    BY <1>1, <2>1, <2>2, AppendProperties
<1>3. u \o OpenLocation(w) = c
  BY <1>1, ThreeMore DEF OpenLocation
<1>4. /\ p \in Parses(Y) /\ q \in Parses(Y) /\ r \in Parses(Y)
      /\ q = ParseToken(p, LocationWord) /\ r = ParseToken(q, w) /\ s = ParseToken(r, LBrace)
  <2>1. p \in Parses(Y) /\ q = ParseToken(p, LocationWord)
    BY <1>1, ParseAppend
  <2>2. q \in Parses(Y) /\ r = ParseToken(q, w)
    <3> HIDE DEF a
    <3> QED
      BY <1>2, ParseAppend
  <2>3. r \in Parses(Y) /\ s = ParseToken(r, LBrace)
    <3> HIDE DEF b
    <3> QED
      BY <1>1, <1>2, ParseAppend
  <2> QED
    BY <2>1, <2>2, <2>3
<1>5. p.level = "server" /\ p.words = <<>>
  BY DEF Open
<1> HIDE DEF p, q, r, s, a, b, c
<1>6. q.level = "server" /\ q.words = <<LocationWord>>
  <2>1. ServerMoves(p, LocationWord, q)
    BY <1>4, <1>5, MovesAre
  <2>2. ~Locates(p.words)
    BY <1>5 DEF Locates
  <2>3. Takes(p, LocationWord, q)
    BY <2>1, <2>2, TokensDiffer, Zenon DEF ServerMoves
  <2> QED
    BY <1>1, <1>5, <2>3, OneWord DEF Takes
<1>7. r.level = "server" /\ r.words = <<LocationWord, w>>
  <2>1. ServerMoves(q, w, r)
    BY <1>4, <1>6, MovesAre
  <2>2. Len(q.words) < 2
    BY <1>1, <1>6, OneWord
  <2>3. Takes(q, w, r)
    BY <2>1, <2>2, Zenon DEF ServerMoves
  <2> QED
    BY <1>1, <1>6, <2>3, OneWord DEF Takes
<1>8. Open(s, "location")
  <2>1. ServerMoves(r, LBrace, s)
    BY <1>4, <1>7, MovesAre
  <2>2. Locates(r.words) /\ Len(r.words) = 2
    BY <1>1, <1>7, OneWord DEF Locates
  <2> QED
    BY <2>1, <2>2, Zenon DEF ServerMoves
<1> QED
  BY <1>3, <1>8 DEF s

LEMMA ServerOpened ==
    ASSUME NEW Y, KeywordsIn(Words(Y)), NEW u \in Seq(Words(Y)), Open(Parse(u), "config")
    PROVE  Open(Parse(u \o OpenServer), "server")
<1> DEFINE Z == Words(Y)
           a == Append(u, ServerWord)
           b == Append(a, LBrace)
           p == Parse(u)
           q == Parse(a)
           r == Parse(b)
<1>1. ServerWord \in Z /\ LBrace \in Z
  BY DEF KeywordsIn
<1>2. a \in Seq(Z)
  BY <1>1, AppendProperties
<1>3. u \o OpenServer = b
  BY <1>1, ThreeMore DEF OpenServer
<1>4. /\ p \in Parses(Y) /\ q \in Parses(Y)
      /\ q = ParseToken(p, ServerWord) /\ r = ParseToken(q, LBrace)
  <2>1. p \in Parses(Y) /\ q = ParseToken(p, ServerWord)
    BY <1>1, ParseAppend
  <2>2. q \in Parses(Y) /\ r = ParseToken(q, LBrace)
    <3> HIDE DEF a
    <3> QED
      BY <1>1, <1>2, ParseAppend
  <2> QED
    BY <2>1, <2>2
<1>5. p.level = "config" /\ p.words = <<>>
  BY DEF Open
<1> HIDE DEF p, q, r, a, b
<1>6. q.level = "config" /\ q.words = <<ServerWord>>
  <2>1. ConfigMoves(p, ServerWord, q)
    BY <1>4, <1>5, MovesAre
  <2>2. Takes(p, ServerWord, q)
    BY <1>5, <2>1, Zenon DEF ConfigMoves
  <2> QED
    BY <1>1, <1>5, <2>2, OneWord DEF Takes
<1>7. Open(r, "server")
  <2>1. ConfigMoves(q, LBrace, r)
    BY <1>4, <1>6, MovesAre
  <2>2. q.words # <<>>
    BY <1>1, <1>6, OneWord
  <2> QED
    BY <2>1, <2>2, Zenon DEF ConfigMoves
<1> QED
  BY <1>3, <1>7 DEF r

(* A brace ends what is open.                                              *)
LEMMA BraceCloses ==
    ASSUME NEW Y, KeywordsIn(Words(Y)), NEW u \in Seq(Words(Y))
    PROVE  /\ Open(Parse(u), "location") => Open(Parse(Append(u, RBrace)), "server")
           /\ Open(Parse(u), "server") => Open(Parse(Append(u, RBrace)), "config")
<1> DEFINE p == Parse(u)
           q == Parse(Append(u, RBrace))
<1>1. RBrace \in Words(Y)
  BY DEF KeywordsIn
<1>2. p \in Parses(Y) /\ q = ParseToken(p, RBrace)
  BY <1>1, ParseAppend
<1> HIDE DEF p, q
<1>3. ASSUME Open(p, "location") PROVE Open(q, "server")
  <2>1. LocationMoves(p, RBrace, q)
    BY <1>2, <1>3, MovesAre DEF Open
  <2>2. p.words = <<>>
    BY <1>3 DEF Open
  <2> QED
    BY <2>1, <2>2, Zenon DEF LocationMoves
<1>4. ASSUME Open(p, "server") PROVE Open(q, "config")
  <2>1. ServerMoves(p, RBrace, q)
    BY <1>2, <1>4, MovesAre DEF Open
  <2>2. p.words = <<>>
    BY <1>4 DEF Open
  <2> QED
    BY <2>1, <2>2, Zenon DEF ServerMoves
<1> QED
  BY <1>3, <1>4 DEF p, q

LEMMA FrameConcat ==
    ASSUME NEW Z, NEW u \in Seq(Z), NEW a \in Seq(Z), NEW x \in Seq(Z), NEW c \in Z
    PROVE  /\ u \o a \in Seq(Z) /\ (u \o a) \o x \in Seq(Z)
           /\ u \o Append(a \o x, c) = Append((u \o a) \o x, c)
<1>1. a \o x \in Seq(Z) /\ u \o a \in Seq(Z)
  BY ConcatProperties
<1>2. (u \o a) \o x \in Seq(Z)
  BY <1>1, ConcatProperties
<1>3. u \o Append(a \o x, c) = Append(u \o (a \o x), c)
  BY <1>1, ConcatAppend
<1>4. (u \o a) \o x = u \o (a \o x)
  BY Grouping DEF Grouped
<1> QED
  BY <1>1, <1>2, <1>3, <1>4

LEMMA ItemForward ==
    ASSUME NEW Y, KeywordsIn(Words(Y)), NEW u \in Seq(Words(Y)), Open(Parse(u), "server"),
           NEW s \in Items(Words(Y))
    PROVE  Open(Parse(u \o s), "server")
<1> DEFINE Z == Words(Y)
<1>1. s \in Seq(Z) /\ IsItem(s)
  BY DEF Items
<1>2. CASE IsLocation(s)
  <2>1. s \in LocationsOf(Z)
    BY <1>1, <1>2 DEF LocationsOf
  <2>2. PICK w \in Z, x \in Stars(Z, Directives(Z)) :
            IsWord(w) /\ s = Append(OpenLocation(w) \o x, RBrace)
    BY <2>1, LocationShape
  <2> DEFINE a == OpenLocation(w)
  <2>3. a \in Seq(Z) /\ RBrace \in Z
    BY DEF OpenLocation, KeywordsIn
  <2>4. x \in Seq(Z)
    BY DirectivesAre, StarsGrow
  <2>5. Open(Parse(u \o a), "location")
    BY <2>2, LocationOpened
  <2>6. s = Append(a \o x, RBrace)
    BY <2>2
  <2> HIDE DEF a
  <2>7. u \o a \in Seq(Z) /\ (u \o a) \o x \in Seq(Z) /\ u \o s = Append((u \o a) \o x, RBrace)
    BY <2>3, <2>4, <2>6, FrameConcat
  <2>8. Open(Parse((u \o a) \o x), "location")
    BY <2>5, <2>7, DirectivesForward
  <2>9. Open(Parse(Append((u \o a) \o x, RBrace)), "server")
    BY <2>7, <2>8, BraceCloses
  <2> QED
    BY <2>7, <2>9
<1>3. CASE s[1] # LocationWord /\ IsDirective(s)
  <2>1. s \in Directives(Z)
    BY <1>1, <1>3 DEF Directives
  <2> QED
    BY <1>3, <2>1, DirectiveForward
<1> QED
  BY <1>1, <1>2, <1>3 DEF IsItem

LEMMA ItemsForward ==
    ASSUME NEW Y, KeywordsIn(Words(Y)), NEW u \in Seq(Words(Y)), Open(Parse(u), "server"),
           NEW x \in Stars(Words(Y), Items(Words(Y)))
    PROVE  Open(Parse(u \o x), "server")
<1> DEFINE Z == Words(Y)
           D == Items(Z)
           T == {y \in Seq(Z) : Open(Parse(u \o y), "server")}
<1>1. D \in SUBSET Seq(Z)
  BY ItemsAre
<1>2. <<>> \in T
  <2>1. u \o <<>> = u /\ <<>> \in Seq(Z)
    BY ConcatEmptySeq, EmptySeq
  <2> QED
    BY <2>1
<1>3. ASSUME NEW a \in T, NEW b \in D PROVE a \o b \in T
  <2>1. a \in Seq(Z) /\ b \in Seq(Z) /\ a \o b \in Seq(Z) /\ u \o a \in Seq(Z)
    BY <1>1, ConcatProperties
  <2>2. Open(Parse((u \o a) \o b), "server")
    BY <2>1, ItemForward
  <2>3. (u \o a) \o b = u \o (a \o b)
    BY <2>1, Grouping DEF Grouped
  <2> QED
    BY <2>1, <2>2, <2>3
<1>4. Grows(Z, D, T)
  BY <1>2, <1>3 DEF Grows
<1>5. T \in SUBSET Seq(Z)
  OBVIOUS
<1> HIDE DEF T
<1>6. x \in T
  BY <1>4, <1>5, StarsIn
<1> QED
  BY <1>6 DEF T

LEMMA ServerForward ==
    ASSUME NEW Y, KeywordsIn(Words(Y)), NEW u \in Seq(Words(Y)), Open(Parse(u), "config"),
           NEW s \in Servers(Words(Y))
    PROVE  Open(Parse(u \o s), "config")
<1> DEFINE Z == Words(Y)
           a == OpenServer
<1>1. PICK x \in Stars(Z, Items(Z)) : s = Append(a \o x, RBrace)
  BY ServerShape
<1>2. a \in Seq(Z) /\ RBrace \in Z
  BY DEF OpenServer, KeywordsIn
<1>3. x \in Seq(Z)
  BY ItemsAre, StarsGrow
<1>4. Open(Parse(u \o a), "server")
  BY ServerOpened
<1> HIDE DEF a
<1>5. u \o a \in Seq(Z) /\ (u \o a) \o x \in Seq(Z) /\ u \o s = Append((u \o a) \o x, RBrace)
  BY <1>1, <1>2, <1>3, FrameConcat
<1>6. Open(Parse((u \o a) \o x), "server")
  BY <1>4, <1>5, ItemsForward
<1>7. Open(Parse(Append((u \o a) \o x, RBrace)), "config")
  BY <1>5, <1>6, BraceCloses
<1> QED
  BY <1>5, <1>7

LEMMA ConfigForward ==
    ASSUME NEW Y, KeywordsIn(Words(Y)), NEW ts \in Stars(Words(Y), Servers(Words(Y)))
    PROVE  Open(Parse(ts), "config")
<1> DEFINE Z == Words(Y)
           D == Servers(Z)
           T == {y \in Seq(Z) : Open(Parse(y), "config")}
<1>1. D \in SUBSET Seq(Z)
  BY ServersAre
<1>2. <<>> \in T
  BY EmptySeq, ParseStarts
<1>3. ASSUME NEW a \in T, NEW b \in D PROVE a \o b \in T
  <2>1. a \in Seq(Z) /\ b \in Seq(Z) /\ a \o b \in Seq(Z)
    BY <1>1, ConcatProperties
  <2>2. Open(Parse(a \o b), "config")
    BY <2>1, ServerForward
  <2> QED
    BY <2>1, <2>2
<1>4. Grows(Z, D, T)
  BY <1>2, <1>3 DEF Grows
<1>5. T \in SUBSET Seq(Z)
  OBVIOUS
<1> HIDE DEF T
<1>6. ts \in T
  BY <1>4, <1>5, StarsIn
<1> QED
  BY <1>6 DEF T

-----------------------------------------------------------------------------
(* What is accepted follows the grammar.  Before every token, those that   *)
(* were read are servers, then perhaps a server that is not closed, then   *)
(* perhaps a location that is not closed, then words.                      *)
Top(W) == Stars(W, Servers(W))
InsideServer(W) ==
    {s \in Seq(W) : \E u \in Top(W), x \in Stars(W, Items(W)) : s = (u \o OpenServer) \o x}
InsideLocation(W) ==
    {s \in Seq(W) : \E b \in InsideServer(W), w \in W, x \in Stars(W, Directives(W)) :
                       IsWord(w) /\ s = (b \o OpenLocation(w)) \o x}

LEMMA ServerBegins ==
    ASSUME NEW W, KeywordsIn(W), NEW u \in Top(W)
    PROVE  /\ u \in Seq(W)
           /\ u \o OpenServer \in InsideServer(W)
<1>1. u \in Seq(W)
  BY ServersAre, StarsGrow DEF Top
<1>2. OpenServer \in Seq(W)
  BY DEF OpenServer, KeywordsIn
<1>3. <<>> \in Stars(W, Items(W))
  BY ItemsAre, StarsGrow
<1> DEFINE a == OpenServer
<1> HIDE DEF a
<1>4. u \o a \in Seq(W)
  BY <1>1, <1>2, ConcatProperties DEF a
<1>5. (u \o a) \o <<>> = u \o a
  BY <1>4, ConcatEmptySeq
<1>6. u \o a \in InsideServer(W)
  BY <1>3, <1>4, <1>5, Zenon DEF InsideServer, a
<1> QED
  BY <1>1, <1>6 DEF a

LEMMA ServerGoesOn ==
    ASSUME NEW W, KeywordsIn(W), NEW b \in InsideServer(W)
    PROVE  /\ b \in Seq(W)
           /\ \A d \in Items(W) : b \o d \in InsideServer(W)
           /\ Append(b, RBrace) \in Top(W)
<1> DEFINE a == OpenServer
           S == Stars(W, Items(W))
<1>1. PICK u \in Top(W), x \in S : b = (u \o a) \o x
  BY Zenon DEF InsideServer
<1>2. a \in Seq(W) /\ RBrace \in W
  BY DEF OpenServer, KeywordsIn
<1>3. x \in Seq(W) /\ \A d \in Items(W) : d \in Seq(W) /\ x \o d \in S
  BY ItemsAre, StarsGrow
<1>4. u \in Seq(W) /\ Top(W) = Stars(W, Servers(W))
  BY ServerBegins DEF Top
<1>5. b \in Seq(W)
  BY Zenon DEF InsideServer
<1>6. ASSUME NEW d \in Items(W) PROVE b \o d \in InsideServer(W)
  <2> HIDE DEF a
  <2>1. u \o a \in Seq(W)
    BY <1>2, <1>4, ConcatProperties
  <2>2. d \in Seq(W) /\ x \o d \in S
    BY <1>3
  <2>3. b \o d \in Seq(W)
    BY <1>5, <2>2, ConcatProperties
  <2>4. Grouped(u \o a, x, d)
    BY <1>3, <2>1, <2>2, Grouping
  <2>5. b \o d = (u \o a) \o (x \o d)
    BY <1>1, <2>4 DEF Grouped
  <2> QED
    BY <2>2, <2>3, <2>5, Zenon DEF InsideServer, a
<1>7. Append(b, RBrace) \in Top(W)
  <2> DEFINE s == Append(a \o x, RBrace)
  <2>1. s \in Servers(W)
    BY ServerShape
  <2> HIDE DEF a
  <2>2. u \o s = Append((u \o a) \o x, RBrace)
    BY <1>2, <1>3, <1>4, FrameConcat
  <2> HIDE DEF s
  <2>3. \A c \in Stars(W, Servers(W)) : \A d \in Servers(W) : c \o d \in Stars(W, Servers(W))
    BY ServersAre, StarsGrow
  <2>4. u \o s \in Stars(W, Servers(W))
    BY <1>4, <2>1, <2>3, Zenon
  <2> QED
    BY <1>1, <1>4, <2>2, <2>4
<1> QED
  BY <1>5, <1>6, <1>7

LEMMA LocationBegins ==
    ASSUME NEW W, KeywordsIn(W), NEW b \in InsideServer(W), NEW w \in W, IsWord(w)
    PROVE  b \o OpenLocation(w) \in InsideLocation(W)
<1> DEFINE a == OpenLocation(w)
<1>1. b \in Seq(W)
  BY ServerGoesOn
<1>2. a \in Seq(W)
  BY DEF OpenLocation, KeywordsIn
<1>3. <<>> \in Stars(W, Directives(W))
  BY DirectivesAre, StarsGrow
<1> HIDE DEF a
<1>4. b \o a \in Seq(W)
  BY <1>1, <1>2, ConcatProperties
<1>5. (b \o a) \o <<>> = b \o a
  BY <1>4, ConcatEmptySeq
<1>6. b \o a \in InsideLocation(W)
  BY <1>3, <1>4, <1>5, Zenon DEF InsideLocation, a
<1> QED
  BY <1>6 DEF a

LEMMA LocationGoesOn ==
    ASSUME NEW W, KeywordsIn(W), NEW l \in InsideLocation(W)
    PROVE  /\ l \in Seq(W)
           /\ \A d \in Directives(W) : l \o d \in InsideLocation(W)
           /\ Append(l, RBrace) \in InsideServer(W)
<1> DEFINE S == Stars(W, Directives(W))
<1>1. PICK b \in InsideServer(W), w \in W, x \in S :
          IsWord(w) /\ l = (b \o OpenLocation(w)) \o x
  BY Zenon DEF InsideLocation
<1> DEFINE a == OpenLocation(w)
<1>2. a \in Seq(W) /\ RBrace \in W
  BY DEF OpenLocation, KeywordsIn
<1>3. x \in Seq(W) /\ \A d \in Directives(W) : d \in Seq(W) /\ x \o d \in S
  BY DirectivesAre, StarsGrow
<1>4. b \in Seq(W)
  BY ServerGoesOn
<1>5. l \in Seq(W)
  BY Zenon DEF InsideLocation
<1>6. ASSUME NEW d \in Directives(W) PROVE l \o d \in InsideLocation(W)
  <2> HIDE DEF a
  <2>1. b \o a \in Seq(W)
    BY <1>2, <1>4, ConcatProperties
  <2>2. d \in Seq(W) /\ x \o d \in S
    BY <1>3
  <2>3. l \o d \in Seq(W)
    BY <1>5, <2>2, ConcatProperties
  <2>4. Grouped(b \o a, x, d)
    BY <1>3, <2>1, <2>2, Grouping
  <2>5. l \o d = (b \o a) \o (x \o d)
    BY <1>1, <2>4 DEF a, Grouped
  <2> QED
    BY <1>1, <2>2, <2>3, <2>5, Zenon DEF InsideLocation, a
<1>7. Append(l, RBrace) \in InsideServer(W)
  <2> DEFINE s == Append(a \o x, RBrace)
  <2>1. s \in LocationsOf(W)
    BY <1>1, LocationShape
  <2>2. s # <<>>
    <3> HIDE DEF a
    <3> QED
      BY <1>2, <1>3, ConcatProperties, AppendProperties
  <2>3. s \in Items(W)
    BY <2>1, <2>2, Zenon DEF Items, LocationsOf, IsItem
  <2>4. l = (b \o a) \o x
    BY <1>1
  <2> HIDE DEF a
  <2>5. b \o s = Append((b \o a) \o x, RBrace)
    BY <1>2, <1>3, <1>4, FrameConcat
  <2> HIDE DEF s
  <2>6. b \o s \in InsideServer(W)
    BY <2>3, ServerGoesOn
  <2> QED
    BY <2>4, <2>5, <2>6
<1> QED
  BY <1>5, <1>6, <1>7

ConfigReads(W, s, p) ==
    \/ p.words = <<>> /\ s \in Top(W)
    \/ p.words = <<ServerWord>> /\ \E u \in Top(W) : s = Append(u, ServerWord)
ServerReads(W, s, p) ==
    /\ AllWords(p.words) /\ (Locates(p.words) => Len(p.words) <= 2)
    /\ \E b \in InsideServer(W) : s = b \o p.words
LocationReads(W, s, p) ==
    AllWords(p.words) /\ \E b \in InsideLocation(W) : s = b \o p.words

Reads(W, s, p) ==
    /\ p.level = "config" => ConfigReads(W, s, p)
    /\ p.level = "server" => ServerReads(W, s, p)
    /\ p.level = "location" => LocationReads(W, s, p)

LEMMA NoWords == AllWords(<<>>) /\ ~Locates(<<>>)
BY DEF AllWords, Locates

(* A block has just been opened, or a part of it was closed.               *)
LEMMA OpenReads ==
    ASSUME NEW W, KeywordsIn(W), NEW s \in Seq(W), NEW q
    PROVE  /\ Open(q, "config") /\ s \in Top(W) => Reads(W, s, q)
           /\ Open(q, "server") /\ s \in InsideServer(W) => Reads(W, s, q)
           /\ Open(q, "location") /\ s \in InsideLocation(W) => Reads(W, s, q)
           /\ q.level = "error" => Reads(W, s, q)
<1>1. s \o <<>> = s
  BY ConcatEmptySeq
<1>2. ASSUME Open(q, "config"), s \in Top(W) PROVE Reads(W, s, q)
  <2>1. q.level # "server" /\ q.level # "location" /\ q.words = <<>>
    BY <1>2 DEF Open
  <2> QED
    BY <1>2, <2>1, Zenon DEF Reads, ConfigReads
<1>3. ASSUME Open(q, "server"), s \in InsideServer(W) PROVE Reads(W, s, q)
  <2>1. q.level # "config" /\ q.level # "location" /\ q.words = <<>>
    BY <1>3 DEF Open
  <2> QED
    BY <1>1, <1>3, <2>1, NoWords, Zenon DEF Reads, ServerReads
<1>4. ASSUME Open(q, "location"), s \in InsideLocation(W) PROVE Reads(W, s, q)
  <2>1. q.level # "config" /\ q.level # "server" /\ q.words = <<>>
    BY <1>4 DEF Open
  <2> QED
    BY <1>1, <1>4, <2>1, NoWords, Zenon DEF Reads, LocationReads
<1>5. ASSUME q.level = "error" PROVE Reads(W, s, q)
  <2>1. q.level # "config" /\ q.level # "server" /\ q.level # "location"
    BY <1>5
  <2> QED
    BY <2>1, Zenon DEF Reads
<1> QED
  BY <1>2, <1>3, <1>4, <1>5

LEMMA ConfigReadsOn ==
    ASSUME NEW W, KeywordsIn(W), NEW s \in Seq(W), NEW t \in W, NEW p, NEW q,
           p.level = "config", ConfigReads(W, s, p), ConfigMoves(p, t, q)
    PROVE  Reads(W, Append(s, t), q)
<1> DEFINE z == Append(s, t)
<1>1. z \in Seq(W)
  BY AppendProperties
<1>2. CASE p.words = <<>> /\ t = ServerWord
  <2>1. Takes(p, t, q)
    BY <1>2, Zenon DEF ConfigMoves
  <2>2. q.level = "config" /\ q.words = <<ServerWord>>
    BY <1>2, <2>1, OneWord DEF Takes
  <2>3. q.level # "server" /\ q.level # "location"
    BY <2>2
  <2>4. <<ServerWord>> # <<>>
    BY <1>2, OneWord
  <2>5. s \in Top(W)
    BY <1>2, <2>4, Zenon DEF ConfigReads
  <2> QED
    BY <1>2, <2>2, <2>3, <2>5, Zenon DEF Reads, ConfigReads
<1>3. CASE p.words # <<>> /\ t = LBrace
  <2>1. Open(q, "server")
    BY <1>3, Zenon DEF ConfigMoves
  <2>2. PICK u \in Top(W) : s = Append(u, ServerWord)
    BY <1>3, Zenon DEF ConfigReads
  <2>3. u \in Seq(W) /\ u \o OpenServer \in InsideServer(W)
    BY ServerBegins
  <2>4. ServerWord \in W /\ LBrace \in W
    BY DEF KeywordsIn
  <2>5. z = u \o OpenServer
    BY <1>3, <2>2, <2>3, <2>4, ThreeMore DEF OpenServer
  <2> QED
    BY <1>1, <2>1, <2>3, <2>5, OpenReads
<1>4. CASE ~(p.words = <<>> /\ t = ServerWord) /\ ~(p.words # <<>> /\ t = LBrace)
  <2>1. q.level = "error"
    BY <1>4, Zenon DEF ConfigMoves
  <2> QED
    BY <1>1, <2>1, OpenReads
<1> QED
  BY <1>2, <1>3, <1>4

(* A token is a word or one of the delimiters, or it is refused.           *)
LEMMA LocationReadsOn ==
    ASSUME NEW W, KeywordsIn(W), NEW s \in Seq(W), NEW t \in W, NEW p, NEW q,
           p.words \in Seq(W), p.level = "location", LocationReads(W, s, p), LocationMoves(p, t, q)
    PROVE  Reads(W, Append(s, t), q)
<1> DEFINE z == Append(s, t)
           v == p.words
<1>1. z \in Seq(W)
  BY AppendProperties
<1>2. PICK b \in InsideLocation(W) : s = b \o v
  BY Zenon DEF LocationReads
<1>3. /\ b \in Seq(W)
      /\ \A d \in Directives(W) : b \o d \in InsideLocation(W)
      /\ Append(b, RBrace) \in InsideServer(W)
  BY LocationGoesOn
<1>4. z = b \o Append(v, t)
  <2>1. v \in Seq(W)
    OBVIOUS
  <2> HIDE DEF v
  <2>2. b \o Append(v, t) = Append(b \o v, t)
    BY <1>3, <2>1, ConcatAppend
  <2> QED
    BY <1>2, <2>2
<1>5. AllWords(v)
  BY Zenon DEF LocationReads
<1> HIDE DEF z
<1>6. CASE IsWord(t)
  <2>1. Takes(p, t, q)
    BY <1>6, Zenon DEF LocationMoves
  <2>2. q.level = "location" /\ q.words = Append(v, t)
    BY <2>1, Zenon DEF Takes
  <2>3. q.level # "config" /\ q.level # "server"
    BY <2>2
  <2>4. AllWords(Append(v, t))
    BY <1>5, <1>6, AllWordsAppend
  <2> QED
    BY <1>4, <2>2, <2>3, <2>4, Zenon DEF Reads, LocationReads, z
<1>7. CASE t = Semicolon /\ v # <<>>
  <2>1. Open(q, "location")
    BY <1>7, Zenon DEF LocationMoves
  <2>2. Append(v, t) \in Directives(W)
    BY <1>5, <1>7, DirectiveShape
  <2>3. z \in InsideLocation(W)
    BY <1>3, <1>4, <2>2, Zenon
  <2> QED
    BY <1>1, <2>1, <2>3, OpenReads DEF z
<1>8. CASE t = RBrace /\ v = <<>>
  <2>1. Open(q, "server")
    BY <1>8, Zenon DEF LocationMoves
  <2>2. s = b
    BY <1>2, <1>3, <1>8, ConcatEmptySeq
  <2>3. z \in InsideServer(W)
    BY <1>3, <1>8, <2>2, Zenon DEF z
  <2> QED
    BY <1>1, <2>1, <2>3, OpenReads DEF z
<1>9. CASE ~IsWord(t) /\ ~(t = Semicolon /\ v # <<>>) /\ ~(t = RBrace /\ v = <<>>)
  <2>1. q.level = "error"
    <3>1. CASE t = Semicolon
      BY <1>9, <3>1, Zenon DEF LocationMoves
    <3>2. CASE t = RBrace
      BY <1>9, <3>2, Zenon DEF LocationMoves
    <3>3. CASE t \notin {RBrace, Semicolon}
      BY <1>9, <3>3, Zenon DEF LocationMoves
    <3> QED
      BY <3>1, <3>2, <3>3
  <2> QED
    BY <1>1, <2>1, OpenReads DEF z
<1> QED
  BY <1>6, <1>7, <1>8, <1>9 DEF z

(* What stands before a semicolon in a server is an item of it.            *)
LEMMA ItemEnds ==
    ASSUME NEW W, KeywordsIn(W), NEW v \in Seq(W), v # <<>>, AllWords(v), ~Locates(v)
    PROVE  Append(v, Semicolon) \in Items(W)
<1> DEFINE d == Append(v, Semicolon)
<1>1. d \in Directives(W)
  BY DirectiveShape
<1>2. Semicolon \in W
  BY DEF KeywordsIn
<1>3. d # <<>> /\ d[1] = v[1]
  BY <1>2, AppendProperties, LenProperties, EmptySeq
<1>4. d[1] # LocationWord
  <2>1. Head(v) # LocationWord
    BY Zenon DEF Locates
  <2>2. Head(v) = v[1]
    OBVIOUS
  <2> QED
    BY <1>3, <2>1, <2>2
<1> HIDE DEF d
<1> QED
  BY <1>1, <1>3, <1>4, Zenon DEF Items, Directives, IsItem, d

LEMMA LocationNamed ==
    ASSUME NEW W, KeywordsIn(W), NEW v \in Seq(W), AllWords(v), Locates(v), Len(v) = 2
    PROVE  v[2] \in W /\ IsWord(v[2]) /\ Append(v, LBrace) = OpenLocation(v[2])
<1>1. v[2] \in W /\ v[1] = LocationWord
  BY ElementOfSeq DEF Locates
<1>2. IsWord(v[2])
  BY DEF AllWords
<1>3. LocationWord \in W /\ LBrace \in W
  BY DEF KeywordsIn
<1>4. v = <<LocationWord, v[2]>>
  BY <1>1, <1>3
<1>5. Append(<<LocationWord, v[2]>>, LBrace) = <<LocationWord, v[2], LBrace>>
  <2> DEFINE a == LocationWord
             b == v[2]
             c == LBrace
  <2>1. a \in W /\ b \in W /\ c \in W
    BY <1>1, <1>3
  <2> HIDE DEF a, b, c
  <2>2. <<>> \o <<a, b, c>> = Append(Append(Append(<<>>, a), b), c)
    BY <2>1, EmptySeq, ThreeMore
  <2>3. Append(Append(<<>>, a), b) = <<a, b>>
    BY <2>1, OneWord
  <2>4. <<a, b, c>> \in Seq(W)
    BY <2>1
  <2>5. <<>> \o <<a, b, c>> = <<a, b, c>>
    BY <2>4, ConcatEmptySeq
  <2>6. Append(<<a, b>>, c) = <<a, b, c>>
    BY <2>2, <2>3, <2>5
  <2> QED
    BY <2>6 DEF a, b, c
<1> QED
  BY <1>1, <1>2, <1>4, <1>5 DEF OpenLocation

LEMMA ServerReadsOn ==
    ASSUME NEW W, KeywordsIn(W), NEW s \in Seq(W), NEW t \in W, NEW p, NEW q,
           p.words \in Seq(W), p.level = "server", ServerReads(W, s, p), ServerMoves(p, t, q)
    PROVE  Reads(W, Append(s, t), q)
<1> DEFINE z == Append(s, t)
           v == p.words
<1>1. z \in Seq(W)
  BY AppendProperties
<1>2. PICK b \in InsideServer(W) : s = b \o v
  BY Zenon DEF ServerReads
<1>3. /\ b \in Seq(W)
      /\ \A d \in Items(W) : b \o d \in InsideServer(W)
      /\ Append(b, RBrace) \in Top(W)
  BY ServerGoesOn
<1>4. z = b \o Append(v, t)
  <2>1. v \in Seq(W)
    OBVIOUS
  <2> HIDE DEF v
  <2>2. b \o Append(v, t) = Append(b \o v, t)
    BY <1>3, <2>1, ConcatAppend
  <2> QED
    BY <1>2, <2>2
<1>5. AllWords(v) /\ (Locates(v) => Len(v) <= 2)
  BY Zenon DEF ServerReads
<1>6. Len(v) \in Nat
  BY LenProperties
<1> HIDE DEF z
<1>7. CASE IsWord(t) /\ (Locates(v) => Len(v) < 2)
  <2>1. Takes(p, t, q)
    BY <1>7, Zenon DEF ServerMoves
  <2>2. q.level = "server" /\ q.words = Append(v, t)
    BY <2>1, Zenon DEF Takes
  <2>3. q.level # "config" /\ q.level # "location"
    BY <2>2
  <2>4. AllWords(Append(v, t))
    BY <1>5, <1>7, AllWordsAppend
  <2>5. Locates(Append(v, t)) => Len(Append(v, t)) <= 2
    <3>1. SUFFICES ASSUME Locates(Append(v, t)) PROVE Len(Append(v, t)) <= 2
      OBVIOUS
    <3>2. Len(Append(v, t)) = Len(v) + 1
      BY AppendProperties
    <3>3. Len(v) < 2
      <4>1. CASE v = <<>>
        BY <4>1
      <4>2. CASE v # <<>>
        <5>1. Head(Append(v, t)) = Head(v)
          BY <4>2, HeadTailAppend
        <5>2. Locates(v)
          BY <3>1, <4>2, <5>1, Zenon DEF Locates
        <5> QED
          BY <1>7, <5>2
      <4> QED
        BY <4>1, <4>2
    <3> QED
      BY <1>6, <3>2, <3>3
  <2> QED
    BY <1>4, <2>2, <2>3, <2>4, <2>5, Zenon DEF Reads, ServerReads, z
<1>8. CASE t = Semicolon /\ v # <<>> /\ ~Locates(v)
  <2>1. Open(q, "server")
    BY <1>8, Zenon DEF ServerMoves
  <2>2. Append(v, t) \in Items(W)
    BY <1>5, <1>8, ItemEnds
  <2>3. z \in InsideServer(W)
    BY <1>3, <1>4, <2>2, Zenon
  <2> QED
    BY <1>1, <2>1, <2>3, OpenReads DEF z
<1>9. CASE t = RBrace /\ v = <<>>
  <2>1. Open(q, "config")
    BY <1>9, Zenon DEF ServerMoves
  <2>2. s = b
    BY <1>2, <1>3, <1>9, ConcatEmptySeq
  <2>3. z \in Top(W)
    BY <1>3, <1>9, <2>2, Zenon DEF z
  <2> QED
    BY <1>1, <2>1, <2>3, OpenReads DEF z
<1>10. CASE t = LBrace /\ Locates(v) /\ Len(v) = 2
  <2>1. Open(q, "location")
    BY <1>10, Zenon DEF ServerMoves
  <2>2. v[2] \in W /\ IsWord(v[2]) /\ Append(v, t) = OpenLocation(v[2])
    BY <1>5, <1>10, LocationNamed
  <2>3. z \in InsideLocation(W)
    <3>1. b \o OpenLocation(v[2]) \in InsideLocation(W)
      BY <2>2, LocationBegins
    <3> QED
      BY <1>4, <2>2, <3>1, Zenon
  <2> QED
    BY <1>1, <2>1, <2>3, OpenReads DEF z
<1>11. CASE ~\/ IsWord(t) /\ (Locates(v) => Len(v) < 2)
             \/ t = Semicolon /\ v # <<>> /\ ~Locates(v)
             \/ t = RBrace /\ v = <<>>
             \/ t = LBrace /\ Locates(v) /\ Len(v) = 2
  <2>1. q.level = "error"
    <3>1. CASE IsWord(t)
      BY <1>11, <3>1, Zenon DEF ServerMoves
    <3>2. CASE t = Semicolon
      BY <1>11, <3>2, Zenon DEF ServerMoves
    <3>3. CASE t = RBrace
      BY <1>11, <3>3, Zenon DEF ServerMoves
    <3>4. CASE t = LBrace
      BY <1>11, <3>4, Zenon DEF ServerMoves
    <3>5. CASE ~IsWord(t) /\ t \notin {LBrace, RBrace, Semicolon}
      BY <3>5, Zenon DEF ServerMoves
    <3> QED
      BY <3>1, <3>2, <3>3, <3>4, <3>5
  <2> QED
    BY <1>1, <2>1, OpenReads DEF z
<1> QED
  BY <1>7, <1>8, <1>9, <1>10, <1>11, Zenon DEF z

LEMMA StepReads ==
    ASSUME NEW Y, KeywordsIn(Words(Y)), NEW s \in Seq(Words(Y)), NEW t \in Words(Y),
           Reads(Words(Y), s, Parse(s))
    PROVE  Reads(Words(Y), Append(s, t), Parse(Append(s, t)))
<1> DEFINE W == Words(Y)
           p == Parse(s)
           q == Parse(Append(s, t))
<1>1. p \in Parses(Y) /\ q = ParseToken(p, t)
  BY ParseAppend
<1> HIDE DEF p, q
<1>2. /\ p.level \in {"config", "server", "location", "error"}
      /\ p.words \in Seq(W)
  BY <1>1, ParseParts
<1>3. Append(s, t) \in Seq(W)
  BY AppendProperties
<1>4. Reads(W, s, p)
  BY DEF p
<1> HIDE DEF W
<1>5. KeywordsIn(W) /\ s \in Seq(W) /\ t \in W
  BY DEF W
<1>6. CASE p.level = "config"
  <2>1. ConfigMoves(p, t, q)
    BY <1>1, <1>6, MovesAre
  <2>2. ConfigReads(W, s, p)
    BY <1>4, <1>6, Zenon DEF Reads
  <2> QED
    BY <1>5, <1>6, <2>1, <2>2, ConfigReadsOn DEF q, W
<1>7. CASE p.level = "server"
  <2>1. ServerMoves(p, t, q)
    BY <1>1, <1>7, MovesAre
  <2>2. ServerReads(W, s, p)
    BY <1>4, <1>7, Zenon DEF Reads
  <2> QED
    BY <1>2, <1>5, <1>7, <2>1, <2>2, ServerReadsOn DEF q, W
<1>8. CASE p.level = "location"
  <2>1. LocationMoves(p, t, q)
    BY <1>1, <1>8, MovesAre
  <2>2. LocationReads(W, s, p)
    BY <1>4, <1>8, Zenon DEF Reads
  <2> QED
    BY <1>2, <1>5, <1>8, <2>1, <2>2, LocationReadsOn DEF q, W
<1>9. CASE p.level = "error"
  <2>1. q.level = "error"
    BY <1>1, <1>9, MovesAre
  <2> QED
    BY <1>3, <1>5, <2>1, OpenReads DEF q, W
<1> QED
  BY <1>2, <1>6, <1>7, <1>8, <1>9 DEF q, W

LEMMA ParsedReads ==
    ASSUME NEW Y, KeywordsIn(Words(Y)), NEW ts \in Seq(Words(Y))
    PROVE  Reads(Words(Y), ts, Parse(ts))
<1> DEFINE W == Words(Y)
           S == {s \in Seq(W) : Reads(W, s, Parse(s))}
<1>1. <<>> \in S
  <2>1. <<>> \in Seq(W) /\ <<>> \in Top(W)
    BY EmptySeq, ServersAre, StarsGrow DEF Top
  <2>2. Reads(W, <<>>, Parse(<<>>))
    BY <2>1, ParseStarts, OpenReads
  <2> QED
    BY <2>1, <2>2
<1>2. ASSUME NEW s \in Seq(W), NEW t \in W, s \in S PROVE Append(s, t) \in S
  <2>1. Append(s, t) \in Seq(W)
    BY AppendProperties
  <2>2. Reads(W, Append(s, t), Parse(Append(s, t)))
    BY <1>2, StepReads
  <2> QED
    BY <2>1, <2>2
<1> HIDE DEF S
<1>3. ts \in S
  BY <1>1, <1>2, Appending
<1> QED
  BY <1>3 DEF S

(* What ConfigParser accepts is what the grammar of src/grammar.md says.   *)
LEMMA AcceptsGrammar ==
    ASSUME NEW Y, KeywordsIn(Words(Y)), NEW ts \in Seq(Words(Y))
    PROVE  Accepts(Parse(ts)) <=> IsConfig(ts)
<1> DEFINE W == Words(Y)
           p == Parse(ts)
<1>1. IsConfig(ts) <=> ts \in Top(W)
  BY StarOfServers, Zenon DEF IsConfig, Top
<1>2. ASSUME ts \in Top(W) PROVE Accepts(p)
  <2>1. Open(p, "config")
    BY <1>2, ConfigForward DEF Top
  <2> QED
    BY <2>1, Zenon DEF Open, Accepts
<1>3. ASSUME Accepts(p) PROVE ts \in Top(W)
  <2>1. Reads(W, ts, p)
    BY ParsedReads
  <2>2. p.level = "config" /\ p.words = <<>>
    BY <1>3, Zenon DEF Accepts
  <2>3. <<ServerWord>> # <<>>
    OBVIOUS
  <2> QED
    BY <2>1, <2>2, <2>3, Zenon DEF Reads, ConfigReads
<1> QED
  BY <1>1, <1>2, <1>3

-----------------------------------------------------------------------------
(* The characters that a text may have, with those that words are made of. *)
Signs == STRING \union {"server", "location", "{", "}", ";"}

LEMMA TextConforms ==
    ASSUME NEW text \in Seq(STRING)
    PROVE  Accepts(Parse(Tokens(text))) <=> IsConfig(Tokens(text))
<1>1. STRING \subseteq Signs
  BY DEF Signs
<1>2. text \in Seq(Signs)
  BY <1>1, SeqWidens
<1>3. ASSUME NEW c \in Signs PROVE <<c>> \in Words(Signs)
  <2>1. <<c>> \in Seq(Signs)
    OBVIOUS
  <2>2. <<c>> # <<>>
    OBVIOUS
  <2> QED
    BY <2>1, <2>2, Zenon DEF Words
<1>4. KeywordsIn(Words(Signs))
  <2>1. /\ "server" \in Signs /\ "location" \in Signs
        /\ "{" \in Signs /\ "}" \in Signs /\ ";" \in Signs
    BY Zenon DEF Signs
  <2>2. /\ ServerWord \in Words(Signs) /\ LocationWord \in Words(Signs)
        /\ LBrace \in Words(Signs) /\ RBrace \in Words(Signs) /\ Semicolon \in Words(Signs)
    BY <1>3, <2>1, Zenon DEF ServerWord, LocationWord, LBrace, RBrace, Semicolon
  <2> QED
    BY <2>2, Zenon DEF KeywordsIn
<1>5. Tokens(text) \in Seq(Words(Signs))
  BY <1>2, TokensTyped
<1> QED
  BY <1>4, <1>5, AcceptsGrammar

(* The invariant: how the file was judged is how it is.                    *)
Conforms == IsConfig(Tokens(file.text))
Judged ==
    /\ file \in Files
    /\ stage \in {"main", "loaded"} => error = "none"
    /\ error = "syntax" => ~Conforms
    /\ error = "validation" \/ stage = "loaded" => Conforms

LEMMA InitJudged == Init => Judged
BY DEF Init, StartInit, Judged

LEMMA LoadJudged ==
    ASSUME Judged, Load
    PROVE  Judged'
<1>1. /\ stage = "main" /\ file' = file
      /\ \/ ~Accepts(Parsed) /\ stage' = "over" /\ error' = "syntax"
         \/ Accepts(Parsed) /\ stage' = "loaded" /\ error' = error
         \/ Accepts(Parsed) /\ stage' = "over" /\ error' = "validation"
  <2> DEFINE P == Parsed
  <2>1. Load => /\ stage = "main" /\ file' = file
                /\ \/ ~Accepts(P) /\ stage' = "over" /\ error' = "syntax"
                   \/ Accepts(P) /\ stage' = "loaded" /\ error' = error
                   \/ Accepts(P) /\ stage' = "over" /\ error' = "validation"
    <3> HIDE DEF P
    <3>1. Load => /\ stage = "main" /\ file' = file
                  /\ IF ~Accepts(P) THEN NotLoaded("syntax")
                     ELSE \/ stage' = "loaded" /\ error' = error
                          \/ Refused("validation")
      BY DEF Load, NotLoaded, P
    <3> QED
      BY <3>1 DEF NotLoaded, Refused
  <2> QED
    BY <2>1
<1>2. Accepts(Parsed) <=> Conforms
  <2>1. file.text \in Seq(STRING)
    BY FilesAssumption DEF Judged
  <2> QED
    BY <2>1, TextConforms, Zenon DEF Parsed, Conforms
<1>3. Conforms' = Conforms
  BY <1>1, Zenon DEF Conforms
<1> QED
  BY <1>1, <1>2, <1>3 DEF Judged

LEMMA StepJudged ==
    ASSUME Judged, [Next]_vars
    PROVE  Judged'
<1>1. CASE UsageError \/ FileError
  <2>1. file' = file /\ stage' = "over" /\ error' \in {"usage", "file"}
    BY <1>1 DEF UsageError, FileError, NotLoaded, Refused
  <2> QED
    BY <2>1 DEF Judged
<1>2. CASE Load
  BY <1>2, LoadJudged
<1>3. CASE ResolveConfig
  <2>1. /\ stage = "loaded" /\ file' = file
        /\ \/ stage' = "over" /\ error' = "validation"
           \/ stage' = "setup" /\ error' = error
    BY <1>3 DEF ResolveConfig, Refused, Configured
  <2>2. Conforms' = Conforms
    BY <2>1, Zenon DEF Conforms
  <2> QED
    BY <2>1, <2>2 DEF Judged
<1>4. CASE EngineRuns \/ Outside
  <2>1. /\ file' = file /\ error' \in {error, "runtime"}
        /\ \/ stage' \notin {"main", "loaded"}
           \/ stage' = stage /\ error' = error
    <3>1. CASE EngineRuns
      BY <1>4, <3>1
         DEF EngineRuns, EngineStep, SignalHandlingFails, SetupSignalHandling, SocketFails,
             LateFailure, SetupSocket, EnterLoop, SignalSeen, LeaveLoop, Destroy, Throw, IsNext
    <3>2. CASE Outside
      BY <1>4, <3>2 DEF Outside, PollFails, LeaveLoop, SignalKills, SignalHandler
    <3> QED
      BY <1>4, <3>1, <3>2
  <2>2. Conforms' = Conforms
    BY <2>1, Zenon DEF Conforms
  <2> QED
    BY <2>1, <2>2 DEF Judged
<1>5. CASE UNCHANGED vars
  <2>1. UNCHANGED <<file, stage, error>>
    BY <1>5 DEF vars, startVars
  <2>2. Conforms' = Conforms
    BY <2>1, Zenon DEF Conforms
  <2> QED
    BY <2>1, <2>2 DEF Judged
<1> QED
  BY <1>1, <1>2, <1>3, <1>4, <1>5 DEF Next

LEMMA JudgedReads == Judged => ReadsGrammar
<1>1. ReadsGrammar <=> (WasParsed => (error # "syntax" <=> Conforms))
  BY Zenon DEF ReadsGrammar, Conforms
<1> QED
  BY <1>1 DEF Judged, WasParsed

(* Whatever a file says, a syntax error is reported for it exactly when    *)
(* its tokens do not follow src/grammar.md.                                *)
THEOREM GrammarRead == Spec => []ReadsGrammar
<1>1. Spec => []Judged
  BY InitJudged, StepJudged, PTL DEF Spec
<1> QED
  BY <1>1, JudgedReads, PTL

-----------------------------------------------------------------------------
(* A tree that is written down, and what the program makes of the text.    *)
(* Tokens gives back the words of a layout (TokensLaid); then the parser   *)
(* has, behind the tokens of each part of a tree, that part of the tree    *)
(* and no word left over (Stands).                                         *)

(* What the tokenizer makes of a token with something before it that is    *)
(* skipped.  A gap has blanks, and remarks that come to an end in it.      *)
Stops == Blanks \union Delimiters \union {Hash}
Remarked(s, j) == \E k \in 1..j : s[k] = Hash /\ \A m \in k..j : s[m] # NewLine
IsGap(g) ==
    /\ \A j \in 1..Len(g) : g[j] \in Blanks \/ Remarked(g, j)
    /\ \A k \in 1..Len(g) : g[k] = Hash => \E m \in k..Len(g) : g[m] = NewLine
IsPlain(w) == w # <<>> /\ \A i \in 1..Len(w) : w[i] \notin Stops
IsToken(w) == w \in {LBrace, RBrace, Semicolon} \/ IsPlain(w)

LEMMA InRemarkIs ==
    ASSUME NEW Y, NEW text \in Seq(Y), NEW i \in 1..Len(text), NEW j \in i..Len(text)
    PROVE  InRemark(text, i, j) <=>
              \E k \in i..j : text[k] = Hash /\ \A m \in k..j : text[m] # NewLine
<1>1. ASSUME NEW k \in i..j
      PROVE  NewLine \notin ToSet(SubSeq(text, k, j)) <=> \A m \in k..j : text[m] # NewLine
  <2> DEFINE s == SubSeq(text, k, j)
  <2>1. k \in Int /\ j \in Int /\ \A m \in k..j : text[m] \in Y
    BY ElementOfSeq
  <2>2. /\ s \in Seq(Y) /\ Len(s) = IF k <= j THEN j - k + 1 ELSE 0
        /\ \A n \in 1..j - k + 1 : s[n] = text[k + n - 1]
    BY <2>1, SubSeqProperties
  <2> HIDE DEF s
  <2>3. Len(s) = j - k + 1
    BY <2>2
  <2>4. ASSUME NEW m \in k..j PROVE m - k + 1 \in 1..Len(s) /\ s[m - k + 1] = text[m]
    BY <2>2, <2>3
  <2>5. ASSUME NEW n \in 1..Len(s) PROVE k + n - 1 \in k..j /\ s[n] = text[k + n - 1]
    BY <2>2, <2>3
  <2>6. NewLine \in ToSet(s) <=> \E n \in 1..Len(s) : s[n] = NewLine
    <3>1. DOMAIN s = 1..Len(s)
      BY <2>2, LenProperties
    <3> QED
      BY <3>1 DEF ToSet
  <2> QED
    BY <2>4, <2>5, <2>6 DEF s
<1> QED
  BY <1>1, Zenon DEF InRemark

(* Where the parts of a text are.                                          *)
LEMMA PartsPlaced ==
    ASSUME NEW Y, NEW a \in Seq(Y), NEW g \in Seq(Y), NEW w \in Seq(Y), NEW r \in Seq(Y),
           NEW T, T = a \o ((g \o w) \o r)
    PROVE  /\ T \in Seq(Y) /\ Len(T) = Len(a) + Len(g) + Len(w) + Len(r)
           /\ \A j \in 1..Len(g) : T[Len(a) + j] = g[j]
           /\ \A j \in 1..Len(w) : T[Len(a) + Len(g) + j] = w[j]
           /\ \A j \in 1..Len(r) : T[Len(a) + Len(g) + Len(w) + j] = r[j]
<1> DEFINE x == g \o w
           y == x \o r
           z == a \o y
<1>1. /\ x \in Seq(Y) /\ Len(x) = Len(g) + Len(w)
      /\ \A j \in 1..Len(x) : x[j] = IF j <= Len(g) THEN g[j] ELSE w[j - Len(g)]
  BY ConcatProperties
<1> HIDE DEF x
<1>2. /\ y \in Seq(Y) /\ Len(y) = Len(x) + Len(r)
      /\ \A j \in 1..Len(y) : y[j] = IF j <= Len(x) THEN x[j] ELSE r[j - Len(x)]
  BY <1>1, ConcatProperties
<1> HIDE DEF y
<1>3. /\ z \in Seq(Y) /\ Len(z) = Len(a) + Len(y)
      /\ \A j \in 1..Len(z) : z[j] = IF j <= Len(a) THEN a[j] ELSE y[j - Len(a)]
  <2>1. y \in Seq(Y)
    BY <1>2
  <2> QED
    BY <2>1, ConcatProperties
<1> HIDE DEF z
<1>4. Len(a) \in Nat /\ Len(g) \in Nat /\ Len(w) \in Nat /\ Len(r) \in Nat
  BY LenProperties
<1>5. ASSUME NEW j \in 1..Len(y) PROVE z[Len(a) + j] = y[j]
  <2>1. Len(a) + j \in 1..Len(z) /\ ~(Len(a) + j <= Len(a)) /\ Len(a) + j - Len(a) = j
    BY <1>1, <1>2, <1>3, <1>4
  <2> QED
    BY <1>3, <2>1
<1>6. ASSUME NEW j \in 1..Len(g) PROVE z[Len(a) + j] = g[j]
  <2>1. j \in 1..Len(y) /\ j \in 1..Len(x) /\ j <= Len(x)
    BY <1>1, <1>2, <1>4
  <2> QED
    BY <1>1, <1>2, <1>5, <2>1
<1>7. ASSUME NEW j \in 1..Len(w) PROVE z[Len(a) + Len(g) + j] = w[j]
  <2>1. Len(g) + j \in 1..Len(y) /\ Len(g) + j \in 1..Len(x) /\ Len(g) + j <= Len(x)
        /\ ~(Len(g) + j <= Len(g)) /\ Len(g) + j - Len(g) = j
        /\ Len(a) + (Len(g) + j) = Len(a) + Len(g) + j
    BY <1>1, <1>2, <1>4
  <2>2. y[Len(g) + j] = x[Len(g) + j]
    BY <1>2, <2>1
  <2>3. x[Len(g) + j] = w[j]
    BY <1>1, <2>1
  <2>4. z[Len(a) + (Len(g) + j)] = y[Len(g) + j]
    BY <1>5, <2>1
  <2> QED
    BY <2>1, <2>2, <2>3, <2>4
<1>8. ASSUME NEW j \in 1..Len(r) PROVE z[Len(a) + Len(g) + Len(w) + j] = r[j]
  <2>1. Len(x) + j \in 1..Len(y) /\ ~(Len(x) + j <= Len(x)) /\ Len(x) + j - Len(x) = j
        /\ Len(a) + (Len(x) + j) = Len(a) + Len(g) + Len(w) + j
    BY <1>1, <1>2, <1>4
  <2>2. y[Len(x) + j] = r[j]
    BY <1>2, <2>1
  <2>3. z[Len(a) + (Len(x) + j)] = y[Len(x) + j]
    BY <1>5, <2>1
  <2> QED
    BY <2>1, <2>2, <2>3
<1>9. T = z
  BY DEF x, y, z
<1>10. Len(z) = Len(a) + Len(g) + Len(w) + Len(r)
  BY <1>1, <1>2, <1>3, <1>4
<1> QED
  BY <1>3, <1>6, <1>7, <1>8, <1>9, <1>10

LEMMA TokenBegins ==
    ASSUME NEW Y, NEW w \in Seq(Y), IsToken(w)
    PROVE  w # <<>> /\ w[1] \notin Blanks /\ w[1] # Hash
<1>1. ASSUME NEW c \in Delimiters PROVE <<c>> # <<>> /\ <<c>>[1] = c /\ c \notin Blanks /\ c # Hash
  <2>1. <<c>> # <<>> /\ <<c>>[1] = c
    OBVIOUS
  <2>2. c \notin Blanks /\ c # Hash
    BY DEF Delimiters, Blanks, NewLine, Hash
  <2> QED
    BY <2>1, <2>2
<1>2. CASE w \in {LBrace, RBrace, Semicolon}
  <2>1. PICK c \in Delimiters : w = <<c>>
    BY <1>2, Zenon DEF LBrace, RBrace, Semicolon, Delimiters
  <2> QED
    BY <1>1, <2>1
<1>3. CASE IsPlain(w)
  <2>1. w # <<>> /\ \A i \in 1..Len(w) : w[i] \notin Stops
    BY <1>3 DEF IsPlain
  <2>2. 1 \in 1..Len(w)
    BY <2>1, LenProperties, EmptySeq
  <2> QED
    BY <2>1, <2>2 DEF Stops
<1> QED
  BY <1>2, <1>3, Zenon DEF IsToken

LEMMA SkipsGap ==
    ASSUME NEW Y, NEW a \in Seq(Y), NEW g \in Seq(Y), IsGap(g), NEW w \in Seq(Y), IsToken(w),
           NEW r \in Seq(Y), NEW T, T = a \o ((g \o w) \o r)
    PROVE  SkipWhitespace(T, Len(a) + 1) = Len(a) + Len(g) + 1
<1> DEFINE i == Len(a) + 1
           s == Len(a) + Len(g) + 1
           S == {j \in i..Len(T) : T[j] \notin Blanks /\ ~InRemark(T, i, j)}
<1>1. /\ T \in Seq(Y) /\ Len(T) = Len(a) + Len(g) + Len(w) + Len(r)
      /\ \A j \in 1..Len(g) : T[Len(a) + j] = g[j]
      /\ \A j \in 1..Len(w) : T[Len(a) + Len(g) + j] = w[j]
  BY PartsPlaced
<1>2. Len(a) \in Nat /\ Len(g) \in Nat /\ Len(w) \in Nat \ {0} /\ Len(r) \in Nat
  <2>1. w # <<>>
    BY TokenBegins
  <2> QED
    BY <2>1, LenProperties, EmptySeq
<1>3. w[1] \notin Blanks /\ w[1] # Hash
  BY TokenBegins
<1> HIDE DEF S
<1>4. i \in 1..Len(T) /\ s \in i..Len(T)
  BY <1>1, <1>2
<1>5. ASSUME NEW j \in i..Len(T)
      PROVE  InRemark(T, i, j) <=> \E k \in i..j : T[k] = Hash /\ \A m \in k..j : T[m] # NewLine
  BY <1>1, <1>4, InRemarkIs
<1>6. T[s] = w[1]
  BY <1>1, <1>2
<1>7. ~InRemark(T, i, s)
  <2> SUFFICES ASSUME NEW k \in i..s, T[k] = Hash, \A m \in k..s : T[m] # NewLine PROVE FALSE
    BY <1>4, <1>5
  <2>1. k # s
    BY <1>3, <1>6
  <2>2. k - Len(a) \in 1..Len(g) /\ Len(a) + (k - Len(a)) = k
    BY <1>2, <2>1
  <2>3. g[k - Len(a)] = Hash
    BY <1>1, <2>2
  <2>4. PICK m \in k - Len(a)..Len(g) : g[m] = NewLine
    BY <2>2, <2>3 DEF IsGap
  <2>5. m \in 1..Len(g) /\ Len(a) + m \in k..s
    BY <1>2, <2>2
  <2> QED
    BY <1>1, <2>4, <2>5
<1>8. s \in S
  BY <1>3, <1>4, <1>6, <1>7 DEF S
<1>9. ASSUME NEW j \in S PROVE ~(j < s)
  <2> SUFFICES ASSUME j < s PROVE FALSE
    OBVIOUS
  <2>1. j \in i..Len(T) /\ T[j] \notin Blanks /\ ~InRemark(T, i, j)
    BY DEF S
  <2>2. j - Len(a) \in 1..Len(g) /\ Len(a) + (j - Len(a)) = j
    BY <1>2, <2>1
  <2>3. T[j] = g[j - Len(a)]
    BY <1>1, <2>2
  <2>4. Remarked(g, j - Len(a))
    BY <2>1, <2>2, <2>3 DEF IsGap
  <2>5. PICK k \in 1..j - Len(a) : g[k] = Hash /\ \A m \in k..j - Len(a) : g[m] # NewLine
    BY <2>4 DEF Remarked
  <2>6. Len(a) + k \in i..j /\ k \in 1..Len(g)
    BY <1>2, <2>1, <2>2
  <2>7. T[Len(a) + k] = Hash
    BY <1>1, <2>5, <2>6
  <2>8. ASSUME NEW m \in Len(a) + k..j PROVE T[m] # NewLine
    <3>1. m - Len(a) \in k..j - Len(a) /\ m - Len(a) \in 1..Len(g) /\ Len(a) + (m - Len(a)) = m
      BY <1>2, <2>2, <2>6
    <3>2. T[Len(a) + (m - Len(a))] = g[m - Len(a)]
      BY <1>1, <3>1
    <3> QED
      BY <2>5, <3>1, <3>2
  <2> QED
    BY <1>5, <2>1, <2>6, <2>7, <2>8
<1> DEFINE start == Min(S \union {Len(T) + 1})
<1>10. S \union {Len(T) + 1} \in SUBSET Nat /\ S \union {Len(T) + 1} # {}
  BY <1>4 DEF S
<1>11. start \in S \union {Len(T) + 1} /\ \A y \in S \union {Len(T) + 1} : start <= y
  BY <1>10, SmallestNumber
<1>12. SkipWhitespace(T, i) = start
  BY DEF SkipWhitespace, S
<1> HIDE DEF start
<1>13. start <= s
  BY <1>8, <1>11
<1>14. start = s
  <2>1. start # Len(T) + 1
    BY <1>1, <1>4, <1>13
  <2>2. start \in S
    BY <1>11, <2>1
  <2>3. start \in Nat /\ ~(start < s)
    BY <1>9, <1>10, <2>2
  <2>4. s \in Nat
    BY <1>2
  <2> HIDE DEF s
  <2> QED
    BY <1>13, <2>3, <2>4
<1> QED
  BY <1>12, <1>14

LEMMA SubSeqIs ==
    ASSUME NEW Y, NEW s \in Seq(Y), NEW m \in 1..Len(s), NEW n \in m..Len(s),
           NEW w \in Seq(Y), Len(w) = n - m + 1, \A j \in 1..Len(w) : s[m + j - 1] = w[j]
    PROVE  SubSeq(s, m, n) = w
<1> DEFINE v == SubSeq(s, m, n)
<1>1. m \in Int /\ n \in Int /\ \A j \in m..n : s[j] \in Y
  BY ElementOfSeq
<1>2. /\ v \in Seq(Y) /\ Len(v) = IF m <= n THEN n - m + 1 ELSE 0
      /\ \A j \in 1..n - m + 1 : v[j] = s[m + j - 1]
  BY <1>1, SubSeqProperties
<1> HIDE DEF v
<1>3. Len(v) = Len(w)
  BY <1>2
<1>4. v = w
  BY <1>2, <1>3, SeqEqual
<1> QED
  BY <1>4 DEF v

TokenAt(T, i, w, next) ==
    /\ SkipWhitespace(T, i) <= Len(T)
    /\ NextToken(T, i) = next
    /\ SubSeq(T, SkipWhitespace(T, i), NextToken(T, i) - 1) = w

(* Where the parts of a text are, as one fact.                              *)
Placed(T, Y, a, g, w, r) ==
    /\ T \in Seq(Y) /\ Len(T) = Len(a) + Len(g) + Len(w) + Len(r)
    /\ \A j \in 1..Len(g) : T[Len(a) + j] = g[j]
    /\ \A j \in 1..Len(w) : T[Len(a) + Len(g) + j] = w[j]
    /\ \A j \in 1..Len(r) : T[Len(a) + Len(g) + Len(w) + j] = r[j]

LEMMA PartsArePlaced ==
    ASSUME NEW Y, NEW a \in Seq(Y), NEW g \in Seq(Y), NEW w \in Seq(Y), NEW r \in Seq(Y)
    PROVE  Placed(a \o ((g \o w) \o r), Y, a, g, w, r)
<1> DEFINE T == a \o ((g \o w) \o r)
<1>1. T = a \o ((g \o w) \o r)
  OBVIOUS
<1> HIDE DEF T
<1>2. Placed(T, Y, a, g, w, r)
  BY <1>1, PartsPlaced DEF Placed
<1> QED
  BY <1>2 DEF T

LEMMA TokenEnds ==
    ASSUME NEW Y, NEW a \in Seq(Y), NEW g \in Seq(Y), IsGap(g), NEW w \in Seq(Y), IsToken(w),
           NEW r \in Seq(Y), r = <<>> \/ r[1] \in Stops \/ ~IsPlain(w),
           NEW T, T = a \o ((g \o w) \o r)
    PROVE  TokenAt(T, Len(a) + 1, w, Len(a) + Len(g) + Len(w) + 1)
<1> DEFINE i == Len(a) + 1
           s == Len(a) + Len(g) + 1
           e == Len(a) + Len(g) + Len(w) + 1
<1>1. /\ T \in Seq(Y) /\ Len(T) = Len(a) + Len(g) + Len(w) + Len(r)
      /\ \A j \in 1..Len(w) : T[Len(a) + Len(g) + j] = w[j]
      /\ \A j \in 1..Len(r) : T[Len(a) + Len(g) + Len(w) + j] = r[j]
  <2>1. Placed(T, Y, a, g, w, r)
    BY PartsArePlaced, Zenon
  <2> QED
    BY <2>1, Zenon DEF Placed
<1>2. Len(a) \in Nat /\ Len(g) \in Nat /\ Len(w) \in Nat \ {0} /\ Len(r) \in Nat
  <2>1. w # <<>>
    BY TokenBegins
  <2> QED
    BY <2>1, LenProperties, EmptySeq
<1>3. SkipWhitespace(T, i) = s
  BY SkipsGap
<1>4. s \in 1..Len(T) /\ s \in Nat /\ e \in Nat /\ e = s + Len(w) /\ e <= Len(T) + 1
  BY <1>1, <1>2
<1>5. T[s] = w[1]
  BY <1>1, <1>2
<1>6. NextToken(T, i) = IF T[s] \in Delimiters THEN s + 1 ELSE WordEnd(T, s)
  BY <1>3, Zenon DEF NextToken
<1>7. NextToken(T, i) = e
  <2>1. CASE w \in {LBrace, RBrace, Semicolon}
    <3>1. PICK c \in Delimiters : w = <<c>>
      BY <2>1, Zenon DEF LBrace, RBrace, Semicolon, Delimiters
    <3>2. Len(w) = 1 /\ w[1] = c
      BY <3>1
    <3> HIDE DEF s, e, i
    <3> QED
      BY <1>4, <1>5, <1>6, <3>2
  <2>2. CASE IsPlain(w)
    <3> DEFINE U == {j \in s..Len(T) : T[j] \in Stops} \union {Len(T) + 1}
               end == Min(U)
    <3>1. w[1] \notin Stops /\ \A j \in 1..Len(w) : w[j] \notin Stops
      BY <1>2, <2>2 DEF IsPlain
    <3>2. T[s] \notin Delimiters
      BY <1>5, <3>1 DEF Stops
    <3>3. WordEnd(T, s) = end
      BY Zenon DEF WordEnd, Stops
    <3>4. ASSUME NEW j \in U PROVE e <= j
      <4>1. CASE j = Len(T) + 1
        BY <1>4, <4>1
      <4>2. CASE j \in s..Len(T) /\ T[j] \in Stops
        <5> SUFFICES ASSUME ~(e <= j) PROVE FALSE
          OBVIOUS
        <5>1. j - s + 1 \in 1..Len(w) /\ Len(a) + Len(g) + (j - s + 1) = j
          BY <1>2, <1>4, <4>2
        <5>2. T[Len(a) + Len(g) + (j - s + 1)] = w[j - s + 1]
          BY <1>1, <5>1
        <5> QED
          BY <3>1, <4>2, <5>1, <5>2
      <4> QED
        BY <4>1, <4>2
    <3>5. e \in U
      <4>1. CASE r = <<>>
        <5>1. Len(r) = 0
          BY <4>1, EmptySeq
        <5> QED
          BY <1>1, <1>2, <5>1
      <4>2. CASE r # <<>>
        <5>1. Len(r) # 0 /\ r[1] \in Stops
          BY <2>2, <4>2, EmptySeq
        <5>2. 1 \in 1..Len(r) /\ Len(a) + Len(g) + Len(w) + 1 = e /\ e \in s..Len(T)
          BY <1>1, <1>2, <5>1
        <5>3. T[e] = r[1]
          BY <1>1, <5>2
        <5> QED
          BY <5>1, <5>2, <5>3
      <4> QED
        BY <4>1, <4>2
    <3>6. U \in SUBSET Nat /\ U # {}
      BY <1>4
    <3> HIDE DEF U
    <3>7. end \in U /\ \A y \in U : end <= y
      BY <3>6, SmallestNumber
    <3> HIDE DEF end, s, e, i
    <3>8. end \in Nat /\ e <= end /\ end <= e
      BY <3>4, <3>5, <3>6, <3>7
    <3>9. end = e
      BY <1>4, <3>8
    <3> QED
      BY <1>6, <3>2, <3>3, <3>9
  <2> QED
    BY <2>1, <2>2 DEF IsToken
<1>8. SubSeq(T, s, e - 1) = w
  <2> DEFINE q == e - 1
  <2>1. s \in 1..Len(T) /\ q \in s..Len(T) /\ Len(w) = q - s + 1
    BY <1>2, <1>4
  <2>2. \A j \in 1..Len(w) : T[s + j - 1] = w[j]
    <3>1. \A j \in 1..Len(w) : s + j - 1 = Len(a) + Len(g) + j
      BY <1>2
    <3> HIDE DEF s
    <3> QED
      BY <1>1, <3>1
  <2> HIDE DEF s, q
  <2>3. SubSeq(T, s, q) = w
    BY <1>1, <2>1, <2>2, SubSeqIs
  <2> QED
    BY <2>3 DEF q
<1>9. s <= Len(T)
  BY <1>4
<1> HIDE DEF s, e, i
<1>10. TokenAt(T, i, w, e)
  BY <1>3, <1>7, <1>8, <1>9 DEF TokenAt
<1> QED
  BY <1>10 DEF i, e

Tokenized(Y, T, f) ==
    /\ f \in [1..Len(T) + 1 -> Seq(Words(Y))]
    /\ \A i \in 1..Len(T) + 1 : f[i] = TokensFrom(T, f, i)

Yields(a, g, w, f) == f[Len(a) + 1] = <<w>> \o f[Len(a) + Len(g) + Len(w) + 1]

LEMMA FirstToken ==
    ASSUME NEW Y, NEW a \in Seq(Y), NEW g \in Seq(Y), IsGap(g), NEW w \in Seq(Y), IsToken(w),
           NEW r \in Seq(Y), r = <<>> \/ r[1] \in Stops \/ ~IsPlain(w),
           NEW T, T = a \o ((g \o w) \o r), NEW f, Tokenized(Y, T, f)
    PROVE  Yields(a, g, w, f)
<1> DEFINE i == Len(a) + 1
<1>1. /\ SkipWhitespace(T, i) <= Len(T)
      /\ NextToken(T, i) = Len(a) + Len(g) + Len(w) + 1
      /\ SubSeq(T, SkipWhitespace(T, i), NextToken(T, i) - 1) = w
  <2>1. TokenAt(T, i, w, Len(a) + Len(g) + Len(w) + 1)
    BY TokenEnds
  <2> QED
    BY <2>1, Zenon DEF TokenAt
<1>2. T \in Seq(Y) /\ i \in 1..Len(T) + 1
  <2>1. T \in Seq(Y) /\ Len(T) = Len(a) + Len(g) + Len(w) + Len(r)
    BY PartsPlaced
  <2>2. Len(a) \in Nat /\ Len(g) \in Nat /\ Len(w) \in Nat /\ Len(r) \in Nat
    BY LenProperties
  <2> QED
    BY <2>1, <2>2
<1>3. f[i] = TokensFrom(T, f, i)
  BY <1>2 DEF Tokenized
<1> HIDE DEF i
<1>4. ~(SkipWhitespace(T, i) > Len(T))
  <2>1. SkipWhitespace(T, i) \in i..Len(T) + 1
    BY <1>2, SkipIs
  <2> QED
    BY <1>1, <1>2, <2>1
<1>5. TokensFrom(T, f, i) = <<SubSeq(T, SkipWhitespace(T, i), NextToken(T, i) - 1)>> \o f[NextToken(T, i)]
  BY <1>4, Zenon DEF TokensFrom
<1>6. f[i] = <<w>> \o f[Len(a) + Len(g) + Len(w) + 1]
  BY <1>1, <1>3, <1>5
<1> QED
  BY <1>6, Zenon DEF i, Yields

LEMMA LastToken ==
    ASSUME NEW Y, NEW T \in Seq(Y), NEW f, Tokenized(Y, T, f)
    PROVE  f[Len(T) + 1] = <<>>
<1>1. Len(T) \in Nat
  BY LenProperties
<1> DEFINE i == Len(T) + 1
<1>2. i \in 1..Len(T) + 1
  BY <1>1
<1>3. SkipWhitespace(T, i) \in i..Len(T) + 1
  BY <1>2, SkipIs
<1>4. SkipWhitespace(T, i) > Len(T)
  BY <1>1, <1>3
<1>5. f[i] = TokensFrom(T, f, i)
  BY <1>2 DEF Tokenized
<1> QED
  BY <1>4, <1>5 DEF TokensFrom

-----------------------------------------------------------------------------
(* A layout of tokens is tokenized into them.                              *)
Ink == Signs \union Blanks \union {Hash}
Between(layout, ts, t) == IF ts = <<>> THEN <<>> ELSE Gap(layout, ts[Len(ts)], t)

LEMMA Few ==
    ASSUME NEW Z, NEW a \in Z, NEW b \in Z, NEW c \in Z
    PROVE  /\ <<a>> \in Seq(Z) /\ Len(<<a>>) = 1 /\ <<a>>[1] = a
           /\ <<a, b, c>> \in Seq(Z) /\ Len(<<a, b, c>>) = 3
           /\ <<a, b, c>>[1] = a /\ <<a, b, c>>[2] = b /\ <<a, b, c>>[3] = c
OBVIOUS

(* One sign, or a remark, is a gap.                                        *)
LEMMA BlankGap ==
    ASSUME NEW Z, NEW b \in Z, b \in Blanks
    PROVE  IsGap(<<b>>)
<1>1. Len(<<b>>) = 1 /\ <<b>>[1] = b
  BY Few
<1>2. b # Hash
  BY DEF Blanks, NewLine, Hash
<1> DEFINE g == <<b>>
<1> HIDE DEF g
<1>3. Len(g) = 1 /\ g[1] = b
  BY <1>1 DEF g
<1>4. IsGap(g)
  BY <1>2, <1>3 DEF IsGap
<1> QED
  BY <1>4 DEF g

LEMMA RemarkGap ==
    ASSUME NEW Z, NEW h \in Z, NEW b \in Z, NEW n \in Z, h = Hash, n = NewLine, b # n
    PROVE  IsGap(<<h, b, n>>)
<1> DEFINE r == <<h, b, n>>
<1>1. Len(r) = 3 /\ r[1] = h /\ r[2] = b /\ r[3] = n
  BY Few
<1>2. n \in Blanks /\ h # n
  BY DEF Blanks, NewLine, Hash
<1> HIDE DEF r
<1>3. ASSUME NEW j \in 1..Len(r) PROVE r[j] \in Blanks \/ Remarked(r, j)
  <2>1. j = 1 \/ j = 2 \/ j = 3
    BY <1>1
  <2>2. CASE j = 3
    BY <1>1, <1>2, <2>2
  <2>3. CASE j = 1 \/ j = 2
    <3>1. 1 \in 1..j /\ \A m \in 1..j : m = 1 \/ m = 2
      BY <2>3
    <3>2. \A m \in 1..j : r[m] # NewLine
      BY <1>1, <1>2, <3>1
    <3>3. r[1] = Hash
      BY <1>1
    <3> QED
      BY <3>1, <3>2, <3>3 DEF Remarked
  <2> QED
    BY <2>1, <2>2, <2>3
<1>4. ASSUME NEW k \in 1..Len(r) PROVE \E m \in k..Len(r) : r[m] = NewLine
  <2>1. 3 \in k..Len(r)
    BY <1>1
  <2> QED
    BY <1>1, <2>1
<1>5. IsGap(r)
  BY <1>3, <1>4 DEF IsGap
<1> QED
  BY <1>5 DEF r

LEMMA GapOneOf ==
    ASSUME NEW layout \in Layouts, NEW l, NEW t
    PROVE  /\ Gap(layout, l, t) \in {<<>>, <<" ">>, <<NewLine>>, <<Hash, "{", NewLine>>}
           /\ Gap(layout, l, t) = <<>> => ~(IsWord(l) /\ IsWord(t))
<1> DEFINE g == Gap(layout, l, t)
<1>1. <<" ">> # <<>> /\ <<NewLine>> # <<>> /\ <<Hash, "{", NewLine>> # <<>>
  OBVIOUS
<1>2. CASE layout = "tight"
  <2>1. g = IF IsWord(l) /\ IsWord(t) THEN <<" ">> ELSE <<>>
    BY <1>2, Zenon DEF Gap
  <2> QED
    BY <1>1, <2>1, Zenon
<1>3. CASE layout = "lines"
  <2>1. g = <<NewLine>>
    BY <1>3 DEF Gap
  <2> QED
    BY <1>1, <2>1, Zenon
<1>4. CASE layout = "remarks"
  <2>1. g = <<Hash, "{", NewLine>>
    BY <1>4 DEF Gap
  <2> QED
    BY <1>1, <2>1, Zenon
<1> QED
  BY <1>2, <1>3, <1>4 DEF Layouts

LEMMA GapIs ==
    ASSUME NEW layout \in Layouts, NEW l, NEW t
    PROVE  /\ Gap(layout, l, t) \in Seq(Ink) /\ IsGap(Gap(layout, l, t))
           /\ Gap(layout, l, t) # <<>> => Gap(layout, l, t)[1] \in Stops
<1> DEFINE b == " "
           n == NewLine
           h == Hash
           c == "{"
           g == Gap(layout, l, t)
<1>1. b \in Ink /\ n \in Ink /\ h \in Ink /\ c \in Ink
  BY DEF Ink, Signs, Blanks
<1>2. b \in Blanks /\ n \in Blanks /\ c # n
  BY DEF Blanks, NewLine
<1>3. b \in Stops /\ n \in Stops /\ h \in Stops
  BY DEF Stops, Blanks
<1>4. h = Hash /\ n = NewLine
  OBVIOUS
<1>5. g \in {<<>>, <<b>>, <<n>>, <<h, c, n>>}
  BY GapOneOf
<1> HIDE DEF b, n, h, c, g
<1>6. CASE g = <<>>
  <2>1. <<>> \in Seq(Ink) /\ IsGap(<<>>)
    BY DEF IsGap
  <2>2. g \in Seq(Ink) /\ IsGap(g)
    BY <1>6, <2>1, Zenon
  <2> QED
    BY <1>6, <2>2 DEF g
<1>7. ASSUME NEW d \in {b, n}, g = <<d>> PROVE g \in Seq(Ink) /\ IsGap(g) /\ g[1] \in Stops
  <2>1. d \in Ink /\ d \in Blanks /\ d \in Stops
    BY <1>1, <1>2, <1>3
  <2>2. <<d>> \in Seq(Ink) /\ <<d>>[1] = d
    BY <2>1, Few
  <2>3. IsGap(<<d>>)
    BY <2>1, BlankGap
  <2> QED
    BY <1>7, <2>1, <2>2, <2>3, Zenon
<1>8. CASE g = <<h, c, n>>
  <2>1. <<h, c, n>> \in Seq(Ink) /\ <<h, c, n>>[1] = h
    BY <1>1, Few
  <2>2. IsGap(<<h, c, n>>)
    BY <1>1, <1>2, <1>4, RemarkGap
  <2>3. g \in Seq(Ink) /\ IsGap(g) /\ g[1] \in Stops
    BY <1>3, <1>8, <2>1, <2>2, Zenon
  <2> QED
    BY <2>3 DEF g
<1>9. g \in Seq(Ink) /\ IsGap(g) /\ (g # <<>> => g[1] \in Stops)
  <2>1. CASE g = <<b>> \/ g = <<n>>
    BY <1>7, <2>1, Zenon
  <2> QED
    BY <1>5, <1>6, <1>8, <2>1 DEF g
<1> QED
  BY <1>9 DEF g

(* A word ends where a gap begins, or the next token.                      *)
LEMMA GapEndsWord ==
    ASSUME NEW layout \in Layouts, NEW l, IsWord(l), NEW t \in Seq(Ink), IsToken(t), NEW x,
           x = Gap(layout, l, t) \o t
    PROVE  x # <<>> /\ x[1] \in Stops
<1> DEFINE g == Gap(layout, l, t)
<1>1. g \in Seq(Ink) /\ t # <<>> /\ (g # <<>> => g[1] \in Stops)
  BY GapIs, TokenBegins
<1>0. g = <<>> => ~IsWord(t)
  BY GapOneOf
<1>4. x = g \o t
  OBVIOUS
<1> HIDE DEF g
<1>2. CASE g # <<>>
  <2>2. Len(g) \in Nat \ {0}
    BY <1>1, <1>2, LenProperties, EmptySeq
  <2>3. /\ g \o t \in Seq(Ink) /\ Len(g \o t) = Len(g) + Len(t)
        /\ \A j \in 1..Len(g) + Len(t) : (g \o t)[j] = IF j <= Len(g) THEN g[j] ELSE t[j - Len(g)]
    BY <1>1, ConcatProperties
  <2>4. Len(t) \in Nat
    BY LenProperties
  <2>5. 1 \in 1..Len(g) + Len(t) /\ 1 <= Len(g) /\ Len(g) + Len(t) # 0
    BY <2>2, <2>4
  <2>6. (g \o t)[1] = g[1] /\ g \o t # <<>>
    BY <2>3, <2>5, EmptySeq
  <2> QED
    BY <1>1, <1>2, <1>4, <2>6
<1>3. CASE g = <<>>
  <2>1. x = t
    BY <1>3, <1>4, ConcatEmptySeq
  <2>3. Head(t) \in Delimiters
    BY <1>0, <1>3 DEF IsWord
  <2>4. Head(t) = t[1]
    BY <1>1
  <2> QED
    BY <1>1, <2>1, <2>3, <2>4 DEF Stops
<1> QED
  BY <1>2, <1>3

(* A text gets longer by the next token and the gap before it.             *)
Pieces(ts, layout) ==
    [i \in DOMAIN ts |-> IF i = 1 THEN ts[1] ELSE Gap(layout, ts[i - 1], ts[i]) \o ts[i]]

LEMMA PiecesGrow ==
    ASSUME NEW layout \in Layouts, NEW ts \in Seq(Seq(Ink)), NEW t \in Seq(Ink)
    PROVE  /\ Pieces(ts, layout) \in Seq(Seq(Ink))
           /\ Between(layout, ts, t) \in Seq(Ink) /\ Between(layout, ts, t) \o t \in Seq(Ink)
           /\ Pieces(Append(ts, t), layout) = Append(Pieces(ts, layout), Between(layout, ts, t) \o t)
<1> DEFINE Z == Seq(Ink)
           n == Len(ts)
           u == Append(ts, t)
           b == Between(layout, ts, t)
           G(l, r) == Gap(layout, l, r)
           P(s) == Pieces(s, layout)
<1>1. <<>> \in Z /\ \A x, y \in Z : x \o y \in Z
  BY EmptySeq, ConcatProperties
<1>2. \A l, r : G(l, r) \in Z
  BY GapIs
<1>3. n \in Nat /\ DOMAIN ts = 1..n /\ \A i \in 1..n : ts[i] \in Z
  BY LenProperties, ElementOfSeq
<1>4. t \in Z /\ ts \in Seq(Z)
  OBVIOUS
<1>5. /\ u \in Seq(Z) /\ DOMAIN u = 1..n + 1 /\ Len(u) = n + 1
      /\ \A i \in 1..n : u[i] = ts[i]
      /\ u[n + 1] = t
  <2> HIDE DEF Z
  <2>1. u \in Seq(Z) /\ Len(u) = n + 1 /\ u[n + 1] = t /\ \A i \in 1..n : u[i] = ts[i]
    BY <1>4, AppendProperties
  <2> HIDE DEF u
  <2>2. DOMAIN u = 1..Len(u)
    BY <2>1, LenProperties
  <2> QED
    BY <2>1, <2>2
<1>6. b \in Z
  <2>1. b = IF ts = <<>> THEN <<>> ELSE G(ts[n], t)
    BY Zenon DEF Between
  <2> HIDE DEF b, G, Z
  <2> QED
    BY <1>1, <1>2, <2>1
<1>7. b \o t \in Z
  <2> HIDE DEF Z, b
  <2> QED
    BY <1>1, <1>4, <1>6
<1>8. \A s : P(s) = [i \in DOMAIN s |-> IF i = 1 THEN s[1] ELSE G(s[i - 1], s[i]) \o s[i]]
  BY Zenon DEF Pieces
<1>9. P(u)[n + 1] = b \o t
  <2>1. n + 1 \in 1..n + 1
    BY <1>3
  <2>2. CASE n = 0
    <3>1. ts = <<>>
      <4> HIDE DEF Z
      <4> QED
        BY <1>4, <2>2, EmptySeq
    <3>2. b = <<>>
      BY <3>1, Zenon DEF Between
    <3>3. b \o t = t
      BY <3>2, ConcatEmptySeq
    <3>4. P(u)[1] = u[1]
      <4>1. 1 \in DOMAIN u
        BY <1>5, <2>1, <2>2
      <4> HIDE DEF P, G, u
      <4> QED
        BY <1>8, <4>1
    <3> HIDE DEF P, b, u
    <3> QED
      BY <1>5, <2>2, <3>3, <3>4
  <2>3. CASE n # 0
    <3>1. ts # <<>>
      <4> HIDE DEF Z
      <4> QED
        BY <1>4, <2>3, EmptySeq
    <3>2. b = G(ts[n], t)
      BY <3>1, Zenon DEF Between
    <3> DEFINE e == n + 1
    <3>3. n \in 1..n /\ e - 1 = n /\ e # 1 /\ e \in DOMAIN u
      BY <1>3, <1>5, <2>1, <2>3
    <3>4. P(u)[e] = G(u[e - 1], u[e]) \o u[e]
      <4> DEFINE H(i) == IF i = 1 THEN u[1] ELSE G(u[i - 1], u[i]) \o u[i]
      <4>1. P(u) = [i \in DOMAIN u |-> H(i)]
        BY <1>8
      <4> HIDE DEF H, P, G, u, e
      <4>2. P(u)[e] = H(e)
        BY <3>3, <4>1
      <4> QED
        BY <3>3, <4>2 DEF H
    <3>5. u[n] = ts[n] /\ u[e] = t
      BY <1>5, <3>3
    <3> HIDE DEF P, b, u, G, e
    <3>6. P(u)[e] = b \o t
      BY <3>2, <3>3, <3>4, <3>5
    <3> QED
      BY <3>6 DEF e
  <2> QED
    BY <2>2, <2>3
<1>10. ASSUME NEW i \in 1..n PROVE P(u)[i] = P(ts)[i] /\ P(ts)[i] \in Z
  <2>1. i \in 1..n + 1 /\ (i # 1 => i - 1 \in 1..n) /\ (i = 1 => 1 \in 1..n)
    BY <1>3
  <2>2. P(u)[i] = IF i = 1 THEN u[1] ELSE G(u[i - 1], u[i]) \o u[i]
    <3> HIDE DEF P, G, u
    <3> QED
      BY <1>5, <1>8, <2>1
  <2>3. P(ts)[i] = IF i = 1 THEN ts[1] ELSE G(ts[i - 1], ts[i]) \o ts[i]
    <3> HIDE DEF P, G
    <3> QED
      BY <1>3, <1>8
  <2> HIDE DEF P, G, u, Z
  <2>4. P(u)[i] = P(ts)[i]
    BY <1>5, <2>1, <2>2, <2>3
  <2>5. P(ts)[i] \in Z
    BY <1>1, <1>2, <1>3, <2>1, <2>3
  <2> QED
    BY <2>4, <2>5
<1>11. DOMAIN P(u) = 1..n + 1 /\ DOMAIN P(ts) = 1..n
  <2>1. DOMAIN P(u) = DOMAIN u /\ DOMAIN P(ts) = DOMAIN ts
    BY <1>8
  <2> HIDE DEF P, u
  <2> QED
    BY <1>3, <1>5, <2>1
<1>12. P(ts) \in Seq(Z) /\ Len(P(ts)) = n
  <2>1. P(ts) = [i \in 1..n |-> P(ts)[i]]
    <3>1. P(ts) = [i \in DOMAIN ts |-> P(ts)[i]]
      BY <1>8
    <3> HIDE DEF P
    <3> QED
      BY <1>3, <3>1
  <2> HIDE DEF P, u, Z
  <2> DEFINE y == P(ts)
  <2>2. y \in [1..n -> Z]
    BY <1>10, <2>1
  <2>3. n \in Nat
    BY <1>3
  <2> HIDE DEF n, y
  <2>4. y \in Seq(Z) /\ Len(y) = n
    BY <2>2, <2>3
  <2> QED
    BY <2>4 DEF y
<1>13. P(u) = [i \in 1..n + 1 |-> P(u)[i]]
  <2>1. P(u) = [i \in DOMAIN u |-> P(u)[i]]
    BY <1>8
  <2> HIDE DEF P, u
  <2> QED
    BY <1>5, <2>1
<1>14. P(u) = Append(P(ts), b \o t)
  <2> DEFINE x == P(u)
             y == P(ts)
             c == b \o t
  <2>1. x = [i \in 1..n + 1 |-> x[i]] /\ x[n + 1] = c /\ \A i \in 1..n : x[i] = y[i]
    BY <1>9, <1>10, <1>13
  <2>2. y \in Seq(Z) /\ Len(y) = n /\ c \in Z
    BY <1>7, <1>12
  <2> HIDE DEF x, y, c, Z
  <2>3. Append(y, c) \in Seq(Z) /\ Len(Append(y, c)) = n + 1 /\ Append(y, c)[n + 1] = c
        /\ \A i \in 1..n : Append(y, c)[i] = y[i]
    BY <2>2, AppendProperties
  <2>4. Append(y, c) = [i \in 1..n + 1 |-> Append(y, c)[i]]
    <3> DEFINE v == Append(y, c)
    <3>1. v \in Seq(Z) /\ Len(v) = n + 1
      BY <2>3
    <3> HIDE DEF v
    <3>2. v \in [1..Len(v) -> Z]
      BY <3>1, LenProperties
    <3>3. v = [i \in 1..n + 1 |-> v[i]]
      BY <3>1, <3>2
    <3> QED
      BY <3>3 DEF v
  <2>5. \A i \in 1..n + 1 : x[i] = Append(y, c)[i]
    <3>1. \A i \in 1..n + 1 : i = n + 1 \/ i \in 1..n
      BY <1>3
    <3> QED
      BY <2>1, <2>3, <3>1
  <2>6. x = Append(y, c)
    BY <2>1, <2>4, <2>5
  <2> QED
    BY <2>6 DEF x, y, c
<1> QED
  BY <1>6, <1>7, <1>12, <1>14

LEMMA LayOutGrows ==
    ASSUME NEW layout \in Layouts, NEW ts \in Seq(Seq(Ink)), NEW t \in Seq(Ink)
    PROVE  /\ LayOut(<<>>, layout) = <<>> /\ LayOut(ts, layout) \in Seq(Ink)
           /\ LayOut(Append(ts, t), layout) = LayOut(ts, layout) \o (Between(layout, ts, t) \o t)
<1> DEFINE P(s) == Pieces(s, layout)
           c == Between(layout, ts, t) \o t
<1>1. \A s : LayOut(s, layout) = FlattenSeq(P(s))
  BY Zenon DEF LayOut, Pieces
<1>2. P(ts) \in Seq(Seq(Ink)) /\ c \in Seq(Ink) /\ P(Append(ts, t)) = Append(P(ts), c)
  BY PiecesGrow
<1>3. P(<<>>) = <<>>
  BY DEF Pieces
<1> HIDE DEF P, c
<1>4. FlattenSeq(<<>>) = <<>> /\ FlattenSeq(P(ts)) \in Seq(Ink)
      /\ FlattenSeq(Append(P(ts), c)) = FlattenSeq(P(ts)) \o c
  BY <1>2, FlattenGrows
<1>5. LayOut(<<>>, layout) = <<>> /\ LayOut(ts, layout) \in Seq(Ink)
  BY <1>1, <1>3, <1>4
<1>6. LayOut(Append(ts, t), layout) = LayOut(ts, layout) \o c
  BY <1>1, <1>2, <1>4
<1> QED
  BY <1>5, <1>6 DEF c

AllTokens(ts) == \A i \in 1..Len(ts) : IsToken(ts[i])
Ends(u, r) == u = <<>> \/ r = <<>> \/ r[1] \in Stops \/ ~IsPlain(u[Len(u)])
Laid(layout, u) ==
    \A r \in Seq(Ink) : \A f :
        Ends(u, r) /\ Tokenized(Ink, LayOut(u, layout) \o r, f) =>
            f[1] = u \o f[Len(LayOut(u, layout)) + 1]

LEMMA WordsWords ==
    ASSUME NEW Y
    PROVE  /\ \A w \in Words(Y) : w \in Seq(Y) /\ w # <<>>
           /\ \A ts \in Seq(Words(Y)) : ts \in Seq(Seq(Y))
<1>1. \A w \in Words(Y) : w \in Seq(Y) /\ w # <<>>
  BY Zenon DEF Words
<1>2. Words(Y) \subseteq Seq(Y)
  BY <1>1
<1> DEFINE S == Words(Y)
           Z == Seq(Y)
<1> HIDE DEF S, Z
<1>3. S \subseteq Z
  BY <1>2 DEF S, Z
<1>4. \A ts \in Seq(S) : ts \in Seq(Z)
  BY <1>3, SeqWidens
<1> QED
  BY <1>1, <1>4 DEF S, Z

LEMMA PlainIsWord ==
    ASSUME NEW Y, NEW w \in Seq(Y), IsPlain(w)
    PROVE  IsWord(w)
<1>1. w # <<>> /\ \A i \in 1..Len(w) : w[i] \notin Stops
  BY DEF IsPlain
<1>2. 1 \in 1..Len(w) /\ Head(w) = w[1]
  BY <1>1, LenProperties, EmptySeq
<1> QED
  BY <1>1, <1>2 DEF Stops, IsWord

(* What stands after a text that goes on with a token.                     *)
LEMMA EndsBefore ==
    ASSUME NEW layout \in Layouts, NEW u \in Seq(Words(Ink)), NEW c \in Words(Ink), IsToken(c),
           NEW r \in Seq(Ink)
    PROVE  Ends(u, (Between(layout, u, c) \o c) \o r)
<1> DEFINE l == u[Len(u)]
           x == Between(layout, u, c) \o c
<1>1. CASE u = <<>> \/ ~IsPlain(l)
  BY <1>1, Zenon DEF Ends
<1>2. CASE u # <<>> /\ IsPlain(l)
  <2>1. Len(u) \in 1..Len(u)
    BY <1>2, LenProperties, EmptySeq
  <2>2. l \in Words(Ink)
    BY <2>1, ElementOfSeq
  <2>3. l \in Seq(Ink)
    BY <2>2, WordsWords
  <2>4. IsWord(l)
    BY <1>2, <2>3, PlainIsWord
  <2>5. Between(layout, u, c) = Gap(layout, l, c)
    BY <1>2, Zenon DEF Between
  <2>6. c \in Seq(Ink)
    BY WordsWords
  <2>7. x # <<>> /\ x[1] \in Stops
    <3> DEFINE g == Gap(layout, l, c) \o c
    <3> HIDE DEF l
    <3>1. g # <<>> /\ g[1] \in Stops
      BY <2>4, <2>6, GapEndsWord
    <3> QED
      BY <2>5, <3>1
  <2>8. x \in Seq(Ink)
    <3>1. Gap(layout, l, c) \in Seq(Ink)
      BY GapIs
    <3> HIDE DEF l
    <3> QED
      BY <2>5, <2>6, <3>1, ConcatProperties
  <2> HIDE DEF x, l
  <2>9. (x \o r)[1] = x[1]
    <3>1. Len(x) \in Nat \ {0} /\ Len(r) \in Nat
      BY <2>7, <2>8, LenProperties, EmptySeq
    <3>2. 1 \in 1..Len(x) + Len(r) /\ 1 <= Len(x)
      BY <3>1
    <3>3. \A j \in 1..Len(x) + Len(r) : (x \o r)[j] = IF j <= Len(x) THEN x[j] ELSE r[j - Len(x)]
      BY <2>8, ConcatProperties
    <3> QED
      BY <3>2, <3>3
  <2>10. (x \o r)[1] \in Stops
    BY <2>7, <2>9
  <2> QED
    BY <2>10, Zenon DEF Ends, x
<1> QED
  BY <1>1, <1>2

LEMMA LaidOn ==
    ASSUME NEW layout \in Layouts, NEW u \in Seq(Words(Ink)), Laid(layout, u),
           NEW c \in Words(Ink), IsToken(c)
    PROVE  Laid(layout, Append(u, c))
<1> DEFINE a == LayOut(u, layout)
           g == Between(layout, u, c)
           v == Append(u, c)
<1>1. c \in Seq(Ink) /\ u \in Seq(Seq(Ink))
  BY WordsWords
<1>2. /\ a \in Seq(Ink) /\ g \in Seq(Ink)
      /\ LayOut(v, layout) = a \o (g \o c)
  BY <1>1, LayOutGrows, PiecesGrow
<1>3. IsGap(g)
  <2>1. IsGap(<<>>)
    BY DEF IsGap
  <2>2. g = IF u = <<>> THEN <<>> ELSE Gap(layout, u[Len(u)], c)
    BY Zenon DEF Between
  <2>3. CASE u = <<>>
    BY <2>1, <2>2, <2>3, Zenon
  <2>4. CASE u # <<>>
    <3>1. IsGap(Gap(layout, u[Len(u)], c))
      BY GapIs
    <3> QED
      BY <2>2, <2>4, <3>1, Zenon
  <2> QED
    BY <2>3, <2>4
<1>4. v # <<>> /\ v[Len(v)] = c
  <2> DEFINE Z == Words(Ink)
  <2>1. c \in Z /\ u \in Seq(Z)
    OBVIOUS
  <2> HIDE DEF Z, v
  <2>2. Len(v) = Len(u) + 1 /\ v[Len(u) + 1] = c
    BY <2>1, AppendProperties DEF v
  <2>3. Len(u) \in Nat
    BY <2>1, LenProperties
  <2>4. v # <<>>
    BY <2>2, <2>3, EmptySeq
  <2> QED
    BY <2>2, <2>4
<1>5. \A r \in Seq(Ink) : Ends(u, (g \o c) \o r)
  BY EndsBefore
<1> SUFFICES ASSUME NEW r \in Seq(Ink), NEW f, Ends(v, r), Tokenized(Ink, LayOut(v, layout) \o r, f)
             PROVE  f[1] = v \o f[Len(LayOut(v, layout)) + 1]
  BY Zenon DEF Laid
<1> DEFINE x == g \o c
           T == a \o (x \o r)
           i == Len(a) + 1
           j == Len(a) + Len(g) + Len(c) + 1
<1>6. x \in Seq(Ink) /\ Len(x) = Len(g) + Len(c)
  BY <1>1, <1>2, ConcatProperties
<1>7. LayOut(v, layout) \o r = T
  <2> HIDE DEF x, a
  <2>1. (a \o x) \o r = a \o (x \o r)
    BY <1>2, <1>6, ConcatAssociative, SMTT(30)
  <2> QED
    BY <1>2, <2>1 DEF x
<1>8. Len(LayOut(v, layout)) + 1 = j
  <2> HIDE DEF x, a, g
  <2>1. Len(a \o x) = Len(a) + Len(x)
    BY <1>2, <1>6, ConcatProperties
  <2>2. Len(a) \in Nat /\ Len(g) \in Nat /\ Len(c) \in Nat
    BY <1>1, <1>2, LenProperties
  <2>3. Len(LayOut(v, layout)) = Len(a) + Len(x)
    BY <1>2, <2>1 DEF x
  <2> QED
    BY <1>6, <2>2, <2>3
<1>9. Tokenized(Ink, T, f)
  BY <1>7
<1>10. f[1] = u \o f[i]
  <2>1. x \o r \in Seq(Ink)
    BY <1>6, ConcatProperties
  <2>2. Ends(u, x \o r)
    BY <1>5
  <2> HIDE DEF x
  <2>3. \A q \in Seq(Ink) : \A h : Ends(u, q) /\ Tokenized(Ink, a \o q, h) => h[1] = u \o h[i]
    BY Zenon DEF Laid
  <2> HIDE DEF a, i
  <2> QED
    BY <1>9, <2>1, <2>2, <2>3
<1>11. f[i] = <<c>> \o f[j]
  <2>1. r = <<>> \/ r[1] \in Stops \/ ~IsPlain(c)
    <3> HIDE DEF v
    <3> QED
      BY <1>4 DEF Ends
  <2> HIDE DEF a, g
  <2>2. a \in Seq(Ink) /\ g \in Seq(Ink) /\ c \in Seq(Ink) /\ T = a \o ((g \o c) \o r)
    BY <1>1, <1>2
  <2> HIDE DEF T
  <2>3. Tokenized(Ink, T, f) /\ IsGap(g)
    BY <1>3, <1>9
  <2>4. Yields(a, g, c, f)
    BY <2>1, <2>2, <2>3, FirstToken
  <2> QED
    BY <2>4, Zenon DEF Yields
<1>12. f[j] \in Seq(Words(Ink))
  <2>1. Len(T) = Len(a) + Len(g) + Len(c) + Len(r) /\ T \in Seq(Ink)
    <3> HIDE DEF a, g
    <3> QED
      BY <1>1, <1>2, PartsPlaced
  <2> HIDE DEF a, g, T
  <2>2. Len(a) \in Nat /\ Len(g) \in Nat /\ Len(c) \in Nat /\ Len(r) \in Nat
    BY <1>1, <1>2, LenProperties
  <2>3. j \in 1..Len(T) + 1
    BY <2>1, <2>2
  <2> HIDE DEF j
  <2>4. f \in [1..Len(T) + 1 -> Seq(Words(Ink))]
    BY <1>9, Zenon DEF Tokenized
  <2> QED
    BY <2>3, <2>4
<1>13. u \o (<<c>> \o f[j]) = v \o f[j]
  <2> DEFINE Z == Words(Ink)
             q == f[j]
  <2>1. u \in Seq(Z) /\ c \in Z /\ q \in Seq(Z)
    BY <1>12
  <2> HIDE DEF Z, q
  <2>2. <<c>> \in Seq(Z) /\ Append(<<>>, c) = <<c>> /\ <<>> \in Seq(Z)
    BY <2>1, Singles, EmptySeq
  <2>3. u \o <<c>> = Append(u, c)
    <3>1. u \o Append(<<>>, c) = Append(u \o <<>>, c)
      BY <2>1, <2>2, ConcatAppend
    <3>2. u \o <<>> = u
      BY <2>1, ConcatEmptySeq
    <3> QED
      BY <2>2, <3>1, <3>2
  <2>4. (u \o <<c>>) \o q = u \o (<<c>> \o q)
    BY <2>1, <2>2, Grouping DEF Grouped
  <2>5. u \o (<<c>> \o q) = Append(u, c) \o q
    BY <2>3, <2>4
  <2> QED
    BY <2>5 DEF q
<1>14. f[1] = v \o f[j]
  <2> HIDE DEF v, i, j
  <2> QED
    BY <1>10, <1>11, <1>13, Zenon
<1> QED
  BY <1>8, <1>14

LEMMA NothingLaid ==
    ASSUME NEW layout \in Layouts
    PROVE  Laid(layout, <<>>)
<1> DEFINE a == LayOut(<<>>, layout)
<1>1. a = <<>>
  <2>1. <<>> \in Seq(Seq(Ink)) /\ <<>> \in Seq(Ink)
    BY EmptySeq
  <2> QED
    BY <2>1, LayOutGrows
<1> SUFFICES ASSUME NEW r \in Seq(Ink), NEW f, Tokenized(Ink, a \o r, f)
             PROVE  f[1] = <<>> \o f[Len(a) + 1]
  BY Zenon DEF Laid
<1>2. a \o r = r /\ Len(a) + 1 = 1
  BY <1>1, ConcatEmptySeq
<1> HIDE DEF a
<1>3. Tokenized(Ink, r, f)
  BY <1>2
<1>4. f[1] \in Seq(Words(Ink))
  <2>1. f \in [1..Len(r) + 1 -> Seq(Words(Ink))]
    BY <1>3, Zenon DEF Tokenized
  <2>2. 1 \in 1..Len(r) + 1
    BY LenProperties
  <2> QED
    BY <2>1, <2>2
<1>5. <<>> \o f[1] = f[1]
  BY <1>4, ConcatEmptySeq
<1> QED
  BY <1>2, <1>5

LEMMA AllLaid ==
    ASSUME NEW layout \in Layouts, NEW ts \in Seq(Words(Ink)), AllTokens(ts)
    PROVE  Laid(layout, ts)
<1> DEFINE W == Words(Ink)
           S == {u \in Seq(W) : AllTokens(u) => Laid(layout, u)}
<1>1. <<>> \in S
  BY NothingLaid, EmptySeq
<1>2. ASSUME NEW u \in Seq(W), NEW c \in W, u \in S PROVE Append(u, c) \in S
  <2> SUFFICES ASSUME AllTokens(Append(u, c)) PROVE Append(u, c) \in Seq(W) /\ Laid(layout, Append(u, c))
    BY DEF S
  <2>1. /\ Append(u, c) \in Seq(W) /\ Len(Append(u, c)) = Len(u) + 1 /\ Len(u) \in Nat
        /\ Append(u, c)[Len(u) + 1] = c /\ \A i \in 1..Len(u) : Append(u, c)[i] = u[i]
    <3> HIDE DEF W
    <3> QED
      BY AppendProperties, LenProperties
  <2>2. AllTokens(u) /\ IsToken(c)
    <3> DEFINE v == Append(u, c)
    <3> HIDE DEF v, W
    <3>1. \A i \in 1..Len(u) : i \in 1..Len(v)
      BY <2>1 DEF v
    <3>2. Len(u) + 1 \in 1..Len(v)
      BY <2>1 DEF v
    <3>3. AllTokens(v)
      BY DEF v
    <3>4. \A i \in 1..Len(u) : v[i] = u[i]
      BY <2>1 DEF v
    <3>5. v[Len(u) + 1] = c
      BY <2>1 DEF v
    <3>6. AllTokens(u)
      BY <3>1, <3>3, <3>4 DEF AllTokens
    <3>7. IsToken(c)
      BY <3>2, <3>3, <3>5 DEF AllTokens
    <3> QED
      BY <3>6, <3>7
  <2>3. Laid(layout, u)
    BY <1>2, <2>2
  <2>4. Laid(layout, Append(u, c))
    BY <2>2, <2>3, LaidOn
  <2> QED
    BY <2>1, <2>4
<1> HIDE DEF S
<1>3. Seq(W) \subseteq S
  BY <1>1, <1>2, Appending
<1> QED
  BY <1>3 DEF S

(* A sequence of tokens is what a text is tokenized into that they are     *)
(* laid out in.                                                            *)
LEMMA TokensLaid ==
    ASSUME NEW layout \in Layouts, NEW ts \in Seq(Words(Ink)), AllTokens(ts)
    PROVE  LayOut(ts, layout) \in Seq(Ink) /\ Tokens(LayOut(ts, layout)) = ts
<1> DEFINE T == LayOut(ts, layout)
<1>1. Laid(layout, ts)
  BY AllLaid
<1>2. T \in Seq(Ink)
  <2>1. ts \in Seq(Seq(Ink)) /\ <<>> \in Seq(Ink)
    BY WordsWords, EmptySeq
  <2> QED
    BY <2>1, LayOutGrows
<1>3. \A r \in Seq(Ink) : \A f : Ends(ts, r) /\ Tokenized(Ink, T \o r, f) => f[1] = ts \o f[Len(T) + 1]
  BY <1>1, Zenon DEF Laid
<1> HIDE DEF T
<1>4. PICK f \in [1..Len(T) + 1 -> Seq(Words(Ink))] :
         /\ Tokens(T) = f[1]
         /\ \A i \in 1..Len(T) + 1 : f[i] = TokensFrom(T, f, i)
  BY <1>2, TokensAre
<1>5. Tokenized(Ink, T, f)
  BY <1>4, Zenon DEF Tokenized
<1>6. T \o <<>> = T /\ <<>> \in Seq(Ink) /\ Ends(ts, <<>>)
  BY <1>2, ConcatEmptySeq, EmptySeq DEF Ends
<1>7. f[1] = ts \o f[Len(T) + 1]
  BY <1>3, <1>5, <1>6
<1>8. f[Len(T) + 1] = <<>>
  BY <1>2, <1>5, LastToken
<1>9. ts \o <<>> = ts
  BY ConcatEmptySeq
<1>10. Tokens(T) = ts
  BY <1>4, <1>7, <1>8, <1>9
<1> QED
  BY <1>2, <1>10 DEF T

-----------------------------------------------------------------------------
(* What a token does to the tree.                                          *)
Block(ds, ls)     == [directives |-> ds, locations |-> ls]
LocationBlock(path, ds)   == [path |-> path, directives |-> ds]
WithLast(tree, s) == [tree EXCEPT ![Len(tree)] = s]
LastOf(tree)      == tree[Len(tree)]

ConfigBuilds(p, t, q) ==
    /\ p.words = <<>> /\ t = ServerWord => q.ast = p.ast
    /\ p.words # <<>> /\ t = LBrace => q.ast = Append(p.ast, Block(<<>>, <<>>))

ServerBuilds(p, t, q) ==
    /\ IsWord(t) /\ (Locates(p.words) => Len(p.words) < 2) => q.ast = p.ast
    /\ t = LBrace /\ Locates(p.words) /\ Len(p.words) = 2 =>
          q.ast = WithLast(p.ast, ServerLocation(LastOf(p.ast), LocationBlock(p.words[2], <<>>)))
    /\ t = Semicolon /\ p.words # <<>> /\ ~Locates(p.words) =>
          q.ast = WithLast(p.ast, ServerDirective(LastOf(p.ast), Directive(p.words)))
    /\ t = RBrace /\ p.words = <<>> => q.ast = p.ast

LocationBuilds(p, t, q) ==
    /\ IsWord(t) => q.ast = p.ast
    /\ t = Semicolon /\ p.words # <<>> =>
          q.ast = WithLast(p.ast, LocationDirective(LastOf(p.ast), Directive(p.words)))
    /\ t = RBrace /\ p.words = <<>> => q.ast = p.ast

LEMMA TreeTaken ==
    ASSUME NEW Y, NEW p \in Parses(Y), NEW t
    PROVE  Word(p, t).ast = p.ast
<1>1. p \in [level : {"config", "server", "location", "error"}, words : Seq(Words(Y)), ast : Trees(Y)]
  BY ParseParts
<1> HIDE DEF Words, Trees
<1> QED
  BY <1>1 DEF Word

LEMMA TreeEntered ==
    ASSUME NEW level, NEW tree
    PROVE  Enter(level, tree).ast = tree
BY DEF Enter

LEMMA BuildsAre ==
    ASSUME NEW Y, NEW p \in Parses(Y), NEW t
    PROVE  /\ p.level = "config" => ConfigBuilds(p, t, ParseToken(p, t))
           /\ p.level = "server" => ServerBuilds(p, t, ParseToken(p, t))
           /\ p.level = "location" => LocationBuilds(p, t, ParseToken(p, t))
<1> DEFINE q == ParseToken(p, t)
           W == Word(p, t)
           F == Fail(p)
           n == Len(p.ast)
<1>1. W.ast = p.ast
  BY TreeTaken
<1> HIDE DEF W, F
<1>2. CASE p.level = "config"
  <2> DEFINE E == Enter("server", Append(p.ast, [directives |-> <<>>, locations |-> <<>>]))
  <2>1. E.ast = Append(p.ast, Block(<<>>, <<>>))
    BY TreeEntered DEF Block
  <2>2. q = CASE p.words = <<>> /\ t = ServerWord -> W
              [] p.words # <<>> /\ t = LBrace -> E
              [] OTHER -> F
    BY <1>2, Zenon DEF ParseToken, InConfig, W, F
  <2> HIDE DEF E, q
  <2>3. ConfigBuilds(p, t, q)
    BY <1>1, <2>1, <2>2 DEF ConfigBuilds
  <2> QED
    BY <1>2, <2>3 DEF q
<1>3. CASE p.level = "server"
  <2> DEFINE words == p.words
             L == Enter("location",
                        [p.ast EXCEPT ![n].locations =
                            Append(@, [path |-> p.words[2], directives |-> <<>>])])
             D == Enter("server", [p.ast EXCEPT ![n].directives = Append(@, Directive(p.words))])
             C == Close(p, "config")
             l == WithLast(p.ast, ServerLocation(LastOf(p.ast), LocationBlock(p.words[2], <<>>)))
             d == WithLast(p.ast, ServerDirective(LastOf(p.ast), Directive(p.words)))
  <2>1. L.ast = l /\ D.ast = d /\ C.ast = p.ast
    <3>1. L.ast = [p.ast EXCEPT ![n].locations =
                            Append(@, [path |-> p.words[2], directives |-> <<>>])]
      BY TreeEntered
    <3>2. D.ast = [p.ast EXCEPT ![n].directives = Append(@, Directive(p.words))]
      BY TreeEntered
    <3>3. C.ast = p.ast
      BY TreeEntered, Zenon DEF Close
    <3>4. L.ast = l
      BY <3>1, Zenon DEF WithLast, ServerLocation, LastOf, LocationBlock
    <3>5. D.ast = d
      BY <3>2, Zenon DEF WithLast, ServerDirective, LastOf
    <3> QED
      BY <3>3, <3>4, <3>5
  <2>2. q = CASE IsWord(t) /\ (Locates(words) => Len(words) < 2) -> W
              [] t = LBrace /\ Locates(words) /\ Len(words) = 2 -> L
              [] t = Semicolon /\ words # <<>> /\ ~Locates(words) -> D
              [] t = RBrace /\ words = <<>> -> C
              [] OTHER -> F
    BY <1>3, Zenon DEF ParseToken, InServer, W, F, Locates
  <2>3. words = <<>> => ~Locates(words)
    BY DEF Locates
  <2> HIDE DEF L, D, C, q, words, l, d
  <2> DEFINE lb == LBrace
             rb == RBrace
             sc == Semicolon
             isword == IsWord(t)
             loc == Locates(words)
             len == Len(words)
  <2>4. lb # rb /\ lb # sc /\ rb # sc /\ (t \in {lb, rb, sc} => ~isword)
    BY TokensDiffer
  <2> HIDE DEF lb, rb, sc, isword, loc, len
  <2>5. q = CASE isword /\ (loc => len < 2) -> W
              [] t = lb /\ loc /\ len = 2 -> L
              [] t = sc /\ words # <<>> /\ ~loc -> D
              [] t = rb /\ words = <<>> -> C
              [] OTHER -> F
    BY <2>2, Zenon DEF lb, rb, sc, isword, loc, len
  <2>6. /\ isword /\ (loc => len < 2) => q = W
        /\ t = lb /\ loc /\ len = 2 => q = L
        /\ t = sc /\ words # <<>> /\ ~loc => q = D
        /\ t = rb /\ words = <<>> => q = C
    BY <2>4, <2>5
  <2>7. ServerBuilds(p, t, q)
    BY <1>1, <2>1, <2>6, Zenon DEF ServerBuilds, lb, rb, sc, isword, loc, len, words, l, d
  <2> QED
    BY <1>3, <2>7 DEF q
<1>4. CASE p.level = "location"
  <2> DEFINE words == p.words
             l == Len(p.ast[n].locations)
             D == Enter("location",
                        [p.ast EXCEPT ![n].locations[l].directives = Append(@, Directive(p.words))])
             C == Close(p, "server")
             d == WithLast(p.ast, LocationDirective(LastOf(p.ast), Directive(p.words)))
  <2>1. D.ast = d /\ C.ast = p.ast
    <3>1. D.ast = [p.ast EXCEPT ![n].locations[l].directives = Append(@, Directive(p.words))]
      BY TreeEntered
    <3>2. C.ast = p.ast
      BY TreeEntered, Zenon DEF Close
    <3>3. D.ast = d
      BY <3>1, Zenon DEF WithLast, LocationDirective, LastOf
    <3> QED
      BY <3>2, <3>3
  <2>2. q = CASE IsWord(t) -> W
              [] t = Semicolon /\ words # <<>> -> D
              [] t = RBrace /\ words = <<>> -> C
              [] OTHER -> F
    BY <1>4, Zenon DEF ParseToken, InLocation, W, F
  <2> HIDE DEF D, C, q, words, d
  <2> DEFINE rb == RBrace
             sc == Semicolon
             isword == IsWord(t)
  <2>4. rb # sc /\ (t \in {rb, sc} => ~isword)
    BY TokensDiffer
  <2> HIDE DEF rb, sc, isword
  <2>5. q = CASE isword -> W
              [] t = sc /\ words # <<>> -> D
              [] t = rb /\ words = <<>> -> C
              [] OTHER -> F
    BY <2>2, Zenon DEF rb, sc, isword
  <2>6. /\ isword => q = W
        /\ t = sc /\ words # <<>> => q = D
        /\ t = rb /\ words = <<>> => q = C
    BY <2>4, <2>5
  <2>7. LocationBuilds(p, t, q)
    BY <1>1, <2>1, <2>6, Zenon DEF LocationBuilds, rb, sc, isword, words, d
  <2> QED
    BY <1>4, <2>7 DEF q
<1> QED
  BY <1>2, <1>3, <1>4

LEMMA LastChanges ==
    ASSUME NEW Z, NEW T \in Seq(Z), NEW s, NEW new
    PROVE  /\ Append(T, s) # <<>> /\ LastOf(Append(T, s)) = s
           /\ WithLast(Append(T, s), new) = Append(T, new)
<1> DEFINE X == Z \union {s, new}
           A == Append(T, s)
           B == Append(T, new)
           n == Len(T)
           C == WithLast(A, new)
<1>1. T \in Seq(X) /\ s \in X /\ new \in X
  BY SeqWidens
<1> HIDE DEF X
<1>2. /\ A \in Seq(X) /\ Len(A) = n + 1 /\ A[n + 1] = s
      /\ \A i \in 1..n : A[i] = T[i]
  BY <1>1, AppendProperties
<1>3. /\ B \in Seq(X) /\ Len(B) = n + 1 /\ B[n + 1] = new
      /\ \A i \in 1..n : B[i] = T[i]
  BY <1>1, AppendProperties
<1>4. n \in Nat
  BY <1>1, LenProperties
<1>5. A # <<>>
  BY <1>1, AppendProperties
<1> HIDE DEF A, B
<1>6. Len(A) \in 1..Len(A)
  BY <1>2, <1>4
<1>7. /\ C \in Seq(X) /\ Len(C) = Len(A)
      /\ \A j \in 1..Len(A) : C[j] = IF j = Len(A) THEN new ELSE A[j]
  BY <1>1, <1>2, <1>6, ExceptSeq DEF WithLast
<1> HIDE DEF C
<1>8. \A j \in 1..Len(C) : C[j] = B[j]
  <2>1. \A j \in 1..Len(C) : j \in 1..Len(A) /\ (j = n + 1 \/ j \in 1..n)
    BY <1>2, <1>4, <1>7
  <2>2. \A j \in 1..n : j # n + 1
    BY <1>4
  <2> HIDE DEF n
  <2> QED
    BY <1>2, <1>3, <1>7, <2>1, <2>2
<1>9. Len(C) = Len(B)
  BY <1>2, <1>3, <1>7
<1>10. C = B
  BY <1>3, <1>7, <1>8, <1>9, SeqEqual
<1>11. LastOf(A) = s
  BY <1>2 DEF LastOf
<1> QED
  BY <1>5, <1>10, <1>11 DEF A, B, C

LEMMA BlockChanges ==
    ASSUME NEW ds, NEW ls, NEW l
    PROVE  /\ ServerDirective(Block(ds, ls), l) = Block(Append(ds, l), ls)
           /\ ServerLocation(Block(ds, ls), l) = Block(ds, Append(ls, l))
<1>1. ServerDirective(Block(ds, ls), l) = Block(Append(ds, l), ls)
  <2> DEFINE A == Append(ds, l)
  <2>1. [Block(ds, ls) EXCEPT !.directives = A] = Block(A, ls)
    <3> HIDE DEF A
    <3> QED
      BY DEF Block
  <2>2. Block(ds, ls).directives = ds
    BY DEF Block
  <2> QED
    BY <2>1, <2>2, Zenon DEF ServerDirective
<1>2. ServerLocation(Block(ds, ls), l) = Block(ds, Append(ls, l))
  <2> DEFINE A == Append(ls, l)
  <2>1. [Block(ds, ls) EXCEPT !.locations = A] = Block(ds, A)
    <3> HIDE DEF A
    <3> QED
      BY DEF Block
  <2>2. Block(ds, ls).locations = ls
    BY DEF Block
  <2> QED
    BY <2>1, <2>2, Zenon DEF ServerLocation
<1> QED
  BY <1>1, <1>2

LEMMA LocationBlockChanges ==
    ASSUME NEW Z, NEW ls \in Seq(Z), NEW es, NEW w, NEW ds, NEW d
    PROVE  LocationDirective(Block(es, Append(ls, LocationBlock(w, ds))), d)
              = Block(es, Append(ls, LocationBlock(w, Append(ds, d))))
<1> DEFINE A == Append(ls, LocationBlock(w, ds))
           n == Len(A)
           D == Append(ds, d)
           l == [A[n] EXCEPT !.directives = Append(@, d)]
           B == [A EXCEPT ![n] = l]
           s == Block(es, A)
<1>1. A[n] = LocationBlock(w, ds)
  BY LastChanges DEF LastOf
<1>2. l = LocationBlock(w, D)
  <2>1. [LocationBlock(w, ds) EXCEPT !.directives = D] = LocationBlock(w, D)
    <3> HIDE DEF D
    <3> QED
      BY DEF LocationBlock
  <2>2. LocationBlock(w, ds).directives = ds
    BY DEF LocationBlock
  <2> HIDE DEF A, n
  <2> QED
    BY <1>1, <2>1, <2>2, Zenon
<1>3. B = Append(ls, LocationBlock(w, D))
  <2>1. WithLast(A, LocationBlock(w, D)) = Append(ls, LocationBlock(w, D))
    BY LastChanges
  <2>2. B = WithLast(A, LocationBlock(w, D))
    BY <1>2, Zenon DEF WithLast
  <2> QED
    BY <2>1, <2>2, Zenon
<1>4. s.locations = A
  BY DEF Block
<1>5. LocationDirective(s, d) = [s EXCEPT !.locations = B]
  <2> HIDE DEF A, s
  <2> QED
    BY <1>4, Zenon DEF LocationDirective
<1>6. [s EXCEPT !.locations = B] = Block(es, B)
  <2> HIDE DEF A, B
  <2> QED
    BY DEF Block
<1> QED
  BY <1>3, <1>5, <1>6, Zenon

(* Words that are collected leave the tree as it is.                       *)
LEMMA WordsKeep ==
    ASSUME NEW Y, NEW u \in Seq(Words(Y)), NEW level \in {"server", "location"},
           Open(Parse(u), level), NEW v \in Seq(Words(Y)), AllWords(v),
           level = "server" => NoLocation(v)
    PROVE  Parse(u \o v).ast = Parse(u).ast
<1> DEFINE Z == Words(Y)
           Fits(w) == AllWords(w) /\ (level = "server" => NoLocation(w))
           Good(w) == Parse(u \o w).ast = Parse(u).ast
           S == {w \in Seq(Z) : Fits(w) => Good(w)}
<1>1. <<>> \in S
  <2>1. u \o <<>> = u /\ <<>> \in Seq(Z)
    BY ConcatEmptySeq, EmptySeq
  <2> QED
    BY <2>1
<1>2. ASSUME NEW w \in Seq(Z), NEW c \in Z, w \in S
      PROVE  Append(w, c) \in S
  <2>1. Append(w, c) \in Seq(Z) /\ u \o w \in Seq(Z)
    BY AppendProperties, ConcatProperties
  <2>2. ASSUME Fits(Append(w, c)) PROVE Good(Append(w, c))
    <3>1. AllWords(w) /\ IsWord(c)
      BY <2>2, AllWordsAppend
    <3>2. level = "server" => NoLocation(w) /\ ~Locates(w)
      BY <2>2, NoLocationAppend
    <3>3. Good(w)
      BY <1>2, <3>1, <3>2
    <3> DEFINE p == Parse(u \o w)
               q == ParseToken(p, c)
    <3>4. p \in Parses(Y) /\ Parse(Append(u \o w, c)) = q
      BY <2>1, ParseAppend
    <3>5. u \o Append(w, c) = Append(u \o w, c)
      BY ConcatAppend
    <3>6. p.level = level /\ p.words = w
      BY <3>1, <3>2, WordsCollect
    <3>7. p.ast = Parse(u).ast
      BY <3>3
    <3> HIDE DEF p, q, Z
    <3>8. q.ast = p.ast
      <4>1. CASE level = "server"
        <5>1. ServerBuilds(p, c, q)
          BY <3>4, <3>6, <4>1, BuildsAre DEF q
        <5> QED
          BY <3>1, <3>2, <3>6, <4>1, <5>1, Zenon DEF ServerBuilds
      <4>2. CASE level = "location"
        <5>1. LocationBuilds(p, c, q)
          BY <3>4, <3>6, <4>2, BuildsAre DEF q
        <5> QED
          BY <3>1, <5>1 DEF LocationBuilds
      <4> QED
        BY <4>1, <4>2
    <3> QED
      BY <3>4, <3>5, <3>7, <3>8
  <2> QED
    BY <2>1, <2>2
<1> HIDE DEF S
<1>3. Seq(Z) \subseteq S
  BY <1>1, <1>2, Appending
<1> QED
  BY <1>3 DEF S

-----------------------------------------------------------------------------
(* The words of a tree that can be written down.                           *)
LEMMA InkWord ==
    ASSUME NEW c \in Ink
    PROVE  <<c>> \in Words(Ink)
<1>1. <<c>> \in Seq(Ink) /\ <<c>> # <<>>
  BY Singles
<1> QED
  BY <1>1, Zenon DEF Words

LEMMA InkKeywords == KeywordsIn(Words(Ink))
<1>1. /\ "server" \in Ink /\ "location" \in Ink
      /\ "{" \in Ink /\ "}" \in Ink /\ ";" \in Ink
  BY Zenon DEF Ink, Signs
<1>2. /\ ServerWord \in Words(Ink) /\ LocationWord \in Words(Ink)
      /\ LBrace \in Words(Ink) /\ RBrace \in Words(Ink) /\ Semicolon \in Words(Ink)
  BY <1>1, InkWord, Zenon DEF ServerWord, LocationWord, LBrace, RBrace, Semicolon
<1> QED
  BY <1>2, Zenon DEF KeywordsIn

LEMMA PlainWordsAre ==
    ASSUME NEW w \in PlainWords
    PROVE  w \in Words(Ink) /\ IsPlain(w) /\ IsWord(w)
<1>1. w \in Seq(STRING) /\ w # <<>> /\ ToSet(w) \intersect Stops = {}
  BY Zenon DEF PlainWords, Stops
<1>2. STRING \subseteq Ink
  BY Zenon DEF Ink, Signs
<1> DEFINE S == STRING
<1> HIDE DEF S
<1>3. w \in Seq(Ink)
  <2>1. S \subseteq Ink /\ w \in Seq(S)
    BY <1>1, <1>2 DEF S
  <2> QED
    BY <2>1, SeqWidens
<1>4. IsPlain(w)
  <2>1. DOMAIN w = 1..Len(w)
    BY <1>3, LenProperties
  <2>2. ASSUME NEW i \in 1..Len(w) PROVE w[i] \notin Stops
    <3>1. w[i] \in ToSet(w)
      BY <2>1 DEF ToSet
    <3> QED
      BY <1>1, <3>1
  <2> QED
    BY <1>1, <2>2 DEF IsPlain
<1>5. w \in Words(Ink)
  BY <1>1, <1>3, Zenon DEF Words
<1>6. IsWord(w)
  BY <1>3, <1>4, PlainIsWord
<1> QED
  BY <1>4, <1>5, <1>6

LEMMA WordAndMore ==
    ASSUME NEW Z, NEW a \in Z, NEW s \in Seq(Z)
    PROVE  /\ <<a>> \o s \in Seq(Z) /\ <<a>> \o s # <<>>
           /\ (<<a>> \o s)[1] = a /\ Head(<<a>> \o s) = a /\ Tail(<<a>> \o s) = s
<1> DEFINE b == <<a>>
           v == b \o s
           t == Tail(v)
<1>1. b \in Seq(Z) /\ Len(b) = 1 /\ b[1] = a
  BY Few
<1> HIDE DEF b
<1>2. /\ v \in Seq(Z) /\ Len(v) = 1 + Len(s)
      /\ \A j \in 1..Len(v) : v[j] = IF j <= 1 THEN b[j] ELSE s[j - 1]
  <2>1. /\ v \in Seq(Z) /\ Len(v) = Len(b) + Len(s)
        /\ \A j \in 1..Len(b) + Len(s) : v[j] = IF j <= Len(b) THEN b[j] ELSE s[j - Len(b)]
    BY <1>1, ConcatProperties
  <2> HIDE DEF v
  <2> QED
    BY <1>1, <2>1
<1>3. Len(s) \in Nat
  BY LenProperties
<1> HIDE DEF v
<1>4. v # <<>> /\ 1 \in 1..Len(v)
  BY <1>2, <1>3, EmptySeq
<1>5. v[1] = a
  BY <1>1, <1>2, <1>4
<1>6. Head(v) = v[1]
  BY <1>2, <1>4
<1>7. t \in Seq(Z) /\ Len(t) = Len(s) /\ \A i \in 1..Len(t) : t[i] = v[i + 1]
  <2>1. Len(v) - 1 = Len(s)
    BY <1>2, <1>3
  <2> QED
    BY <1>2, <1>4, <2>1, HeadTailProperties
<1> HIDE DEF t
<1>8. ASSUME NEW i \in 1..Len(t) PROVE t[i] = s[i]
  <2>1. i + 1 \in 1..Len(v) /\ ~(i + 1 <= 1) /\ i + 1 - 1 = i
    BY <1>2, <1>3, <1>7
  <2> QED
    BY <1>2, <1>7, <2>1
<1>9. t = s
  BY <1>7, <1>8, SeqEqual
<1> QED
  BY <1>2, <1>4, <1>5, <1>6, <1>9 DEF v, b, t

DirectiveText(d) == <<d.name>> \o d.args \o <<Semicolon>>
WordsIn(d)       == <<d.name>> \o d.args

LEMMA DirectiveWords ==
    ASSUME NEW d \in PlainDirectives
    PROVE  /\ WordsIn(d) \in Seq(Words(Ink)) /\ WordsIn(d) # <<>> /\ AllWords(WordsIn(d))
           /\ WordsIn(d) \in Seq(PlainWords)
           /\ WordsIn(d)[1] = d.name /\ Directive(WordsIn(d)) = d
           /\ DirectiveText(d) = Append(WordsIn(d), Semicolon)
<1> DEFINE V == PlainWords
           v == WordsIn(d)
           W == Words(Ink)
<1>1. d.name \in V /\ d.args \in Seq(V) /\ d = [name |-> d.name, args |-> d.args]
  BY Zenon DEF PlainDirectives
<1>2. \A w \in V : w \in W /\ IsWord(w)
  BY PlainWordsAre
<1> HIDE DEF V, W
<1>3. /\ v \in Seq(V) /\ v # <<>> /\ v[1] = d.name
      /\ Head(v) = d.name /\ Tail(v) = d.args
  BY <1>1, WordAndMore DEF WordsIn
<1> HIDE DEF v
<1>4. v \in Seq(W)
  <2>1. V \subseteq W
    BY <1>2
  <2> QED
    BY <1>3, <2>1, SeqWidens
<1>5. AllWords(v)
  <2>1. ASSUME NEW i \in 1..Len(v) PROVE IsWord(v[i])
    <3>1. v[i] \in V
      BY <1>3, ElementOfSeq
    <3> QED
      BY <1>2, <3>1
  <2> QED
    BY <2>1 DEF AllWords
<1>6. Directive(v) = d
  BY <1>1, <1>3, Zenon DEF Directive
<1>7. DirectiveText(d) = Append(v, Semicolon)
  <2>1. DirectiveText(d) = v \o <<Semicolon>>
    BY Zenon DEF DirectiveText, v, WordsIn
  <2>2. Semicolon \in W
    BY InkKeywords DEF KeywordsIn, W
  <2>3. v \o <<Semicolon>> = Append(v, Semicolon)
    BY <1>4, <2>2, AppendIsConcat
  <2> QED
    BY <2>1, <2>3, Zenon
<1> QED
  BY <1>3, <1>4, <1>5, <1>6, <1>7 DEF v, V, W

(* Where the parser stands after a sequence of tokens.                     *)
Stands(u, level, tree) ==
    u \in Seq(Words(Ink)) /\ Open(Parse(u), level) /\ Parse(u).ast = tree

Joined(level, s, d) == IF level = "server" THEN ServerDirective(s, d) ELSE LocationDirective(s, d)

LEMMA DirectiveStands ==
    ASSUME NEW level \in {"server", "location"}, NEW u, NEW tree, Stands(u, level, tree),
           NEW d \in PlainDirectives, level = "server" => d.name # LocationWord
    PROVE  Stands(u \o DirectiveText(d), level, WithLast(tree, Joined(level, LastOf(tree), d)))
<1> DEFINE Z == Words(Ink)
           v == WordsIn(d)
           s == DirectiveText(d)
           new == WithLast(tree, Joined(level, LastOf(tree), d))
<1>1. /\ v \in Seq(Z) /\ v # <<>> /\ AllWords(v) /\ v[1] = d.name /\ Directive(v) = d
      /\ s = Append(v, Semicolon)
  BY DirectiveWords
<1>2. Semicolon \in Z
  BY InkKeywords DEF KeywordsIn
<1>3. u \in Seq(Z) /\ Open(Parse(u), level) /\ Parse(u).ast = tree
  BY Zenon DEF Stands
<1> HIDE DEF v, s
<1>4. level = "server" => NoLocation(v)
  BY <1>1 DEF NoLocation
<1> DEFINE p == Parse(u \o v)
           q == ParseToken(p, Semicolon)
<1>5. p.level = level /\ p.words = v
  BY <1>1, <1>3, <1>4, WordsCollect
<1>6. p.ast = tree
  <2>1. Parse(u \o v).ast = Parse(u).ast
    BY <1>1, <1>3, <1>4, WordsKeep
  <2> QED
    BY <1>3, <2>1, Zenon
<1>7. u \o v \in Seq(Z)
  BY <1>1, <1>3, ConcatProperties
<1>8. p \in Parses(Ink) /\ Parse(Append(u \o v, Semicolon)) = q
  BY <1>2, <1>7, ParseAppend
<1>9. u \o s = Append(u \o v, Semicolon) /\ u \o s \in Seq(Z)
  <2>1. u \o s = Append(u \o v, Semicolon)
    BY <1>1, <1>2, <1>3, ConcatAppend
  <2>2. Append(u \o v, Semicolon) \in Seq(Z)
    BY <1>2, <1>7, AppendProperties
  <2> QED
    BY <2>1, <2>2, Zenon
<1> HIDE DEF p
<1>10. Open(q, level) /\ q.ast = new
  <2> HIDE DEF q
  <2>1. CASE level = "server"
    <3>1. ServerMoves(p, Semicolon, q) /\ ServerBuilds(p, Semicolon, q)
      BY <1>5, <1>8, <2>1, MovesAre, BuildsAre DEF q
    <3>2. ~Locates(v)
      BY <1>1, <1>2, <1>4, <2>1, NoLocationAppend
    <3>3. Open(q, level)
      BY <1>1, <1>5, <2>1, <3>1, <3>2, Zenon DEF ServerMoves
    <3>4. q.ast = WithLast(tree, ServerDirective(LastOf(tree), d))
      BY <1>1, <1>5, <1>6, <3>1, <3>2, Zenon DEF ServerBuilds
    <3> QED
      BY <2>1, <3>3, <3>4 DEF Joined
  <2>2. CASE level = "location"
    <3>1. LocationMoves(p, Semicolon, q) /\ LocationBuilds(p, Semicolon, q)
      BY <1>5, <1>8, <2>2, MovesAre, BuildsAre DEF q
    <3>2. Open(q, level)
      BY <1>1, <1>5, <2>2, <3>1, Zenon DEF LocationMoves
    <3>3. q.ast = WithLast(tree, LocationDirective(LastOf(tree), d))
      BY <1>1, <1>5, <1>6, <3>1, Zenon DEF LocationBuilds
    <3> QED
      BY <2>2, <3>2, <3>3 DEF Joined
  <2> QED
    BY <2>1, <2>2
<1>11. Parse(u \o s) = q
  BY <1>8, <1>9, Zenon
<1> HIDE DEF q, new
<1>12. Stands(u \o s, level, new)
  BY <1>9, <1>10, <1>11, Zenon DEF Stands
<1> QED
  BY <1>12 DEF s, new

(* The directives of a block, one after the other.                         *)
Fits(level, ds) == level = "server" => \A i \in 1..Len(ds) : ds[i].name # LocationWord

(* A block whose directives are ds: the last server, or its last location. *)
Filled(level, T, ls, es, w, ds) ==
    IF level = "server" THEN Append(T, Block(ds, ls))
    ELSE Append(T, Block(es, Append(ls, LocationBlock(w, ds))))

LEMMA FilledOn ==
    ASSUME NEW level, NEW Z, NEW T \in Seq(Z), NEW X, NEW ls \in Seq(X),
           NEW es, NEW w, NEW ds, NEW d, NEW tree, tree = Filled(level, T, ls, es, w, ds)
    PROVE  WithLast(tree, Joined(level, LastOf(tree), d)) = Filled(level, T, ls, es, w, Append(ds, d))
<1>1. CASE level = "server"
  <2> DEFINE s == Block(ds, ls)
             n == Block(Append(ds, d), ls)
  <2>1. tree = Append(T, s) /\ Filled(level, T, ls, es, w, Append(ds, d)) = Append(T, n)
    BY <1>1, Zenon DEF Filled
  <2>2. ServerDirective(s, d) = n
    BY BlockChanges
  <2> HIDE DEF s, n
  <2>3. LastOf(tree) = s /\ WithLast(tree, n) = Append(T, n)
    BY <2>1, LastChanges
  <2> QED
    BY <1>1, <2>1, <2>2, <2>3, Zenon DEF Joined
<1>2. CASE level # "server"
  <2> DEFINE s == Block(es, Append(ls, LocationBlock(w, ds)))
             n == Block(es, Append(ls, LocationBlock(w, Append(ds, d))))
  <2>1. tree = Append(T, s) /\ Filled(level, T, ls, es, w, Append(ds, d)) = Append(T, n)
    BY <1>2, Zenon DEF Filled
  <2>2. LocationDirective(s, d) = n
    BY LocationBlockChanges
  <2> HIDE DEF s, n
  <2>3. LastOf(tree) = s /\ WithLast(tree, n) = Append(T, n)
    BY <2>1, LastChanges
  <2> QED
    BY <1>2, <2>1, <2>2, <2>3, Zenon DEF Joined
<1> QED
  BY <1>1, <1>2

-----------------------------------------------------------------------------
(* A text that is written part by part.                                    *)
Mapped(f, s) == [i \in DOMAIN s |-> f[s[i]]]
Written(f, s) == FlattenSeq(Mapped(f, s))

LEMMA WrittenGrows ==
    ASSUME NEW Z, NEW Y, NEW f \in [Z -> Seq(Y)], NEW s \in Seq(Z), NEW c \in Z
    PROVE  /\ Written(f, <<>>) = <<>> /\ Written(f, s) \in Seq(Y)
           /\ Written(f, Append(s, c)) = Written(f, s) \o f[c]
<1> DEFINE X == Seq(Y)
           M(v) == Mapped(f, v)
           n == Len(s)
           A == Append(s, c)
<1>1. f \in [Z -> X] /\ f[c] \in X
  OBVIOUS
<1>2. n \in Nat /\ DOMAIN s = 1..n /\ \A i \in 1..n : s[i] \in Z
  BY LenProperties, ElementOfSeq
<1>3. /\ A \in Seq(Z) /\ DOMAIN A = 1..n + 1 /\ A[n + 1] = c
      /\ \A i \in 1..n : A[i] = s[i]
  <2>1. A \in Seq(Z) /\ Len(A) = n + 1 /\ A[n + 1] = c /\ \A i \in 1..n : A[i] = s[i]
    BY AppendProperties
  <2> HIDE DEF A
  <2> QED
    BY <2>1, LenProperties
<1> HIDE DEF X, n
<1>4. M(s) \in Seq(X) /\ Len(M(s)) = n /\ \A i \in 1..n : M(s)[i] = f[s[i]]
  <2> DEFINE m == [i \in 1..n |-> f[s[i]]]
  <2>1. M(s) = m
    BY <1>2, Zenon DEF Mapped
  <2>2. m \in [1..n -> X]
    BY <1>1, <1>2
  <2>3. m \in Seq(X) /\ Len(m) = n
    <3> HIDE DEF m
    <3> QED
      BY <1>2, <2>2
  <2>4. \A i \in 1..n : m[i] = f[s[i]]
    OBVIOUS
  <2> QED
    BY <2>1, <2>3, <2>4
<1>5. M(A) \in Seq(X) /\ Len(M(A)) = n + 1 /\ \A i \in 1..n + 1 : M(A)[i] = f[A[i]]
  <2> DEFINE m == [i \in 1..n + 1 |-> f[A[i]]]
  <2>1. M(A) = m
    BY <1>3, Zenon DEF Mapped
  <2>2. m \in [1..n + 1 -> X]
    <3>1. \A i \in 1..n + 1 : A[i] \in Z
      <4>1. \A i \in 1..n + 1 : i \in 1..n \/ i = n + 1
        BY <1>2
      <4> HIDE DEF A
      <4> QED
        BY <1>2, <1>3, <4>1
    <3> HIDE DEF A
    <3> QED
      BY <1>1, <3>1
  <2>3. m \in Seq(X) /\ Len(m) = n + 1
    <3> HIDE DEF m
    <3> QED
      BY <1>2, <2>2
  <2>4. \A i \in 1..n + 1 : m[i] = f[A[i]]
    OBVIOUS
  <2> QED
    BY <2>1, <2>3, <2>4
<1>6. M(<<>>) = <<>>
  BY DEF Mapped
<1>7. \A v : Written(f, v) = FlattenSeq(M(v))
  BY Zenon DEF Written
<1> DEFINE B == Append(M(s), f[c])
<1>8. B \in Seq(X) /\ Len(B) = n + 1 /\ B[n + 1] = f[c] /\ \A i \in 1..n : B[i] = M(s)[i]
  <2> HIDE DEF M
  <2> QED
    BY <1>1, <1>4, AppendProperties
<1>9. M(A) = B
  <2> DEFINE P == M(A)
             Q == M(s)
  <2>1. P \in Seq(X) /\ Len(P) = n + 1 /\ \A i \in 1..n + 1 : P[i] = f[A[i]]
    BY <1>5
  <2>2. \A i \in 1..n : Q[i] = f[s[i]] /\ B[i] = Q[i]
    BY <1>4, <1>8
  <2> HIDE DEF A, M, B, P, Q
  <2>3. ASSUME NEW i \in 1..n + 1 PROVE P[i] = B[i]
    <3>1. CASE i = n + 1
      BY <1>3, <1>8, <2>1, <3>1
    <3>2. CASE i \in 1..n
      BY <1>3, <2>1, <2>2, <3>2
    <3> QED
      BY <1>2, <3>1, <3>2
  <2>4. P = B
    BY <1>8, <2>1, <2>3, SeqEqual
  <2> QED
    BY <2>4 DEF P
<1> HIDE DEF M, A
<1>10. M(s) \in Seq(Seq(Y)) /\ f[c] \in Seq(Y)
  BY <1>1, <1>4 DEF X
<1>11. /\ FlattenSeq(<<>>) = <<>> /\ FlattenSeq(M(s)) \in Seq(Y)
       /\ FlattenSeq(Append(M(s), f[c])) = FlattenSeq(M(s)) \o f[c]
  BY <1>10, FlattenGrows
<1>12. Written(f, A) = Written(f, s) \o f[c]
  BY <1>7, <1>9, <1>11
<1> QED
  BY <1>6, <1>7, <1>11, <1>12 DEF A

Toks == {w \in Words(Ink) : IsToken(w)}

LEMMA ToksAre ==
    /\ PlainWords \subseteq Toks
    /\ ServerWord \in Toks /\ LocationWord \in Toks
    /\ LBrace \in Toks /\ RBrace \in Toks /\ Semicolon \in Toks
    /\ \A s \in Seq(Toks) : s \in Seq(Words(Ink)) /\ AllTokens(s)
<1>1. PlainWords \subseteq Toks
  BY PlainWordsAre, Zenon DEF Toks, IsToken
<1>2. ASSUME NEW c \in Ink, c \notin Stops PROVE IsToken(<<c>>)
  <2> DEFINE w == <<c>>
  <2>1. w # <<>> /\ Len(w) = 1 /\ w[1] = c
    BY Few
  <2> HIDE DEF w
  <2>2. IsPlain(w)
    <3>1. \A i \in 1..Len(w) : i = 1
      BY <2>1
    <3> QED
      BY <1>2, <2>1, <3>1 DEF IsPlain
  <2> QED
    BY <2>2 DEF w, IsToken
<1>3. IsToken(ServerWord) /\ IsToken(LocationWord)
  <2>1. "server" \in Ink /\ "location" \in Ink
    BY Zenon DEF Ink, Signs
  <2>2. "server" \notin Stops /\ "location" \notin Stops
    BY DEF Stops, Blanks, Delimiters, NewLine, Hash
  <2> QED
    BY <1>2, <2>1, <2>2 DEF ServerWord, LocationWord
<1>4. IsToken(LBrace) /\ IsToken(RBrace) /\ IsToken(Semicolon)
  BY Zenon DEF IsToken
<1>5. /\ ServerWord \in Words(Ink) /\ LocationWord \in Words(Ink)
      /\ LBrace \in Words(Ink) /\ RBrace \in Words(Ink) /\ Semicolon \in Words(Ink)
  BY InkKeywords, Zenon DEF KeywordsIn
<1>6. ASSUME NEW s \in Seq(Toks) PROVE s \in Seq(Words(Ink)) /\ AllTokens(s)
  <2>1. \A w \in Toks : w \in Words(Ink) /\ IsToken(w)
    BY Zenon DEF Toks
  <2> DEFINE W == Words(Ink)
             S == Toks
  <2> HIDE DEF W, S
  <2>2. S \subseteq W /\ s \in Seq(S)
    BY <2>1 DEF W, S
  <2>3. s \in Seq(W)
    BY <2>2, SeqWidens
  <2>4. \A i \in 1..Len(s) : s[i] \in S
    BY <2>2, ElementOfSeq
  <2>5. AllTokens(s)
    BY <2>1, <2>4, Zenon DEF S, AllTokens
  <2> QED
    BY <2>3, <2>5 DEF W
<1> QED
  BY <1>1, <1>3, <1>4, <1>5, <1>6, Zenon DEF Toks

DirectiveTexts == [d \in PlainDirectives |-> DirectiveText(d)]

LEMMA DirectiveTextIn ==
    ASSUME NEW d \in PlainDirectives
    PROVE  DirectiveText(d) \in Seq(Toks)
<1> DEFINE V == PlainWords
           v == WordsIn(d)
<1>1. v \in Seq(V) /\ DirectiveText(d) = Append(v, Semicolon)
  BY DirectiveWords
<1>2. V \subseteq Toks /\ Semicolon \in Toks
  BY ToksAre
<1> HIDE DEF V, v
<1>3. v \in Seq(Toks)
  BY <1>1, <1>2, SeqWidens
<1>4. Append(v, Semicolon) \in Seq(Toks)
  BY <1>2, <1>3, AppendProperties
<1> QED
  BY <1>1, <1>4, Zenon

LEMMA DirectivesTextGrows ==
    ASSUME NEW ds \in Seq(PlainDirectives), NEW d \in PlainDirectives
    PROVE  /\ DirectivesText(<<>>) = <<>> /\ DirectivesText(ds) \in Seq(Toks)
           /\ DirectivesText(Append(ds, d)) = DirectivesText(ds) \o DirectiveText(d)
<1> DEFINE Z == PlainDirectives
           f == DirectiveTexts
<1>1. f \in [Z -> Seq(Toks)] /\ f[d] = DirectiveText(d)
  BY DirectiveTextIn DEF DirectiveTexts
<1>2. ASSUME NEW s \in Seq(Z) PROVE DirectivesText(s) = Written(f, s)
  <2>1. \A i \in DOMAIN s : s[i] \in Z
    <3> HIDE DEF Z
    <3> QED
      BY LenProperties, ElementOfSeq
  <2>2. \A i \in DOMAIN s : f[s[i]] = DirectiveText(s[i])
    BY <2>1 DEF DirectiveTexts
  <2>3. Mapped(f, s) = [i \in DOMAIN s |-> DirectiveText(s[i])]
    <3> HIDE DEF f
    <3> QED
      BY <2>2 DEF Mapped
  <2>4. DirectivesText(s) = FlattenSeq([i \in DOMAIN s |-> DirectiveText(s[i])])
    BY Zenon DEF DirectivesText, DirectiveText
  <2> QED
    BY <2>3, <2>4, Zenon DEF Written
<1> DEFINE A == Append(ds, d)
<1> HIDE DEF Z, f
<1>3. ds \in Seq(Z) /\ d \in Z
  BY DEF Z
<1>4. A \in Seq(Z) /\ <<>> \in Seq(Z)
  BY <1>3, AppendProperties, EmptySeq
<1>5. /\ Written(f, <<>>) = <<>> /\ Written(f, ds) \in Seq(Toks)
      /\ Written(f, A) = Written(f, ds) \o f[d]
  BY <1>1, <1>3, WrittenGrows
<1> HIDE DEF A
<1>6. /\ DirectivesText(<<>>) = <<>> /\ DirectivesText(ds) \in Seq(Toks)
      /\ DirectivesText(A) = DirectivesText(ds) \o DirectiveText(d)
  BY <1>1, <1>2, <1>3, <1>4, <1>5
<1> QED
  BY <1>6 DEF A

LEMMA FitsAppend ==
    ASSUME NEW level, NEW ds \in Seq(PlainDirectives), NEW d \in PlainDirectives,
           Fits(level, Append(ds, d))
    PROVE  Fits(level, ds) /\ (level = "server" => d.name # LocationWord)
<1> DEFINE A == Append(ds, d)
           Z == PlainDirectives
<1>1. ds \in Seq(Z) /\ d \in Z
  OBVIOUS
<1> HIDE DEF Z
<1>2. Len(A) = Len(ds) + 1 /\ A[Len(ds) + 1] = d /\ \A i \in 1..Len(ds) : A[i] = ds[i]
  BY <1>1, AppendProperties
<1>3. Len(ds) \in Nat
  BY <1>1, LenProperties
<1>4. Fits(level, A)
  OBVIOUS
<1> HIDE DEF A
<1>5. Len(ds) + 1 \in 1..Len(A) /\ \A i \in 1..Len(ds) : i \in 1..Len(A)
  BY <1>2, <1>3
<1>6. CASE level = "server"
  <2>1. \A i \in 1..Len(A) : A[i].name # LocationWord
    BY <1>4, <1>6, Zenon DEF Fits
  <2>2. \A i \in 1..Len(ds) : ds[i].name # LocationWord
    BY <1>2, <1>5, <2>1
  <2>3. d.name # LocationWord
    BY <1>2, <1>5, <2>1
  <2> QED
    BY <2>2, <2>3 DEF Fits
<1> QED
  BY <1>6 DEF Fits

LEMMA DirectivesStand ==
    ASSUME NEW level \in {"server", "location"}, NEW Z, NEW T \in Seq(Z), NEW X, NEW ls \in Seq(X),
           NEW es, NEW w, NEW u, Stands(u, level, Filled(level, T, ls, es, w, <<>>)),
           NEW ds \in Seq(PlainDirectives), Fits(level, ds)
    PROVE  Stands(u \o DirectivesText(ds), level, Filled(level, T, ls, es, w, ds))
<1> DEFINE D == PlainDirectives
           F(s) == Filled(level, T, ls, es, w, s)
           Good(s) == Stands(u \o DirectivesText(s), level, F(s))
           S == {s \in Seq(D) : Fits(level, s) => Good(s)}
<1>1. u \in Seq(Words(Ink))
  BY Zenon DEF Stands
<1>2. \A s \in Seq(D), d \in D :
        /\ DirectivesText(<<>>) = <<>> /\ DirectivesText(s) \in Seq(Toks)
        /\ DirectivesText(Append(s, d)) = DirectivesText(s) \o DirectiveText(d)
  BY DirectivesTextGrows
<1>3. <<>> \in S
  <2>1. DirectivesText(<<>>) = <<>>
    BY DEF DirectivesText, FlattenSeq
  <2>2. u \o <<>> = u
    BY <1>1, ConcatEmptySeq
  <2>3. <<>> \in Seq(D)
    BY EmptySeq
  <2>4. Good(<<>>)
    BY <2>1, <2>2
  <2> HIDE DEF Good, D
  <2> QED
    BY <2>3, <2>4
<1>4. ASSUME NEW s \in Seq(D), NEW d \in D, s \in S PROVE Append(s, d) \in S
  <2>1. Append(s, d) \in Seq(D)
    <3> HIDE DEF D
    <3> QED
      BY AppendProperties
  <2>2. ASSUME Fits(level, Append(s, d)) PROVE Good(Append(s, d))
    <3>1. Fits(level, s) /\ (level = "server" => d.name # LocationWord)
      BY <2>2, FitsAppend
    <3> DEFINE v == u \o DirectivesText(s)
               t == DirectiveText(d)
    <3>2. Stands(v, level, F(s))
      BY <1>4, <3>1
    <3> DEFINE new == WithLast(F(s), Joined(level, LastOf(F(s)), d))
    <3>3. Stands(v \o t, level, new)
      <4> HIDE DEF F, v
      <4> QED
        BY <3>1, <3>2, DirectiveStands
    <3>4. new = F(Append(s, d))
      <4> DEFINE tree == F(s)
      <4>1. tree = Filled(level, T, ls, es, w, s)
        OBVIOUS
      <4> HIDE DEF tree
      <4>2. WithLast(tree, Joined(level, LastOf(tree), d)) = Filled(level, T, ls, es, w, Append(s, d))
        BY <4>1, FilledOn
      <4> QED
        BY <4>2 DEF tree
    <3>5. v \o t = u \o DirectivesText(Append(s, d))
      <4> DEFINE W == Words(Ink)
                 x == DirectivesText(s)
      <4>1. x \in Seq(W) /\ t \in Seq(W) /\ u \in Seq(W)
        BY <1>1, <1>2, DirectiveTextIn, ToksAre
      <4>2. DirectivesText(Append(s, d)) = x \o t
        BY <1>2
      <4> HIDE DEF x, t, W
      <4>3. (u \o x) \o t = u \o (x \o t)
        BY <4>1, Grouping DEF Grouped
      <4> QED
        BY <4>2, <4>3 DEF x
    <3> HIDE DEF v, t, new, F
    <3> QED
      BY <3>3, <3>4, <3>5, Zenon
  <2> HIDE DEF Good, D
  <2> QED
    BY <2>1, <2>2
<1> HIDE DEF S, D
<1>5. Seq(D) \subseteq S
  BY <1>3, <1>4, Appending
<1> HIDE DEF Good
<1>6. Good(ds)
  BY <1>5 DEF S, D
<1> QED
  BY <1>6 DEF Good

(* A block is opened, and closed.                                          *)
LEMMA LocationStarts ==
    ASSUME NEW u, NEW tree, Stands(u, "server", tree), NEW w \in Words(Ink), IsWord(w)
    PROVE  Stands(u \o OpenLocation(w), "location",
                  WithLast(tree, ServerLocation(LastOf(tree), LocationBlock(w, <<>>))))
<1> DEFINE Y == Ink
           Z == Words(Y)
           a == Append(u, LocationWord)
           b == Append(a, w)
           c == Append(b, LBrace)
           p == Parse(u)
           q == Parse(a)
           r == Parse(b)
           s == Parse(c)
           new == WithLast(tree, ServerLocation(LastOf(tree), LocationBlock(w, <<>>)))
<1>0. u \in Seq(Z) /\ Open(p, "server") /\ p.ast = tree
  BY Zenon DEF Stands
<1>1. LocationWord \in Z /\ LBrace \in Z
  BY InkKeywords DEF KeywordsIn
<1>2. a \in Seq(Z) /\ b \in Seq(Z) /\ c \in Seq(Z)
  <2>1. a \in Seq(Z)
    BY <1>0, <1>1, AppendProperties
  <2>2. b \in Seq(Z)
    BY <2>1, AppendProperties
  <2> QED
    BY <1>1, <2>1, <2>2, AppendProperties
<1>3. u \o OpenLocation(w) = c
  BY <1>0, <1>1, ThreeMore DEF OpenLocation
<1>4. /\ p \in Parses(Y) /\ q \in Parses(Y) /\ r \in Parses(Y)
      /\ q = ParseToken(p, LocationWord) /\ r = ParseToken(q, w) /\ s = ParseToken(r, LBrace)
  <2>1. p \in Parses(Y) /\ q = ParseToken(p, LocationWord)
    BY <1>0, <1>1, ParseAppend
  <2>2. q \in Parses(Y) /\ r = ParseToken(q, w)
    <3> HIDE DEF a
    <3> QED
      BY <1>2, ParseAppend
  <2>3. r \in Parses(Y) /\ s = ParseToken(r, LBrace)
    <3> HIDE DEF b
    <3> QED
      BY <1>1, <1>2, ParseAppend
  <2> QED
    BY <2>1, <2>2, <2>3
<1>5. p.level = "server" /\ p.words = <<>>
  BY <1>0, Zenon DEF Open
<1>10. OpenLocation(w) \in Seq(Z)
  BY <1>1 DEF OpenLocation
<1> HIDE DEF p, q, r, s, a, b, c, new
<1>6. q.level = "server" /\ q.words = <<LocationWord>> /\ q.ast = tree
  <2>1. ServerMoves(p, LocationWord, q) /\ ServerBuilds(p, LocationWord, q)
    BY <1>4, <1>5, MovesAre, BuildsAre
  <2>2. ~Locates(p.words)
    BY <1>5 DEF Locates
  <2>3. Takes(p, LocationWord, q)
    BY <2>1, <2>2, TokensDiffer, Zenon DEF ServerMoves
  <2>4. q.ast = p.ast
    BY <2>1, <2>2, TokensDiffer, Zenon DEF ServerBuilds
  <2>5. q.level = "server" /\ q.words = <<LocationWord>>
    BY <1>1, <1>5, <2>3, OneWord DEF Takes
  <2> QED
    BY <1>0, <2>4, <2>5, Zenon
<1>7. r.level = "server" /\ r.words = <<LocationWord, w>> /\ r.ast = tree
  <2>1. ServerMoves(q, w, r) /\ ServerBuilds(q, w, r)
    BY <1>4, <1>6, MovesAre, BuildsAre
  <2>2. Len(q.words) < 2
    BY <1>1, <1>6, OneWord
  <2>3. Takes(q, w, r)
    BY <2>1, <2>2, Zenon DEF ServerMoves
  <2>4. r.ast = q.ast
    BY <2>1, <2>2, Zenon DEF ServerBuilds
  <2>5. r.level = "server" /\ r.words = <<LocationWord, w>>
    BY <1>1, <1>6, <2>3, OneWord DEF Takes
  <2> QED
    BY <1>6, <2>4, <2>5, Zenon
<1>8. Open(s, "location") /\ s.ast = new
  <2>1. ServerMoves(r, LBrace, s) /\ ServerBuilds(r, LBrace, s)
    BY <1>4, <1>7, MovesAre, BuildsAre
  <2>2. Locates(r.words) /\ Len(r.words) = 2 /\ r.words[2] = w
    BY <1>1, <1>7, OneWord DEF Locates
  <2>3. Open(s, "location")
    BY <2>1, <2>2, Zenon DEF ServerMoves
  <2>4. s.ast = new
    BY <1>7, <2>1, <2>2, Zenon DEF ServerBuilds, new
  <2> QED
    BY <2>3, <2>4
<1>9. Parse(u \o OpenLocation(w)) = s /\ u \o OpenLocation(w) \in Seq(Z)
  BY <1>2, <1>3, Zenon DEF s
<1>11. Stands(u \o OpenLocation(w), "location", new)
  BY <1>8, <1>9, Zenon DEF Stands
<1> QED
  BY <1>11 DEF new

LEMMA ServerStarts ==
    ASSUME NEW u, NEW tree, Stands(u, "config", tree)
    PROVE  Stands(u \o OpenServer, "server", Append(tree, Block(<<>>, <<>>)))
<1> DEFINE Y == Ink
           Z == Words(Y)
           a == Append(u, ServerWord)
           b == Append(a, LBrace)
           p == Parse(u)
           q == Parse(a)
           r == Parse(b)
           new == Append(tree, Block(<<>>, <<>>))
<1>0. u \in Seq(Z) /\ Open(p, "config") /\ p.ast = tree
  BY Zenon DEF Stands
<1>1. ServerWord \in Z /\ LBrace \in Z
  BY InkKeywords DEF KeywordsIn
<1>2. a \in Seq(Z) /\ b \in Seq(Z)
  <2>1. a \in Seq(Z)
    BY <1>0, <1>1, AppendProperties
  <2> QED
    BY <1>1, <2>1, AppendProperties
<1>3. u \o OpenServer = b
  BY <1>0, <1>1, ThreeMore DEF OpenServer
<1>4. /\ p \in Parses(Y) /\ q \in Parses(Y)
      /\ q = ParseToken(p, ServerWord) /\ r = ParseToken(q, LBrace)
  <2>1. p \in Parses(Y) /\ q = ParseToken(p, ServerWord)
    BY <1>0, <1>1, ParseAppend
  <2>2. q \in Parses(Y) /\ r = ParseToken(q, LBrace)
    <3> HIDE DEF a
    <3> QED
      BY <1>1, <1>2, ParseAppend
  <2> QED
    BY <2>1, <2>2
<1>5. p.level = "config" /\ p.words = <<>>
  BY <1>0, Zenon DEF Open
<1> HIDE DEF p, q, r, a, b, new
<1>6. q.level = "config" /\ q.words = <<ServerWord>> /\ q.ast = tree
  <2>1. ConfigMoves(p, ServerWord, q) /\ ConfigBuilds(p, ServerWord, q)
    BY <1>4, <1>5, MovesAre, BuildsAre
  <2>2. Takes(p, ServerWord, q)
    BY <1>5, <2>1, Zenon DEF ConfigMoves
  <2>3. q.ast = p.ast
    BY <1>5, <2>1, Zenon DEF ConfigBuilds
  <2>4. q.level = "config" /\ q.words = <<ServerWord>>
    BY <1>1, <1>5, <2>2, OneWord DEF Takes
  <2> QED
    BY <1>0, <2>3, <2>4, Zenon
<1>7. Open(r, "server") /\ r.ast = new
  <2>1. ConfigMoves(q, LBrace, r) /\ ConfigBuilds(q, LBrace, r)
    BY <1>4, <1>6, MovesAre, BuildsAre
  <2>2. q.words # <<>>
    BY <1>1, <1>6, OneWord
  <2>3. Open(r, "server")
    BY <2>1, <2>2, Zenon DEF ConfigMoves
  <2>4. r.ast = new
    BY <1>6, <2>1, <2>2, Zenon DEF ConfigBuilds, new
  <2> QED
    BY <2>3, <2>4
<1>8. Parse(u \o OpenServer) = r /\ u \o OpenServer \in Seq(Z)
  BY <1>2, <1>3, Zenon DEF r
<1>9. Stands(u \o OpenServer, "server", new)
  BY <1>7, <1>8, Zenon DEF Stands
<1> QED
  BY <1>9 DEF new

LEMMA BraceStands ==
    ASSUME NEW u, NEW tree
    PROVE  /\ Stands(u, "location", tree) => Stands(u \o <<RBrace>>, "server", tree)
           /\ Stands(u, "server", tree) => Stands(u \o <<RBrace>>, "config", tree)
<1> DEFINE p == Parse(u)
           b == Append(u, RBrace)
           q == Parse(b)
<1> SUFFICES ASSUME NEW level \in {"server", "location"}, Stands(u, level, tree)
             PROVE  Stands(u \o <<RBrace>>, IF level = "location" THEN "server" ELSE "config", tree)
  OBVIOUS
<1>0. u \in Seq(Words(Ink)) /\ Open(p, level) /\ p.ast = tree
  BY Zenon DEF Stands
<1>1. RBrace \in Words(Ink)
  BY InkKeywords DEF KeywordsIn
<1>2. p \in Parses(Ink) /\ q = ParseToken(p, RBrace)
  BY <1>0, <1>1, ParseAppend
<1>3. u \o <<RBrace>> = b /\ b \in Seq(Words(Ink))
  BY <1>0, <1>1, AppendIsConcat, AppendProperties
<1>4. Open(q, IF level = "location" THEN "server" ELSE "config")
  BY <1>0, <1>1, BraceCloses, InkKeywords
<1>5. p.level = level /\ p.words = <<>>
  BY <1>0, Zenon DEF Open
<1> HIDE DEF p, q, b
<1>6. q.ast = tree
  <2>1. CASE level = "location"
    <3>1. LocationBuilds(p, RBrace, q)
      BY <1>2, <1>5, <2>1, BuildsAre
    <3> QED
      BY <1>0, <1>5, <3>1, Zenon DEF LocationBuilds
  <2>2. CASE level = "server"
    <3>1. ServerBuilds(p, RBrace, q)
      BY <1>2, <1>5, <2>2, BuildsAre
    <3> QED
      BY <1>0, <1>5, <3>1, Zenon DEF ServerBuilds
  <2> QED
    BY <2>1, <2>2
<1> QED
  BY <1>3, <1>4, <1>6, Zenon DEF Stands, q

Frames(u, a, x, c) == u \o ((a \o x) \o c) = ((u \o a) \o x) \o c

LEMMA Framed ==
    ASSUME NEW Z, NEW u \in Seq(Z), NEW a \in Seq(Z), NEW x \in Seq(Z), NEW c \in Seq(Z)
    PROVE  /\ u \o a \in Seq(Z) /\ (u \o a) \o x \in Seq(Z)
           /\ (a \o x) \o c \in Seq(Z)
           /\ Frames(u, a, x, c)
<1>1. a \o x \in Seq(Z) /\ u \o a \in Seq(Z)
  BY ConcatProperties
<1>2. (u \o a) \o x \in Seq(Z) /\ (a \o x) \o c \in Seq(Z)
  BY <1>1, ConcatProperties
<1>3. u \o ((a \o x) \o c) = (u \o (a \o x)) \o c
  BY <1>1, Grouping DEF Grouped
<1>4. (u \o a) \o x = u \o (a \o x)
  BY Grouping DEF Grouped
<1>5. Frames(u, a, x, c)
  BY <1>3, <1>4, Zenon DEF Frames
<1> QED
  BY <1>1, <1>2, <1>5

(* The locations of a server, one after the other.                         *)
LocationText(l) == <<LocationWord, l.path, LBrace>> \o DirectivesText(l.directives) \o <<RBrace>>
LocationTexts   == [l \in PlainLocations |-> LocationText(l)]

LEMMA DirectivesTextIn ==
    ASSUME NEW ds \in Seq(PlainDirectives)
    PROVE  DirectivesText(ds) \in Seq(Toks) /\ DirectivesText(ds) \in Seq(Words(Ink))
<1>1. DirectivesText(ds) \in Seq(Toks)
  <2>1. CASE ds = <<>>
    <3>1. DirectivesText(<<>>) = <<>>
      BY DEF DirectivesText, FlattenSeq
    <3> QED
      BY <2>1, <3>1, EmptySeq
  <2>2. CASE ds # <<>>
    <3>1. Last(ds) \in PlainDirectives
      BY <2>2, FrontAndLast
    <3> QED
      BY <3>1, DirectivesTextGrows
  <2> QED
    BY <2>1, <2>2
<1> QED
  BY <1>1, ToksAre

LEMMA LocationTextIn ==
    ASSUME NEW l \in PlainLocations
    PROVE  /\ LocationText(l) \in Seq(Toks)
           /\ l.path \in PlainWords /\ l.directives \in Seq(PlainDirectives)
           /\ l = LocationBlock(l.path, l.directives)
<1>1. /\ l.path \in PlainWords /\ l.directives \in Seq(PlainDirectives)
      /\ l = LocationBlock(l.path, l.directives)
  BY Zenon DEF PlainLocations, LocationBlock
<1> DEFINE a == <<LocationWord, l.path, LBrace>>
           x == DirectivesText(l.directives)
           c == <<RBrace>>
<1>2. LocationWord \in Toks /\ l.path \in Toks /\ LBrace \in Toks /\ RBrace \in Toks
  BY <1>1, ToksAre
<1>3. a \in Seq(Toks)
  BY <1>2, Few
<1>4. c \in Seq(Toks)
  BY <1>2, Singles
<1>5. x \in Seq(Toks)
  BY <1>1, DirectivesTextIn
<1>6. LocationText(l) = (a \o x) \o c
  BY Zenon DEF LocationText
<1> HIDE DEF a, x, c
<1>7. (a \o x) \o c \in Seq(Toks)
  BY <1>3, <1>4, <1>5, Framed
<1> QED
  BY <1>1, <1>6, <1>7, Zenon

LEMMA LocationStands ==
    ASSUME NEW Z, NEW T \in Seq(Z), NEW X, NEW ls \in Seq(X), NEW es, NEW u,
           Stands(u, "server", Append(T, Block(es, ls))), NEW l \in PlainLocations
    PROVE  Stands(u \o LocationText(l), "server", Append(T, Block(es, Append(ls, l))))
<1> DEFINE W == Words(Ink)
           w == l.path
           a == <<LocationWord, w, LBrace>>
           x == DirectivesText(l.directives)
           c == <<RBrace>>
           tree == Append(T, Block(es, ls))
           F(s) == Filled("location", T, ls, es, w, s)
<1>1. w \in PlainWords /\ l.directives \in Seq(PlainDirectives) /\ l = LocationBlock(w, l.directives)
  BY LocationTextIn
<1>2. w \in W /\ IsWord(w)
  BY <1>1, PlainWordsAre
<1>3. LocationWord \in W /\ LBrace \in W /\ RBrace \in W
  BY InkKeywords DEF KeywordsIn
<1>4. a \in Seq(W) /\ c \in Seq(W)
  <2> HIDE DEF W, w
  <2>1. a \in Seq(W)
    BY <1>2, <1>3, Few
  <2>2. c \in Seq(W)
    BY <1>3, Singles
  <2> QED
    BY <2>1, <2>2
<1>5. x \in Seq(W)
  BY <1>1, DirectivesTextIn
<1>6. u \in Seq(W)
  BY Zenon DEF Stands
<1>7. Stands(u \o a, "location", F(<<>>))
  <2> DEFINE n == Block(es, Append(ls, LocationBlock(w, <<>>)))
  <2>1. Stands(u \o a, "location", WithLast(tree, ServerLocation(LastOf(tree), LocationBlock(w, <<>>))))
    <3>1. Stands(u, "server", tree)
      OBVIOUS
    <3> HIDE DEF tree
    <3>2. Stands(u \o OpenLocation(w), "location",
                 WithLast(tree, ServerLocation(LastOf(tree), LocationBlock(w, <<>>))))
      BY <1>2, <3>1, LocationStarts
    <3> QED
      BY <3>2, Zenon DEF OpenLocation
  <2>2. LastOf(tree) = Block(es, ls) /\ WithLast(tree, n) = Append(T, n)
    BY LastChanges
  <2>3. ServerLocation(Block(es, ls), LocationBlock(w, <<>>)) = n
    <3> DEFINE pl == LocationBlock(w, <<>>)
    <3> HIDE DEF pl
    <3>1. ServerLocation(Block(es, ls), pl) = Block(es, Append(ls, pl))
      BY BlockChanges
    <3> QED
      BY <3>1, Zenon DEF pl
  <2>4. F(<<>>) = Append(T, n)
    BY DEF Filled
  <2> HIDE DEF n, tree, F, a
  <2> QED
    BY <2>1, <2>2, <2>3, <2>4, Zenon
<1>8. Stands((u \o a) \o x, "location", F(l.directives))
  <2>1. Fits("location", l.directives)
    BY DEF Fits
  <2> DEFINE v == u \o a
             ds == l.directives
             lv == "location"
  <2>2. Stands(v, lv, Filled(lv, T, ls, es, w, <<>>))
    BY <1>7
  <2>3. ds \in Seq(PlainDirectives) /\ Fits(lv, ds) /\ lv \in {"server", "location"}
    BY <1>1, <2>1
  <2> HIDE DEF v, ds, lv, w
  <2>4. Stands(v \o DirectivesText(ds), lv, Filled(lv, T, ls, es, w, ds))
    BY <2>2, <2>3, DirectivesStand
  <2> QED
    BY <2>4, Zenon DEF v, ds, lv, w
<1>9. F(l.directives) = Append(T, Block(es, Append(ls, l)))
  <2>1. F(l.directives) = Append(T, Block(es, Append(ls, LocationBlock(w, l.directives))))
    BY DEF Filled
  <2> HIDE DEF w
  <2> QED
    BY <1>1, <2>1, Zenon
<1>10. Stands(((u \o a) \o x) \o c, "server", F(l.directives))
  <2> HIDE DEF a, x, F
  <2> QED
    BY <1>8, BraceStands
<1>11. LocationText(l) = (a \o x) \o c
  BY Zenon DEF LocationText
<1>12. u \o ((a \o x) \o c) = ((u \o a) \o x) \o c
  <2> HIDE DEF a, x, c, W
  <2>1. Frames(u, a, x, c)
    BY <1>4, <1>5, <1>6, Framed
  <2> QED
    BY <2>1, Zenon DEF Frames
<1>13. ((u \o a) \o x) \o c = u \o LocationText(l)
  BY <1>11, <1>12, Zenon
<1> HIDE DEF a, x, c, F
<1>14. Stands(u \o LocationText(l), "server", F(l.directives))
  BY <1>10, <1>13, Zenon
<1> QED
  BY <1>9, <1>14, Zenon

LEMMA LocationsTextGrows ==
    ASSUME NEW ls \in Seq(PlainLocations), NEW l \in PlainLocations
    PROVE  /\ LocationsText(<<>>) = <<>> /\ LocationsText(ls) \in Seq(Toks)
           /\ LocationsText(Append(ls, l)) = LocationsText(ls) \o LocationText(l)
<1> DEFINE Z == PlainLocations
           f == LocationTexts
<1>1. f \in [Z -> Seq(Toks)] /\ f[l] = LocationText(l)
  BY LocationTextIn DEF LocationTexts
<1>2. ASSUME NEW s \in Seq(Z) PROVE LocationsText(s) = Written(f, s)
  <2>1. \A i \in DOMAIN s : s[i] \in Z
    <3> HIDE DEF Z
    <3> QED
      BY LenProperties, ElementOfSeq
  <2>2. \A i \in DOMAIN s : f[s[i]] = LocationText(s[i])
    BY <2>1 DEF LocationTexts
  <2>3. Mapped(f, s) = [i \in DOMAIN s |-> LocationText(s[i])]
    <3> HIDE DEF f
    <3> QED
      BY <2>2 DEF Mapped
  <2>4. LocationsText(s) = FlattenSeq([i \in DOMAIN s |-> LocationText(s[i])])
    BY Zenon DEF LocationsText, LocationText
  <2> QED
    BY <2>3, <2>4, Zenon DEF Written
<1> DEFINE A == Append(ls, l)
<1> HIDE DEF Z, f
<1>3. ls \in Seq(Z) /\ l \in Z
  BY DEF Z
<1>4. A \in Seq(Z) /\ <<>> \in Seq(Z)
  BY <1>3, AppendProperties, EmptySeq
<1>5. /\ Written(f, <<>>) = <<>> /\ Written(f, ls) \in Seq(Toks)
      /\ Written(f, A) = Written(f, ls) \o f[l]
  BY <1>1, <1>3, WrittenGrows
<1> HIDE DEF A
<1>6. /\ LocationsText(<<>>) = <<>> /\ LocationsText(ls) \in Seq(Toks)
      /\ LocationsText(A) = LocationsText(ls) \o LocationText(l)
  BY <1>1, <1>2, <1>3, <1>4, <1>5
<1> QED
  BY <1>6 DEF A

LEMMA LocationsTextIn ==
    ASSUME NEW ls \in Seq(PlainLocations)
    PROVE  LocationsText(ls) \in Seq(Toks) /\ LocationsText(ls) \in Seq(Words(Ink))
<1>1. LocationsText(ls) \in Seq(Toks)
  <2>1. CASE ls = <<>>
    <3>1. LocationsText(<<>>) = <<>>
      BY DEF LocationsText, FlattenSeq
    <3> QED
      BY <2>1, <3>1, EmptySeq
  <2>2. CASE ls # <<>>
    <3>1. Last(ls) \in PlainLocations
      BY <2>2, FrontAndLast
    <3> QED
      BY <3>1, LocationsTextGrows
  <2> QED
    BY <2>1, <2>2
<1> QED
  BY <1>1, ToksAre

LEMMA LocationsStand ==
    ASSUME NEW Z, NEW T \in Seq(Z), NEW es, NEW u, Stands(u, "server", Append(T, Block(es, <<>>))),
           NEW ls \in Seq(PlainLocations)
    PROVE  Stands(u \o LocationsText(ls), "server", Append(T, Block(es, ls)))
<1> DEFINE D == PlainLocations
           Good(s) == Stands(u \o LocationsText(s), "server", Append(T, Block(es, s)))
           S == {s \in Seq(D) : Good(s)}
<1>1. u \in Seq(Words(Ink))
  BY Zenon DEF Stands
<1>2. \A s \in Seq(D), l \in D :
        LocationsText(Append(s, l)) = LocationsText(s) \o LocationText(l)
  BY LocationsTextGrows
<1>3. <<>> \in S
  <2>1. LocationsText(<<>>) = <<>>
    BY DEF LocationsText, FlattenSeq
  <2>2. u \o <<>> = u
    BY <1>1, ConcatEmptySeq
  <2>3. <<>> \in Seq(D)
    BY EmptySeq
  <2>4. Good(<<>>)
    BY <2>1, <2>2
  <2> HIDE DEF Good, D
  <2> QED
    BY <2>3, <2>4
<1>4. ASSUME NEW s \in Seq(D), NEW l \in D, s \in S PROVE Append(s, l) \in S
  <2>1. Append(s, l) \in Seq(D)
    <3> HIDE DEF D
    <3> QED
      BY AppendProperties
  <2>2. Good(Append(s, l))
    <3> DEFINE v == u \o LocationsText(s)
               t == LocationText(l)
               n == Append(T, Block(es, Append(s, l)))
    <3>1. Stands(v, "server", Append(T, Block(es, s)))
      BY <1>4
    <3>2. Stands(v \o t, "server", n)
      <4> HIDE DEF v
      <4> QED
        BY <3>1, LocationStands
    <3>3. v \o t = u \o LocationsText(Append(s, l))
      <4> DEFINE W == Words(Ink)
                 x == LocationsText(s)
      <4>1. x \in Seq(W) /\ t \in Seq(W) /\ u \in Seq(W)
        BY <1>1, LocationsTextIn, LocationTextIn, ToksAre
      <4>2. LocationsText(Append(s, l)) = x \o t
        BY <1>2
      <4> HIDE DEF x, t, W
      <4>3. Grouped(u, x, t)
        BY <4>1, Grouping
      <4>4. (u \o x) \o t = u \o (x \o t)
        BY <4>3, Zenon DEF Grouped
      <4> QED
        BY <4>2, <4>4 DEF x
    <3> HIDE DEF v, t, n
    <3>4. Stands(u \o LocationsText(Append(s, l)), "server", n)
      BY <3>2, <3>3, Zenon
    <3> QED
      BY <3>4 DEF n
  <2> HIDE DEF Good, D
  <2> QED
    BY <2>1, <2>2
<1> HIDE DEF S, D
<1>5. Seq(D) \subseteq S
  BY <1>3, <1>4, Appending
<1> HIDE DEF Good
<1>6. Good(ls)
  BY <1>5 DEF S, D
<1> QED
  BY <1>6 DEF Good

-----------------------------------------------------------------------------
(* A server, in either order.                                              *)
Body(s, first) ==
    IF first = "directives" THEN DirectivesText(s.directives) \o LocationsText(s.locations)
    ELSE LocationsText(s.locations) \o DirectivesText(s.directives)

LEMMA PlainServer ==
    ASSUME NEW s \in PlainServers
    PROVE  /\ s.directives \in Seq(PlainDirectives) /\ s.locations \in Seq(PlainLocations)
           /\ s = Block(s.directives, s.locations) /\ Fits("server", s.directives)
<1> DEFINE D == Seq(PlainDirectives)
           L == Seq(PlainLocations)
<1>1. s \in [directives : D, locations : L]
      /\ \A i \in DOMAIN s.directives : s.directives[i].name # LocationWord
  BY Zenon DEF PlainServers
<1>2. s.directives \in D /\ s.locations \in L
  <2> HIDE DEF D, L
  <2> QED
    BY <1>1
<1>3. s = Block(s.directives, s.locations)
  <2> HIDE DEF D, L
  <2> QED
    BY <1>1 DEF Block
<1>4. DOMAIN s.directives = 1..Len(s.directives)
  BY <1>2, LenProperties
<1>5. Fits("server", s.directives)
  BY <1>1, <1>4, Zenon DEF Fits
<1> QED
  BY <1>2, <1>3, <1>5

LEMMA BodyStands ==
    ASSUME NEW Z, NEW T \in Seq(Z), NEW u, Stands(u, "server", Append(T, Block(<<>>, <<>>))),
           NEW s \in PlainServers, NEW first
    PROVE  /\ Stands(u \o Body(s, first), "server", Append(T, s))
           /\ Body(s, first) \in Seq(Toks)
<1> DEFINE ds == s.directives
           ls == s.locations
           x == DirectivesText(ds)
           y == LocationsText(ls)
           W == Words(Ink)
<1>1. ds \in Seq(PlainDirectives) /\ ls \in Seq(PlainLocations) /\ s = Block(ds, ls) /\ Fits("server", ds)
  BY PlainServer
<1>2. x \in Seq(W) /\ y \in Seq(W) /\ x \in Seq(Toks) /\ y \in Seq(Toks)
  BY <1>1, DirectivesTextIn, LocationsTextIn
<1>3. u \in Seq(W)
  BY Zenon DEF Stands
<1>4. Body(s, first) = IF first = "directives" THEN x \o y ELSE y \o x
  BY Zenon DEF Body
<1> HIDE DEF ds, ls, W
<1>5. ASSUME NEW v, NEW ms \in {<<>>, ls}, Stands(v, "server", Append(T, Block(<<>>, ms)))
      PROVE  Stands(v \o x, "server", Append(T, Block(ds, ms)))
  <2> DEFINE lv == "server"
             X == PlainLocations
  <2>1. \A e : Filled(lv, T, ms, <<>>, <<>>, e) = Append(T, Block(e, ms))
    BY DEF Filled
  <2>2. ms \in Seq(X)
    BY <1>1, EmptySeq
  <2>3. ds \in Seq(PlainDirectives) /\ Fits(lv, ds) /\ lv \in {"server", "location"}
    BY <1>1
  <2>4. Stands(v, lv, Append(T, Block(<<>>, ms)))
    BY <1>5
  <2> HIDE DEF lv, X
  <2>5. Stands(v, lv, Filled(lv, T, ms, <<>>, <<>>, <<>>))
    BY <2>1, <2>4
  <2>6. Stands(v \o DirectivesText(ds), lv, Filled(lv, T, ms, <<>>, <<>>, ds))
    BY <2>2, <2>3, <2>5, DirectivesStand
  <2>7. Stands(v \o x, lv, Append(T, Block(ds, ms)))
    BY <2>1, <2>6
  <2> QED
    BY <2>7 DEF lv
<1>6. ASSUME NEW v, NEW es, Stands(v, "server", Append(T, Block(es, <<>>)))
      PROVE  Stands(v \o y, "server", Append(T, Block(es, ls)))
  BY <1>1, <1>6, LocationsStand
<1> HIDE DEF x, y
<1>7. Stands((u \o x) \o y, "server", Append(T, Block(ds, ls)))
  <2>1. Stands(u \o x, "server", Append(T, Block(ds, <<>>)))
    BY <1>5
  <2> QED
    BY <1>6, <2>1
<1>8. Stands((u \o y) \o x, "server", Append(T, Block(ds, ls)))
  <2>1. Stands(u \o y, "server", Append(T, Block(<<>>, ls)))
    BY <1>6
  <2> QED
    BY <1>5, <2>1
<1>9. Grouped(u, x, y) /\ Grouped(u, y, x)
  <2>1. Grouped(u, x, y)
    BY <1>2, <1>3, Grouping
  <2>2. Grouped(u, y, x)
    BY <1>2, <1>3, Grouping
  <2> QED
    BY <2>1, <2>2
<1>10. Stands(u \o Body(s, first), "server", Append(T, Block(ds, ls)))
  <2>1. CASE first = "directives"
    <3>1. u \o Body(s, first) = (u \o x) \o y
      BY <1>4, <1>9, <2>1, Zenon DEF Grouped
    <3> QED
      BY <1>7, <3>1, Zenon
  <2>2. CASE first # "directives"
    <3>1. u \o Body(s, first) = (u \o y) \o x
      BY <1>4, <1>9, <2>2, Zenon DEF Grouped
    <3> QED
      BY <1>8, <3>1, Zenon
  <2> QED
    BY <2>1, <2>2
<1>11. Body(s, first) \in Seq(Toks)
  <2>1. x \o y \in Seq(Toks) /\ y \o x \in Seq(Toks)
    BY <1>2, ConcatProperties
  <2> QED
    BY <1>4, <2>1
<1> QED
  BY <1>1, <1>10, <1>11, Zenon

LEMMA ServerTextIs ==
    ASSUME NEW s \in PlainServers, NEW first
    PROVE  /\ ServerText(s, first) = (OpenServer \o Body(s, first)) \o <<RBrace>>
           /\ OpenServer \in Seq(Toks) /\ <<RBrace>> \in Seq(Toks)
<1>1. ServerText(s, first) = (OpenServer \o Body(s, first)) \o <<RBrace>>
  BY Zenon DEF ServerText, OpenServer, Body
<1>2. ServerWord \in Toks /\ LBrace \in Toks /\ RBrace \in Toks
  BY ToksAre
<1>3. OpenServer \in Seq(Toks)
  BY <1>2 DEF OpenServer
<1>4. <<RBrace>> \in Seq(Toks)
  BY <1>2, Singles
<1> QED
  BY <1>1, <1>3, <1>4

LEMMA ServerStands ==
    ASSUME NEW Z, NEW T \in Seq(Z), NEW u, Stands(u, "config", T), NEW s \in PlainServers, NEW first
    PROVE  /\ Stands(u \o ServerText(s, first), "config", Append(T, s))
           /\ ServerText(s, first) \in Seq(Toks)
<1> DEFINE a == OpenServer
           x == Body(s, first)
           c == <<RBrace>>
           W == Words(Ink)
           n == Append(T, s)
<1>1. ServerText(s, first) = (a \o x) \o c /\ a \in Seq(Toks) /\ c \in Seq(Toks)
  BY ServerTextIs
<1>2. Stands(u \o a, "server", Append(T, Block(<<>>, <<>>)))
  BY ServerStarts
<1>3. Stands((u \o a) \o x, "server", n) /\ x \in Seq(Toks)
  <2> DEFINE v == u \o a
  <2>1. Stands(v, "server", Append(T, Block(<<>>, <<>>)))
    BY <1>2
  <2> HIDE DEF v
  <2>2. Stands(v \o x, "server", n) /\ x \in Seq(Toks)
    BY <2>1, BodyStands
  <2> QED
    BY <2>2 DEF v
<1>4. u \in Seq(W)
  BY Zenon DEF Stands
<1> HIDE DEF a, x, n
<1>5. Stands(((u \o a) \o x) \o c, "config", n)
  BY <1>3, BraceStands
<1>6. a \in Seq(W) /\ x \in Seq(W) /\ c \in Seq(W)
  BY <1>1, <1>3, ToksAre
<1> HIDE DEF c, W
<1>7. Frames(u, a, x, c)
  BY <1>4, <1>6, Framed
<1>8. Stands(u \o ServerText(s, first), "config", n)
  <2>1. u \o ServerText(s, first) = ((u \o a) \o x) \o c
    BY <1>1, <1>7, Zenon DEF Frames
  <2> QED
    BY <1>5, <2>1, Zenon
<1>9. ServerText(s, first) \in Seq(Toks)
  <2>1. (a \o x) \o c \in Seq(Toks)
    <3>1. a \o x \in Seq(Toks)
      BY <1>1, <1>3, ConcatProperties
    <3> QED
      BY <1>1, <3>1, ConcatProperties
  <2> QED
    BY <1>1, <2>1, Zenon
<1> QED
  BY <1>8, <1>9 DEF n

LEMMA NothingStands == Stands(<<>>, "config", <<>>)
<1>1. <<>> \in Seq(Words(Ink))
  BY EmptySeq
<1>2. Parse(<<>>) = Run(ParseStep(Ink), Start, <<>>)
  BY <1>1, ParseRuns
<1>3. Parse(<<>>) = Start
  BY <1>2, RunEmpty
<1>4. Start.ast = <<>>
  BY TreeEntered DEF Start
<1> QED
  BY <1>1, <1>3, <1>4, ParseStarts, Zenon DEF Stands

LEMMA SentenceGrows ==
    ASSUME NEW first, NEW tree \in Seq(PlainServers), NEW s \in PlainServers
    PROVE  /\ Sentence(<<>>, first) = <<>> /\ Sentence(tree, first) \in Seq(Toks)
           /\ Sentence(Append(tree, s), first) = Sentence(tree, first) \o ServerText(s, first)
<1> DEFINE Z == PlainServers
           f == [x \in PlainServers |-> ServerText(x, first)]
<1>1. f \in [Z -> Seq(Toks)] /\ f[s] = ServerText(s, first)
  <2>1. ASSUME NEW x \in PlainServers PROVE ServerText(x, first) \in Seq(Toks)
    <3>1. <<>> \in Seq({})
      BY EmptySeq
    <3> QED
      BY <3>1, NothingStands, ServerStands
  <2> QED
    BY <2>1
<1>2. ASSUME NEW t \in Seq(Z) PROVE Sentence(t, first) = Written(f, t)
  <2>1. \A i \in DOMAIN t : t[i] \in Z
    <3> HIDE DEF Z
    <3> QED
      BY LenProperties, ElementOfSeq
  <2>2. \A i \in DOMAIN t : f[t[i]] = ServerText(t[i], first)
    BY <2>1
  <2>3. Mapped(f, t) = [i \in DOMAIN t |-> ServerText(t[i], first)]
    <3> HIDE DEF f
    <3> QED
      BY <2>2 DEF Mapped
  <2>4. Sentence(t, first) = FlattenSeq([i \in DOMAIN t |-> ServerText(t[i], first)])
    BY Zenon DEF Sentence
  <2> QED
    BY <2>3, <2>4, Zenon DEF Written
<1> DEFINE A == Append(tree, s)
<1> HIDE DEF Z, f
<1>3. tree \in Seq(Z) /\ s \in Z
  BY DEF Z
<1>4. A \in Seq(Z) /\ <<>> \in Seq(Z)
  BY <1>3, AppendProperties, EmptySeq
<1>5. /\ Written(f, <<>>) = <<>> /\ Written(f, tree) \in Seq(Toks)
      /\ Written(f, A) = Written(f, tree) \o f[s]
  BY <1>1, <1>3, WrittenGrows
<1> HIDE DEF A
<1>6. /\ Sentence(<<>>, first) = <<>> /\ Sentence(tree, first) \in Seq(Toks)
      /\ Sentence(A, first) = Sentence(tree, first) \o ServerText(s, first)
  BY <1>1, <1>2, <1>3, <1>4, <1>5
<1> QED
  BY <1>6 DEF A

LEMMA SentenceIn ==
    ASSUME NEW first, NEW tree \in Seq(PlainServers)
    PROVE  Sentence(tree, first) \in Seq(Toks)
<1>1. CASE PlainServers = {}
  <2>1. tree = <<>>
    <3>1. tree \in Seq({})
      BY <1>1, Zenon
    <3> QED
      BY <3>1, LenProperties
  <2>2. Sentence(<<>>, first) = <<>>
    BY DEF Sentence, FlattenSeq
  <2> QED
    BY <2>1, <2>2, EmptySeq
<1>2. CASE PlainServers # {}
  <2>1. PICK s : s \in PlainServers
    BY <1>2, Zenon
  <2> QED
    BY <2>1, SentenceGrows
<1> QED
  BY <1>1, <1>2

LEMMA SentenceStands ==
    ASSUME NEW first, NEW tree \in Seq(PlainServers)
    PROVE  Stands(Sentence(tree, first), "config", tree) /\ Sentence(tree, first) \in Seq(Toks)
<1> DEFINE Z == PlainServers
           Good(t) == Stands(Sentence(t, first), "config", t) /\ Sentence(t, first) \in Seq(Toks)
           S == {t \in Seq(Z) : Good(t)}
<1>1. <<>> \in S
  <2>1. Sentence(<<>>, first) = <<>>
    BY DEF Sentence, FlattenSeq
  <2>2. Good(<<>>)
    BY <2>1, NothingStands, EmptySeq
  <2>3. <<>> \in Seq(Z)
    BY EmptySeq
  <2> HIDE DEF Good, Z
  <2> QED
    BY <2>2, <2>3
<1>2. ASSUME NEW t \in Seq(Z), NEW s \in Z, t \in S PROVE Append(t, s) \in S
  <2>1. Append(t, s) \in Seq(Z)
    <3> HIDE DEF Z
    <3> QED
      BY AppendProperties
  <2>2. Stands(Sentence(t, first) \o ServerText(s, first), "config", Append(t, s))
    BY <1>2, ServerStands
  <2>3. Sentence(Append(t, s), first) = Sentence(t, first) \o ServerText(s, first)
    BY SentenceGrows
  <2>4. Sentence(Append(t, s), first) \in Seq(Toks)
    BY <2>1, SentenceIn
  <2>5. Good(Append(t, s))
    BY <2>2, <2>3, <2>4, Zenon
  <2> HIDE DEF Good, Z
  <2> QED
    BY <2>1, <2>5
<1> HIDE DEF S, Z
<1>3. Seq(Z) \subseteq S
  BY <1>1, <1>2, Appending
<1> HIDE DEF Good
<1>4. Good(tree)
  BY <1>3 DEF S, Z
<1> QED
  BY <1>4 DEF Good

(* A tree that is written down is read back, in whatever layout.           *)
LEMMA WrittenIsRead ==
    ASSUME NEW text, NEW tree, StandsFor(text, tree)
    PROVE  Accepts(Parse(Tokens(text))) /\ Parse(Tokens(text)).ast = tree
<1>1. PICK first \in Orders, layout \in Layouts :
         tree \in Seq(PlainServers) /\ text = LayOut(Sentence(tree, first), layout)
  BY Zenon DEF StandsFor
<1> DEFINE ts == Sentence(tree, first)
<1>2. Stands(ts, "config", tree) /\ ts \in Seq(Toks)
  BY <1>1, SentenceStands
<1>3. ts \in Seq(Words(Ink)) /\ AllTokens(ts)
  BY <1>2, ToksAre
<1> HIDE DEF ts
<1>4. Tokens(LayOut(ts, layout)) = ts
  BY <1>3, TokensLaid
<1>5. Tokens(text) = ts
  BY <1>1, <1>4, Zenon DEF ts
<1>6. Open(Parse(ts), "config") /\ Parse(ts).ast = tree
  BY <1>2, Zenon DEF Stands
<1> QED
  BY <1>5, <1>6, Zenon DEF Open, Accepts

(* The invariant: what the file's author wrote down is what was parsed.    *)
Again == file.written # <<>> => ast = file.written
ReadAgain ==
    /\ file \in Files
    /\ stage \in {"main", "loaded"} => error = "none"
    /\ error = "syntax" => file.written = <<>>
    /\ error = "validation" \/ stage = "loaded" => Again

LEMMA InitReadAgain == Init => ReadAgain
BY DEF Init, StartInit, ReadAgain

LEMMA LoadReadAgain ==
    ASSUME ReadAgain, Load
    PROVE  ReadAgain'
<1>1. /\ stage = "main" /\ file' = file
      /\ \/ ~Accepts(Parsed) /\ stage' = "over" /\ error' = "syntax"
         \/ /\ Accepts(Parsed) /\ ast' = Parsed.ast
            /\ \/ stage' = "loaded" /\ error' = error
               \/ stage' = "over" /\ error' = "validation"
  <2> DEFINE P == Parsed
  <2>1. Load => /\ stage = "main" /\ file' = file
                /\ \/ ~Accepts(P) /\ stage' = "over" /\ error' = "syntax"
                   \/ /\ Accepts(P) /\ ast' = P.ast
                      /\ \/ stage' = "loaded" /\ error' = error
                         \/ stage' = "over" /\ error' = "validation"
    <3> HIDE DEF P
    <3>1. Load => /\ stage = "main" /\ file' = file
                  /\ IF ~Accepts(P) THEN NotLoaded("syntax")
                     ELSE /\ ast' = P.ast
                          /\ \/ stage' = "loaded" /\ error' = error
                             \/ Refused("validation")
      BY DEF Load, NotLoaded, P
    <3> QED
      BY <3>1 DEF NotLoaded, Refused
  <2> QED
    BY <2>1
<1>2. file.written # <<>> => Accepts(Parsed) /\ Parsed.ast = file.written
  <2>1. ASSUME file.written # <<>>
        PROVE  Accepts(Parsed) /\ Parsed.ast = file.written
    <3>1. StandsFor(file.text, file.written)
      BY <2>1, FilesAssumption DEF ReadAgain
    <3> QED
      BY <3>1, WrittenIsRead, Zenon DEF Parsed
  <2> QED
    BY <2>1
<1> QED
  <2> DEFINE P == Parsed
             w == file.written
  <2>1. CASE ~Accepts(Parsed) /\ stage' = "over" /\ error' = "syntax"
    BY <1>1, <1>2, <2>1 DEF ReadAgain
  <2>2. CASE Accepts(Parsed) /\ ast' = Parsed.ast
    <3>1. Again'
      BY <1>1, <1>2, <2>2 DEF Again
    <3> QED
      BY <1>1, <2>2, <3>1 DEF ReadAgain
  <2> QED
    BY <1>1, <2>1, <2>2

LEMMA StepReadAgain ==
    ASSUME ReadAgain, [Next]_vars
    PROVE  ReadAgain'
<1>1. CASE UsageError \/ FileError
  <2>1. file' = file /\ stage' = "over" /\ error' \in {"usage", "file"}
    BY <1>1 DEF UsageError, FileError, NotLoaded, Refused
  <2> QED
    BY <2>1 DEF ReadAgain
<1>2. CASE Load
  BY <1>2, LoadReadAgain
<1>3. CASE ResolveConfig
  <2>1. /\ stage = "loaded" /\ file' = file /\ ast' = ast
        /\ \/ stage' = "over" /\ error' = "validation"
           \/ stage' = "setup" /\ error' = error
    BY <1>3 DEF ResolveConfig, Refused, Configured
  <2> QED
    BY <2>1 DEF ReadAgain, Again
<1>4. CASE EngineRuns \/ Outside
  <2>1. /\ file' = file /\ ast' = ast /\ error' \in {error, "runtime"}
        /\ \/ stage' \notin {"main", "loaded"}
           \/ stage' = stage /\ error' = error
    <3>1. CASE EngineRuns
      BY <1>4, <3>1
         DEF EngineRuns, EngineStep, SignalHandlingFails, SetupSignalHandling, SocketFails,
             LateFailure, SetupSocket, EnterLoop, SignalSeen, LeaveLoop, Destroy, Throw, IsNext
    <3>2. CASE Outside
      BY <1>4, <3>2 DEF Outside, PollFails, LeaveLoop, SignalKills, SignalHandler
    <3> QED
      BY <1>4, <3>1, <3>2
  <2> QED
    BY <2>1 DEF ReadAgain, Again
<1>5. CASE UNCHANGED vars
  <2>1. UNCHANGED <<file, ast, stage, error>>
    BY <1>5 DEF vars, startVars
  <2> QED
    BY <2>1 DEF ReadAgain, Again
<1> QED
  BY <1>1, <1>2, <1>3, <1>4, <1>5 DEF Next

LEMMA ReadAgainReads == ReadAgain => ReadsBack
BY DEF ReadAgain, Again, ReadsBack, WasParsed

(* A tree that is written down is read back as it was, by Tokenizer and    *)
(* ConfigParser together: whatever the layout, the remarks in it, and the  *)
(* order of directives and locations in a server.                          *)
THEOREM ReadBack == Spec => []ReadsBack
<1>1. Spec => []ReadAgain
  BY InitReadAgain, StepReadAgain, PTL DEF Spec
<1> QED
  BY <1>1, ReadAgainReads, PTL
=============================================================================
