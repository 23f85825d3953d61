# A TLA+ model of webserv

This directory holds a TLA+ development of the server in `src/`: an HTTP/1.1
server in C++98 with one thread, one `poll()` loop, CGI programs as child
processes, and a configuration in the style of nginx. Paths below are relative
to `src/`. The sources are in `src/src`, the headers in `src/includes`.

The modules are checked with TLC on small instances. Thirty-nine theorems are
proved with TLAPS for all values of the constants: twelve about the event loop,
six about the start of the server, six about how a configuration is read and what it means,
five about the parser and ten about requests and files. Two of them say that a
detailed module implements an abstract one.

* [1. Inventory](#1-inventory)
* [2. Modules and their correspondence to the code](#2-modules-and-their-correspondence-to-the-code)
* [3. Runs, bounds and what they show](#3-runs-bounds-and-what-they-show)
* [4. Fairness and atomicity](#4-fairness-and-atomicity)
* [5. Proofs](#5-proofs)
* [6. Where the code and its documentation differ](#6-where-the-code-and-its-documentation-differ)
* [7. What is not modelled](#7-what-is-not-modelled)
* [8. Plan](#8-plan)

## 1. Inventory

| Component | State | Operations | Talks to |
|---|---|---|---|
| `ServerEngine` | listeners, `_connections`, `_cgiToSocket`, `_pollfds`, the self-pipe | `start`, `eventLoop`, `handlePollEvent`, `acceptConnection`, `closeConnection`, `registerCgi`, `closeCgi`, `rebuildPollfds`, `checkTimeouts`, `cleanup` | the kernel; each `Connection` |
| `Connection` | `_state`, the two buffers, the parser, the CGI state, the time of the last activity | `onReadable`, `onWritable`, `onCgiReadable`, `onCgiWritable`, `processRequest`, `finalizeCgi`, `killCgi`, `handleCgiTimeout` | parser, resolver, handlers, CGI process |
| `CgiHandler` | none (fills `CgiState`) | `launch`, `parseCgiOutput`, the environment | pipes, `fork`, `execve` |
| `RequestParser` | state, error status, chunk size, what is left of the buffer | `parse` and one function for each state | called by `onReadable` with more of the text each time |
| `HandlerResolver` | none | `findServer`, `matchLocation`, `resolveCgiPathInfo`, `resolvePath` | the configuration, `realpath` and `stat` |
| `RequestHandler` | none (the files) | redirection, method check, GET, DELETE | file system, `UploadHandler` |
| `UploadHandler` | the static counter for file names (and the files) | checks, multipart body, name, write, address | file system |
| Responses, errors | none | formatting, error pages | every handler |
| Configuration | the tree of directives, then servers and locations by socket; built once at the start | `Tokenizer`, `ConfigParser`, `ConfigValidator`, `ConfigResolver`, `RuntimeLocation`, `RuntimeServer` | its result is constant; `HandlerResolver`, `ErrorHandler` and `ServerEngine::start` read it |
| `SocketKeyUtils` | none | addresses from and to text | the resolver |
| `main`, `Logger` | none | the order of it all and its errors; output | |

What makes each hard, and what makes it correct:

* **ServerEngine.** The ready descriptors are copied before they are handled
  (a snapshot), while the handlers close descriptors and `accept()` and
  `pipe()` hand the lowest free number out again. `_pollfds` and
  `_cgiToSocket` are kept up by hand on every path. A timeout, a signal, the
  hang-up of a client and the end of its program may come in one iteration.
  Correct means: a descriptor belongs to one connection in one role and is
  closed once; the event of a descriptor that is gone reaches nobody; `poll()`
  watches what the connections wait for; a program ends in bounded time; an
  idle client, and no other, is dropped; nothing stays behind.
* **Connection.** Clients and programs act between any two events, and data,
  end of file and hang-up come together. Correct means: `_state` and the CGI
  state agree, a request is answered at most once, and the answer is not
  changed while it is sent.
* **RequestParser.** `recv()` may cut the text anywhere. Correct means: the
  verdict and the body depend on the text and not on the cuts; the text of a
  good request is read as what was written, any other is refused; a verdict
  is final.
* **HandlerResolver.** Index arithmetic on paths: boundaries of names, dots,
  the path behind a script. Correct means: the deepest location, no file
  outside its root, no refusal without a reason, and a consistent split.
* **Configuration.** A grammar, rules that look at several directives together,
  and settings that come from three places in an order: a location's own, its
  server's, the defaults. Correct means: the file is refused exactly when it
  does not follow the grammar or the rules, and what is accepted means what is
  written, whatever the layout and the order of its directives.
* **The start.** Descriptors are opened one by one, any call may fail, a signal may come
  at any moment, and `cleanup()` runs from two places. Correct
  means: nothing is left behind or closed twice, the loop begins with one
  socket for each address, and no signal is lost.
* **RequestHandler, UploadHandler.** Effects on files that outlive the
  request, with system calls that fail half-way. Correct means: an upload that
  was confirmed is there, whole, at the address that was given, until it is
  deleted; a deleted file stays away; a file changes only by an allowed method.

Every place where this bites is listed, with its line and the properties that
watch it, under `hazards` in `PROJECT.json`.

## 2. Modules and their correspondence to the code

```
Kernel <- Connection <- ServerEngine <- ServerExchange <- MCServerEngine
                                              |
                                              +-- INSTANCE Exchange (abstract)

RequestParser <- RequestGrammar <- MCRequestParser

Paths <- HandlerResolver <-+
Paths <- Multipart <-------+- RequestHandler <-+
                                               +- ConfiguredSite <- MCRequestHandler
Paths <- ConfigValidator <- ConfigResolver <- ConfigAsWritten <-+
                             ConfigParser <- ConfigGrammar <----+- Startup <- MCStartup
                             ServerStart <----------------------+
```

The proofs are in modules of their own, beside these:

```
ServerEngine <- ServerEngineProofs <-+
ServerExchange <---------------------+- ServerExchangeProofs

RequestGrammar <-+- RequestParserProofs
FoldProofs <-----+

ConfigAsWritten <-+- ResolverProofs <-+
FoldProofs <------+                   +- StartupProofs
Startup <-----------------------------+

RequestHandler <-+- RequestHandlerProofs <-+
FoldProofs <-----+                         +- ConfiguredSiteProofs
ConfiguredSite, ResolverProofs <-----------+
```

The chains meet at narrow interfaces. The parser gives a connection
one of the verdicts *partial*, *error* and *complete*; `RequestParser` says
which and when, `Connection` takes any (`Verdicts`). The resolver and the
handlers turn a complete request into an answer made at once or a CGI
program; `RequestHandler` says which and with what effect, `Connection`
takes the verdicts *page*, *cgi* and *cgiBody*. This is sound because neither
the parser nor a handler calls back into the loop, and a handler runs inside
one `handlePollEvent`. The configuration is constant once the server runs:
`ConfiguredSite` lets `RequestHandler` work on what `ConfigResolver` makes of a
tree, and `Handover` of `ServerStart` is what `KernelAssumption` of the event
loop asks for.

**Kernel** (external). What the code relies on: lowest-numbered descriptors,
the backlog of a listener, a socket with its peer (open, half-closed, reset),
unread data and room in the send buffer, a process with the two pipes of its
CGI, and the conditions that `poll()` reports. POLLERR, POLLHUP and POLLNVAL
are one condition, `"HUP"`, since the server never tells them apart. Byte
streams are counted in units; a system call moves any number of them.

**Connection.** A member function is an operator from a *world* (the
connection, its socket, the processes, the open descriptors) to the set of
worlds it may return in, because several run in the same event.

| TLA+ | code |
|---|---|
| `conn[f].st` | `_state` |
| `conn[f].req` | what the parser and the route have decided |
| `conn[f].resp`, `left` | `_response`, length of `_write_buffer` |
| `conn[f].cgi` | `CgiState`: pid, the two pipe ends, input left, output got, `done` |
| `conn[f].idle`, `age` | time since `_last_activity`, since `_cgi_start_time` |
| `OnReadable`, `Judge`, `ProcessRequest` | `onReadable`, `processRequest` |
| `OnWritable`, `OnCgiWritable`, `OnCgiReadable` | the functions of those names |
| `LaunchSucceeded`, `LaunchFailed` | `CgiHandler::launch` and its failures |
| `FinalizeCgi`, `KillCgi`, `HandleCgiTimeout` | the functions of those names |

**ServerEngine.** `cgiToSocket` is `_cgiToSocket`, `pollfds` is `_pollfds`
(with the position of each entry), `ready` is what is left of the snapshot,
`pc` says where the thread is.

| Action | code |
|---|---|
| `Poll` | one return of `poll()` and the snapshot |
| `CgiEvent` | `handlePollEvent`, first part: a descriptor in `_cgiToSocket` |
| `HangUp` | POLLERR, POLLHUP or POLLNVAL on any other descriptor |
| `UnknownEvent` | a number that is nobody's any more |
| `SocketEvent` | the rest of `handlePollEvent`: read, register a CGI, write, close |
| `Accept` | `acceptConnection`, until no descriptor or no client is left |
| `CheckTimeouts` | `checkTimeouts`, at the end of each iteration |
| `Shutdown` | the byte of the self-pipe, then `cleanup` |
| `Tick`, `Outside` | the clock; the clients, the programs, the signal |

**Exchange** is the abstract specification: one exchange per slot, free,
reading, waiting or writing, answered once and by the right kind of reply, and
never dropped in the middle while its client stays. It has no descriptors,
pipes, poll set or clock. **ServerExchange** maps the loop to it
(`KeepsPromise`).

**RequestParser** has one action for each state of `parse()` (`StartLine`,
`Header`, `Body`, `ChunkSize`, `ChunkData`, `FinalCRLF`), `Receive` for a
`recv()` of any length, and `Return`. CR, LF and octets of a body are one
symbol each, so that a cut may fall between them; the content of a line is one
symbol which says how it is classified. **RequestGrammar** writes requests
down as `grammar.md` has them and says what a text so written means; it
does not use the parse functions.

**HandlerResolver** works on characters, since prefixes and dots are what it is
about. **RequestHandler** has one action for each way a request can be
answered; `Routed(r)` is what routing decides, `last` records what was
answered, and the history variables `uploads` and `removed` what was promised.
The content of a file is a sequence of characters; **Multipart** reads it out
of a form (boundary, headers and the parts of a line break are one symbol
each). An error carries its page: `ResolvePathError`, `Opens` and `ErrorPage`
are `ErrorHandler`.

**Configuration.** **ConfigParser** has the tokenizer (`SkipWhitespace`,
`WordEnd`, `Tokens`) and the recursive descent as a fold over tokens: since
blocks nest to a fixed depth, the open functions are the `level` and the words
read since. **ConfigGrammar** says which sequences are configurations
(`grammar.md`) and writes trees down in several layouts; it does not use the
parser. **ConfigValidator** is the table of rules and the checks on
one block. **ConfigResolver** is `resolve` with everything it calls; words are
characters where they are numbers or paths. What an address holds that
`sscanf` could not read is a choice (`junk`). **ConfigAsWritten** says what a tree
means without the order in which the resolver works: the setting of a location is its own
directive, or its server's, or the default (`LocationAsWritten`, `WrittenPage`).
**ConfiguredSite** puts `RequestHandler` on the servers of a tree and states what its answers
owe to it.

**ServerStart** and **Startup.** One action per system call of the start that may
fail on its own.

| Action | code |
|---|---|
| `UsageError`, `FileError`, `Load` | `main`, `ConfigLoader::load`: tokens, tree, rules |
| `ResolveConfig` | `ConfigResolver::resolve` and the making of the engine |
| `SetupSignalHandling`, `SignalHandlingFails` | the function of that name |
| `SetupSocket`, `SocketFails`, `LateFailure` | `setupSocket`: all goes well; no socket; a later call fails |
| `EnterLoop`, `SignalSeen`, `PollFails` | the event loop begins, ends for a signal, ends for an error |
| `Destroy` | the destructor on the way out of `main` |
| `SignalHandler`, `SignalKills` | a signal with and without the handlers |

`ServerStart` takes any set of addresses (`StartSpec`), and is what the proofs
are about. `Startup` is the same start with the addresses of a file, and is
proved to implement it (`ImplementsStart`), so that the theorems hold of it.

## 3. Runs, bounds and what they show

Each property has a mutant: a plausible bug in a definition it
depends on, which makes TLC find it violated under the same configuration.

| Run | Instance | Properties |
|---|---|---|
| `engine_one` | one client at a time, 5 descriptors, timeouts of 2 ticks, output, input and response of 2 units, all verdicts, a signal, fairness | `TypeOK`, `NoDescriptorLeak`, `ResponseKept`, `OnlyIdleClosed`, `CgiDeadline`, `KeepsPromise`, `CgiEnds`, `ReaderLeaves` |
| `engine_pipelined` | one client that sends on after its request, 6 descriptors, 2 pids, input of 2 units | `StateMatchesCgi`, `PollSetCurrent`, `CgiRegistered` |
| `engine_two` | two clients, 8 descriptors, 2 pids, pages and programs | `DescriptorOwnership`, `PidOwnership`, `NoReuseWhilePending`, `KeepsPromise` |
| `parser` | requests and broken texts, all ways to cut them | `TypeOK`, `SegmentationIndependent`, `ReadsRequest`, `RejectsFaults`, `VerdictIsFinal` |
| `requests` | every path of up to 6 characters over `/ . f u` and longer ones to 3 hosts, uploads of every form, sequences of requests with failing system calls | `TypeOK`, `MostSpecific`, `Confined`, `InsideAccepted`, `SplitFaithful`, `PagesKept`, `UploadsKept`, `LinksLead`, `RemovedStayGone`, `OnlyAllowedChange` |
| `startup` | every text of up to 5 tokens, texts with one mistake, trees in several layouts and about 70 with a meaning; 8 descriptors, signals and failures everywhere | `TypeOK`, `ReadsGrammar`, `ReadsBack`, `AsWritten`, `VirtualHosts`, `Usable`, `Accounted`, `Handover`, `SignalEnds`, `ImplementsStart` |
| `cgi_output`, `children_at_exit`, `stuck_writer`, `parser_error`, `cgi_methods`, `error_pages` | one statement of the documentation each | violated, see section 6 |

What the properties of the configuration and the start say:

* `ReadsGrammar`: a syntax error is reported for a file that does not follow
  `grammar.md`, and for no other. `ReadsBack`: a tree that is written down in
  any layout, with remarks between any two words, is read as it was.
* `AsWritten`, `VirtualHosts`, `Usable`: from the tree alone, without the order
  in which the resolver works: each location has its own setting or its
  server's or the default, the first server of a socket stays the first one, and no
  location lacks what the handlers take for granted.
* `PagesKept`: an error is answered with the page that the tree names for it,
  whenever that page opens, and with no other.
* `Accounted`, `Handover`, `SignalEnds`: which descriptors are open after each
  call, what the loop begins with, and that a signal ends the program.

Why these bounds are enough to be interesting:

* A CGI needs its socket and, during `launch()`, four more numbers. Five
  descriptors are one exchange with nothing to spare; with six, the second
  launch of a pipelining client is refused or not according to what the
  first has left open; with eight, two programs run, and every number that is
  closed is the next one handed out. In all of them `accept()` and `pipe()`
  do run out.
* Two units are enough for a transfer to be complete, split or not begun, and
  for output that comes in two parts. Two ticks are enough for activity to
  come before, at and after half of a timeout.
* Two clients are the smallest number in which an event may reach a wrong owner. The
  second listener would add only another source of the same event: its key
  chooses the configuration, which `RequestHandler` has. A backlog of 1
  is enough for the listener to be ready, and `Accept` is written
  for any number.
* `MaxSegments` bounds how often a client's data arrives, and so how often a
  request is handled again. `Pid` is symmetric: `fork()` returns any free one.
* The texts of `parser` have each kind of start line, of header combination and
  of framing, bodies that contain a CRLF, bytes after the request, and
  faults in each part. They are sent in all segmentations.
* The paths of `requests` are long enough for a name that begins like a
  location (`/fu`), for `..` out of and back into a root, and for doubled
  slashes. Its site has the locations of `configs/default.config`, each with a
  name of one letter, and some that are unusual and yet accepted: duplicate
  locations, a return without a target, a store that does not exist, an upload
  that is turned off, an `error_page` before its root, pages that do
  not open, and a server without `/`. These requests are answered as the first one
  (`Probes`); a smaller set (`Requests`) is answered in every order, and two names for
  uploads are enough for one to be kept while another is deleted and its name
  would be due again.
* The bodies of `requests` have contents that are empty or end in a line break,
  headers with and without a filename, several parts, and delimiters that are
  missing at either end.
* Five tokens over `server`, `location`, a word, braces and semicolon reach each branch of the
  parser up to an empty location; behind that, sentences with one token
  left out, put in or exchanged do. The tree and the layouts are read back with
  directives before and after locations. TLC evaluates the recursive functions
  of `Tokens` and `Parse` on its stack, so that texts are kept below 40 tokens.
* The trees with a meaning have each directive and each rule kept and
  broken, numbers at 0, at 65535/65536 and above `SIZE_MAX`, sizes whose product
  does not fit, sockets that several servers share, and addresses that cannot be read.
* Eight descriptors, of which three are inherited and two are the pipe, leave
  three for sockets: configurations with four addresses run out of them.
* The largest runs have about 805 000 distinct states (`engine_pipelined`),
  59 000 (`engine_one`, whose liveness is checked on the same graph),
  30 000 (`startup`) and 8 400 (`requests`), and take one to two minutes at most.

Deadlock is checked, which here means that every entry of a snapshot has a
branch of `handlePollEvent` that takes it and the loop comes back to `poll()`,
except where the system really stops: after the signal (`engine_one`,
`children_at_exit`), when the whole text has come (`parser`, `parser_error`)
and when the program has ended (`startup`).

What two clients are not checked with: request bodies for a program,
output in parts, and signals. These are checked with one client
(`engine_one`, `engine_pipelined`). Every safety property of the engine is
also proved, with all of them together and for any number of clients, pids and
descriptors and all values of the bounds (section 5).

## 4. Fairness and atomicity

One call of `handlePollEvent` is one step: the server has one thread, its
handlers do not wait (descriptors are non-blocking; `killCgi` waits for a
process that was just killed), and what a client or a program does during a
call can be moved before or after it, except for its effect on the system
calls of that call, which the operators of `Connection` choose freely: how much
is transferred, whether a launch fails. Between any two calls, clients,
programs and the signal do whatever they like; `poll()` and the snapshot are
one step. Time passes only while the thread is inside `poll()`: the rest takes
much less than the second in which timeouts are counted.

`FairSpec` assumes `WF(Loop)` and `SF(Tick)`. The first: the thread is
scheduled and `poll()` returns after at most `POLL_TICK_MS` = 500 ms, so the
loop never depends on a client or a program. The second: the clock goes on;
`Tick` is strong because it is possible only inside `poll()`, again and again.
Nothing is assumed of clients or programs: a program may hang, a client may say
nothing more or stop reading.

In `ServerStart` one system call is one step, and a signal may come between any two
of them. `Startup` assumes `WF(EngineRuns)`: the one thread of the program runs
on. Signals and errors of `poll()` have no fairness. Requests do not interleave:
each is answered inside one call of the event loop (`RequestHandler`).

## 5. Proofs

The theorems, by module. Each is `Spec => []Property` (`Spec => Property`
for action properties and refinements), where the property is one that a run
checks; the last column says what an instance of TLC leaves open.

| Module | Theorems | For |
|---|---|---|
| `ServerEngineProofs` | `TypeCorrect` (`TypeOK`), `DescriptorsOwned` (`DescriptorOwnership`) | any finite sets of descriptors and pids, any listeners, bounds, backlogs, timeouts, with signals or without, pipelining clients or not |
| `ServerEngineProofs` | `PidsOwned` (`PidOwnership`), `StatesMatch` (`StateMatchesCgi`), `DeadlineKept` (`CgiDeadline`), `IdleOnly` (`OnlyIdleClosed`) | the same |
| `ServerEngineProofs` | `PollSetKept` (`PollSetCurrent`), `RegistrationKept` (`CgiRegistered`), `NumbersNotReused` (`NoReuseWhilePending`) | the same |
| `ServerExchangeProofs` | `NothingLeaks` (`NoDescriptorLeak`), `ResponsesKept` (`ResponseKept`), `PromiseKept` (`KeepsPromise`) | the same, for clients that send one request |
| `RequestParserProofs` | `TypeCorrect` (`TypeOK`), `VerdictKept` (`VerdictIsFinal`), `CutsDoNotMatter` (`SegmentationIndependent`) | any texts of any length over the symbols of `RequestParser`, any way to cut them |
| `RequestParserProofs` | `RequestsRead` (`ReadsRequest`), `FaultsRejected` (`RejectsFaults`) | the same, with any requests in them: any header lines, bodies and chunks of any length, anything behind them |
| `RequestHandlerProofs` | `UploadsStay` (`UploadsKept`), `RemovedStay` (`RemovedStayGone`), `ChangesAllowed` (`OnlyAllowedChange`) | any site, files, requests and contents, any number of requests |
| `RequestHandlerProofs` | `RequestTypeCorrect` (`TypeOK`), `RoutedToTheDeepest` (`MostSpecific`), `StaysBelowRoot` (`Confined`), `PlainPathsAccepted` (`InsideAccepted`), `CgiIsToldThePath` (`SplitFaithful`) | the same: paths of any length over any characters |
| `RequestHandlerProofs` | `LinksLeadBack` (`LinksLead`) | any site that meets `StoresAddressed` (below), any files, requests and names |
| `ConfiguredSiteProofs` | `ErrorPagesKept` (`PagesKept`) | the same, with the servers of any accepted configuration |
| `ConfiguredSiteProofs` | `ResolvedSite`: a configuration gives what `SiteAssumption` asks for | any accepted tree, any of its sockets |
| `StartupProofs` | `StartTypeCorrect`, `DescriptorsAccounted` (`Accounted`), `HandedOver` (`Handover`) | any descriptors, any inherited ones, any set of addresses |
| `StartupProofs` | `StartImplemented` (`ImplementsStart`), `StartupTypeCorrect` (`TypeOK`), `ConfiguredStartSafe` (`Accounted` and `Handover`) | any files |
| `StartupProofs` | `ConfiguredUsable` (`Usable`), `ConfiguredAsWritten` (`AsWritten`), `ConfiguredVirtualHosts` (`VirtualHosts`) | any files: any number of servers, locations and directives in any order, whatever an unreadable address holds |
| `StartupProofs` | `GrammarRead` (`ReadsGrammar`) | any files: any characters, any number of tokens |
| `StartupProofs` | `ReadBack` (`ReadsBack`) | any files that somebody wrote: any tree, words of any length |

### Assumptions

All are named in the modules that declare the constants, and TLC evaluates
them in the runs of these modules.

* `StartAssumption`, `KernelAssumption` (the self-pipe and the listeners have
  lower numbers than anything opened later, `-1` is no pid),
  `ConnectionAssumption`, `EngineAssumption`: the kinds of the constants.
* `TextsAssumption`: a text is a sequence of symbols, those into which the lines
  and octets of a request are classified.
* `GrammarAssumption`: what a start line suffers from is one of the faults that
  `parseStartLine` knows, header lines are single symbols, and a chunk has at least one byte:
  one without ends the body (`RequestParser.cpp:198`), so that nobody can write it.
* `KeyAssumption`: the addresses that the engine can be made with
  include every address that a configuration can name, or that an unreadable one
  can leave, with every port from 1 to 65535.
* `FilesAssumption`: a file is a sequence of characters; one that somebody wrote (`written`) has
  the text of that tree in one of the layouts (`StandsFor`), its words without blanks,
  `{`, `}`, `;` and `#`, and with no directive of a server called `location`.
* `SiteAssumption`: there is a server (`ConfigValidator` asks for one), locations stand
  in order, and each is what a configuration can give (`IsLocation`): no word of a
  configuration is empty (`ConfigParser.cpp:99`: the tokenizer makes none), so that no path
  is; a location redirects with the code of a status (`ConfigValidator.cpp:106`) or has a root
  and an index, its own or a default (`setDefaults`). That the servers of every accepted configuration
  are like this is proved (`ResolvedSite`).
* `AstAssumption`, `ServersAreResolved` (`ConfiguredSite`): the servers are those that the resolver
  makes of a tree of words that the validator accepts. `DefaultsAssumption`: the default root and
  index are texts, as above.
* `PathsAssumption`: a path begins with a slash, without which `checkURI` refuses the
  request (`RequestParser.cpp:58`).
* `TreeAssumption`: the files and directories that are there at the start are named by their
  canonical paths, which lead to them: no symbolic links (section 7). A file is not a directory.
* `TextsAssumption` (`RequestHandler`): a slash, `.bin` and the other extensions are texts. TLC knows
  that of any literal, the provers of none.
* `RequestsAssumption`: what `sent` means, without which `UploadsKept` says
  nothing. In a form as clients write it, a part with headers, an empty line
  and a content which the delimiter is not in, it is that content (`IsForm`); where a form
  lacks its delimiter, the end of its headers or the end of its content
  (`IsNoForm`), and where the body is no form, it is the body. `Received`
  is not mentioned: that it finds this content is proved.
* `NamesAssumption`: two different names that `makeUploadFilename` makes never stand
  for the same file, whatever the store and the extension (`Targets`), and no file or
  directory is there under one of them at the start. A name is `upload_` with the time, the pid
  and the counter: it has no slash and does not start with a dot. That the
  code does not use a name twice is not assumed: it is what is proved.

### The event loop

`DescriptorOwnership` is not inductive, nor is `TypeOK`: whether `CgiHandled`
is applied to a connection that has a CGI, and whether a closing of a socket
closes a pipe of somebody else, depends on the branches of
`handlePollEvent`, and these ask `_cgiToSocket`. The invariants build on each other:

```
IInv == TypeOK /\ Ownership /\ Mapping
Ownership: FreeSlots        a slot without a connection holds nothing
           HoldsOwn         a connection's socket and pipes are open and differ;
                            it has a stdout exactly when it has a process
           Disjoint         no two connections share any of them
Mapping:   Registered       a running CGI's pipes are in _cgiToSocket under their socket
           ClosedUnmapped   a closed number has no entry (until the server has stopped)
           SocketsUnmapped  no client socket has an entry

SInv == IInv /\ States /\ PidOwnership
States:    Fits             per connection: _state, verdict, response and CGI agree

PInv == SInv /\ Current /\ LateOnes /\ Events /\ Idle
Current    _pollfds, up to its order, is what a rebuild would give
LateOnes   what accept() appended is a connection's only entry, and it still reads
Events     of each event whose turn is still to come: a socket's connection is alive and
           unchanged since poll(); a pipe is mapped to its connection, or closed with only
           events of the same connection's pipes before its own
Idle       there is no snapshot outside the dispatch

XInv == PInv /\ Slots /\ Owed /\ Down
Slots      a connection has a client; with ~Pipelines nothing waits to be read behind a
           complete request, and nothing was answered while a CGI runs
Owed       with ~Pipelines, every open number is some live connection's
Down       the stopped server has no connection
```

`IInv`. A handler changes one connection; `Connection`'s operators are
covered by one lemma each (`OnReadableLemma`, `FinalizeCgiLemma`, ...), which say that the
world they return is typed, owns what it holds, has closed only what the
connection held and has opened only what was free. `CommitLemma` puts such a
world back: a number that was free can be nobody else's, and one that this connection held
was nobody else's, so the other connections keep theirs. The three
actions that touch several connections, `Accept`, `CheckTimeouts` and
`Shutdown`, have proofs of their own; `LowestLemma` says that `accept()` takes
only free numbers. `Mapping` is what makes `SocketEvent` launch a CGI over an
old one without harm: the new pipes have numbers that were free, hence without an
entry, hence the loop registers them.

`SInv`. A second set of lemmas on the same operators says what a call leaves of
the request, the response and the processes. `PidOwnership` needs `Fits`: a pid is
waited for only where there is a CGI, and `fork()` returns none that runs.
`CgiDeadline` and `OnlyIdleClosed` follow from `SInv` for each action, since `Tick`
is the only one that ages and `checkTimeouts` looks at every live connection.

`PInv`. `PollSetCurrent` alone is not inductive, because `SocketEvent` and
`CgiEvent` act on what an old snapshot says. `Events` is the part that took most:
an event on a closed pipe is harmless only as long as no number can have been
handed out since, and nothing opens a descriptor between the events of one
connection's pipes, which the order `Before` keeps together.
`NoReuseWhilePending` is then a consequence.

`XInv`. With it every step of the loop is, for each slot, a step of `Exchange`
or a stutter (`AllMove`, one lemma for each kind of event), so that the loop
implements `Exchange`. `NoDescriptorLeak` and `ResponseKept` follow for
`Pipelines = FALSE`; that they fail for clients that send on is a finding
(section 6), so that the condition belongs to the statement.

### The parser

`SegmentationIndependent` compares the parser with `InOnePiece`, which is a recursive
function. Nothing is proved by induction over the text. The invariant is

```
RInv:  text, received, flags typed; Good(parser)
       Remainder    the buffer is the end of what was received
       Rested       parse() returns only where it cannot go on
       returned => Final(parser)
       \E k : Reached(k)   at turn k of parsing in one piece, of any text that begins with
                           what was received, it stands exactly where the parser does,
                           with the rest of the text behind its buffer
```

There is one lemma for each state (`StartLineSays`, `HeaderSays`, `BodySays`, `ChunkSizeSays`,
`ChunkDataSays`, `FinalSays`): what a turn does with a buffer it does with any
longer one, or else it waits. That is where each early return of the code has to be right,
a cut between CR and LF included. The number of turns is bounded by what was taken
(`Stage`), so that the last turn of the recursion is far enough.

### A request written down

`ReadsRequest` and `RejectsFaults` speak of the text as `RequestGrammar` writes it, which is a fold over
header lines or chunks. The parser never sees that structure: it has a buffer, which
may end anywhere. `Stands(t, c, v)` says that `v` is what the text has from place `c` on.

* `PartsStand`: where the parts of a flattened sequence stand, each at the sum of the lengths before it
  (`Mark`); by `FoldRuns` and `Appending`, the induction of the folds. `HeadStands` and `TextStands`
  give the places of each header line, chunk size, chunk and CRLF.
* `LineStands` and `EmptyLineStands`: a buffer that begins where a line stands has a complete line just
  when the CRLF has come, and then this one is the first. A content is a symbol, so that no CRLF
  is inside it. In a body a CRLF may be anywhere: `PieceStands` goes by lengths.
* `Reads(r, t, n, p)` is the invariant. It says for each state where in the request the buffer
  begins (`FieldAt`, `ChunkAt`), that the headers are the last ones of their name among the lines read (`LastIs`),
  that the body is the chunks so far (`Upto`), and that `has_error` is set if the start line had a
  fault, and only for a reason. One lemma for each state moves it on (`StartReads`, `HeaderReads`,
  `BodyReads`, `ChunkSizeReads`, `ChunkDataReads`, `FinalReads`); when more comes, nothing of it changes
  (`MoreReads`).
* `AllHasCome`: with all of a readable request received, no state waits. With `Reported` (what `parse()` has
  finished it has reported) that gives "as soon as the last byte is there", and `End(r) <= n` in
  `COMPLETE` gives "not before".

### The files

The invariant `FInv` says of every file, there or removed, that it was
there at the start or has one of the names given out so far (`Origins`); `UploadsKept` and
`RemovedStayGone` are inductive only with it. What an upload stores is
the longer part: `FormHasParts` takes a form apart, `FormStart`, `FormHeaders` and
`FormContent` say where the three searches of `parseMultipartFirstFile` stop,
each from what `string::find` returns (`FoundFirst`, `FindInWindow`), and `NoFormRead` that
a form without one of these places is stored as it came. `RoutedLocation`
says that routing ends at a location of the site, for which the longest match has to
exist (`OneIsLongest`). `OnlyAllowedChange` is proved without the invariant.

### The paths

The remaining properties of `RequestHandler` are about what the last answer says:

```
RInv == FInv /\ TypeOK /\ LastInv
LastInv: MostSpecific, Confined, InsideAccepted, SplitFaithful of the last request
```

Each action sets `last` from `Routed`, so that these are facts about routing, joining
and normalising a path; `TypeOK` (a file is where its path leads, and no directory) is
what makes an upload or a removal keep them. The code compares texts where the properties
speak of names: `/fu` begins like `/f` and is not below it, `..` leads out, a slash may be
doubled. The lemmas on paths bridge the two:

* `collapseSlashes` and `normalizePath` are folds over the characters and over the segments of a
  path. `FoldRuns` says that a fold goes through its sequence element by element, so that a claim about
  it holds of every sequence when it holds of the empty one and survives one more element
  (`Appending`, an induction over the length of a sequence as a set of numbers; the
  library's theorem takes an operator, which the back ends cannot instantiate).
* `NamesOfText` and `SegmentsOfText`: a canonical path is its names with a slash before each, and these
  are read back from it. `NormalizeIs`: what `normalizePath` returns is canonical, and its names
  are those of the path with each `..` taken off (`NamesOf`), none above the root.
* `UnderIs` and `UnderIsDeeper`: the test for a prefix and a slash behind it in `matchLocation` is the one for
  a prefix of names, and a longer text is a deeper location. `MostSpecific` follows.
* `InsideIs` and `CanonicalPrefix`: the test that `resolvePath` makes on texts says that the file is below
  the root, by names. `Confined` is this one for a file that is read or removed; for an upload it is
  `NamesOfJoined`, that a name which `makeUploadFilename` has made adds one name to its store. An
  upload is confined to its store only if no CGI handles it: `Confined` says so.
* `CollapseSteps` and `NamesFollow`: a path without `..` normalises to something below where it started,
  hence is not refused (`InsideAccepted`), except with a root of `/`.
* The three searches of `resolveCgiPathInfo` stop at the boundaries of names, so that the script and the path behind
  it are two halves of the request (`SplitFaithful`).

### The address of an upload

`LinksLead` is not true of every site: `deriveUriFromStore` may make a wrong address of a store (section
6). Where it does is for the configuration and the directories to decide, not for a request, and
`StoresAddressed` says just that: the address of each store in use leads to that store, and a location
without a redirection or programs answers for it and for the names in it, with a root other than `/`. TLC finds it
true for the site of the run `requests`, whose location `/u` stores in `/f` as `/upload` does in `/files` (`configs/default.config`).
It is a hypothesis of `LinksLeadBack` and not an `ASSUME`: the property is to be checked on its own.

What is left to prove is that an address which is right for a store is right for all that is put there, on
the way through `collapseSlashes`, `stripLocationPrefix`, `joinPath` and `normalizePath`:

```
LInv == FInv /\ AllOffered    every upload was stored by a location of its server, under a
                              name given out, and its link was made of that store and name
```

* `CollapseDown`, `StripDown`, `JoinTwice`: a name joined to a path is still its last name when the path is
  collapsed, stripped of the location, or joined to a root, before or after.
* `ResolvedDown`: hence what the path resolves to has one name more (`NamesOfJoined`), and is below the
  root if the store is. `AddressLeads` puts the store and the file together; `OfferedLeads` adds that
  `resolveCgiPathInfo` leaves such a path alone.

### The error pages

`PagesKept` needs the configuration and the requests in one statement. Its invariant adds to
`RInv` that the last route is one of the site and that the page of an error is the one of its location:

```
PInv == RInv /\ OnSite /\ PageOfLocation
```

* `PagesBuilt` (`ResolverProofs`) is what a location keeps of the tree: for each status `WrittenPage`, the last
  `error_page` for it in the location or else in the server, joined with the root that counts
  there. It is carried through the directives by `ServerPagesMore` and `LocationPagesMore`, and through the
  inheritance by `LocationPagesBuilt`. In a location it holds only with `RootFirst`: the page is
  joined with the root of the moment, which is why the exception is part of the statement (section 6).
* `EveryPaged`: each handler, in each of its ends, takes the page for the status it answers with. After
  a write that failed half-way, the page is looked for among the files with the new one.
* `ResolvedSite` is what makes the two fit: the servers of any accepted tree are as `SiteAssumption`
  says, hence everything proved about requests holds of them.

### The start

Neither `Accounted` nor `Handover` is inductive. `IInv` of `StartupProofs` adds
which stages have nothing open (`NothingOpen`), that the keys that
were visited have one socket each (`Visited`), and that numbers are handed out
in order, so that everything that is free is larger than everything of ours
(`InOrder`). `LowestIsFree` is the fact that needs most: a system call
gives the smallest free number, which exists since a set of natural numbers that is
not empty has a smallest element (`SmallestNumber`, from the well-foundedness of `<`).
`InOrder` then says that the next socket is behind all earlier ones.

`Startup` implements `StartSpec`: with `Loaded` (a tree that was loaded was
validated, and the engine has the keys of the resolved configuration), every
action is one of the abstract start with some configuration. The step that needs
an argument is `ResolveConfig`: each key comes from a `listen` that the
validator has accepted, hence has a port that exists (`PortExists`, `AddressExists`), also when
`sscanf` reads no address from it. The theorems on `StartSpec` therefore hold of every file, and
`Handover` is the part of `KernelAssumption` that the code itself has to provide.

### The configuration

`Usable`, `AsWritten` and `VirtualHosts` relate two ways to read a tree: the code's, which goes
through the directives of a block one after the other and changes a record of fourteen fields, then
inherits, then sorts; and the statement's, which asks for each setting where the tree
gives it. The invariant only follows the file through the program:

```
Read:  a tree that was loaded or resolved is a tree of words (Trees) and was validated;
       in the stage "setup" the engine has Resolve of it, for some junk, and no server
       listens twice on one key
```

The argument is in the lemmas about a tree that the validator accepts, most of them in `ResolverProofs`.

* `TokensTyped` and `AcceptedTree`: whatever the text, tokens are words that are not empty, and what the
  parser makes of them is a tree of such words. `Tokens` is a recursive function over positions, `Parse`
  a fold over tokens. A tree is the induction hypothesis of neither: each invariant says what is open
  at the moment (`Parses`).
* `FoldRuns` (`FoldProofs`) turns a fold into a run with one step per directive, and `Appending` does the
  induction. `LocationStep` keeps, through each of the eleven kinds of directive, what the directives so far say
  of each field (`LocationFields`); `ArgumentsAre` says what the rules of the validator let an argument
  be. That `index`, `root` and `client_max_body_size` are there at most once is used: the last one of
  two would win in a location, and in a server both indexes count.
* `ServerSet` and `LocationBuilt`: setDefaults and the inheritance give what `First` and `SizeFor` say. A limit
  is above 0 and is what is written or `SIZE_MAX` (`SizeIs`), for every length of number.
* `RanksAre`: in an order of a finite set the ranks are 1 to its size, each once. Sorting therefore
  neither loses a location nor adds one (`SortedIs`), and `Place` says where in the list of a socket
  each server stands (`ResolvedIs`).
* `SumIs`: pairs of a server and one of its sockets, counted by server and by
  socket, are the same number. That is `NoServerTwice`, for which `SocketKeyUtils::exists`
  has to refuse a server that listens twice on one key (`KeysAre`).

### The grammar

`ReadsGrammar` compares the parser, which goes through the tokens once and knows the block that is open and the
words since, with the grammar, which asks for a way to split a sequence of tokens into servers, each of
these into items, and so on. Neither is an induction hypothesis for the other.

* `StarOfServers`, `StarOfItems`, `StarOfDirectives`: `Star`, a recursion over the places of a split from the
  last one on, is membership in `Stars`, the smallest set with the empty sequence that is closed under
  adding one more part at the end. `LocationShape` and `ServerShape` say the same of what is
  between the braces.
* `ConfigForward`: what is in these sets brings the parser back to where it started, by the smallness of
  each of them, from the directives outwards.
* `Reads` is the invariant over the prefixes of a sequence that was not refused: they are servers, then perhaps the
  beginning of one with its items so far, then perhaps the beginning of a location with its directives
  so far, then the words that the parser holds, at most two of them behind `location`. `ServerReadsOn` and
  `LocationReadsOn` have a case for each branch of `InServer` and `InLocation`.
* `AcceptsGrammar` puts the two together, and the invariant `Judged` takes it to the program: an error
  is only "none" before the file was judged, and nothing later reports one of syntax.

### A tree written down

`ReadsBack` follows a tree through `LayOut`, the tokenizer and the parser. No induction over the
tree is needed, which has a fixed depth: each part is read by an induction over its own parts, with
what stands around it as a parameter.

* `LaidOn`: `Tokens`, a recursion from the end of the text, gives behind any tokens laid out so far
  exactly these, then whatever comes of the rest (`Laid`). That rest must not go on with the last word
  (`Ends`): a word is followed by a gap unless a brace or semicolon is next, and a remark reaches
  to the end of its line (`GapOneOf`). `TokensLaid` is the case without a rest.
* `Stands(tokens, level, tree)`: the parser, behind these tokens, is in a block of that level, has read that tree and holds
  no word. `DirectiveStands` moves it by one directive, `LocationStarts`, `ServerStarts` and
  `BraceStands` open and close blocks.
* `DirectivesStand`, `LocationsStand` and `SentenceStands` are inductions with `Appending` over the
  directives of a block, its locations and the servers, for both orders (`BodyStands`). That what is last changes and
  nothing before it does (`LastChanges`) is what keeps a directive in its own block.
* `WrittenIsRead` puts the two together, and the invariant `ReadAgain` takes it to the program.

### Only model-checked

* Liveness, which is out of the prover's reach: `CgiEnds`, `ReaderLeaves`, `SignalEnds`.
* That `StoresAddressed` holds of a site: TLC evaluates `LinksLead` on one (section 6).

## 6. Where the code and its documentation differ

Each has a run that must find the statement violated.

1. `cgi_output`. `README.md:191`: the output of a CGI is parsed into a
   response when it completes. `handlePollEvent` (`ServerEngine.cpp:193`) ends
   the exchange at the first hang-up on either pipe, after one `read()` of at
   most 4096 bytes. What is still in the pipe, or is written after the program
   closed its stdin, is lost.
2. `children_at_exit`. `README.md:48`: child processes are cleaned up on exit.
   `closeConnection` (`ServerEngine.cpp:235`) neither kills nor waits for the
   CGI of a client that leaves, and `finalizeCgi` asks only once, with WNOHANG.
3. `stuck_writer`. `README.md:46`: idle connections time out.
   `checkTimeouts` (`ServerEngine.cpp:368`) excludes those that want to write, so a
   client that stops reading stays.
4. `parser_error`. `RequestParser.hpp:22`: `parse()` returns true on an error.
   After an error in the start line `parse()` goes on to the headers
   (`RequestParser.cpp:243`) and returns false until they have come.
5. `cgi_methods`. `README.md:69`: methods are restricted per location.
   `processRequest` launches a CGI (`Connection.cpp:82`) before the method
   check is reached.

6. `error_pages`. `README.md:87`: error pages are served when configured.
   `addErrorPageLoc` (`RuntimeLocation.cpp:34`) joins the page with the root
   that the location has so far: an `error_page` before the `root` of its location,
   or in a location without one, is not looked for below any root, unlike one of the server.

Met while modelling, and visible in the definitions, without a run of their own:

* The parser keeps its verdict and the socket stays watched, so data after a
  request makes `processRequest` handle it again (`Connection.cpp:122`): a response
  that is being sent is replaced, a running CGI is overwritten and
  its pipes are forgotten. `resolveCgiPathInfo` then runs on its own
  result, although the comment at `HandlerResolver.cpp:84` expects one call. `ResponseKept`,
  `NoDescriptorLeak` and `KeepsPromise` are therefore stated for clients that
  send one request (`Pipelines = FALSE`).
* With a root of `/`, `resolvePath` wants a slash after the root and finds a
  name (`HandlerResolver.cpp:206-210`), so that all files below it are refused; `InsideAccepted` excepts it.
* `return CODE` without a target is answered 400 by `processRequest`; the
  branch of `RequestHandler` for it (`RequestHandler.cpp:252`) is not reached.
* `deriveUriFromStore` (`UploadHandler.cpp:175`) takes the common prefix of
  two texts: with a store whose name begins like the root, the address
  it returns is wrong. `LinksLead` is checked for the shape of `configs/default.config` and proved
  where the addresses of the stores are right (`StoresAddressed`).
* The part of an upload that was written before a failed `write()` stays in
  the store; the client is told 500.
* `README.md:62` says that the parser enforces `client_max_body_size`; the
  handlers do, after the body has been read.
* `README.md:118` says that a default configuration is used when none is given;
  `main` prints its usage and ends (`main.cpp:10`, action `UsageError`).
* `README.md:155` calls the directive `allowed_methods`; the validator knows
  `allow_methods` only (`ConfigValidator.cpp:145`).
* `upload off` turns uploads on in the location (`ConfigResolver.cpp:117`); since a
  store is then refused, a POST is answered 500.
* `listen :80` passes the validator, which takes it for `0.0.0.0`
  (`ConfigValidator.cpp:32`), but `fromString` reads no address from it and
  leaves four variables uninitialised (`SocketKeyUtils.cpp:22`); the same goes
  for a host name.
* `parseMultipartFirstFile` takes the first part of a form, which need not be
  a file. `UploadsKept` is about forms whose file comes first.
* A location whose path ends in a slash matches only itself and what has a second
  slash there, which the parser has collapsed (`HandlerResolver.cpp:26`).

## 7. What is not modelled

* **Formatting**: responses, the HTML of a listing, CGI variables and the conversion
  of CGI output into headers and a body; `Logger`; addresses as text
  (`SocketKeyUtils::toString`). None of it keeps a state or decides a path.
* **Chunk sizes** beyond what fits: behind a size that turns negative in a
  `long`, `parseChunkData` has no defined behaviour.
* **Symbolic links** (`Leads`, `RealPath`): canonical paths only.
* **The wall clock**: `time(NULL)` only goes on.
* **Names of uploads after a restart**: the counter begins again, and the time and
  the pid in a name have to differ.
* **Backslashes in filenames** and ports that do not fit into an `int`.
* **An error of `poll()`** other than EINTR inside `ServerEngine`: it ends the loop
  like a signal does, and is an action of `ServerStart` (`PollFails`).

## 8. Plan

Done, in this order: `Kernel`, `Connection`, `ServerEngine`; `Exchange` and
`ServerExchange`; `RequestParser` and `RequestGrammar`; `HandlerResolver`,
`Multipart` and `RequestHandler`; `ServerEngineProofs`; the configuration
(`ConfigParser`, `ConfigGrammar`, `ConfigValidator`, `ConfigResolver`,
`ConfiguredSite`); `ServerStart` and `Startup`.

The proofs came in this order: the event loop (`ServerEngineProofs`), the start
(`StartupProofs`), the refinement of `Exchange` (`ServerExchangeProofs`), the parser
(`RequestParserProofs`), the configuration and the refinement of `StartSpec`
(`StartupProofs`, `ResolverProofs`), the files and then the routing
(`RequestHandlerProofs`), the grammar and trees written down (`StartupProofs`), requests
written down (`RequestParserProofs`), the error pages (`ConfiguredSiteProofs`), and the addresses of
uploads (`RequestHandlerProofs`).

To prove more:

1. Which pairs of a root and a store meet `StoresAddressed`, from the text of a configuration.
2. For pipelining clients: what remains of `KeepsPromise`, as a weaker `Exchange` that lets
   a request be answered again.

To model more, should the code change: symbolic links for `Leads` and
`RealPath`, and the width of a chunk size.
