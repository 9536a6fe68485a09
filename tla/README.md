# Verification of myhttpd

TLA+ models of the web server in `src/`, their model checking with TLC and
proofs about them checked by TLAPS. Paths below are relative to the repository
(`src/mydriver/driver.cpp`, `includes/...`).

## The system

`myhttpd <port> <workers> <client-timeout>` binds a socket, starts one *entry*
thread, `<workers>` *worker* threads and one *user* thread, and returns when the
operator entered `y` and all of them are joined.

| component | state it keeps | operations | talks to |
|---|---|---|---|
| main, `SocketGenerator` | the address list and a cursor in it | make a bound descriptor, retry | `ServerDriver` (gives it a `ServerSocket`) |
| `ServerDriver` | the queue, the condition variable, `m_cv_mtx`, the threads | `runService` | starts and joins all threads |
| `EntryJob` | `m_entry`, `m_continue_flag` | accept loop, `shutdown()` (called by the user thread) | `TaskQueue`, `ServerSocket` |
| `TaskQueue` | `m_items` under `m_mtx` | `addTask`, `getTask`, `getCount`, `poisonAll` | notifies the workers |
| `WorkerJob` | `m_state`, `m_connection`, `m_conn_persist_flag`, `m_diagnosis`, two locals | nine states, from `take_task` to `halt` | queue, `HttpIntake`, `HttpOuttake`, `GMTGen` |
| `ServerSocket`, `ClientSocket` | a descriptor; `m_ready`, `m_closed` | accept; `readLine`, `readBlob`, `writeBlob`; close on move and destruction | kernel |
| `HttpIntake` | a 1024 octet buffer, the parts of a request, `m_state` | `reset`, `nextRequest` | `ClientSocket` |
| `HttpOuttake` | a 1024 octet buffer | `sendMessage` | `ClientSocket` |
| HTTP types, `GMTGen` | tables; the process-wide `std::tm` | names, dates | |
| URL lexer and parser | position and two tokens | `parseAll` | nobody yet |

Threads share `m_items` and `m_cv_mtx` (with locks), and `m_entry`, the queue's
size and `m_continue_flag` (without, or atomically). Connections travel as bare
descriptor numbers: from `accept()` to a queued `Task` to a worker's
`ClientSocket`, whose assignment closes them.

What is hard here, and what makes each part correct:

* **Stopping.** The user thread clears a flag and overwrites the listening
  socket under the entry thread's hands; the entry thread, once past its last
  `accept()`, pushes a pill per worker. Correct if connections accepted before
  are all finished, if each worker gets a pill, and if the joins return.
* **Descriptors.** The kernel reuses a number at once. Correct if each number
  has one owner at a time, who closes it once.
* **The wait for a task.** Notifiers do not take `m_cv_mtx`, and the count is
  read without `m_mtx`. Correct if every accepted connection is served in spite
  of a notification that found nobody.
* **One exchange after the other.** The reader, the worker and its members are
  reused. Correct if a reply depends on its request alone and request and reply
  are in step.
* **Reading and writing.** `recv()` and `send()` are partial, fail, time out;
  buffers have a size. Correct if no octet is lost, repeated or attributed to
  another message, and if sizes at the boundary are handled.
* **Starting.** The retry loop never advances and never gives up; the descriptor
  it makes is moved three times. Correct if every descriptor has one holder, a
  failed attempt leaves nothing behind, and the service starts once it can.
* **Dates.** `std::gmtime` has one `std::tm` for all workers. Correct up to the
  calls that overlap.
* **URLs.** A path counted token by token, and a loop that only ends at the end
  of the input.
* **Failures that end the process**: exceptions in `noexcept` functions,
  `SIGPIPE`.

`PROJECT.json` lists each hazard at its line with the properties aimed at it.

## Modules

| module | models | constants |
|---|---|---|
| `ConnectionService` | what the server promises clients and operator (abstract) | connections |
| `ServerDriver` | `runService`, `EntryJob`, `TaskQueue`, the workers' tasks and descriptors | workers, connections, descriptors, listener, whether accept() times out |
| `HttpConnection` | what one connection promises its HTTP client (abstract) | requests |
| `WorkerJob` | every state of one worker | requests, pipelining bound |
| `HttpIntake` | `nextRequest` and its states | messages, their number, buffer size |
| `HttpOuttake` | `sendMessage`, `writeBlob` | replies by size, their number, buffer sizes |
| `ClientSocket` | `readLine`, `readBlob`, octet by octet | buffer size, stream length |
| `HttpTypes` | the enumerations and their names, both ways | |
| `Startup` | `main`, `SocketGenerator`, the socket's way into `m_entry` and its end | descriptors, values of `<workers>` |
| `UrlParser` | `Lexer::lexNext`, `Parser::parseAll` | sources, URLs, what `int`, `float` and memory hold |
| `GMTGen` | `GMTGen::operator()` of several workers | workers, base of the fields, last time |
| `MC...` | small instances of each for TLC | |
| `ServerDriverProofs`, `WorkerJobProofs`, `HttpIntakeProofs`, `HttpOuttakeProofs`, `ClientSocketProofs`, `StartupProofs`, `UrlParserProofs`, `GMTGenProofs` | theorems about the modules they extend, see Proofs | |

The modules form layers. `ServerDriver` reduces an exchange to its outcome
(a request read, a reply sent, an end); `WorkerJob` details it, and
`WorkerJob!ExchangeAsInServerDriver` checks that its states follow the phases
`ServerDriver` gives a worker. `WorkerJob` takes a request as one unit;
`HttpIntake` details how one is read, line by line, with `readLine` and
`readBlob` at the contract that `ClientSocket` checks for them. `HttpOuttake`
details how a reply is written. `Startup` is what comes before `ServerDriver` and
after it: `BeginsAsServerDriver` checks that the threads start from the state
`ServerDriver!Init` describes. `GMTGen` is the one thing the workers share that
`ServerDriver` does not have. `UrlParser` stands alone, as its code does.

### ServerDriver

One variable per member the threads share, one program point per thread
(`entry`, `user`, `m_state[w]`), and the kernel's two tables: `file` (what each
descriptor refers to) and `conn` (what became of each connection). Actions are
the calls and the unsynchronised accesses:

* `TestFlag`, `ReadReady`, `LoadFd`, `CallAccept`, `AcceptReturns` / the failures
  of `accept()`: `entry_job.cpp:9-14` and `sockets.cpp:76-88`. The loads of
  `m_ready` and `m_fd` are steps of their own because `shutdown()` writes both
  with no lock. This is a data race; the model takes each load to return the
  value before or after each store, in a sequentially consistent order, which is
  what a build does here, where every iteration makes an opaque call.
* `LockQueue`, `PushTask` / `PushPills`, `NotifyOne` / `NotifyAll`: `addTask` and
  `poisonAll`. `m_mtx` is held from the first to the second; the notification
  comes after it is released.
* `LockCv`, `CheckCount`, `Block`, `WaitExpires`, `SpuriousWake`, `GetTask`:
  `wait_for` as the standard describes it. Between `CheckCount` and `Block` a
  notification finds nobody. `CheckCount` may see either answer while a push is
  under way, for `getCount()` takes no lock. After an expired wait the worker
  goes to `getTask()` whatever the predicate says, as the code does.
* `GetTask` closes what the worker's `ClientSocket` still held, as its move
  assignment does; `Reset` closes the connection. A dud leaves the socket alone.
* `ClearFlag`, `CloseListener`, `DropFd`, `DropReady`: `EntryJob::shutdown` store
  by store. `Return`: the joins, and the destructor of `m_entry`.

`accept()` returns any free descriptor (the kernel returns the lowest: the model
allows more). The backlog is a set. `AcceptWoken` is for *nix kernels that wake
`accept()` when its descriptor is closed; Linux does not, so nothing may rely on
it and it has no fairness. `m_ready` starts with either value because
`isReady()` looks at the descriptor and not at `m_ready`.

### WorkerJob

`m_state` and the members of the class; `temp_req` and `temp_res` are the locals
of `operator()`; the client is `outstanding`, `gone` and the last `reply`. A
request is what the worker can tell apart: schema, method, uri, the `Connection`
header (absent, `close`, other, or stored as an integer), whether there is a
`Host`, and whether `nextRequest()` can return it at all. `ReadRequest` on a
closed socket yields the blank request `readLine()` makes of it; `InStep` shows
that this never happens. `alive` is the process: `ReadThrows`, `ValidateThrows` and
`ReplyKills` end it. `timed` is whether the socket took its receive timeout:
the result of `setsockopt()` is not looked at (`sockets.cpp:113`), and only with it
does `recv()` return from a silent client. That timeout is of one `recv()`, which is to say of
one octet: `part` is whether octets of a request that is not finished arrived, `Trickle` is the
client that sends some, and `ReadPart` the reader that takes them and waits anew. Nothing bounds
how often: a carriage return takes no room in the buffer (`sockets.hpp:86`) and
headers are not counted, so `FreedWhenSilent` says that a client only keeps its
worker by sending, a request or octets of one that never ends. A reply is compared with
`HttpConnection` as the words of its top line (`OnWire`, by the tables of
`HttpTypes`). `server_error` and `has_other_error` cannot be reached.

### HttpIntake

The stream is a sequence of units: a line with its terminator, or an octet of a
body, which may be a line feed. A unit is known by its place in the
stream: `arrived` and `taken` are the places up to which it arrived and was read, and
`asked` remembers each message with the place it begins at. Units arrive one by one, so
that the reader meets every partial arrival. A message tells of its top line the words and
the octets (`room`), and of its body the octets and the places of the line feeds among
them (`ends`). Header lines are taken to fit the buffer, and a `HeaderThrows` or a
`StateHeader` may follow where a top line is read as a header, for that depends on whether its
URI holds a colon. A header value is an `int` or a string as `ReadUtils::matchInteger`
decides, with the empty value counted as digits. `MessagesAssumption` says that a client
that sends a number under `Content-Length` sends such a body; the code cannot tell
otherwise. The branch `content_length < 0` (`intake.cpp:90`) cannot be reached, since a
value with a minus is not `matchInteger`.

A client may announce a body under another spelling of `Content-Length`, which the code
does not know: the body is then left in the stream (`Unannounced`), and the reader meets it where
it looks for the next request. `LineEnds`, `NextLine` and `LongLine` are
`readLine()` on such a stream: the octets up to the first line feed are one line, and count
towards its length.

* A body without line feeds is part of the next top line. The method is then no method, and nothing
  else of the request is spoilt, nor any request after it, unless body and line together do not
  fit the buffer: then `nextRequest()` gives up. `InSync` and `GivesUpOnlyOn` say this.
* A body with a line feed (`Breaks`) is read as a request of its own, or several. What follows
  depends on where the line feeds are: the headers of the next message may become those of the
  bogus request, and a line without a colon in the place of a header has the empty value, which ends the
  process (`intake.cpp:66-70`). The code promises nothing here, so `InSync`, `GivesUpOnlyOn` and
  `DiesOnlyOn` speak of the requests up to the one with such a body (`Clean`); the model goes on, and
  `TypeOK` and `CallReturns` hold of what is read behind it as well.

Such bodies are taken to hold no blank, colon or carriage return and not to spell a method. The
words of a top line go through `enumifyMethod` and `enumifySchema`, and are compared with the
tables read the other way (`RequestOf`).

### HttpOuttake, ClientSocket

Replies are the sizes of their pieces: top line, headers, the empty line, body.
An octet is named by the reply, the piece and its place there, so that one that
is lost, repeated or moved shows in `wire`. `InOrder` says that each octet the
client got is the one `Behind` the last, from `First` on; `SentWhole` that after
a call that returned true the one due next is the first of the reply to come.
`Send(n)` takes any part of what is pending; it stands for both overloads of `writeBlob`, the one
that is given a length (`outtake.cpp:103`, `:121`) and the one that is not, which takes the body (`:134`). `Filled` and `LastHeaderStays` are
about a reply alone: how full the buffer is after each header, and whether the
last one leaves something in it (see Findings). `StaysAssumption` has TLC check
that this holds of the replies the worker builds, by their sizes.

In `ClientSocket` the stream is of line ends, carriage returns and other octets,
and the buffer holds positions of the stream; `LineExact` says they ascend and
are those of the line that are no carriage return. `std::format` is left out.

### Startup

`at` is the point `main` has reached; `temp_fd`, `socket`, `entry_socket` and
`m_entry` are the four places that hold the descriptor in turn, and `file` and
`timed` the kernel's view of it. `m_cursor` is whether there is an address: the
code never advances it (`configure.cpp:20-37`), so that the loop of `make_socket`
tries one address for ever. The port (`busy`) and the machine's descriptors
(`short`) change under the loop. `listen()` and the option may each fail.
`Restart` runs the program again, after the end of `main` or after the process
died, with the port possibly still held. The threads' part, from `serving` to
`joined`, is `ServerDriver`'s; here it is one step.

### UrlParser

A source is a sequence of classes of characters; `9` is a digit, so that a number
is how many nines it has, which is what decides whether it fits an `int` or
a `float` (their limits are the constants `MaxInt` and `MaxFloat`). A step is a
decision of the parser with the token it consumes; `m_previous` is what
`m_current` was, and is left out. An item that is not consumed is added again and again: `emplace_back` fails
at `MaxItems`, and in a `noexcept` function that ends the process.

### GMTGen

The `std::tm` has two fields, stored and loaded one by one in any order of the
workers: the data race is the choice among these orders. `seen` is a history
variable: the times taken by the calls that overlapped a worker's call.

## Runs

| run | instance | shows |
|---|---|---|
| `service` | 3 workers, 3 connections, descriptors 3-5 | `ServerDriver` implements `ConnectionService`; `TypeOK`, `OneOwner`, `PillsLast`, `PillsCoverWorkers`, `ListenerNotConfused` |
| `liveness` | 2 workers, 2 connections, 2 descriptors | `StopCompletes`, `AcceptedIsServed`, `PendingIsSettled` |
| `stop_no_timeout` | as `liveness`, with an `accept()` that never times out | `StopCompletes` is violated, see Findings |
| `exchange` | 15 requests, 2 under way, connection after connection | `WorkerJob` implements `HttpConnection`; `InStep`, `DeathIsExplained`, `ExchangeAsInServerDriver`, `FreedWhenGone`, `FreedWhenSilent` |
| `framing` | 12 messages, 3 in a row, a buffer of 3 octets | `InSync`, `GivesUpOnlyOn`, `DiesOnlyOn`, `CallReturns` |
| `noexcept` | 2 messages, 2 in a row | `NoexceptHolds` is violated |
| `replies` | 9 replies, 2 in a row, a buffer of 8 written out from 5 | `InOrder`, `SentWhole`, `FailsOnlyOn` |
| `last_header` | 3 replies | `SentWhole` is violated |
| `reads` | a buffer of 3, 6 octets | `LineExact`, `Terminated`, `BlobExact`, `FailsOnlyOn` |
| `startup` | 2 descriptors, counts -1, 0 and 2 | `OneHolder`, `BeginsAsServerDriver`, `Starts` |
| `url` | all strings of up to 4 characters, as a whole and as a query; the spellings of 471 URLs; numbers around the limits | `PathExact`, `RoundTrip`, `DiesOnlyOn`, `Ends` |
| `dates` | 3 workers, times 0-2, two fields | `DateIsOfCallsAround` |

**Bounds.** With as many connections as descriptors minus the listener, plus
one, numbers run out and are reused, the listener's included after the stop;
three workers are enough for one to serve, one to be caught between count and
wait, and one to halt. A lost notification matters when the other worker is kept
by its client: the second part of `AcceptedIsServed` has exactly one worker free
again and again. `liveness` has two descriptors so that `accept()` fails for want of one, on which
`PendingIsSettled` depends; a connection then waits in the queue beside a busy worker only
once the listener's number is free. With `Fds = {3, 4, 5}` in its `.cfg` that happens before any stop as well,
and the three properties hold too (139,088 states, some two and a half minutes), but no descriptor
is ever lacking with two connections; with three of each the graph is too large for the liveness checks. Symmetry is used where only
safety is checked. `MaxPipelined`, `MaxMessages`, `MaxReplies` and
`MaxOctets` bound what a client does on one connection: the two requests under way
of `exchange` are one being served and one already waiting (those before them have
their replies), and the three messages of `framing` let one that is spoilt have one before and one after it, and a buffer of
three octets has bodies that fit in front of a top line and bodies that do not, and bodies with line feeds
in every order that matters: one read as a top line, as a whole request, and as a header without a colon. Buffer sizes are small
so that bodies and lines below, at and above the size all occur. Deadlock is
checked wherever the system goes on; `HttpIntake` and `HttpOuttake` stop when the
call failed or the client sends no more, `UrlParser` when parsing ends. In `url`, the URLs have up to
two segments and two items with every kind of value in each place, and four characters are enough for each
token behind each other in each state of the parser; `MaxItems` is beyond the
longest source, so that only an item that is made again comes to it. In `dates`, three workers let
two calls overlap a third, and three times let both fields change.

**Fairness.** `ThreadFairness`: every thread that can take a step takes one,
a wait expires after 11 s, a `recv()` after 10 s, and `accept()` after
`<client-timeout>` if that is not 0. Mutexes need no more than weak fairness
here because nobody holds one for ever and the lock actions of one worker are
disjuncts of its one step. What clients do is in the properties: `StopCompletes` and
the first part of `AcceptedIsServed` are about clients that leave in the end
(`ClientsLeave`), and are false of others, for nothing tells a worker of the
stop while its client goes on asking (`worker_job.cpp:74`) or sends octets of one request for ever
(`sockets.hpp:86`), and the pill waits. Nothing is assumed of the operator, of new
connections, of spurious wakes or of `AcceptWoken`. The process is taken not to
die in the liveness runs of `ServerDriver`. `WorkerJob!FairSpec` is weak fairness
of the worker's own steps, where `ReadFails` is enabled on a client that is there only if nothing of a request
has arrived and the socket took its timeout: a client that trickles disables it again and again, and
weak fairness promises nothing then; `HttpIntake`, `UrlParser` and `Startup` have weak
fairness of the thread that runs them. `Starts` is about a port that is free for good and
descriptors that are to be had. `send()` is taken to return: it has no timeout, and the
replies are far shorter than a socket's buffer.

**Mutants.** Each property of a passing run is violated by a mutant of the
model, defined beside the definition it replaces and marked `Mutant`: a pill in
front of the queue, a forgotten flag, a descriptor kept, and so on.

## Findings

* `stop_no_timeout`: with a `<client-timeout>` of 0, `y` does not stop the server:
  closing the descriptor does not wake the blocked `accept()`
  (`driver.cpp:48`, `sockets.cpp:81`).
* `noexcept`: an empty or oversized number, or a `Content-Length` that is no
  number, throws in functions declared `noexcept` (`intake.cpp:43`, `:70`, `:81`,
  `:83`) and ends the process.
* `last_header`: if the turn of the last header writes the buffer out, the empty
  line is not written and the call returns true (`outtake.cpp:95`, `:120`). The
  replies the worker builds, some 150 octets of headers, do not reach this.

Besides: `<client-timeout>` in `README.md:17` is applied to the listening socket
(`main.cpp:42`, `:44`); clients always have 10 s (`worker_job.cpp:8`, `:105`).
`lexing.hpp:48-49` documents a `float_num` as `\d*\.\d+` and a `wordy` as `\w(\w | \d)+`. The lexer also takes
`9.` for a float, and so does `std::stof`; a lone `.`, on which `std::stof` throws
(`DiesOnlyOn`); and words of one letter (`RoundTrip` covers them). The numbers of `RoundTrip` are those the comment
describes, with a digit behind the dot. `tests/test_url_parse.cpp:22` says that `/foo/bar` is not parsed; `PathExact` and
`RoundTrip` show that paths of that shape are.

## Proofs

Each theorem is about the module's `Spec`, for every value of its constants
under the assumptions the module names, which TLC evaluates in each run.

| module | theorem | property | for any |
|---|---|---|---|
| `ServerDriverProofs` | `TypeCorrect` | `TypeOK` | finite non-empty set of workers, connections, descriptors |
| | `PillsLastCorrect` | `PillsLast` | |
| | `OneOwnerCorrect` | `OneOwner` | |
| | `ListenerNotConfusedCorrect` | `ListenerNotConfused` | |
| | `PillsCoverWorkersCorrect` | `PillsCoverWorkers` | |
| | `DriverImplementsService` | `ImplementsService` | |
| | `NobodyWaitsAtTheEnd` | (no wait begins once the pills are queued) | |
| `WorkerJobProofs` | `WorkerTypeCorrect` | `TypeOK` | requests, number sent ahead |
| | `InStepCorrect` | `InStep` | |
| | `DeathIsExplainedCorrect` | `DeathIsExplained` | |
| | `ExchangeCorrect` | `ExchangeAsInServerDriver` | |
| | `WorkerImplementsConnection` | `ImplementsConnection` | |
| | `ServingRunsOut` | (every step leaves less) | |
| `HttpIntakeProofs` | `IntakeTypeCorrect` | `TypeOK` | messages, their number, size of the buffer |
| | `InSyncCorrect` | `InSync` | |
| | `IntakeDiesCorrect` | `DiesOnlyOn` | |
| | `GivesUpCorrect` | `GivesUpOnlyOn` | |
| | `ReadingRunsOut` | (every step leaves less) | |
| `HttpOuttakeProofs` | `WriterTypeCorrect` | `TypeOK` | replies, their number, sizes of the buffer |
| | `WriterFailsCorrect` | `FailsOnlyOn` | |
| | `InOrderCorrect` | `InOrder`, if `LastHeadersStay` | |
| | `SentWholeCorrect` | `SentWhole`, if `LastHeadersStay` | |
| | `ShortHeadsCorrect` | `InOrder` and `SentWhole`, if `ShortHeads` | |
| `ClientSocketProofs` | `SocketTypeCorrect` | `TypeOK` | size of the buffer, length of the stream |
| | `LineExactCorrect` | `LineExact` | |
| | `TerminatedCorrect` | `Terminated` | |
| | `BlobExactCorrect` | `BlobExact` | |
| | `SocketFailsCorrect` | `FailsOnlyOn` | |
| `StartupProofs` | `StartupTypeCorrect` | `TypeOK` | descriptors, worker counts |
| | `OneHolderCorrect` | `OneHolder` | |
| | `BeginsCorrect` | `BeginsAsServerDriver` | |
| `GMTGenProofs` | `DateCorrect` | `DateIsOfCallsAround` | workers, base and range of the clock |
| `UrlParserProofs` | `UrlTypeCorrect` | `TypeOK` | sources, and limits of `int`, `float` and memory |
| | `PathExactCorrect` | `PathExact` | |
| | `UrlDiesCorrect` | `DiesOnlyOn` | |
| | `RoundTripCorrect` | `RoundTrip` | URLs, of any number and length of segments and items |
| | `StepsRunOut` | (every step leaves less) | |

What the assumptions say of the code: `SizesAssumption`, that the size from which
the reply's buffer is written out early is below the buffer's and at least half of
it (512 and 1024 in `outtake.cpp`); `MessagesAssumption`, that a client that sends
a number under `Content-Length` sends such a body; `TextAssumption`, that `""` and `"absent"` are strings,
which the provers do not know; `UrlAssumption`, that memory holds
more items than a source has characters; `UrlsAssumption`, which URLs have a
spelling: a word begins with a letter, and a number is in range and, with a dot, has a digit behind it
(on others `RoundTrip` may be false, and `DiesOnlyOn` says when the process dies); the others give constants their types.
`InOrderCorrect` and `SentWholeCorrect` have one hypothesis more:
`LastHeadersStay`, that no reply is such that the turn of its last header writes the
buffer out. Without it both are false, which is what the run `last_header` shows.
`ShortHeadsCorrect` has a hypothesis nearer to the code, `ShortHeads`: the top line and the
headers stay below `buffer_sendable_n`. The replies the worker builds have some 150 octets of
them, against 512 (`outtake.cpp:8`).

The inductive invariants, and why the properties are not inductive alone:

* **`ServerDriver`.** A step that closes a descriptor needs to
  know which of its holders holds it and that it is no listener; the step that
  accepts needs to know that a free descriptor has no holder. `SafeInv` joins
  `TypeOK`, `ListenerInv` (the listener's descriptor refers to the listener until
  the user thread closes it, and the entry thread's copy is the listener's or
  the dud) and `OwnerInv` (`OneOwner`, and who may hold what at each program
  point). `SafeInvInductive` splits by thread: the entry thread's steps move a
  descriptor from kernel to local to queue, a worker's from queue to socket to
  closed, the user thread touches the listener only.
  `PillsLast` needs that the pills come only at the end of the entry thread
  (`PillsInv`); `PillsCoverWorkers` counts: `getTask` takes a pill exactly when a
  worker halts (`TakePills`, `HaltSteps`), with the finiteness of both sets.
* **`ImplementsService`.** Most steps of a thread stutter. What is accepted or
  reset is read off the backlog (`BacklogInv`: once the listener is closed and
  nobody is in `accept()`, it is empty), and the return of `runService` maps to `Halt`
  because by then no pill is left, hence no task in front of one
  (`QueueEndsInv`), hence no descriptor held, hence no connection open.
* **`WorkerJob`.** `JobInv` adds to `InStep` what the members hold at each state
  of the request being served (`RequestInv`): what an earlier request left in
  `m_diagnosis` and `m_conn_persist_flag` was overwritten before it is looked at,
  and `temp_res` is the reply prescribed. The refinement of `HttpConnection` takes
  `ReplySent` for the reply and everything else for a stutter or an end.
* **`HttpIntake`.** `IntakeInv` says of the stream that it is the messages laid out one
  behind the other (`StreamInv`), and of the reader where it is in the message it
  reads and what it holds of it (`PositionInv`): after the top line and i
  headers, each name has the value of the last of these i that bears it. `LineEnd`
  is then the end of the next line of this message, with the octets of a body nobody
  announced in front of it if it is the top line. All this is as long as no such body
  ended a line (`Clean`). Clean is lost for good, at a message `asked` keeps, so that the invariant
  has `InSync` and `DiesOnlyOn` themselves as conjuncts for what was read before (`UncleanKeeps`, `CleanSoFar`).
* **`HttpOuttake`.** `OrderInv`: the octets behind `done_n` in the buffer go on
  where the wire ends, and end where the piece to be serialized begins
  (`Awaited`). `RoomInv` bounds what the buffer holds in front of each header, for
  `FailsOnlyOn`. `FillInv` follows the level of the buffer along `Filled`, to show
  that under `LastHeadersStay` the empty line is never left out (`NoBreakSkipped`).
* **`ClientSocket`.** `LineInv` and `BlobInv` are the promises of a call half way
  through; `LineInv` counts the octets that are kept, so that a full buffer
  has as many of them behind it.
* **`Startup`.** `HandInv`: whose turn it is to hold the descriptor at each point of `main`;
  `ReadyInv`: a socket that is ready has its option, and listens.
* **`GMTGen`.** `OverlapInv`: a worker in a call has in its history the time of every
  other call going on, so that what another stores over its fields is one of these
  times' fields (`DataInv`, `StreamInv`).
* **`UrlParser`.** `TokenInv`: the token at hand is one the lexer makes at its place.
  `PathInv`: what was counted is where the token begins and is a path; behind a word no
  word follows and behind a slash only a word, so that what ends the scan
  ends every path of the source. `ValueInv`: a value is behind a `=`. The
  lexer's longest run exists by the well-ordering of the numbers (`LeastNumber`).
* **`RoundTrip`.** The spelling of a URL is a `FlattenSeq`, which is defined by
  recursion; its length and its characters are again found by well-ordering
  (`FlattenIs`), after which a spelling is known by the places where its items end
  (`Layout`, `SpellingLaidOut`). `SpellingInv` says of a source that spells a URL that
  the parser is in the part its place in the source says, at the beginning of
  a token of the spelling, and that `query` holds the items it is past
  (`ReadInv`, which the run `url` passes as an invariant as well). It
  needs that the path ends where the first item begins (`PathOfLongest`), that the lexer stops
  where a key or a value ends because of what is behind it (`ItemLexed`), and that a number's
  digits give the number back (`NumberRead`). `RoundTrip` alone says nothing until parsing ends.
* **What runs out.** Four theorems prove a part, one that needs no fairness, of five
  liveness properties. `StepsRunOut` (`Ends`), `ReadingRunsOut` (`CallReturns`) and `ServingRunsOut`
  (`FreedWhenGone`, `FreedWhenSilent`) are about a number `Left` that each step of the thread
  lowers: a character, an item, a unit of the stream or a request is worth more than all the
  steps that take none, which `Rank` orders. Nothing but what the client sends, or the
  worker's next connection, raises it. `NobodyWaitsAtTheEnd` (`StopCompletes`) is that, by
  `PillsCoverWorkers` and `TasksInv`, whoever looks at a poisoned queue finds a task or a pill.

Every invariant and every action property a passing run checks is stated by one
of these theorems, and so are both refinements. Only model-checked: the liveness
properties (`StopCompletes`, `AcceptedIsServed`, `PendingIsSettled`, `FreedWhenGone`,
`FreedWhenSilent`, `CallReturns`, `Starts`, `Ends`), since fairness and ENABLED are
beyond the prover.

## Not modelled

`DynamicBlob`'s growth, the MIME names and `BufferView`'s comparisons, which the program does not
call; header lines longer than the buffer (a top line that is, and a line of body octets that is, stand
for them), and blanks, colons and carriage returns in a body nobody announced; a failure to start a
thread, which ends the process at once; the read of an unset `choice` at the end of
standard input, whose outcomes `ReadChoice` covers by coming at any time or never;
a `send()` that blocks, for it has no timeout and the replies are shorter than
a socket's buffer; a URL after the `Parser` it came from is gone (`model.hpp:14`);
leading zeros and underflow of numbers in a URL; the text of headers and
replies beyond the top line; logging.

## Plan

1. Done: `ServerDriver` and its abstract specification, `WorkerJob` and its own,
   `HttpIntake`, `HttpOuttake`, `ClientSocket`, `HttpTypes`, `Startup`, `UrlParser`,
   `GMTGen`.
2. Done: the safety of `ServerDriver`, `WorkerJob`, `HttpIntake`, `HttpOuttake`,
   `ClientSocket`, `Startup`, `UrlParser` and `GMTGen`, and both refinements.
3. Done: `RoundTrip` of `UrlParser` for URLs of any length, and of five liveness properties
   a part that needs no fairness. What is left, the liveness properties for every size, is
   beyond the prover.
