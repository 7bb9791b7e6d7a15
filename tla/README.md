# TCP-Chat-Server in TLA+

A verification project for the chat server in `src/`: a single-threaded,
edge-triggered `epoll` server with accounts in SQLite and a binary protocol over
TCP, and the interactive client that talks to it. The modules model the event
loop with its connection table and handlers, the account service, the protocol
and the two threads of the client; an abstract specification says what the
server promises. TLC checks them on small instances. TLAPS proves every
invariant and action property that a passing run checks, and the refinements,
for every value of the constants; only liveness is left to TLC.

## 1. The system

| component | state | operations | module |
|---|---|---|---|
| event loop (`server.cpp`) | `events[]`, the position in it | `epoll_wait`, dispatch by the connection's flags, removal, `sigint_handler` | `ChatServer` |
| connection table and handlers (`server_utils.cpp`) | per descriptor: flags, incoming and outgoing buffer, user id, user name; size of the table | `add_connection`, `remove_connection`, `set_connection_state`, `accept_all_connections`, `handle_read_connection`, `try_one_request`, `handle_broadcast_message`, `handle_write_connection` | `ChatServer` |
| accounts (`db.cpp`, `register_user`, `login_user`) | the `users` table | `get_user_by_username`, `insert_user`, `init_db`, `close_db` | `Users`, `ChatServer` |
| protocol (`protocol.cpp`) | none | header and TLVs: builders, parsers, blocking reader and writer | `Protocol`, `Framing`, `MessageQueue`, `Tlv`, `ChatRelay` |
| sockets and epoll (Linux, external) | socket queues, FIN, RST, backlog, descriptors, interest and ready list | the system calls the server makes | `Kernel` |
| chat client (`client.cpp`, `client_utils.cpp`) | `conn_t` (name, flag), `g_keep_running`, the shutdown pipe, two threads | `command_shell` in the main thread, `socket_thread_handler` with the response handlers, `handle_client_sigint` | `ChatClient`; its bytes in `Framing` and `ChatRelay` |
| the service as a whole | user table, sessions, one inbox per session | serve a request; a session ends or breaks; the server stops | `ChatService` (abstract) |
| start-up (`main`, `init_server`, `open_listenfd`, `init_db`) | | run once | `Init` and `Restart` of `ChatServer` |
| metrics, server console, logger, console helpers | | print | not modelled |

**How they interact.** Clients and server share only TCP streams. The server's
thread calls the kernel; between two of its calls clients and network may do
anything. Handlers of one connection touch others in one place: a broadcast
appends to the outgoing buffers of other connections and puts them in write
mode, in the middle of a batch of events reported for the old mode. The account
service is called synchronously while a request is served. The client's threads
share the connection, its name and flag, and a pipe by which the first ends the
second; only the second takes the mutex before the end.

**What is hard.** Edge-triggered readiness is reported once, so a handler that
stops too early, or a mode change that epoll does not hear of, silences a client
for good. Flags and epoll mask are two copies of the mode. Closing is a flag that
some later line acts upon. Buffers are filled from several places and emptied in
parts. `remove_connection` does not close the descriptor. A failing SELECT is taken
for one that found nothing. A signal ends the server between any two calls, with
rows whose answers were never sent. Messages are cut out of a byte stream by
lengths the stream itself carries. The client decides on a flag that another
thread sets, joins a thread that may be waiting for the rest of a message, and
writes with blocking calls to a server that does not read while it has output.
`PROJECT.json` lists these hazards with the line where each bites.

**What makes each component correct.**

* Event loop: no lost wake-up; what is ready and does not fit in a batch comes
  later (`NoLostWakeup`, `EventuallyServed`).
* Table and handlers: flags and mask agree (`ModeAgrees`); output is never
  stranded (`OutputArmed`, `EventuallyWritten`); a closing slot is met by nobody
  (`ClosePrompt`) and goes away (`EventuallyRemoved`); a new connection starts
  clean (`FreshSlot`); the table is never indexed past its end (`TableCovers`).
* Chat: everyone logged in sees every world message once and in one order
  (`GaplessBroadcast`); private messages stay private and senders are not forged
  (`ChatConfined`); a request is served as if at once, and each session gets its
  answers and notifications completely and in the order of service, whatever
  batches, modes, partial writes and restarts come between (`ImplementsService`).
* Accounts: sessions match rows (`AuthRegistered`); names are unique whatever
  their letter case (`CaseInsensitiveUnique`); an account a client was told of
  outlives signals and restarts (`AckedDurable`).
* Protocol: a direction of a connection is a queue of messages
  (`RequestsQueue`, `AnswersQueue`, `BytesConserved`, `EventuallyFramed`); the
  parsers accept what they should (`ParsesTlvs`); those of responses find id and
  name, and write past the id's memory only for an id of more than four bytes
  (`ParsesUsers`), which the server does not send (`UserFaithful`); a text arrives
  as it was typed (`RelayFaithful`), and what a client builds is not refused
  (`BuilderParserAgree`).
* Client: it speaks under the name the server has for it (`IdentityAgrees`); it
  sends chat only in a session that has logged in (`ChatAuthorised`); it reads a
  header only where a message begins (`InStep`); `/quit` ends it in order
  (`QuitTerminates`); no write waits for ever, unless a signal has told the client
  to end: the socket thread then stops reading, and with it the server (`WriteReturns`).

## 2. The modules

```
Protocol <- Users <- ChatServer <- ChatServerProperties <- MCChatServer
Kernel   <-----------+                ^
                                      | INSTANCE
            Users <- ChatService -----+
                                      | INSTANCE
            Users <- ChatClient <- MCChatClient
MessageQueue (INSTANCE) - Framing <- MCFraming
Tlv <- ChatRelay <- TlvCases <- MCTlvCases

Users                <- UsersProofs
ChatServerProperties <- ChatServerProofs <- TableProofs <- ServiceProofs <- ChatProofs
                        (with UsersProofs)
ChatClient           <- ChatClientProofs (with UsersProofs)
Framing              <- FramingProofs
TlvCases             <- TlvProofs
```

**`ChatServer`** is the core. `pc` is the place in the code, `cur` the descriptor
of the event that is handled, `todo` the rest of the batch. An action is one
system call with the code up to the next, or the service of one request, which
makes no call on a socket besides `epoll_ctl`:

| action | code |
|---|---|
| `EpollWait`, `DispatchListen`, `DispatchConnection` | the loop of `main()`; the flags decide, not the event |
| `RemoveConnection`, `KeepConnection` | the check for `EPOLLERR` and `WANT_CLOSE` at the end of an event |
| `AcceptConnection`, `AcceptUnwatched`, `AcceptDone`, `AcceptError` | the outcomes of `accept()` and `add_connection` |
| `ReadSome`, `ReadAgain`, `ReadClosed` | `read()` with data, EAGAIN, EOF or error |
| `TryOneRequest`, `ServeDone` | `try_one_request` returns true, or false with the tail of `handle_read_connection` |
| `WriteSome`, `WriteAgain`, `WriteError`, `WriteSigpipe` | `write()` in part, EAGAIN, ECONNRESET, EPIPE with its signal |
| `Blocked` | `epoll_wait` with nothing to report |
| `sigint_handler`, `EpollInterrupted` | SIGINT or SIGTERM between any two calls, with `close_db`; EINTR of a waiting `epoll_wait` |
| `Restart`, `LateDelivery`, `Stopped` | `main` up to its loop, on the table as it is; the kernel delivers what a process that has ended had written; nobody starts it again |

`ProcessEnds` is what every end has in common: descriptors are closed (a FIN, or
a RST where requests are unread), connections that were not accepted are reset,
and the table, the batch and the buffers are gone.

The variables `log`, `joined` and `idents` are history and no guard reads them.
The order of a batch is left open: the ready list is a set, and the loop takes
any member of `todo`.

**`Kernel`** (external) is written from how the server uses Linux: TCP queues, a
FIN or a RST, a backlog that holds LISTENQ + 1 connections, the lowest free
descriptor, `accept()` that takes a descriptor before it looks at its queue, and
an edge-triggered epoll: a change puts a watched descriptor on the ready list,
`epoll_wait` reports and takes off those that are still ready, `EPOLL_CTL_MOD`
looks again. A direction is a queue of whole messages; `Framing` is the
justification.

**`ChatService`** is what the server promises, without sockets, modes and event
loop: a user table, sessions, and an inbox per session. `Serve` handles a request
in one step and puts answer and notifications where they belong; a session may
end or break, and the server stop. `ChatServerProperties` maps ChatServer to it:
a session is a descriptor, its inbox all that was ever put in its outgoing buffer
(read by the peer, in the network, or still there), its name that of an
authenticated slot.

**`ChatClient`** is the interactive client against `ChatService`: `mpc` and `spc`
are the places of its two threads. The stream from the server is counted in
halves, header and payload, which is how `read_one_message` waits for it.

| action | code |
|---|---|
| `LoopTest`, `Getline`, `GetlineEof` | the loop of `run_messaging_loop`; `command_shell` up to where it uses the name or writes |
| `CopyName`, `WriteRequest`, `WriteSigpipe` | the builders' refusals and `write_one_message` |
| `SignalThread`, `JoinThread` | the way out: pipe, join, close |
| `PollThread`, `ReadHeader`, `ReadPayload`, `ReadFails` | `socket_thread_handler` and `read_one_message` |
| `HandleResponse`, `SetUser` | the response handlers; the assignment under the mutex |
| `Sigint` | delivered to either thread, at any of its places, with what EINTR does there |
| `ServeRequest`, `ServeOther`, `Deliver`, `ServerExit`, `KernelReset` | the server, other clients, the network |

`CopyName` reads a `std::string` that the other thread may be assigning: while
that assignment is pending the copy may be any name.

**`Users`** has the users table as the sequence of its rows. `fault` names the
SQLite call that fails while a request is served. `string_to_lower` is a
constant function on names, assumed idempotent.

**`Protocol`** has the messages as records. Of a payload it keeps what the
handlers tell apart, and whether the parser of its type accepts it.

**`Framing`** is one connection at the level of bytes, both directions: blocking
writer and reader of the client, the buffers of the server, chunks of any size.
**`MessageQueue`** is what it promises; `RequestsQueue` and `AnswersQueue` are
the two refinements (`INSTANCE ... WITH`), the history variables are the mapping.
A payload's length fits in the `uint32_t` of the header.

**`Tlv`** has builders and parsers of payloads. The parsers are one loop over
tables of known tags and limits; `ParseFrom` is that loop as a recursive function
of the offset (`payload_ptr`), `ParseTlv` one round of it. The parsers of responses
copy an id with `memcpy` into the four bytes of a `uint32_t` and do not look at its
length. `CopyId` is that call with the `ntohl` behind it, `IdAfter` what the loop
makes of the memory: a value of up to four bytes replaces as many of them, and a
longer one is undefined behaviour, `Smashed`, of which no later value is stated to
be right. **`ChatRelay`** takes one chat message, or the user of a register or login
response, through builder, server and parser to the screen, where `%s` ends at a
zero byte (`Printed`). **`TlvCases`** adds arbitrary payloads and says, without a
loop, what a parser should return: a payload can be cut when some set of offsets
leads from its start to its end in whole TLVs (`Cuts`), and its TLVs are the
offsets that all such sets share. `MCTlvCases` has the names and texts of the run.

Definitions commented "Mutant:" are wrong
variants of the definition below them: put in its place, TLC must find the
property they are listed with violated. No specification uses them.

## 3. The runs

| run | what it checks and shows | distinct states |
|---|---|---|
| `chat` | two clients log in, broadcast, stop reading, close or abort; EPOLL_CTL_ADD fails; signals end the server, which is started again: `TypeOK`, `NoLostWakeup`, `ModeAgrees`, `OutputArmed`, `ClosePrompt`, `ImplementsService` | 516 K |
| `messages` | one client talks to two slow readers, to one or to all, two events per batch: `GaplessBroadcast`, `ChatConfined`, `ImplementsService` | 1.2 M |
| `limits` | three clients, three descriptors, a backlog of one, one event per batch, a table that grows; they register and log in, also as each other, or send unknown and oversize requests; SQLite fails to prepare or to insert; signals and restarts: `FreshSlot`, `TableCovers`, `AuthRegistered`, `CaseInsensitiveUnique`, `AckedDurable` | 956 K |
| `live` | one event per batch, under `FairSpec`: `EventuallyServed`, `EventuallyWritten`, `EventuallyRemoved` | 50 K |
| `client` | three lines typed, one request of another session, SIGINT, end of input and a server that exits, under `FairSpec`: `ClientTypeOK`, `IdentityAgrees`, `ChatAuthorised`, `InStep`, `QuitTerminates`, `WriteReturns` | 482 K |
| `framing` | two messages each way cut in every way, under `FairSpec`: `BytesConserved`, `RequestsQueue`, `AnswersQueue`, `EventuallyFramed` | 379 K |
| `payloads` | all payloads of up to eight bytes over each of three sets of three bytes, lines with lengths on both sides of every limit, ids with any of their bytes in use: `ParsesTlvs`, `ParsesUsers`, `RelayFaithful`, `UserFaithful`, `BuilderParserAgree` | 41 K |
| `leak` | violated: `RemovedIsClosed` | |
| `sigpipe` | violated: `SurvivesWriteError` | |
| `sender` | violated: `SenderMismatchRejected` | |
| `dbstep` | violated: `CaseInsensitiveUnique` when a SELECT fails | |
| `sigint` | violated: `GracefulSigint` | |

What the last five show:

* `leak`: `remove_connection` is documented to close the connection
  (`server_utils.hpp:68`) and never calls `close()`. Every client costs a
  descriptor for good, and the `EMFILE` of `accept()` ends the server.
  `FreshSlot` holds only because of this: closing the descriptor without
  emptying the buffers of the slot (the mutant of that property) hands the next
  client the last one's bytes.
* `sigpipe`: a failed `write()` is meant to close its connection
  (`server_utils.cpp:731`), but with EPIPE the signal ends the process first.
* `sender`: an integration test expects a broadcast with a wrong sender name to
  be refused (`test_broadcast.cpp:108`); the code puts in the right name.
* `dbstep`: `get_user_by_username` reports a failed step as "not found", against
  `db.hpp:36`, and the same name in another letter case can be registered.
* `sigint`: the client's handler is installed "for graceful shutdown", without
  SA_RESTART. A `getline` that waits then fails, `run_messaging_loop` returns with
  its thread joinable, and the program ends in `std::terminate`.

**Bounds, and why they are enough.** `SndCap` = 1 message, so that a client which
has not read its last message makes the next `write()` return EAGAIN and every
partial write happens; `RcvCap` 1 or 2, so that requests arrive together and one
by one. `MaxSend` gives each peer a login and a broadcast or two: a broadcast that
meets a connection in each mode, and a second one behind it. `Fd` and
`INITIAL_CAPACITY` make the table grow with one of the clients, and in `limits`
leave no descriptor for the last `accept()`. `MAX_EVENTS` is 64 where all that is
ready fits, 2 and 1 where it does not. `LISTENQ` is 0 in `limits` and out of the
way elsewhere. `Closers` are the peers that may go away: all of them, but for
`messages`, whose state space pays for three sessions instead. `Requests` gives
each peer the requests its run is about. `Faults` switches on the failures of the
environment: EPOLL_CTL_ADD, SQLite's prepare, insert and step, signals, and a
server that is started again. Two cases need more steps than these bounds leave
and are covered by the proofs: a second login on a connection that has logged in
(`AuthRegistered`, `ChatConfined`), and `NoLostWakeup` with batches that are too
small, of which `live` checks the consequences. `IsTest` is false: a server started for the tests
removes its database when a signal ends it, on purpose.

In `client` all capacities are 1: one request fills the direction to the server,
one half the receive buffer, and one half that waits keeps the server from
reading, so that the threads, the server and the network wait for each other in
every way they can. Three lines are enough for two logins before the first answer
and a message or `/quit` behind them; one broadcast of another session meets each
place of the socket thread. In `framing` NetCap is 2 bytes, below the 7 bytes of a
header, so that header and payload are both cut; payloads have 0, 1, 2 (the
limit) and 3 (oversize) bytes. `payloads` has limits of 1 and 2 for names and
passwords so that values under, at and over them fit in eight bytes, and 255, the
code's own, for texts, where the length byte overflows; one text has a zero byte.
`Alphabets` are three sets of bytes: one in which the tags of the credentials meet
short lengths, and two in which the tag of an id (6) meets a length of four, which
its memory holds, and of five, which it does not. Symmetry is used between
peers with the same requests and bounds, and never with liveness. Deadlock is
checked in all runs of ChatServer (an idle server stutters in `Blocked`) and of
ChatClient (a user who does not type in `UserIdle`); `framing` and `payloads` stop
when the bounded input is used up.

**Faults.** The connection of a peer may break at any time (FIN with or without a
RST). The server may be ended between any two of its system calls and be started
again with the user table as it was: sessions and buffers are gone, what the
kernel had still arrives (`LateDelivery`). The client meets a server that goes
away in the middle of a message, resets, SIGINT in either thread, end of input.

**Fairness.** `WF(ServerStep)`: the operating system runs the server's thread.
`SF(EpollWait with f in its batch)` for each descriptor: the ready list is a FIFO
queue, so a descriptor that stays on it is reported even when batches are small.
`WF(PeerRecv)`: a client's socket thread does nothing but read.
`WF(KernelReset)`: the network delivers resets. Nothing is assumed of clients
that send, connect or close. In `ChatClient` both threads, the server's service
and the delivery by the network are weakly fair; nothing makes the user type, a
signal come or the server exit. In `Framing` both client threads and the server
are weakly fair; sending is not.

`EventuallyFramed` makes an exception for a last request without payload:
`try_one_request` wants `MSG_HEADER_SIZE + 1` bytes, so such a request waits for
the next one's first byte. No client of the repository builds one.

## 4. The proofs

The theorems hold for every number of peers, descriptors, messages and accounts
and for every batch, table and buffer size. A conclusion about a run's property
names that property:

| module | theorem | statement |
|---|---|---|
| `ChatServerProofs` | `Invariance` | `Spec => []IInv` |
| | `TypeCorrect`, `ModesAgree`, `WakeupsKept` | `TypeOK`, `ModeAgrees`, `NoLostWakeup` |
| `TableProofs` | `Connections` | `Spec => []CInv` |
| | `ClosingIsPrompt`, `OutputIsArmed`, `SlotsAreFresh`, `TableIsLargeEnough` | `ClosePrompt`, `OutputArmed`, `FreshSlot`, `TableCovers` |
| | `OneDescriptorPerPeer` | `Spec => []Endpoints` |
| | `RowsAreKept` | `Spec => [][RowsKept]_vars`: no row changes or goes (not a test server) |
| | `AuthenticatedAreRegistered` | `AuthRegistered` |
| | `NamesStayUnique` | `CaseInsensitiveUnique` (no failing SELECT step, a table without duplicates to begin with) |
| | `AcknowledgedIsDurable` | `AckedDurable` (not a test server) |
| `ServiceProofs` | `ServerImplementsService` | `Spec => ImplementsService` (not a test server) |
| `ChatProofs` | `ChatIsConfined`, `BroadcastsAreGapless` | `ChatConfined`, `GaplessBroadcast` |
| `ChatClientProofs` | `ClientInvariance` | `Spec => []ClientInv` |
| | `ClientTypeCorrect`, `ClientStaysInStep`, `ChatIsAuthorised`, `IdentitiesAgree` | `ClientTypeOK`, `InStep`, `ChatAuthorised`, `IdentityAgrees` |
| `FramingProofs` | `FramingInvariance` | `Spec => []FramingInv` |
| | `BytesAreConserved`, `RequestsAreQueued`, `AnswersAreQueued` | `BytesConserved`, `RequestsQueue`, `AnswersQueue` |
| `TlvProofs` | `RelayedFaithfully`, `UserToldFaithfully`, `BuiltIsParsed` | `RelayFaithful`, `UserFaithful`, `BuilderParserAgree` |
| | `ParserCorrect`, `ParsersCorrect` | `IsParseOf` for every table of fields, and for the four parsers of requests and notifications |
| | `PayloadsParsed`, `UsersParsed` | `ParsesTlvs`, `ParsesUsers` |

`UsersProofs` has the lemmas about SELECT, `register_user` and `login_user` that
server and client proofs share.

**Assumptions.** The constants have their types (`KernelAssumption`,
`ServerAssumption`, `ClientAssumption`, `FramingAssumption`); capacities and
MAX_EVENTS are positive; `string_to_lower` is idempotent (`LowerAssumption`); a
field that a message does not carry is not a name (`ProtocolAssumption`); lengths
fit in 32 bits and the server builds no oversize message (`FramingAssumption`);
the limits of the payloads fit in a length byte (`TlvAssumption`; the code's are
32, 32 and 255), names, texts and payloads are made of bytes and a user id is a
`uint32_t` (`RelayAssumption`, `CasesAssumption`). Three theorems assume `~IsTest`,
because a server started for the tests drops its table when a signal ends it.
`NamesStayUnique` assumes that `step` is not among the `Faults`; the run `dbstep` shows
that it fails otherwise.

**The event loop** (`IInv`). `NoLostWakeup` alone is not inductive:

* that a handler drains the queue its connection is watched for needs the mode it
  was entered with (`Handling`), which epoll must share (`ModeAgrees`);
* that a peer's step finds the descriptor to wake needs a watched descriptor to
  be an open connection of that peer (`Watched`), and that `accept()` does not
  hand out one that is watched;
* that a new batch does not overwrite an unfinished one needs `todo` to be empty
  while the server waits (`Handling`);
* that a server started again has nothing to wake for needs that a process which
  has ended left no queue and no watched descriptor (`Down`);
* `TypeOK` is needed throughout, and itself needs that an authenticated slot has
  a real name and not the table's default (`AuthNamed`): a notification carries it.

One lemma per conjunct (`TypeStep`, `ModeStep`, `DownStep`, `WakeupStep`) has one
step per action. The steps that end or start the process touch everything at once
and are treated for all conjuncts together (`EndInvariant`, `RestartInvariant`).
`ServeEffectLemma` and `SetStateLemma` say what all branches of a served request
and of `set_connection_state` have in common, so that the six kinds of requests
are treated once.

**Connections** (`CInv`) are one conjunct per property on top of `IInv`.
`OutputArmed` leans on `FreshSlot`: `accept()` puts a connection in read mode, and
strands nothing only because its slot has no output. `Endpoints`
says that open descriptors and accepted peers correspond one to one, that a peer
which waits in the backlog waits once, and that nothing was ever sent to it. All
that is stated of a connection's stream needs it: without it a message for one
descriptor could be read by the peer of another.

**Accounts.** `AckedDurable` speaks of what clients have read; its induction also
speaks of all that is on the way to them, in the network or in an outgoing buffer
(`AllTold`). With `RowsKept` such an answer, once true, stays true.

**The refinement.** `ServerImplementsService` is a step simulation: reading,
writing, epoll and the removal of a slot that has no session leave the mapped
state alone, since an inbox is the concatenation of what was read, what is in the
network and what is buffered; a served request is the service's `Serve`. It
needs `CInv`, and that what waits in a receive queue or an incoming buffer is a
request some peer may send (`Asked`).

**Chat.** `ChatConfined` needs that an authenticated slot's name is among the
names it has logged in with (`NamedIdents`), and that the same holds of messages
still queued (`AllConfined`). `GaplessBroadcast` counts the broadcasts in a stream
and compares them with the log from the login on. It is inductive together with
its counterpart for connections that have not logged in, whose streams hold no
broadcast (`Following`), so that a login starts with an empty count; the steps
that leave streams alone come from the simulation.

**The client** (`ClientInv`). None of its invariants is inductive. `InStep` needs
where the stream was cut when the server went away (`Halves`). That the flag,
which the main thread reads without the mutex, is never ahead of the server, and
that the names agree in the end, has one reason: both sides are the name of the
last successful login among the answers, the session's among all that were sent,
the client's among those it has handled (`Identities`).

**The byte stream** (`FramingInv`). For each direction (`Channel`) the bytes of
the messages sent are the bytes of those taken followed by the contents of the
buffers on the way. That taking a message then takes the next one that was sent
is the lemma `CutMessage`: a complete header and payload at the front
of a stream of whole messages is its first message, because `ntohl` undoes
`htonl` (`LengthKept`). `Bytes` is a recursive function on sequences; that it is
well defined (`PrefixesExist`, `PrefixesUnique`) and distributes over `Append`
(`BytesAppend`) is proved from the existence of a least element in a set of
naturals (`SetInduction`), with the set of counterexamples as the set, since an
induction theorem with an operator parameter is out of the provers' reach.

**Payloads** (`RelayInv`). The properties speak of what is shown at the end; the
invariant says at each stage which payload of what was typed is on its way, and
that its parts are within the limits, since only then is a length byte right and
the same value found behind it. What a parser makes of a built payload is put
together TLV by TLV (`Row`, `RowAdded`): a row of TLVs gives its values whatever
follows it. That is the reason why builders may append without regard to each
other.

The parsers on payloads that nobody built: `ParseFrom` is well defined because a
round looks only at what the later rounds come to (`RoundAhead`,
`ParseFromRound`). `ParsesFrom` compares it at every offset with the cuts of the
rest of the payload, from the end backwards (`Downward`, an induction for a set
rather than a predicate). The step rests on `CutStep`: the rest can be cut exactly
if its first TLV lies inside and what follows can be cut, and then its TLVs are
the first and those of what follows.

The parsers of responses are that loop with a side effect, the memory of the id, and
`ParserCorrect` says nothing of it. `IdRight` says at every offset, for every memory
the loop may arrive with, what it leaves in the end; `IdAfterStep` is one round, and
the induction is again from the end backwards (`IdRightAll`). `UsersParsed` speaks of
the id and the name only where all ids have four bytes: a shorter one leaves a number
that nobody sent, and after a longer one the code promises nothing. That such ids do
not come from this server is `UserToldFaithfully`.

**Model-checked only.** Liveness, because fairness and ENABLED are out of this
prover's reach: `EventuallyServed`, `EventuallyWritten`, `EventuallyRemoved`,
`QuitTerminates`, `WriteReturns`, `EventuallyFramed`.

## 5. Not modelled

* Standard input of the server (`handle_server_input`, `log_server_metrics`,
  `get_memory_usage`), the logger and the console helpers: they print, and
  nothing they change is read by a handler. The helpers of `shared.cpp` that read
  from the console have no caller in server or client.
* Failures of start-up (arguments, `open_listenfd`, `init_db`, `pipe`, `socket`,
  `connect`): the programs end before they serve or send anything.
* A failing `EPOLL_CTL_MOD`, which the code only logs, and a failing
  `EPOLL_CTL_DEL`, whose result it does not look at (`server_utils.cpp:217-228` and
  `294`): in `Kernel` neither fails for a descriptor that is watched.
* `EPOLLERR` on the listening socket and on standard input, which return from
  `main` (`server.cpp:84-87` and `91-94`): in `Kernel` the listening socket has no
  errors, and standard input is not modelled.
* The `build_*` failures of the server for messages that its parsers let through:
  the limits exclude them (`ChatRelay`).
* Names with embedded NULs in the users table, where SQLite and std::string treat
  them differently. What printing makes of them is modelled (`Printed`).
* What a client does after an id of more than four bytes was written over its user:
  undefined behaviour, of which the model says only when it happens (`Smashed`).
* When exactly Linux reports a socket writable (it waits for a third of the
  buffer to be free): in `Kernel` any room counts. Fewer reports reach the real
  server, at points where these specifications allow them as well.
* Signals inside `sigint_handler`'s own calls (`printf` and `exit` are not
  async-signal-safe), and a kill of the machine: rows that SQLite has committed are
  taken to be durable.
* The client's print-only handlers of registrations and broadcasts beyond the
  fact that they are called, and a response that the client cannot parse: the
  server's builders do not make one (`UserFaithful`, `BuilderParserAgree`).
* In `ChatServer` a client is any peer that sends, reads and closes in any order;
  `ChatClient` is composed with `ChatService` instead, which `ChatServer` implements
  (`ImplementsService`).
* Tests, load generator and benchmark: read for what they say of the server.

## 6. The plan

Done: `Protocol`, `Users`, `Kernel`, `ChatServer` with its properties and restarts,
`ChatService` and its refinement, `ChatClient`, `Framing` with its refinement,
`Tlv`, `ChatRelay`; the proofs of all their safety properties. What could be
added, in this order:

1. What the service promises from the abstract side: the chat properties stated
   and proved of `ChatService`, to be carried over by the refinement.
2. The server's console as one more descriptor of the loop, if a command is ever
   added that changes state.
