# Verification of NetworkTechnologies in TLA+

The repository holds four small network programs. This directory holds TLA+
models of them, the TLC configurations that check the models, and theorems about
them that TLAPS proves. Every definition is translated from the source; file and
line of each one are in `PROJECT.json` ("map").

## 1. The system

| program | state it keeps | operations | interaction |
|---|---|---|---|
| **SOCKS5 proxy** `proxy/src` | `ConnectionPool` (`connections`, `pool_size`), the sockets of each `Connection` and each `remote_socket`, two 8 KB buffers per connection, `resolved_hosts` | 15 completion handlers of `Socks5Proxy`, `addConnection`, `getConnection`, `close` | one thread in `io_ctx.run()`; handlers follow each other through Boost.Asio operations; sessions share the pool |
| **Self-detector** `selfdetecting/src` | `live_copies`, `last_activity`, `recv_buffer`, `remote_endpoint`, two `deadline_timer`s | `handleReceive`, `checkActivity`, `sendUdpMessage` | two threads in one `io_context`, no strand and no lock; copies of the program talk by UDP multicast |
| **FTPv2** `ftpv2/` | the `uploads` directory; per upload a `ClientInfo` (byte counts, `is_data_ended`) | `handleConnection`, `speedCheck`, the client's `main` | one detached thread per upload and one speed thread each; uploads share the directory |
| **Places** `Places/` | `coords`, `api_keys` | `getPlaces`, `getWeather`, `placesInArea` | two futures joined by `thenCombine` |

The rest of the tree (CMake and Gradle output, IDE files) is generated.

What is hard, program by program; the complete list with lines is in
`PROJECT.json` ("hazards"):

* **Proxy.** A relay has two operations in flight, and when one fails its
  handler gives the connection back to the pool while the other is still bound
  to it. The pool hands connections out last in, first out, so the next client
  may be on that very connection when the second handler runs. Handlers throw on
  sockets that were reset, some inside a `try` that hides it, two outside any,
  which ends the process. Connects fail with codes the proxy has no reply for. A
  correct proxy never loses its accept, never has two operations on one buffer,
  keeps its pool sound, tells SUCCESS only for a connect that succeeded, and
  lets go of what has left.
* **Self-detector.** The receive handler and the check of activity run at the
  same time on the same two containers. Time stamps go stale between a check and
  the removal; the timer's handler ignores its error code. A correct detector
  lists whoever it hears and removes only who has been silent, and its check and
  its receive neither die out nor multiply.
* **FTPv2.** Uploads share the directory by file name. Each upload owns a
  `std::thread` that is joinable until the last lines of the function, so an
  exception before them ends the whole server. Clients leave or send less or
  more than announced; writes to the file are not checked. A correct server
  reports Success only for a file that is there, leaves no part of a failed one,
  answers everyone who stays, and lets its threads end. The speed thread reads
  and empties a counter the upload's thread adds to, with no lock.
* **Places.** Two requests on the threads of a pool, either of which may fail
  before, while or after the other runs; an empty list of hits; a list cut at a
  limit, from which places without a name or a text are left out.

## 2. Plan

| step | modules | state |
|---|---|---|
| 1 | `Socks5Proxy`, `Socks5Session` (what a client is promised), `MCSocks5Proxy` | done |
| 2 | `Socks5ProxyProofs`: type, pool, acceptor | done |
| 3 | `SelfDetector`, `Membership` (what the list promises), `MCSelfDetector` | done |
| 4 | `FtpServer` with the client's side, `Upload` (what an upload is promised), `MCFtpServer` | done |
| 5 | `SelfDetectorProofs`: types, the chain of checks, the receive | done |
| 6 | `SpeedMeter`: the byte counter of `ClientInfo` that two threads share; `SpeedMeterProofs` | done |
| 7 | `RelayedData`: the proxy with the bytes in its buffers; `Stream`: each end is handed what the other sent | done |
| 8 | `Places`: the choice, the joined futures, the list; `PlacesProofs` | done |
| 9 | `FtpServerProofs`: types, who can end the server | done |
| 10 | `Socks5ReplyProofs`: the operations of a session in flight, the replies | done |
| 11 | `SelfDetectorProofs`: a silent copy is off the list in time, a steady one on it | done |
| 12 | `PlacesProofs`: the answer; `FtpServerProofs`: the server implements `Upload` | done |
| 13 | `Socks5OwnerProofs`: whose a connection is, who listens on it, whom a late handler cuts off | done |
| 14 | `RelayedDataProofs`: reads and writes take turns, bytes are flushed at the end, `RelayedData` implements `Stream` | done |
| 15 | the step simulation of `Socks5Session` by `Socks5Proxy` | open |

## 3. Modules

**`Socks5Proxy`**. A handler runs to completion, so each handler is one action,
named after the C++ function; its argument is the entry of the completion queue
it is run from.

| model | code |
|---|---|
| `pool`, `pool_size` | `ConnectionPool::connections`, `pool_size` |
| `peer[c]` | the client that the socket of `Connection` `c` is open to (`is_open()`) |
| `client[s]`, `remote[s]` | the TCP state of the two ends of session `s`: `up`, `fin` (the end has left), `rst`, closed, ... |
| `pending` | operations started (`async_*`) whose completion has not been posted |
| `ready` | completions posted to `io_ctx`, with the result, whose handlers have not run |
| `alive` | no exception has left `io_ctx.run()` |
| `addConnection`, `getConnection` | the functions of these names |
| `GiveUp`, `HangUp`, `closeRemote` | the error branches of the handshake and of the relay; the two lines that close `remote_socket`, and the exception between them |
| `Crash` | `main.cpp`: the exception is printed and the process ends |
| `Complete`, `Post`, `Begin`, `continueTransfer`, `AcceptClient`, `AcceptFails` | Boost.Asio, as far as the code relies on it: a completion is posted once; closing a socket posts what waits on it with an error; `async_read` and `async_write` may need several rounds |
| `Connect`, `ClientLeaves`, `RemoteLeaves` | the far ends |

Message bytes are abstracted to what a handler distinguishes (`Inputs`): a
greeting with a right or wrong version and with fewer or at least 128 methods
(`char` is signed), a right or wrong request, the address type, and whether the
byte `getDomainLength` leaves unset happens to be zero. A read that asks for
more than the client's message has ("excess") ends only when the client does,
or, with the fault "overrun", when the client has sent all that was asked for:
then the bytes that go past the end of `to_server_buf` change nothing that is
used, or end the process. A connection object that nobody holds (`Fresh`) may be
reused as the identity of a new one. A client counts as `fin` when everything it
sent before has been read. "partial" lets an operation take several rounds,
"reset" lets an end reset its connection, "accept" lets an accept fail.

**`Socks5Session`** is the promise to a client: the phases of a session come in
order (`After`), and a session that relays is dropped only when one of its
two ends has left (`Break`). Earlier phases may be dropped at any time; section
4 says why.

**`RelayedData`** extends `Socks5Proxy` with the bytes of the relay. Its steps
are the steps of `Socks5Proxy`, each with what it does to the bytes, and the
ends' sending. Bytes are numbered, per session and direction (`Ways`), in the
order in which they are sent, so that a lost, repeated or swapped byte shows.

| model | code |
|---|---|
| `buf[c, w]` | `to_server_buf` and `to_client_buf` of `Connection` `c`; they outlive a session, as the object does |
| `length[s, w]` | the length the handler of a read is given |
| `done[s, w]` | how much of it the write has taken so far |
| `sent`, `taken`, `got` | the socket's two ends: what an end has sent, what has been read of it, what has been handed on to the other end |
| `ReadSome`, `Write` | `async_read_some` and `async_write` on the buffer; a read asks for `max_length` bytes (`proxy_server.h`), the buffer has `BUF_SIZE` (`connection.h`), and that the one fits the other is the assumption `DataAssumption` |
| `HandlerData`, `CompleteData`, `Send`, `EndLeaves` | a handler, a completion, the two ends |

**`Stream`** is the promise to a direction: the far end is handed, each once and
in order, the bytes that were sent.

**`SelfDetector`**. `work[t]` is where thread `t` is inside a handler. Each
operation on `live_copies` or `last_activity` is a step, except the loop that
selects the silent copies, which is one. Time is in whole seconds, as in
`second_clock`; a time stamp is kept as its age, up to `MaxAge`. `heard` is a
history variable: how long ago an endpoint was really handled; `steady` is
another: for how long it has been handled without missing two heartbeats in a
row. Overlapping accesses to a container, or to the timer, are undefined
behaviour in C++ (`Races`); the model lets them have any sequential outcome or,
with the fault "race", end the process. `Prompt` chooses between two
environments: handlers that run before the next second, or arbitrarily late
ones.

**`Membership`** is what the list is for: who is heard gets on it, and only a
copy silent for more than the limit is taken off. The two threads of the program
do not keep it (`detector_stale`); `SteadyCopyListed` is what they keep. It says
nothing of a copy that misses two heartbeats in a row: with such gaps a time
stamp that one thread has left behind can still take the copy off although it
has been heard since.

**`FtpServer`** has per upload the thread of `handleConnection` (`server[u]`),
its speed thread (`speed[u]`), the client's `main` (`client[u]`) and the TCP
connection between them, and one directory for all.

| model | code |
|---|---|
| `dir`, `content` | the `uploads` directory and what its files hold; a file that has been deleted is still written to through a stream that has it open |
| `size`, `sent` | the client's `file_size` and the chunks it has sent, which differ when the file has changed ("change") |
| `received`, `output_file`, `read_status` | `total_bytes_received` and the locals of `handleConnection` |
| `is_data_ended` | the flag `stopTiming()` sets |
| `conn`, `toServer`, `toClient` | the connection and what it carries; `fin` and `rst` are a client that left, `closed` is the server's `socket.close()` |
| `startUpload` ... `finish` | `handleConnection`, cut where another thread can see the difference |
| `Terminate` | `std::terminate` in the destructor of the joinable `speed_check_thread`, or the end of `main()` after a failed accept |
| `closeSocket` | `socket.close()`: with data unread it resets the connection, and the client may lose what it has not read |
| `speedCheck`, `printSpeedInfo` | `ClientInfo`: the timer is set until the flag is seen |
| `connect` ... `awaitStatus`, `Leave` | the client, which may be killed at any point |

Data is counted in chunks of 8192 bytes, and each chunk carries only whose it
is. A chunk is in the file once it is written (a short last chunk waits in the
stream's buffer until `close()`, which comes before any answer). `sendStatus`
writes the status and sets the flag in one step: the speed thread looking in
between only sets its timer once more, as it does when it looks just before.

Before it connects a client may be refused by its own checks of the file
(`refuse`: it cannot be opened, its name is too long, it is too big), and
`connect` fails when there is no server.

**`SpeedMeter`** is one upload's `ClientInfo` seen closer: the counter
`current_bytes_received` that the upload's thread adds to (`load`, `store`) and
the speed thread prints and empties (`printSpeedInfo`, `report`, `reset`), each
load and store a step of its own, and the flag `is_data_ended`. The counter
starts with whatever the memory held (`Garbage`), since the constructor does not
set it. `counted`, `reported` and `overlapped` are history. It stands beside
`FtpServer` and not in it: nothing but the printed numbers depends on the
counter, and the two share only when the timer is set and the flag is seen.

**`Places`** is one query: the main thread, which looks a name up (`getPlaces`),
lets the user choose (`choose`) and waits for both requests (`combine`), and the
two requests on the common pool, `getWeather` and `placesInArea` with one
`describe` per round of its loop.

| model | code |
|---|---|
| `count`, `coords` | the hits that were printed; the map from their numbers to coordinates |
| `chosen` | `finalChosenPlace` |
| `weather`, `area` | the two `CompletableFuture`s |
| `features`, `named` | the answer about the places around: how many, and which have a name |
| `descriptions`, `places` | what was found out about each, and the list that is built |
| `main` | where the main thread is, or that it has answered, or thrown |

**`Upload`** is the promise to a client: until it is told, its upload may do
anything to the file of its name; when it is told Success its file is there,
when Failure there is none, and after that the upload leaves the directory
alone.

`MCSocks5Proxy`, `MCSelfDetector` and `MCFtpServer` add the symmetry sets, the
last also the two ways to name the files: all different (`Distinct`), all the
same (`OneName`).

## 4. Runs

| run | states | shows |
|---|---|---|
| `proxy_any_order` | 361 k | two clients that may send anything, more than a buffer holds included, handlers in any order, either end resets and handlers throw: types; pool and acceptor stay sound; SUCCESS means connected; no end of an open session goes unheard (`NoneUnheard`) |
| `proxy_sessions` | 265 k | two returning clients and failing accepts: an operation waits on its own client's socket (`SessionOwnership`); an open session has one operation, or one per buffer (`OneOperationPerBuffer`); a late handler can cut off another client, but only one whose greeting has not been looked at (`OnlyGreetingCut`); the proxy implements `Socks5Session` |
| `proxy_relay` | 85 k | the bytes of a returning client and its remotes, reads and writes in pieces: no read of the relay leaves the buffer (`TypeOKData`); what is read and not handed on is the rest of the last read (`BytesAccounted`); the proxy implements `Stream`; what an end sent before it left is handed on before the session is dropped; what is sent is handed on; a client in the backlog is accepted; what has left is let go of |
| `proxy_reply` | violation | an unlisted connect error is answered SUCCESS (`proxy_server.cpp:179`) |
| `detector_threads` | 745 k | two threads, failed receives and sends, races, handlers as late as they may be: types; one receive; one chain of checks and one more per failed receive |
| `detector_list` | 1.9 M | two threads, two copies, heartbeats lost and late, prompt handlers: a silent copy with a time stamp is off the list within eight seconds; one that for more than four seconds has missed no two heartbeats in a row is on it |
| `detector_stale` | violation | two threads: a copy is removed as inactive just after it was heard (`multicast_receiver.cpp:84-94`) |
| `ftp_promise` | 190 k | different names; clients leave, reset, send too much or too little; accepts, directories and opens fail: types; the server implements `Upload` |
| `ftp_ends` | 192 k | clients that stop anywhere, leave, reset, send too much or too little, and a full disk: only who leaves ends the server; a client that goes on is answered unless its file has shrunk; an upload that does not wait for its client ends, with its speed thread |
| `ftp_one_name` | violation | one name, nothing failing: Success for a file that is not what was sent (`ftpv2_server.cpp:52`) |
| `ftp_speed` | 1.3 k | the counter two threads share, load by load: without an overlap every byte is in one report or still to be reported; what was counted does not end unreported |
| `places` | 49 k | every request may fail, in any order of the two threads: only hits are asked about; an answer that is printed has the weather and exactly those of the first places that have a name and a text (`AnswerComplete`); after a choice the program ends |

**The late handler.** `OnlyGreetingCut` is what remains of the isolation of
sessions. The handler of a second operation calls `addConnection` on a
connection that may have been reopened; `is_open()` cannot tell. With one queue
run in order the second handler was posted when the first one closed the
sockets, so it runs before anything the next session can do beyond being
accepted, and that session is still waiting for its greeting. A failing accept
is needed, which takes the connection from the pool at once. `SessionOwnership`,
`OneOperationPerBuffer`, `OnlyGreetingCut`, `SessionsFollowProtocol` and
`StreamsKept` rely on the order of the queue (`Fifo`) and on no remote resetting
its connection; `FlushedAtEnd` relies on the order alone; the pool, the
acceptor, the replies and `NoneUnheard` rely on neither.

**Unheard sessions.** In any order of the handlers `OneOperationPerBuffer` is
false: a session with a domain name ends when its handler returns without
starting anything (`proxy_server.cpp:146-160`), its connection closes only with
the last `shared_ptr` to it, and a late operation of an earlier session may hold
one. `NoneUnheard` says that this is the only exception. It needs more sessions
than `proxy_any_order` has room for, so there the run shows that everything else
is heard; theorem `EverySessionHeard` is about both cases.

**The end that leaves first.** `FlushedAtEnd` is about the direction whose end
is noticed: its data has been handed on. The data of the other direction may be
lost with the session, also when the end that left had only closed its sending
side.

**Overlaps.** `EachByteReportedOnce` allows bytes to be lost, or reported twice,
only after an addition has overlapped a report; that this happens is what the
variable `overlapped` is for, and the code does nothing to prevent it.

**Bounds.** Two clients are needed for one session to disturb another. In
`proxy_sessions` both return, so sessions follow each other without end; in
`proxy_any_order`, which has every input, each connects once, and the second is
still given the connection of the first. `Conns` has one more element than there
can be sessions, for the connection the acceptor holds, and one more again when
accepts fail, since the failed accept's handler still holds the old one: with
fewer, `Fresh` would block the acceptor, with more nothing changes. Three
clients exceed TLC's reach within the minutes a run should take. Each run lists
only the inputs and faults its question is about; together they fire every
action. `proxy_sessions` has no domain names, which only end a session early:
`proxy_any_order` and `proxy_relay` have them. `proxy_relay`, which has
liveness, has one returning client and all inputs: two are beyond TLC's liveness
checker here. `BUF_SIZE = 2`, with reads of `max_length = 2`, is the least that
lets a buffer be filled, half filled, and written in two pieces, `MaxSent = 3`
bytes the least that fill it twice in one direction or use both directions at
once. The detector always has its two threads. `detector_threads` has one copy,
the program itself, and up to two failed receives, each of which adds a chain of
checks; `detector_list` has a second copy, so that one can be chosen for
removal, heard or erased beside the other, and no failed receive (theorem
`SteadyListed` is about them too). Ages go up to 10 s, past the 8 s the longest
property needs. The upload runs use two uploads, the least that can disturb each
other, of files of up to two chunks, so that one can end inside the other's
loop; `Window = 2` chunks in the connection let a client be ahead of the server
and be stopped by it. `ftp_ends` has files of at most one chunk, two when they
grow, a window of one and different names, for the liveness checker: what an
upload waits for does not depend on names. `ftp_speed` counts up to 5 bytes in
reads of 1 or 2, enough for three reports with additions before, in and after
each. `places` has up to 3 hits, and up to 4 places with a limit of 3 (20 in the
code), so that the limit cuts the list and does not.

**Deadlock** is checked except where the system really may stop: in
`proxy_any_order` and `detector_threads` the process may end with an exception,
every upload and its speed thread come to an end (the `ftp_` runs), and so does
a query (`places`). There `ClientAnswered`, `ThreadsEnd`, `EndsWithReport`, and
`ChoiceAnswered` say what they must not stop short of.

**Fairness.** In `RelayedData` (`FairSpec`): `io_ctx.run()` keeps running what
is ready, so the handlers are weakly fair. An operation that can complete does
(`Finish`): writes, connects, reads for which there is data and reads whose far
end has left (`Due`), weakly fair for each direction of a session. Nobody has to
send anything. The acceptor is busy between two accepts and the kernel serves
its backlog in turn, hence strong fairness for `AcceptClientData`. In
`FtpServer` the operating system runs every thread of the server and the speed
threads' timers expire; nothing is assumed of the clients, which may stop
anywhere for ever. `ThreadsEnd` is therefore about uploads that do not wait for
their client any more (`Unhindered`): it is gone, or all of the file has been
read; a thread whose client stops in the middle, without leaving, stays in
`read()` as long as the client does. `ClientAnswered` assumes of one client at a
time that its program goes on, and excepts the client whose file has shrunk
since its size was sent: it waits for the answer and the server for the rest of
the file (`ftpv2_client/src/backend/main.cpp:67`). In `Places` every request
comes to an end, since the HTTP client has timeouts; the user need not answer.

## 5. Proofs

`Socks5ProxyProofs` proves for every set of clients, connections, hosts, inputs,
errors and faults, and for every order of the queue:

* `TypeCorrect`: `Spec => []TypeOK`;
* `PoolIsSound`: `Spec => []PoolSound`;
* `AlwaysAccepting`: `Spec => []AcceptArmed`.

They rest on `ConstantsAssumption` alone and on one inductive invariant, `IInv
== TypeOK /\ PoolSound /\ AcceptArmed /\ Stopped` (theorem `Inductive`). None of
the parts is inductive alone: the pool stays sound because no accept opens a
connection that is in it, and the acceptor's connection stays closed because the
pool hands out closed, distinct ones; both need that nothing runs once the
process has ended (`Stopped`). The argument goes by lemma: what consuming an
entry and posting the aborted operations does to the queue
(`RemoveAtProperties`, `BeginEffect`), that a handler of a session leaves the
accept in flight alone (`AcceptKept`) and the accept's handler hands on to its
successor (`AcceptHandedOn`), what `addConnection` and `getConnection` preserve,
and then one lemma per handler.

`Socks5ReplyProofs` goes on from there, in any order of the handlers and with
any faults:

* `RepliesAreTrue`: `Spec => []SuccessMeansConnected`, if connects fail only
  with errors `getConnectionError` lists (`ErrorsListed`); run `proxy_reply`
  shows what happens otherwise;
* `NoneInTheWay`: a session has one operation in flight, or one for each
  direction of its relay.

The first needs the second. A reply is right if nothing touches the remote
socket between the connect and the end of the reply's write, and what could do
so is only another operation of the same session. The invariant is `SInv`
(theorem `InductiveReplies`): besides the two properties, what the results of
connects and accepts in the queue look like (`Answered`, `Greeted`), that only
the accept is of no client (`Owned`), and that a client still in the backlog has
nothing in flight (`Backlog`). Each handler takes one entry from the queue and
starts one operation of the same session, or one for each direction, so that
what is left in flight is apart from what is new; the aborted operations that
`Begin` posts were in flight before and keep being apart (`BeginOrigin`).

`SelfDetectorProofs` proves, for any finite set of threads, any copies, any
bound on failed receives and any faults:

* `TypeCorrect`: `Spec => []TypeOK`;
* `ChainKept`: `Spec => []CheckChain`;
* `ReceiveKept`: `Spec => []OneReceive`.

The invariant is `IInv == TypeOK /\ CheckChain /\ OneReceive /\ ErrorsLeft`
(theorem `Invariance`). `OneReceive` is needed for the chain and for itself: the
end of the receive handler starts a receive, which is right only because the
handler's thread being counted means that there is none. `ErrorsLeft` (a failed
receive that is not handled yet is within the bound) is what keeps `errors` in
its type. Both counts are sizes of sets of threads, so the argument is about
numbers: `Moves` says what a thread going from one step to another does to such
a size, `MoveIInv` and `StayIInv` reduce each action to two sums, and one lemma
per action shows that they balance.

The module goes on with what the list promises:

* `SilentRemoved`: `Spec => []SilentCopyRemoved`;
* `SteadyListed`: `Spec => []SteadyCopyListed`,

both with any number of threads and any copies, for handlers that run within
their second (`Prompt`), the first as long as no receive has failed. Run
`detector_stale` shows what the list does not promise: a copy may be off it just
after it was heard.

The first adds the clock to the chain of checks. Its invariant, `DInv`, holds
while no receive has failed (`Punctual`): the time left until the next check,
added to how long a listed copy has been silent, stays within two intervals
(`TimeLeft`), a check chooses whatever is over the limit (`ChosenAll`), and no
thread writes a time stamp older than the second it was heard in (`JustHeard`,
`StampsNoNewer`).

The second is about how long a mistake lasts. Its invariant, `VInv`, bounds
`steady` by the time since the copy was heard: for a copy whose stamp is over the
limit, for one that a check has chosen and for one that is not listed
(`OldUnsteady`, `ChosenUnsteady`, `UnlistedUnsteady`). A steady copy is heard
within two heartbeats (`SteadyHeard`), and being heard lists it. What could go
wrong is its stamp: one that is kept because it is there must be recent, also
when the copy is not listed (`UnlistedRecent`, `KeptRecent`), and one that has
been written may be older than what was heard only by the heartbeats the copy
may miss, unless it is steady only since then (`StampsRecent`). No count of
threads or of checks enters into it.

`FtpServerProofs` proves, for any uploads, names and sizes:

* `TypeCorrect`: `Spec => []TypeOK`, with any faults;
* `LeaversEndIt`: `Spec => []OnlyLeaversEndIt`, if accepts and opens succeed and
  no name has a newline; with those faults the server may end without anybody
  leaving.

The invariant, `IInv`, is the protocol of one upload: what is on its way to a
client is what the client waits for, how far the server's thread is, and which
end has closed the connection (`Expected`, `InStep`, `Closed`). It says that a
connection fails under the server only when its client has left, or has been
answered and has ended, and then the server only joins its speed thread.
Uploads of one name disturb each other's files but not this.

* `PromiseKept`: `Spec => UploadsKeepPromise`, if no two uploads have one name
  (`OneEach`) and writes to the disk succeed: the server implements `Upload`.

The invariant, `PInv`, adds what each upload has left in the directory (`Own`):
a file that is its own and holds exactly the chunks it has counted, no file
before it has opened one or after it has failed, and the whole file once the
status is Success. No upload's step disturbs what is `Own` to another, and every
step maps to one of `Upload` or leaves the mapped state alone. Run
`ftp_one_name` shows what a shared name does; a full disk lets Success be told
for a file that is not all there, since no write is checked.

`SpeedMeterProofs` proves, for reads of any size and any first value:
`TypeCorrect`, `ReportedOnce` (`[]EachByteReportedOnce`) and `ReportsBeforeEnd`
(`EndsWithReport`). The invariant adds that an addition and a report that have
not overlapped take turns, and that nothing is lost before the first report.

`PlacesProofs` proves, for any number of hits and places: `TypeCorrect`,
`OnlyHitsRequested` (`[]RequestsAboutHits`) and `AnswerIsComplete`
(`[]AnswerComplete`). The invariant adds which requests there are in which phase
of the main thread, and that the coordinates of all hits are known before one
can be chosen. For the answer there are two more parts: the list so far is that
of the places asked about so far, in their order (`AsFound`), to which a round
adds one place or none; and a list that is ready is that of all rounds, with
nothing printed before both results are there (`Ready`). The rounds are those of
the first `MAX_PLACES_COUNT` places because they are as many as there are places
or the limit allows, whichever is less.

`Socks5OwnerProofs` is about two sessions on one connection. In any order of the
handlers and with any faults:

* `EverySessionHeard`: `Spec => []NoneUnheard`.

Its invariant is `HInv` (theorem `InductiveOwners`): an open connection is open
to a connected client and no client has two, the client of a posted accept has
none yet, the operations of an open session are on its own connection, and it
has the operations its stage calls for, unless only another session's operation
is left on its connection (`Heard`). With the order of the queue and no reset
(`Ordered`) there is more:

* `OwnersHold`: `Spec => []SessionOwnership`;
* `BuffersUsedOnce`: `Spec => []OneOperationPerBuffer`;
* `CutsOnlyGreetings`: `Spec => OnlyGreetingCut`.

They rest on `QInv` (theorem `InductiveOrder`), which describes the place of a
late handler in the queue. What waits on a socket is of the client whose
connection it uses (`PendingOwned`); a posted operation whose session has lost
its connection is a `Leftover`: the connection is still closed and the entry is
ahead of any accept that could reopen it, or it is open to a client whose
greeting is behind the entry in the queue. Taking the first entry moves all the
others one place ahead and adds what is new behind them, so that "ahead" and
"behind" are kept; that is where `Fifo` is used. The excluded reset is used
after the connection was given back: `shutdown()` throws on the remote socket
that was reset, `close()` is not reached, and an operation of the session goes
on waiting there (`proxy_server.cpp:235-239`).

`RelayedDataProofs` is about the bytes, for buffers of any size and any number
of bytes sent:

* `ReadsAndWritesTakeTurns`: `FairSpec => []BytesAccounted`, in any order of the
  handlers and with any faults;
* `NothingLeftBehind`: `FairSpec => FlushedAtEnd`, if the queue is first in,
  first out;
* `RelayImplementsStream`: `FairSpec => StreamsKept`, if besides nobody resets a
  connection.

Since the steps of `RelayedData` are those of `Socks5Proxy`, the invariants
above hold of it too (`DataOfProxy`), and a handler is either an exception or
takes one entry and starts operations that follow it (`Steps`). `DInv` (theorem
`InductiveBytes`) is what a session's counts have to do with its operations:
what was handed on is what was taken but for the rest of the last read
(`Counted`), who is about to read has nothing left to write (`Settled`), and a
session that does not relay yet has had no byte read or sent. `CInv` (theorem
`InductiveContents`) adds the contents: what was handed on is numbered in order,
and a buffer whose connection is open to the session holds the bytes that come
next (`BuffersHold`). No other session writes into that buffer, because an
operation that waits on a socket is of the client that it is open to: this is
`PendingOwned` of `QInv`, and why `StreamsKept` needs the order of the queue.

Only model-checked:

* `SessionsFollowProtocol`: the step simulation has not been done yet (section
  2); `OwnersHold`, `BuffersUsedOnce` and `CutsOnlyGreetings` are the invariants
  it needs.
* Liveness, everywhere (`Relayed`, `BacklogServed`, `GoneClientDropped`,
  `GoneRemoteHeard`, `ClientAnswered`, `ThreadsEnd`, `ChoiceAnswered`): out of
  the prover's reach.

The findings (`proxy_reply`, `detector_stale`, `ftp_one_name`) are refuted by
TLC, each with a shortest run of the model.

## 6. Not modelled

* Half-closing: an end that closes only its sending side is not told from one
  that leaves. The handler treats the two alike; what the end would still have
  received is lost.
* The reads of the handshake that ask for more than `to_server_buf` holds (a
  greeting with 128 methods or more, `proxy_server.cpp:40`, and a name whose
  length has a byte that was never set, `:126`): what they write past the end of
  the buffer is modelled as changing nothing that is used, or as the end of the
  process, and not as what else an overrun of `to_client_buf` and the memory
  behind it may do. `TypeOKData` is about the reads of the relay only.
* The text of messages, logs and lists, and `convertSpeed`, which chooses the
  unit a speed is printed in.
* `BIND`, `UDP_ASSOCIATE`, IPv6: the proxy has constants for them and no code.
* `FTPv2Server::handleReading`, which nothing calls.
* The command lines and `checkProxyPort`.
* Corruption of memory after a data race, beyond the process ending, and
  a torn load or store of the shared counter.
* The times and averages in the reports of `SpeedMeter`: what a report divides
  by is not modelled, only what it counts.
* Build files and generated files: nothing to model.
