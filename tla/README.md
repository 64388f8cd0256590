# uvloop in TLA+

A verification project for uvloop, the asyncio event loop on libuv: TLA+
modules translated from `src/uvloop`, TLC configurations that check them on
small instances, and TLAPS proofs for every value of the constants.

`PROJECT.json` is the index: components, runs, mutants (for every property, a
plausible bug of the code that TLC finds with it), the source lines each
definition models, findings, hazards and theorems.

    tlc -workers 2 -config LoopCore.cfg MCLoopCore
    tlapm LoopProofs.tla

## 1. The system

uvloop runs everything in one thread, inside `uv_run`. libuv calls the
callbacks of handles (idle, check, async, timer, stream, poll, process); those
call protocols and futures of the program, which call back into uvloop.
Concurrency is of three kinds: other threads in `call_soon_threadsafe` (and, in
the free-threaded build, the module declares itself compatible); callbacks that
re-enter the object whose method called them; and events of the operating
system, in any order, between the steps of coroutines.

| Component | Module | State | Operations | Hard behaviour | Correct when |
|---|---|---|---|---|---|
| Loop core: `Loop`, `Handle`, idle and async handles | `LoopCore`, `CallSoonQueue` | `_ready`, `_running`, `_stopping`, `_last_error`, `_closed`, idle handle running, async pending | `call_soon`, `call_soon_threadsafe`, `cancel`, `run_forever`, `stop`, `close`; `_on_idle`, `_on_wake`, `_stop` | threads between any two steps, exceptions that cut a batch short, stop and close from callbacks | FIFO, exactly once; no lost wakeup or stop; nothing leaks from run to run |
| Signals | `Signals` | self-pipe, wakeup descriptor, `_signals`, `_signal_handlers` | add, remove, deliver, pause and shutdown | signals at any point, a full pipe, KeyboardInterrupt anywhere, several runs | none lost, none slept over, none made up |
| Poll and `sock_*` | `SockOps` | `_polls`, reading and writing handle, mask, futures, `_io_refs` | add and remove reader and writer, `sock_recv`, `sock_sendall`, `sock_connect` ... | cancellation, replacement, errors, `close()` of the socket or the loop in between | a future waits with a handle and a handle with a future; the socket stays open as long as it is used |
| Connecting | `Connect` | coroutine, waiter, transport, request, `_fileobj` | `create_connection`, `create_unix_connection`, `connect_accepted_socket` | cancellation at each await, order of handles in `_ready`, several addresses | one connection, or an exception and no open transport left |
| Stream transports: `UVStream`, `UVBaseTransport` | `Stream` | `_buffer`, libuv's write queue, `_protocol_paused`, `_closing`, `_conn_lost`, `_closed`, `_eof`, reading | `write`, `writelines`, `write_eof`, `close`, `abort`, `pause_reading`, `resume_reading`, `set_write_buffer_limits`; callbacks of libuv | re-entrant protocols, partial writes, resets, duplicate schedules of `connection_lost` | bytes in order, flushed before a graceful loss; each callback once and where it may be; every pause and every close ends |
| UDP transports | `Datagram` | libuv's send queue, `_protocol_paused`, `_closing`, `_conn_lost`, receiving | `sendto`, receive, `close`, `abort` | the protocol re-enters from every callback, sends complete during and after close | flushed before `connection_lost`, paused only for a reason, every close ends |
| Servers: `Server`, `UVStreamServer` | `Server` | `_servers`, `_waiters`, `_active_count` | listen, accept, close, wait_closed | connections that fail half open | `wait_closed` returns after the last connection |
| Subprocesses: `UVProcess(Transport)` | `Process` | stdio protocols, `_pending_calls`, `_returncode`, `_finished` | spawn, exit, pipe events, replay | exit before stdio is ready | `process_exited`, pipe losses, then `connection_lost`, once each |
| SSL: `SSLProtocol` | `SSLProto` | handshake state, two buffers, two flow-control directions, timers | handshake, read, write, flush, shutdown | peer's EOF and timeouts in every state | legal transitions only; data flushed before close_notify |
| Queued writes of several streams | | `_queued_streams`, `_executing_streams`, the check handle | flush after a batch and in the check phase | callbacks that write to other streams, exceptions in the middle | no stream is left out |
| Timers | | `_timers`, `TimerHandle` | call_later, cancel, fire | cancel in its own callback | fires once, never early, never after cancel |
| The rest | | | DNS, requests, LRU, pseudo sockets, fs events, fork | | conversions, tables and glue |

The hazards, one by one and with their lines, are in `PROJECT.json`.

## 2. Plan

| # | Module | Composes | Abstract specification | Proofs |
|---|---|---|---|---|
| 1 | `LoopCore` (done) | | `CallSoonQueue` (refinement proved) | invariant, all safety properties and the refinement (done, `LoopProofs`) |
| 2 | `Stream` (done) | | a byte stream with a graceful end | invariant and all safety properties, `NoStrandedData` without KeyboardInterrupt (done, `StreamProofs`) |
| 3 | `Process` (done) | pipes, reduced to open and lost | order of a process's callbacks | invariant and all safety properties (done, `ProcessProofs`) |
| 4 | `Server` (done) | transports, reduced to attach and detach | `wait_closed` | invariant and all safety properties (done, `ServerProofs`) |
| 5 | `SSLProto` (done) | over a transport reduced to its contract | the transport contract towards the application | invariant and all safety properties, `FlowResumes` for high-water marks above 0 (done, `SSLProtoProofs`) |
| 6 | `SockOps` (done) | the poll and the coroutines that use it | | invariant and all safety properties (done, `SockOpsProofs`) |
| 7 | `Signals` (done) | CPython's part, external | | invariant and all properties (done, `LoopProofs`) |
| 8 | `Connect` (done) | coroutine, transport, order of `_ready` | | invariant and all safety properties (done, `ConnectProofs`) |
| 9 | `Datagram` (done) | | | invariant and all safety properties (done, `DatagramProofs`) |
| 10 | `QueuedWrites`: the loop's set of streams | the write side of `Stream` | | no stream is stranded without an exception |
| 11 | `Timers`; flow-control defaults, LRU | | reference definitions | bounds |

## 3. The modules

### LoopCore

The loop's thread is a program counter, `phase`, that follows `uv_run` and the
callbacks uvloop hangs on it:

    out -> top -> batch <-> callback -> (flush ->) drained -> unidle -> poll -> io/wake -> top

`batch`, `callback`, `flush`, `drained` and `unidle` are the stations of
`_on_idle`: popping handles, in a handle's callback, in `_exec_queued_writes`,
before and after the test `len(self._ready) == 0`. The last two are apart
because another thread may append between them. `poll` is `uv__io_poll`: it
blocks unless the idle handle runs or `uv_stop` was called (`PollTimeout` is
the only way out without an event). `wake` lies between libuv's clearing of the
async's pending flag and `_on_wake`. `closing`, `clearing` and `teardown` are
`_close()`.

Each other thread is in `call_soon_threadsafe` before or after the closed
test, the append and the send (`ThreadCheck`, `ThreadAppend`, `ThreadSend`):
the deque's append is atomic, the method is not. In a build with the GIL fewer
of these interleavings can happen, so what holds here holds there.

User code runs in `out`, `callback`, `flush` and `io`, and may call `call_soon`,
`stop`, `cancel`, `run_forever` (refused while running) and `close` (refused
while running). It may raise KeyboardInterrupt: from a handle
(`CallbackRaise`), from `resume_writing()` during the flush (`FlushRaise`), or
from another handle's callback (`IORaise`). The last is a callback whose
exceptions end in `Loop._handle_exception`; those of a stream end in
`UVBaseTransport._fatal_error()`, which logs a KeyboardInterrupt like any other
exception and closes the transport, and for the loop they just return
(`IOReturn`). So `run_forever()` does not raise every KeyboardInterrupt of a
run, and no property says that it does.

The handles of `stop()` are members of `StopHandles`: they are in `_ready` like
any other, and calling them is `_stop(None)`.

`scheduled`, `ran` and `mark` are history variables; no guard reads `ran` or
`mark`, and `scheduled` is read only to submit each handle once.

Abstracted: timers and I/O are one callback per poll (`PollIO`); several would
only repeat it. `_close()`'s teardown of polls, timers and handles is one step.
In the free-threaded build a thread that appends while `_close()` iterates over
`_ready` can make the iteration raise; the model lets the walk finish.

### CallSoonQueue

What `call_soon`'s docstring promises: a FIFO queue, each callback called at
most once, one at a time, and never after it was dropped (cancelled, or the loop
closed). `LoopCore!ImplementsQueue` is the refinement, with `order <- scheduled`
and the status of a handle read off `ready`, `ran`, `current` and `cancelled`.

### Stream

One transport from `_init_protocol()` to the closing of its libuv handle. Byte
n is the number n; a byte is in `buf` (`_buffer`), in `uv` (libuv's queue, whose
requests end at the bytes in `reqs`) or in `kernel`.

`stack` is the Python stack reduced to the protocol's callbacks the thread is
in. A handler that calls a callback ends in `Enter(frame)`; what the code does
after the callback returns is the action of that frame (`PauseReturn`,
`ResumeReturn`, `EofCloses`, `MadeReturns`, `LostReturns`). While a frame is
open only user code runs, and user code may call any method of the transport,
which may open another frame. So re-entrancy is interleaving, and the model has
exactly the points of it that the code has.

A direct write and the `uv_write` after it are one choice of how many bytes the
socket takes (`WriteAll`, `WritePart`, `WriteFails`). libuv's side
(`KernelAccept`, `KernelFail`, the order of request callbacks) is external,
modelled from how `stream.pyx` uses it: requests complete in order, a failed
socket fails every later write, and a request's bytes count in
`write_queue_size` until they are sent or its callback is called. In libuv a
completed request's callback usually follows at once; here other handlers may
come between, as they do after a `uv_write` that completes immediately.

`Awaited` says whether `create_connection` awaits the transport (then
`ConnectCancelled` can happen) or a server accepted it (then `uv_accept` may
fail). `Interrupts` says whether `pause_writing` and `resume_writing` may raise
KeyboardInterrupt, which the code re-raises.

Abstracted: `data_received` is a call in which user code runs, which the user's
actions at an empty stack already are; only its raising is an action
(`ReadError`). Writes of no bytes, the contents of exceptions, the wording of
`call_exception_handler`, contexts and extra info are left out.

### Process

A subprocess from `UVProcessTransport.new()` to the last callback of its
protocol, and the task in `__subprocess_run` that awaits its start. `pipes` are
the descriptors given as `subprocess.PIPE`; descriptors that are inherited or
redirected leave no state. `start` says how `UVProcessTransport.new()` ended, and
except for `"spawned"` it has raised, while the transports of the pipes remain:

- `"early"`: something failed between the opening of the pipes and `uv_spawn()`
  (another descriptor, or two loops that race). The child's ends of the pipes
  stay open in `_fds_to_close`, without a child (`ChildsEnds`).
- `"refused"`: `uv_spawn()` failed. The child's ends are closed.
- `"preexec"`: `preexec_fn` raised in a child that was forked. Its process handle
  is closed, so nobody sees its exit.

`NothingLeftBehind` is about what does go away: the child of a coroutine that
was cancelled or failed after a whole start, and the pipes unless the start was
early or somebody else holds their ends. The others are left behind by the code,
and are a hazard in `PROJECT.json` (`process.pyx:73`).

`ready` holds the handles this process has put into `Loop._ready`, `todo` says
how many of them the batch that runs now still has to run: the callbacks of
libuv (`ReadData`, `ReadEof`, `Flushed`, `OnExit`) come only between batches,
and what a batch appends waits for the next, as in `_on_idle`. The start-up is
the code's chain of handles, one action each: `_call_connection_made` of each
pipe (`RunPipeMade`), `gather`'s callback on each waiter (`RunGathers`),
`__stdio_inited` (`RunStdioInited`), `_call_connection_made` of the process
(`RunCallMade`). While the user's `connection_made` runs (`made = "in"`) only
user code and the child act; it ends in `MadeReturns`, `MadeRaises` or
`MadeInterrupted`.

Before that, the calls of the protocol wait in `pending` (`_pending_calls`).
`Replayed` is the loop that replays them, written as its result: the calls in
their order, with `connection_lost` behind the first `pipe_connection_lost` if
`_try_finish` finds the process finished there. A `_try_finish` of an earlier
call cannot find anything, and one of a later call finds `_finished` set.

`Redirections` are the sets of descriptors that may be pipes, and `Written` the
pipes the child may write into. The child and whoever inherited its pipes
write, close their ends and exit at any time; `ChildExits` also stands for a signal. The transport of a pipe is its
state `init`, `open`, `flushing` (closed with data for stdin waiting),
`closing` (its `connection_lost` is scheduled) or `lost`.

Abstracted: the options of `uv_spawn`, fork handlers, what `preexec_fn` writes
into its error pipe, the data (chunk n is the number n),
`pause_writing` and `resume_writing`, which the pipe's protocol hands on
unchanged.

### Server

One `Server`, the handles it listens with and the connections it counts.
`closed` is `_servers is None`, `woken` is `_waiters is None`. A connection is in
the backlog of its handle, in `protocol_factory()` (`accepting`, `inFactory`),
attached and `open`, attached with `connection_lost` scheduled (`ending`),
`gone`, or `refused`; `stuck` is a connection whose `protocol_factory()` raised.
`holding` is what libuv keeps of a handle between the listen callback and
`uv_accept()`: while a connection is held the handle accepts no other.

`protocol_factory()` and `connection_lost()` are frames (`inFactory`,
`inLost`): user code that runs in them may start, close or await the server. A
`uv_accept()` that fails is `FactoryReturns` with the connection `ending` at
once. Left out: resolving and binding in `create_server`, which come before the
`Server` exists, the unlinking of Unix sockets, and SSL, whose handshake lies
behind the transport.

### SSLProto

`SSLProtocol` between a transport and the application, from the handshake to
the application's `connection_lost()`. `state` and `app` are `_state` and
`_app_state`. The methods of this class call the application in the middle of
their work, and the application may call any of them from there, so `todo` is
the Python stack in full: the callbacks the thread is in and, below each, what
the interrupted methods still have to do (`"after_read"`, `"control_app_writing"`,
`"flushed"`, ...). An item at the head of `todo` is executed by the action of
its name; a callback at the head means that user code runs, until `UserReturns`
or `UserRaises`. `Raise` is an exception that unwinds `todo` to whoever catches
it.

The SSL object is its contract: `incoming` holds the records it has yet to
read, `outgoing` what it wrote (`"handshake"`, `"app"`, `"close"`), `busy` says
that it negotiates and takes no data (SSLWantRead in a write, so `backlog`
grows). How many messages a handshake takes is open. `Payload` is what is in `outgoing`
without the last message of the handshake. The transport is its
contract too: `tr` is open, closing, ending (its `connection_lost` is scheduled)
or gone, `tbuf` says that it has unsent data, and it may fail whenever it is
used. `connection_lost()` clears `_write_backlog` but not `_write_buffer_size`,
so an application that sets write limits afterwards may still have
`_control_app_writing` decide on a `pause_writing()`; but `_app_protocol` is None
by then, the call fails and is logged, and the application hears nothing
(`CallApp`).

`Kinds` are the ways to a connection: a server's, a client's, and `start_tls()`,
which skips `connection_made()`. Left out: KeyboardInterrupt and SystemExit in
callbacks, `get_buffer()` returning an empty buffer, extra info.

### SockOps

The operations on a socket that no transport owns, over the one `UVPoll` of its
descriptor. An operation is named by its handle; a `Recv` is `sock_recv`,
`sock_recv_into` or `sock_accept`, which differ in nothing but the system call,
and reading and writing are the directions `"in"` and `"out"` of the same
definitions (`Add`, `StopDir`, `Remove`), as the pairs of methods in `poll.pyx`
are.

`io` is the descriptor in the loop: the entry of `_polls` and whether it is
alive, the two handles, what libuv polls for (`mask`), and the directions whose
registration holds a reference to the socket (`ref`). `event` is the
`__on_uvpoll_event` in progress: it looks at the reading handle, runs it, then
at the writing handle, and what the first did to the poll may concern the
second. `own` says that the poll of the running event is still the one in
`_polls`; a handler that removes the last handle closes it and another may take
its place. A callback of `add_reader()` is code of the program (`phase =
"user"`), and may call anything.

`disciplined` marks programs that use a direction for one operation at a time;
the others are checked too, against the properties that hold for all.
`ErrorsPersist` says that a socket that reported an error stays unusable, as
with TCP; without it an error is reported once. In the first case `EPOLLERR`
finds the operations ended; in the second see section 6. Data is a count of
bytes.

### Signals

Signals in the loop of the main thread. `tripped`, `pipe` and the moment at
which Python handlers run are CPython's and external: the C handler marks the
signal and writes its number to the wakeup descriptor unless the pipe is full,
and the Python handler, `__sighandler`, runs later. `signals` is `_signals`;
`data` and `sigs` are what `_invoke_signals` has in its hands. A signal without
a handler of the loop lets `_handle_signal` check for signals again, where
KeyboardInterrupt may come out (`CheckAgain`) and take what was left
(`abandoned`). A KeyboardInterrupt out of a handler of Python may end the run,
or the program catches it and the loop goes on (`PythonRuns`). `owed` and `late` are history: what has arrived in this run, or
in others, and was not handled since.

### Connect

The coroutines of `loop.pyx` that open a stream transport: the address loop
(`mode = "host"`), a program's socket (`"sock"`) and `connect_accepted_socket`
(`"accepted"`). `ready` is the part of `Loop._ready` that belongs to them, in
order, because the order decides whether `connection_lost()` runs before the
task resumes. `waiter`, `request` and `tr` are per address; `fileobj` says who
owns the program's socket, and `fd` who has its descriptor: libuv, from a
successful `_open()` to the close of the handle, or nobody but the program. A
failed `_open()` leaves it open, and with `sock=` detaches it all the same
(section 6). `Stream` takes over where `connection_made()` has
been called: here the protocol may abort in it (`CallMade`), and a transport
may end at any time after it (`Ends`).

### Datagram

A `UDPTransport` with what it inherits from `UVBaseTransport`. As in `Stream`
the Python stack is the sequence of the protocol's callbacks, and the tail of
the method below each is the action of its return: `_on_sent` goes on after
`error_received()` and after `resume_writing()`, or does not: any exception of
the first, and a KeyboardInterrupt or SystemExit of the second, leaves it at
once (`LeaveOnSent`). If the queue is empty then, nothing comes to resume a
paused protocol or to close a closing transport. `unresumed` and `unclosed`
record just that, and `PausedForAReason` and `CloseCompletes` leave such runs
out. A datagram counts as one byte
towards the water marks. A send with an empty queue goes to the kernel at once
and then runs `_on_sent` inside of `sendto()`. Left out: the lookup and
binding in `create_datagram_endpoint`, addresses, changes of the water marks.

## 4. The runs

| Run | Configuration | Distinct states | What it shows |
|---|---|---|---|
| `loop` | `LoopCore.cfg` | 142,254 | with two callbacks, a `stop()` and two other threads no wakeup or stop is lost; every handle runs, is cancelled or sees the loop return; a stopped loop completes its batch and returns; the loop implements `CallSoonQueue` |
| `stream` | `Stream.cfg` | 76,062 | bytes keep their order, a graceful close flushes, flow control follows the high-water mark, the protocol's callbacks come only where they may, KeyboardInterrupt and a cancelled `create_connection` included |
| `stream_live` | `StreamLive.cfg` | 28,494 | somebody always sends what is buffered; an accepted transport that is closing gets closed and has told the protocol; a paused protocol is resumed |
| `process` | `Process.cfg` | 159,025 | whatever a child does during the start-up, with close(), cancellation and a failing `connection_made`, the protocol hears of each pipe in order and of everything once; an ended process is reported; `close()` ends in `connection_lost`; the child of a failed or cancelled `create_subprocess` is reaped and its pipes end, but for the two starts of section 3 that leave something |
| `server` | `Server.cfg` | 131,780 | `wait_closed()` wakes when the last connection goes, not earlier; every connection is accepted or refused, unless a `protocol_factory()` that raised has blocked its handle |
| `ssl` | `SSLProto.cfg` | 1,675,920 | close_notify goes behind every byte; the application's callbacks keep their order though they close, abort and raise, and end with `connection_lost`; no state waits for the peer without a timeout; flow control never stops for good |
| `sock` | `SockOps.cfg` | 375,676 | a future that is awaited has a polled handle and a handle has a future, whatever is cancelled, replaced or broken off; the socket is open exactly as long as something uses it; a partial `sock_sendall` goes on |
| `signals` | `Signals.cfg` | 37,239 | with a full self-pipe, handlers added and removed, KeyboardInterrupt anywhere and several runs no signal is lost, none is slept over and none made up |
| `datagram` | `Datagram.cfg` | 15,482 | a UDP transport flushes before `connection_lost`, resumes whom it has paused, and gets closed, unless an exception left the last `_on_sent` |
| `connect` | `Connect.cfg` | 269 | whatever the order of cancellation and callbacks a coroutine ends, gives its protocol one connection, and leaves no open transport when it raises, nor a descriptor but one that `_open()` refused |
| `ssl_zero_limit` | `SSLZeroLimit.cfg` | violation | `set_read_buffer_limits(high=0)` pauses reading for good (section 6) |
| `connect_double_close` | `ConnectClose.cfg` | violation | a `connection_made()` that aborts leaves the program's socket with a descriptor that libuv has closed (section 6) |

### Bounds

`LoopCore`: two callbacks and a `stop()` give a batch of several handles with
one appended during it, and every order of stop and error; two threads can be
at different points of `call_soon_threadsafe` at once, one between its append
and its send while the other's send is folded into an earlier wakeup. No
symmetry, which is unsound for liveness. Each handle is submitted once, so a
run is finite except for I/O and repeated runs of the loop, which are not
bounded.

`Stream`: `MaxBytes = 3`, in writes of one to three bytes, puts bytes into the
kernel, libuv's queue and `_buffer` at once. The water marks (1, 0) and (2, 1)
make low zero and non-zero, and switching between them lowers the marks below
what is buffered and raises them above it while paused.

`Process`: one chunk of data, on stdout, so that a pipe has data and a loss to
be put in the wrong order. The processes have no pipe, stdout, stdin with
stdout, or stdout with stderr: with two pipes the second loss may come before,
in or after the replay of the first.

`Server`: two handles, three connections and one waiter: one connection may be
in `protocol_factory()` or `connection_lost()` while another is attached and a
third waits behind a held one. No symmetry, which liveness forbids.

`SSLProto`: one byte from the application and one record from the peer, with
close_notify from either side. A handshake message, the byte and close_notify
make up to three things to keep in order; a record and a close_notify fill
`incoming` above the high-water mark (2, or 1 after `set_read_buffer_limits`).
Each limit is set once, `close()` is called once and one `_do_read` may be
scheduled besides the handshake's own. `Kinds` are `"server"` and `"upgrade"`;
a client has the server's start and the cancellation of the upgrade. Write
limits are not set from inside `pause_writing()` or `resume_writing()`, which
could nest without an end.

`SockOps`: one operation of each kind, so that both directions are in use, a
`recv` and a callback compete for one of them, a `sendall` and a `connect` for
the other. Three bytes over a buffer of two make a send partial at the start
and again in the handler.

`Signals`: SIGINT and another signal, twice each, and a pipe that one byte
fills, so that a signal can come without a byte, during `recv()`, between the
last `recv()` and the copy of `_signals`, and again.

`Connect`: three addresses: one that failed, one in hand, one to come. The
states are few because a coroutine is at one address at a time.

`Datagram`: three sends over a high-water mark of one and a low-water mark of
zero, callbacks two deep, so that a callback sends and is itself inside one;
one datagram or error received, which does nothing but call the program.

`CHECK_DEADLOCK FALSE` everywhere: a closed loop, a closed transport, a process
that has ended, a closed server and a program that submits nothing more may
stop.

### Fairness

`LoopCore`: weak fairness of the loop's thread (callbacks return), weak
fairness of a thread inside `call_soon_threadsafe`, strong fairness of
`PollWake`: `uv__io_poll` reports a readable descriptor in one of the next
polls even if other descriptors are ready in each. Strong fairness of
`FlushReturn`: `resume_writing()` does not raise KeyboardInterrupt in every
iteration for ever, which would skip `uv_stop` each time. Nothing makes user
code submit, stop or close.

`Stream`: protocol callbacks return (weak). The ready handles, the queued
writes, the callbacks of libuv and the socket are strongly fair: each iteration
of `uv_run` comes by all of them, but a protocol that keeps the transport open
after EOF and resumes reading can put its own callbacks in between any number of
times. Fairness of the socket says that the peer reads or the connection fails;
a peer that does neither leaves the transport waiting, in uvloop as in the
model.

`Process`: the batch of handles runs, the protocol's `connection_made` returns
or raises, libuv reports exits and what there is to read, and what was written
to stdin is taken or refused. Nothing is assumed of the child, nor of those who
inherited its pipes.

`Server`: libuv calls the listen callback of a handle that accepts, and the
callbacks return. After a `protocol_factory()` that raised, a handle accepts
nothing more; `KeepsAccepting` leaves out the connections it blocks.

`SockOps`: the loop polls and dispatches (weak), the peer reads (weak); strong
fairness of `Wake`, as each iteration of the loop runs what was queued before
it, however many events come between: that is `HandleRuns` of `LoopCore`. The
peer need not send, so only writers are shown to end.

`Datagram`: callbacks return, scheduled calls run, the kernel takes or refuses
what is queued (weak). `Connect`: the ready handles and the coroutine run, and
the kernel answers each connect request (weak). `Signals` has no liveness run:
`NothingMissed` says of every state that the loop will be woken.

`SSLProto` has no liveness run: `PeerCannotHang` says of each state that the
timer which ends it runs, and `FlowResumes` that an idle loop leaves nobody
waiting, both as invariants.

## 5. What is proved

Each proof module proves `Spec => []IInv` for an inductive `IInv`, and then one
theorem per safety property from it. Each action's preservation is a step of its
own. Where an action is large, lemmas first summarise what every step does to
one group of variables, and the preservation of the conjuncts about that group
rests on the summary alone.

### LoopProofs

Assumption: `HandlesAssumption` (stop handles are handles, `NoHandle` is not
one). No bound on handles or threads, which may be infinite sets.

`NeverSleepsOnWork` is the theorem the component exists for: the poll never
blocks over a non-empty `_ready` unless a wakeup is pending or a thread is about
to send one. It is not inductive. While the batch runs nobody needs a wakeup,
because `_on_idle` looks at `_ready` again; the danger lies between that look,
the stop of the idle handle and the poll. `WakeInv` therefore says for each
`phase` who is responsible for a non-empty queue: the running batch, the idle
handle, the pending async, or a thread after its append and before its send.
`TailInv` and `BatchInv` say which part of `_ready` the current batch will pop
and that only the loop's thread shortens the queue (`PopsAreSafe`,
`BatchIsBounded`); `PhaseInv` and `StopInv` relate `phase` to
`_running`, `_stopping` and libuv's stop flag (`StopIsNoticed`,
`StopIsOrderly`, `RunsAreIndependent`).

`LoopImplementsQueue` is the refinement: every step of the loop is a step of
`CallSoonQueue` or leaves its variables alone. The abstract `Start` takes only
the oldest pending handle (`IsOldest`), which `_on_idle` never tests: it pops the
deque. `TailInv` says that `_ready` is the tail of what was submitted and that
all before it has been dealt with; `QInv` adds that a handle is submitted once
(`HistoryInv`, and `TargetInv` for threads that are about to append one) and that
one callback runs at a time, of a handle that has left the deque (`CurrentInv`).

`Signals` is the other module of a `Loop`. Its `SignalsInit`, `SignalsNext` and
`SignalsSpec` have names of their own, so that `LoopProofs` can extend both.
Assumption: `SignalsAssumption` (SIGINT is one of the signals, the pipe holds at
least one byte). Any set of signals, any number of arrivals.

`SignalsInv` is its invariant. `NothingMissed` speaks of the poll alone. `RunInv` follows a signal of this run
from CPython's mark through `_signals` and `sigs` and says in each place why the
pipe is readable or about to be handled; `PlaceInv` gives `NothingLost`, with
what an exception took out of `_invoke_signals` set apart; `OwedInv` says that
only signals with a handler, or SIGINT, are owed. `NoPhantom` is an account: the
callbacks queued for a signal, with the bytes and marks that may yet become
callbacks, never exceed twice its arrivals (`CountInv`). Two is exact.

### StreamProofs

Assumption: `StreamAssumption` (`MaxBytes` is a natural number, water marks are
pairs `<<high, low>>` with `high >= low`, the flags are Booleans). No bound on the number of
bytes or of requests.

- `StackInv`: `pause_writing` is entered only while not paused and
  `resume_writing` only from the loop, so the protocol's callbacks nest at most
  two deep, with `pause_writing` innermost. Every argument about re-entrancy
  rests on it.
- `PlaceInv`: as long as the socket works, or the failure has not yet reached
  the transport, kernel, libuv's queue and `_buffer` are consecutive intervals
  that add up to what was written (`BytesKeepOrder`). That `write()` may take
  the direct path follows: it tests that the other two places are empty.
- `CountInv` and `FlushInv`: what was accepted before a graceful close
  (`promised`) is behind or in one of the three places, and the graceful
  `connection_lost` is scheduled only when the first two are empty and nothing
  adds to them afterwards (`CloseFlushes`).
- `EofInv`: `uv_shutdown` is requested only when nothing is buffered, and `_eof`
  makes `write()` refuse from then on (`EofBehindData`).
- `MadeInv`, `LostInv`: which of `_protocol_connected`, `_conn_lost`, `_closed`
  and the scheduled calls can hold together; `connection_lost` clears the
  protocol, so duplicates of it are harmless (`LostAtMostOnce`), and a handle is
  closed only by it or by a `_close()` before `connection_made`
  (`AcceptedIsReported`, for `~Awaited`; for `Awaited` the property is false).
- `PausedAboveHighWater` and `ClosingStopsReading` are conjuncts of `IInv`.
- `NoneIsStranded` is proved beside `IInv`, under `~Interrupts`: whoever puts
  data into `_buffer` enters a callback or leaves a flush behind, and a callback
  that returns goes on to queue it. With KeyboardInterrupt out of
  `pause_writing()` it is false, which is why `stream_live` has `Interrupts` off
  (a hazard in `PROJECT.json`, at `stream.pyx:454`).

### ServerProofs

Assumption: `ServerAssumption` (finitely many connections; they are counted).
Any number of handles, which need not be finite, and of waiters.

- `CountIsOpen` is inductive with the types and `FrameInv` (the connection in
  `protocol_factory()` is `accepting`, the one in `connection_lost()` is
  attached). The lemma `Counting` says that a set grows or shrinks by one member
  as its cardinality does; so `_detach` never counts below zero.
- `WakeInv`: `_waiters is None` exactly when the server is closed and
  `_active_count` is zero, and then nobody waits. Each of `close()` and
  `_detach` wakes if it finds the other's condition, so one of them does, and no
  connection attaches later, for `_attach` refuses a closed server.
  `NobodyLeftWaiting` and `WokenWhenIdle` follow.

### SSLProtoProofs

Assumption: `SSLAssumption`. Any number of bytes, records and scheduled reads.
`TypeOK` of this module is stated in parts and leaves out the wire and the
limits, which have invariants of their own (`SentInv`, `LimitsInv`).

The hard part is what may stand on `todo`, the stack of methods that are still
to run, when a callback closes, aborts or raises in the middle of them.

- `HandshakeInv`: in DO_HANDSHAKE the stack is one of a few (`Starting`), and
  afterwards nothing of the handshake is left on any stack.
- `WrappedInv`: in WRAPPED nothing of a shutdown runs, `_do_read` begins on an
  empty stack and `eof_received()` is called right above the `_start_shutdown()`
  that answers it. So an application that has heard of the end is followed by
  the shutdown, whatever its callback does (`Ending`), and an aborted transport
  stays in WRAPPED no longer than until that method.
- `GoneInv`: after the loss the stack is one of a few (`Afterwards`), the state
  is UNWRAPPED and the waiter is answered; `connection_lost()` of the
  application is scheduled or was called, and never both.
- `PeerCannotHang` is inductive with these (`NeverHangs`).

`LivesInOrder` then needs one look at each step: `WhoEnters` lists the methods
that enter a callback, `Readable` says that `_do_read` has an application to
read for, and `GoneInv` leaves `_control_app_writing` as the only one of them that
can run behind the loss, where it calls nobody (`Controlled`).

`FlushesFirst` needs to know where every accepted byte is: `SentInv` says that
what the transport took and what the BIO holds are a prefix of what was
accepted, the backlog being the rest (`Whole`), until something was dropped, and
that close_notify, once written, stands behind all of it (`Finished`).
`ShutInv` says why it can be written only then: `_do_shutdown()` comes onto a
stack only in SHUTDOWN, which `_do_flush()` enters with empty buffers (or
`eof_received()` of a peer that is gone, after which nothing is sent) and
nothing refills, because `write()` refuses outside WRAPPED. Without it the
property is not inductive: an `unwrap` on a stack in WRAPPED would write
close_notify in front of the backlog.

`FlowNeverStops` is proved under `PositiveLimits`: no high-water mark is 0, and
the default is one of the limits. With `high=0` it is false, which is the run
`ssl_zero_limit`. `Waits` names for each thing that can wait (bytes in the BIO,
bytes in the backlog, a paused application, records to read, a paused
transport) the methods of which one must be on the stack, as long as WRAPPED is
`Live`: open, not paused by the application, and without a scheduled
`_do_read()`. An idle stack then leaves nothing to wait but for the transport or
the SSL object. An exception may take methods off the stack, so `Caught` says
that whatever raises is caught by the `_do_read()` that called it, which aborts,
or by the transport, which closes: after either nothing is `Live`.

### ProcessProofs

Assumption: `ProcessAssumption` (the child writes to no stdin, the redirections
are sets of the three descriptors). Any set of redirections and any number of
chunks, so that `_pending_calls` and `_ready` may be of any length.

A call to the protocol is in one of three places: made (`calls`), scheduled in
`Loop._ready` (`ready`) or waiting in `_pending_calls` (`pending`). None of the
three properties is inductive, as each speaks of the first or of the order
alone.

- `ContentInv`: the three places together hold exactly the calls there was a
  reason for: the data read from each pipe, the loss of each that is
  disconnected, `process_exited` once there is a return code, `connection_lost`
  once the process is finished.
- `StartInv`: the chain that starts the transport (a pipe is made, joins the
  gather, stdio is initialised, `connection_made`) is in `_ready` with one link
  at a time, and a pipe ends once.
- `MadeInv`: until `_stdio_ready`, calls wait in `_pending_calls` only; after
  it, in `_ready` only.
- `OrderInv`: of the pairs in `Disorder` (a call and itself, data behind its
  loss or behind later data, `connection_made` behind another call) none stands
  in that order in the three places one after the other (`Ordered`). The same
  holds of `TooLate` (an exit or a loss behind `connection_lost`) where
  `LostIsLastOnceReady` promises it.

With two pipes and an early exit `TooLate` is false, which section 6 describes.
With one pipe it holds for a reason of its own, `Unfinished`: until the process
is finished no exit stands behind the loss of the only pipe, so the replay finds
the process finished at the last pending call or later, and not before.

The replay is one action of the code: `_stdio_initialized` walks
`_pending_calls`, and `connection_lost` enters `_ready` at the first loss that
finds every pipe disconnected. `ReplayStep` rests on lemmas about sequences:
what `\o` holds and how it is ordered (`Joined`, `ApartFacts`), that the head may
go (`Drop`), and that an element may be put in where nothing in front of it or
behind it objects (`Inserted`). `LeastOf` takes the first such loss from
the well-foundedness of the natural numbers, since `SelectInSeq` chooses it.

### ConnectProofs

Assumption: `ConnectAssumption` (a natural number of addresses, at least one).

- `AttemptInv`: only the address in hand has an open transport, none after
  the coroutine has raised, and a connect request is out only for it.
- `SocketInv`: libuv has the descriptor of the program's socket exactly while
  its transport is open, and the coroutine closes it if `_open()` had succeeded.
- `WaiterInv` and `MadeInv`: a waiter is pending only while nobody was told of a
  connection, and its result says whether somebody was.
- `QueueInv`: what each handle in `_ready` may rely on when it runs, and that no
  handle but `connection_lost` is there twice. The call of `connection_made`
  may still be in the queue when its transport is closed; it is the check for
  that which keeps `OneConnection`.

### DatagramProofs

Assumption: `DatagramAssumption` (the marks and bounds are natural numbers, low
is not above high). Any number of datagrams and any depth of the stack.

`QueueInv` says that `connection_lost` is scheduled, and called, only behind the
answers to what was promised, and that later sends have higher numbers.
`StackInv` adds that `PausedForAReason` is inductive with the stack. The lemmas
about `Append` and `Front` say what the frames of the stack are after a push and
a pop.

### SockOpsProofs

Assumption: `SockOpsAssumption` (the kinds of operations are disjoint). Any set of
operations in each direction.

- `PollInv`: what has a handle is polled for, what is polled for holds the
  socket, and a poll that is closed, or not there, polls for nothing.
- `OwnerInv`: what holds the socket is an operation that is not over; so is
  every handle (`Served`, from which `NoStaleHandle`).
- `EventInv`: during an event that reports an error a direction may be polled
  for without a handle, but only one the event has passed; a callback is the
  only handle that runs code of the program.
- `WaitInv`: a careful program has one operation per direction, and its handle
  is the one there. `WatchedOver` is proved under `ErrorsPersist`, without which
  it is false (section 6).

The lemmas `Added`, `Removed` and `Forgotten` say what a poll is after each of
its methods, `Registers`, `Unregisters` and `Moves` what a step made of them does to
the invariant; the actions are cases of these.

TLC has checked the `IInv`s as invariants on the instances of section 4. Some
properties are proved and not run, as they need no instance once proved: the
types, and of `LoopCore` that the loop never blocks after a stop
(`StopNeverBlocks`), that no batch pops an empty queue (`PopLeftSafe`) or runs
what it submitted itself (`NoStarvation`), and that a run leaves nothing to the
next (`CleanBetweenRuns`); `NoReadWhileClosing` of `Stream` and `CountIsOpen` of
`Server`.

## 6. Findings

`ssl_zero_limit`: the docstring of `set_read_buffer_limits` in `sslproto.pyx`
says that a high-water mark of zero pauses reading "whenever the buffer becomes
non-empty", and that reading resumes "once the buffer is empty".
`_control_ssl_reading` tests `size >= high`, so it pauses with an empty buffer,
and since the branch that resumes is an `elif` it waits for a next call, which
only data from the paused transport would make.

`connect_double_close`: the comment in `create_connection(sock=...)` says that
the owner of the socket "must not get a chance to double-close the same FD".
The socket is attached to the transport only after the wait. If
`connection_made()` aborts, `connection_lost()` runs before the task resumes and
closes the descriptor with nothing attached; the coroutine then attaches the
socket to the closed transport and returns, and the socket keeps a number that
libuv has closed.

Disagreements seen on the way, which the properties leave out by name:

- `tr._open(sock.fileno())` fails, for a descriptor that the loop polls already.
  `tr._close()` has no descriptor to close, and `sock.detach()`, whose comment
  speaks of "the already-closed FD", lets go of an open one: it leaks.
  `FailureCleansUp` states this case as it is.
- A task cancelled after `connection_made()` ran but before `create_connection`
  resumed gets its `tr._close()`: the handle is closed and `connection_lost` is
  never called, though `basetransport.pyx` says above `_protocol_connected = 1`
  that it will still be scheduled. `LostIsReported` fails with `Awaited`; it
  holds for accepted transports (`stream_live`).
- If the exit is seen before `connection_made` and there are two pipes,
  `_pending_calls` holds `process_exited` and two pipe losses. In the replay the
  first loss calls `_try_finish`, which sees both pipes disconnected and
  schedules `connection_lost`; the rest of `_pending_calls` follows it.
  `tests/test_process.py` waits for `connection_lost` and then asserts the
  others. `LostIsLastOnceReady` is what does hold.
- `_attach` asserts that the server is not closed. `_on_listen` calls
  `protocol_factory()` before the transport attaches, so a factory that closes
  its server makes the assertion fail; the exception is logged and the
  connection dropped with the listening handle.
- An `add_signal_handler()` that fails resets the wakeup descriptor if no other
  handler is there (`AddUncatchable`). The loop is deaf for the rest of the run,
  to ^C as well, though `_setup_or_resume_signals` set the descriptor for ^C.
- `_sock_recv` returns on BlockingIOError to "wait until the poll handler calls
  this callback again". If the event was libuv's report of `EPOLLERR`, the poll
  is closed as the event ends and calls nobody again: with an error that goes
  away when it is reported (`ErrorsPersist = FALSE`), the future waits for ever.
- `eof_received()` that calls `abort()` while `_do_flush` reads leaves `_do_flush`
  to ask for SHUTDOWN from UNWRAPPED; `_set_state` raises RuntimeError into
  `close()` (`EndFlush`), and the connection ends all the same.
- A `start_tls()` whose connection is reset during the handshake ends in an
  exception without `connection_lost()` of the application's protocol;
  `PeerCannotHang` leaves it out.

## 7. Only model-checked, and not modelled

Liveness is checked by TLC only, TLAPS having no ENABLED: `HandleRuns` and
`StopReturns` of the loop; `CloseCompletes` and `PauseEnds` of a stream;
`LossIsReported`, `CloseEnds` and `NothingLeftBehind` of a process;
`KeepsAccepting` of a server; `WriterEnds` of `SockOps`; `CoroutineEnds` of
`Connect`; `CloseCompletes` of `Datagram`. Every invariant and action property
that a passing run checks is stated by a theorem, four of them under an
assumption that the instance makes too (`WatchedOver`, `FlowNeverStops`,
`NoneIsStranded`, `AcceptedIsReported`).

Not modelled:

- Queued writes of several streams: `Stream` has them for one. The two sets of
  the loop matter when transports write to each other, and the exception that
  clears the executing set is a hazard without a property.
- Timers: one callback and its cancellation, both in the loop's thread.
- The name lookup, and everything before a transport exists in `create_server`
  and `create_datagram_endpoint`; the LRU cache of addresses; pseudo sockets,
  errors and debug helpers; file-system events and the fork handler.
- Memory management (reference counts, deallocation), which a state machine of
  the control does not show.

`PROJECT.json` gives the reason with each component.
