# rail: TLA+ models and proofs

rail moves files between machines over TCP or RDMA: a daemon (`raild`) serves a
directory, and a command-line client, a FUSE mount, an NFS re-export and a Linux
kernel client use it. This directory holds TLA+ models of the parts of it whose
correctness depends on ordering: coroutines that wait, wake and are destroyed,
threads that share memory, and the two ends of a streamed transfer.

Paths below are relative to the repository.

## The system

Every serving thread runs one event loop (`src/io/loop.cc`), and everything on
it is a coroutine (`include/rail/io/coro.h`). A coroutine runs without
interruption from one `co_await` to the next, so in all the models **an action
is one run of one coroutine between two suspensions**, together with whatever it
schedules. What makes the code hard is what may happen between two such runs:
another coroutine takes the thing this one was woken for, or this one is
destroyed where it is suspended and its awaiter's destructor has to undo its
wait.

| Part | Source | Module |
|---|---|---|
| One owner at a time, in arrival order | `include/rail/io/turn.h` | `Turn` (abstract: `FifoLock`) |
| Pool of transfer pages, with waiters | `src/page-pool.cc` | `PagePool` |
| Registered memory shared by all threads | `src/memory.cc`, `src/address-space.cc` | `Memory` |
| Blocking calls off the loop | `include/rail/io/offload.h` | `OffLoop` |
| Accepting and handing out connections | `src/file-service.cc`, `include/rail/io/inbox.h` | `Handoff` |
| TCP data channel, receiving side | `src/transport/tcp-data-channel.cc` | `TcpChannel`, `TcpAbandon` |
| Windowed page stream, both ends | `src/stream/page-stream.cc`, ends of `src/file-client.cc` and `src/file-service.cc` | `PageStream` |
| RDMA data channel, io_uring, event loop | `src/transport/rdma-*.cc`, `src/io/uring.cc`, `src/io/loop.cc` | only as the other modules see them |
| Session of the daemon and of the client | `src/file-service.cc`, `src/file-client.cc`, `src/proto/` | only the end of a store |
| Push and receive sessions, delta | `src/session-*.cc`, `src/app/` | not yet |
| Local files (create, commit, abandon) | `src/fs/` | not yet |
| Sessions of a mount; FUSE; NFS | `include/rail/vfs/`, `src/fuse/`, `src/nfs/` | not yet |
| Linux kernel client | `src/linux/` | not yet |
| Tools, CSI driver, tracing, charts, packaging | `tools/`, `csi/`, … | no |

`PROJECT.json` lists every part with its status, the source lines every
definition stands for, the hazards of the code at the line where they bite, and,
for every checked property, a plausible bug (a *mutant* of one definition) that
violates it.

How the parts meet: a stream takes the client's `Turn` and then pages from the
`PagePool`, whose pages are runs of `Memory`. It sends them over a data channel,
where on TCP each frame takes a `Turn`. The daemon's connections come from
`Handoff`, and file system calls that may block go through `OffLoop`.

## Modules

**Turn.** `held` and `waiting` are `Held` and `Waiting`. `phase` is where each
coroutine stands: out, queued (`Queued`), handed the turn but not resumed
(`Handed`), or in. `Enter` and `Queue` are `take()`, `Resume` is
`await_resume`, `Give` is the end of a holder's scope, and `LeaveQueue` and
`PassOn` are the two branches of `~Awaiter`. `FifoLock` is what a Turn promises:
a line whose head owns the lock. `Lines` holds the one operation on a line
that both share.

**PagePool.** `free` is `FreeList`, `waiters` the queue, and `woken` the handles
`release()` has scheduled on the loop. A woken waiter looks again and may find
its page gone. Waiting and woken coroutines may be destroyed. The code gives a
wake of a destroyed coroutine to nobody else, so the next waiter sleeps until
the next `release()`. The variable `dropped` records that this happened, and
`WakesCoverFreePages` is stated up to it.

**Memory.** Threads allocate runs of frames under the map's lock and grow the
memory under the growth lock; each action is what happens under one hold of a
lock, or one step of building a region under the growth lock alone. `attach`
registers every existing region with a new device. A claim of several pages may
fail part way and gives back what it took.

**OffLoop.** A call takes an eventfd (`signal`) from the idle ones or opens
one, posts its job and sleeps. A worker stores the result, marks it landed and
writes to the eventfd, three separate steps. The caller may find the result
before it sleeps, be woken by the write, or be destroyed at any of them.

**Handoff.** The acceptor deals connections in turn to the inboxes of the
serving threads. `Post` and `Ring` are separate because the lock is released
between them. A serving thread runs `ReapAndTake`, `Admit`, sleeps in
`ReapWait` and is woken by its inbox or by a session that ends. Threads may fail
to start, the acceptor may fail, and then every inbox is stopped and every
thread joined.

**TcpChannel.** Many receives share one socket. Each is posted under its key;
one of them reads frames for all. The reader parks when it holds a frame whose
receive has not been posted. The peer sends the frame of each key once, in any
order and possibly of the wrong length; the connection may be lost and the
channel closed. `RecvRefused` is a receive the channel turns away (a length no
frame carries, a key that is posted already), which changes nothing.
`TcpAbandon` adds receives that are destroyed. A buffer being filled is live
in every state of `TcpChannel`; only a destroyed receive breaks that, which is
what the run `tcp_abandon` is for.

**PageStream.** A streamed store: `PageSender` in the client, `PageReceiver` in
the daemon, the channel, and the digest and reply that end it. Page `i` is the
number `i`; a page is "data", "zeros" (its read failed), "short", "flipped" or
"stale", which is what the properties tell apart. `Prefetch`, `InFlight`,
`Receiving` and `Writes` are the deques of the same names; each end has its own
pool. `job` is fixed at the start: the pools, the length, which transport, and
which pages the source or sink has memory of its own for. The client asks for its
own page count in its Hello and the daemon opens its channel with it
(`src/file-client.cc:208,216`, `src/file-service.cc:350`), so both pools have the
same size. Only the client's end may have memory of its own, as the source of a
store or the sink of a fetch (`src/file-client.cc:678,731`); the daemon's sources
and sinks are files.

The channel is `wire`, the frames in the socket buffers (TCP), and `adapter` and
`landing` (RDMA): the pages the sender's adapter has a work request for, and the
pages whose write into the receiver's memory is under way. An RDMA send waits
twice, for the peer's offer (`send` is "posted") and, once `PostWrite` has given
the page to the adapter, for its completion ("writing"). `WriteCompletes` and
`WriteLands` are the two ends of the write; they come in either order. `down` is
the ends whose channel has failed (`Failure`), which is not yet the end of the
session (`closed`): a TCP frame of the wrong length, a read of the socket or an
error completion fails one end, and the session closes when that end gives up.
With the session open and the channel up, one send or one receive may also fail
alone: `OneSendErrs`, `OneRecvErrs`, and the refusals of `Post`. A wait that
fails (`until()`) leaves `adapter` and `landing` as they are: the request is
still posted and the peer may still write. `slot` is the slot of `Landing` each
receive took. A receive that fails gives its slot back at once, so one posted
before the failure is joined may take it (`SlotsFor`), and the late write then
marks the wrong receive done, with whatever its page held ("stale"). Slots that
nothing is outstanding to are interchangeable; the model gives page `i` slot `i`.

Assumed: verification
is on; a stream has its pools to itself (streams are serialised by a Turn, but
other reads of a session may share its pool, which is not modelled); the pool is
backed, because an unbacked one is refused when the session is set up. The
fault-injection switches of the code (flip a bit, refuse a send) are ordinary
faults of the model.

## Runs

Each of these runs checks every reachable state of its instance, deadlock
included.

| Run | Shows |
|---|---|
| `loop_queues` | The turn has one owner, is never lost, passes in arrival order (implements `FifoLock`) and reaches every waiter, whoever is destroyed where. No page is handed out twice or lost, no destroyed waiter is resumed, no waiter is forgotten beside a free page. |
| `memory` | Frames are exclusive, no claim leaks, every region has keys for every device, nobody grows past the ceiling, or on a look that is stale because another thread grew or gave back. |
| `off_loop` | No eventfd is reused while a worker may write to it; every call returns, with its own result. |
| `handoff` | A connection is in one place; none is left in a stopped inbox; ended sessions are reaped; the ceiling holds; the daemon stops. |
| `tcp_channel` | One reader; a buffer being filled is live; no frame is dropped; every receive returns while the channel is open. |
| `page_stream` | A stream never starves itself of pages, stays within the window, reports success only for a whole file, leaves no receive without its send, ends, and joins everything but the work requests of sends and receives that failed. |

`loop_queues` checks `MCLoop`, where a behaviour is one of `Turn` or one of
`PagePool`: the same coroutines, no state in common.

Six runs show the code doing something else than one of its comments or the
ground rules in `CONTRIBUTING.md` says; `PROJECT.json` quotes the line.

| Run | Shows |
|---|---|
| `handoff_share` | The per-thread share is rounded up to one: with fewer affordable sessions than threads their sum passes the ceiling (`src/file-service.cc:1345`). |
| `handoff_stranded` | A thread that fails to start stops its inbox without emptying it (`src/file-service.cc:1257`). |
| `tcp_close` | The reader parked on a frame nobody asked for re-parks after `close()` (`src/transport/tcp-data-channel.cc:181`). |
| `tcp_abandon` | A receive destroyed while another coroutine reads its payload leaves that reader with its buffer (`src/transport/tcp-data-channel.cc:195`). |
| `page_stream_one_page` | A pool of one page, which the tools accept, leaves the stream waiting for its own page (`src/stream/page-stream.cc:22`). |
| `page_stream_adapter` | An RDMA send that fails in its second wait gives its page back while the adapter still has it (`src/transport/rdma-data-channel.cc:356`). |

### Bounds

- `loop_queues`: four coroutines, so that one holds, one is handed or
  woken, one waits and one arrives. Three pages for four coroutines.
- `memory`: two threads, two devices, regions of three frames, a ceiling of two
  regions and requests of up to two frames: a full region, a run that does not
  fit where a smaller one does, and growth by both threads at once.
- `off_loop`: three calls, two eventfds of which one may be kept for reuse, and
  two workers: one descriptor is reused while another call and its worker are
  still active.
- `handoff`: three connections, two threads, a total of two sessions: the third
  is refused, or comes after a session was reaped.
- `tcp_channel`: three keys: a reader, a receive it reads for and an early frame.
- `page_stream`: up to three pages, a window of two, pools of two pages (window
  and read-ahead are one each) and five (window two, read-ahead two), frames in
  the socket buffers one, one failure anywhere: a disk's, one send's or
  receive's, one end's channel's or the link's. One failure at a time because
  each reaches its own error path; the paths out of several are proved to join
  everything (below).

### Fairness

Weak fairness only, and only of what the code or the kernel owes: the loop
resumes what is scheduled; a holder of a Turn ends its frame, message or
transfer; a worker finishes its job; a peer that was asked for a frame sends it
or the connection is lost; reads, writes, sends and receives given to the
kernel or the fabric complete, and fail once their channel has failed or the
session is over. A write for a receive that has already returned is not owed,
because the next offer in its slot may have replaced its own. `PageStream` asks
only that one of its parts goes on while any can: no step of a stream repeats,
so that is enough for both ends to finish. Nothing is fair about destruction, a
first failure, an error completion, a lost link, or the arrival of a new caller.

## Proofs

All are checked by TLAPS with no unproved step.

**`TurnProofs`**, for every set of coroutines, from no assumption.
- `TurnCorrect`: `TypeOK`, `QueueIsLive`, `OneAtATime` and `TurnNotLost` are
  invariants. Their conjunction `TurnInv` is inductive. None is inductive
  alone: that there is one owner after `give()` needs that the head of the queue
  is a queued coroutine, and that a waiter is not left behind needs that `Held`
  and having an owner agree.
- `TurnIsFifo`: a Turn implements `FifoLock` under the mapping *owner, then
  queue*. Every step is a join at the back, the head leaving, a waiter leaving,
  or a stutter. `LineProofs` has the facts about lines that it rests on.

**`PageStreamProofs`**, for every set of pools, window, ring depth, length,
socket capacity and number of failures, from the assumptions on the constants
stated in `PageStream` (pools and limits are positive).
- `StreamNeverStarves`: with pools of two pages or more, `NeverWaitsForItself`.
- `StreamJoinsAll`: `WithinInFlight` and `AllJoined`, for every pool. `AllJoined`
  says that an end that has returned has joined all its reads, sends, receives
  and writes and has every page back, that its adapter still has a page only if
  that page's send failed, and that the peer may still write to a page only if
  its receive or an earlier one failed. It does not say that no adapter
  has a page: `page_stream_adapter` shows that one may.

The argument: `StreamInv` says that a sender's entries are consecutive pages
(`InFlight`, then `Prefetch`, up to `Cursor`), and a receiver's receives
likewise up to `At`; that the pages free in the pool and the entries that are
not the caller's own memory add up to the pool (`TxPages`, `RxPages`); that each
line is within its window (`TxWindows`, `RxWindows`); and that whatever the
kernel still has, or a send or receive still waits for, has an entry (`TxBusy`,
`RxBusy`); that two receives share a slot only after one has failed, and a
posted one shares its slot with no later one (`SlotInv`); and that the adapters
hold only pages whose send waits or has failed and whose receive waits, unless
it or an earlier one has failed (`FabricInv`). The last needs `SlotInv`: without
it a write could mark another page's receive done while nothing had failed. It
also needs that no receive is done before its page's write is posted. The count is
what makes the starvation property provable: an entry may or may not hold a
page of the pool, so the free pages are bounded through the number of entries.
`GeometryFits` is the arithmetic of `StreamGeometry::forChannel`: window and
read-ahead, and window and write depth, fit a pool of two or more. It fails for
one page, which is what `page_stream_one_page` shows.

Only model-checked: all liveness (the prover has no fairness or `ENABLED`
reasoning), `SuccessIsWhole` and `PostedGetsItsSend`, and the properties of
`PagePool`, `Memory`, `OffLoop`, `Handoff` and `TcpChannel`.

## Plan

1. RDMA data channel: the clear-to-send ring, the slots, the table of sends,
   and the rails; shown to give `PageStream` the channel it assumes.
2. Event loop and io_uring: registration, `schedule`, `cancel`, `forget`, the
   submission queue at its limit.
3. The daemon's session and the client's: the dispatch loop, requests and
   replies matched by the pump, pinned handles and their budget, the descriptor
   cache; the fetch direction of `PageStream`.
4. `Remotes`, `Gate`, `Window` and leases of a mount; the streamed read of the
   FUSE mount; the NFS server's request window.
5. Push and receive sessions; `FileWriter` with failures and crashes; the
   differ against a reference definition.
6. The kernel client's TCP and RDMA sessions and its write-back.
7. Proofs: `PagePool` (`PagesConserved`, `HandlesLive`), `OffLoop`
   (`OneCallPerSignal`), `Memory` (`FramesExclusive`, `EveryRegionHasItsKeys`),
   `TcpChannel` (`OneReader`), then `SuccessIsWhole`.

Not planned: encodings (`codec`, XDR), path resolution, option parsing, tracing,
the CSI driver, packaging. They hold little state whose order matters.
