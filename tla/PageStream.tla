----------------------------- MODULE PageStream -----------------------------
(***************************************************************************)
(* A streamed store: PageSender on the client, PageReceiver in the daemon   *)
(* (page-stream.cc), the data channel between them, and the digest and the  *)
(* reply that end it (FileClient::storeThrough, Service::storeAtOffset).    *)
(*                                                                          *)
(* Page i of the stream is the number i.  The sender reads ahead into pages *)
(* of its pool (Prefetch) and ships them in order (InFlight); the receiver  *)
(* posts a receive for each page in order (Receiving) and writes out what   *)
(* landed (Writes).  Each end holds its pages until it pops the entry, so   *)
(* how far it may run ahead is bounded by its pool as well as by the        *)
(* channel.  An action is one run of one coroutine between suspensions, one *)
(* completion of the kernel's, or one step of the network.                  *)
(***************************************************************************)
EXTENDS Naturals, Sequences

CONSTANTS
  Pools,         \* the page counts a channel may be opened with
  MaxLength,     \* the longest stream, in pages
  MaxInFlight,   \* DataChannelTraits::MaxInFlight
  UringDepth,    \* Uring::depth()
  SocketFrames,  \* frames the two socket buffers hold (TCP)
  Owned,         \* the sets of pages a source or sink may have memory of its own for
  MaxFaults      \* bound: failures of the disks, the fabric and the link

ASSUME PoolsAreCounts == Pools \subseteq Nat \ {0}
ASSUME LimitsArePositive == MaxInFlight \in Nat \ {0} /\ UringDepth \in Nat \ {0}
ASSUME BoundsAreNaturals == MaxLength \in Nat /\ SocketFrames \in Nat /\ MaxFaults \in Nat

VARIABLES
  job,         \* fixed when the stream starts
  tx, Cursor, Prefetch, InFlight, txFree,   \* PageSender, and its pool's FreeList
  failure, leftUnsent,                      \* Failure, LeftUnsent
  read, send, hashed, sentAs,               \* of each page: its read, its send, what was hashed, what went out
  rx, At, Receiving, Writes, rxFree,        \* PageReceiver, and its pool's FreeList
  unlanded,                                 \* run() returned an error
  recv, write, landed,                      \* of each page: its receive, its write, what was hashed
  wire,        \* the frames in the socket buffers (TCP)
  adapter,     \* the pages the sender's adapter has a work request for (RDMA)
  landing,     \* the pages whose write into the receiver's memory is under way (RDMA)
  slot,        \* the slot of Landing each receive took, which the write names (RDMA)
  down,        \* the ends whose data channel has failed: Failure is not empty
  closed,      \* the session is over for both ends
  digest, reply,                            \* StreamDigest, the last StreamReply
  faults       \* failures so far

sender == <<tx, Cursor, Prefetch, InFlight, txFree, failure, leftUnsent, hashed, sentAs>>
receiver == <<rx, At, Receiving, Writes, rxFree, unlanded, slot>>
fabric == <<wire, adapter, landing, down>>
vars == <<job, sender, read, send, receiver, recv, write, landed, fabric, closed, digest, reply, faults>>

-----------------------------------------------------------------------------
Least(a, b) == IF a < b THEN a ELSE b
Most(a, b) == IF a < b THEN b ELSE a

\* StreamGeometry::forChannel
Window(pages) == Most(1, Least(Least(pages \div 2, pages - 1), MaxInFlight))

\* Read-ahead that forgets the pages in flight.
GreedyReadAhead(pages) == Most(1, Least(pages, UringDepth))

ReadAhead(pages) ==
  Most(1, Least(IF pages > Window(pages) + 1 THEN pages - Window(pages) - 1 ELSE 1, UringDepth))

WriteDepth(pages) == Least(2, ReadAhead(pages))

\* Popping an entry gives its page back, unless the page is the caller's own.
FromPool(i, own) == IF i \in own THEN 0 ELSE 1

Fault == faults < MaxFaults /\ faults' = faults + 1

Jobs ==
  [txPool : Pools, rxPool : Pools, length : 1..MaxLength, rdma : BOOLEAN, own : Owned, home : Owned]

\* Both ends make their pools of the page count the client's hello carries, and
\* only the client's end, source or sink, may have memory of its own.
Init ==
  /\ job \in Jobs /\ job.rxPool = job.txPool /\ (job.own = {} \/ job.home = {})
  /\ tx = "fill" /\ Cursor = 0 /\ Prefetch = << >> /\ InFlight = << >> /\ txFree = job.txPool
  /\ failure = FALSE /\ leftUnsent = FALSE
  /\ read = [i \in 1..job.length |-> "idle"] /\ send = read
  /\ hashed = read /\ sentAs = read
  /\ rx = "store" /\ At = 0 /\ Receiving = << >> /\ Writes = << >> /\ rxFree = job.rxPool
  /\ unlanded = FALSE
  /\ recv = read /\ write = read /\ landed = read
  /\ slot = [i \in 1..job.length |-> i]
  /\ wire = << >> /\ adapter = {} /\ landing = {} /\ down = {}
  /\ closed = FALSE /\ digest = "none" /\ reply = "none" /\ faults = 0

-----------------------------------------------------------------------------
(* PageSender *)

CanFill == Len(Prefetch) < ReadAhead(job.txPool) /\ Cursor < job.length

\* fill: a page the source owns goes as it is; any other waits for a page of the
\* pool and submits its read.  One whose read cannot be submitted is marked and
\* stays in line, to go out as zeros.
Fill ==
  /\ tx = "fill" /\ CanFill
  /\ Cursor' = Cursor + 1
  /\ Prefetch' = Append(Prefetch, Cursor + 1)
  /\ \/ /\ Cursor + 1 \in job.own
        /\ read' = [read EXCEPT ![Cursor + 1] = "data"]
        /\ UNCHANGED <<txFree, failure, faults>>
     \/ /\ Cursor + 1 \notin job.own /\ txFree > 0
        /\ txFree' = txFree - 1
        /\ \/ read' = [read EXCEPT ![Cursor + 1] = "busy"] /\ UNCHANGED <<failure, faults>>
           \/ Fault /\ read' = [read EXCEPT ![Cursor + 1] = "bad"] /\ failure' = TRUE
  /\ UNCHANGED <<job, tx, InFlight, leftUnsent, send, hashed, sentAs, receiver, recv, write, landed, fabric,
                 closed, digest, reply>>

FillEnds ==
  /\ tx = "fill" /\ ~CanFill
  /\ tx' = IF Prefetch = << >> THEN "last" ELSE "drain"
  /\ UNCHANGED <<job, Cursor, Prefetch, InFlight, txFree, failure, leftUnsent, read, send, hashed, sentAs, receiver,
                 recv, write, landed, fabric, closed, digest, reply, faults>>

\* drain(Window) instead of drain(Window - 1).
KeepWindow == IF tx = "drain" THEN Window(job.txPool) ELSE 0

Keep == IF tx = "drain" THEN Window(job.txPool) - 1 ELSE 0

\* drain: the oldest send is joined; one that failed gives the stream up.
Retire ==
  /\ tx \in {"drain", "last"} /\ Len(InFlight) > Keep
  /\ send[Head(InFlight)] \in {"gone", "failed"}
  /\ InFlight' = Tail(InFlight)
  /\ txFree' = txFree + FromPool(Head(InFlight), job.own)
  /\ IF send[Head(InFlight)] = "failed" THEN tx' = "quiesce" /\ leftUnsent' = TRUE ELSE UNCHANGED <<tx, leftUnsent>>
  /\ UNCHANGED <<job, Cursor, Prefetch, failure, read, send, hashed, sentAs, receiver, recv, write, landed, fabric,
                 closed, digest, reply, faults>>

DrainEnds ==
  /\ tx \in {"drain", "last"} /\ Len(InFlight) <= Keep
  /\ tx' = IF tx = "drain" THEN "ship" ELSE "quiesce"
  /\ UNCHANGED <<job, Cursor, Prefetch, InFlight, txFree, failure, leftUnsent, read, send, hashed, sentAs, receiver,
                 recv, write, landed, fabric, closed, digest, reply, faults>>

\* Source.awaitRead: the kernel is done with the page.
Awaited(i) == read[i] # "busy"

\* readOrZero
NoteFailure(i) == failure' = (failure \/ read[i] = "bad")

\* shipReady: the front page's read is awaited, the page hashed and its send
\* started.  What goes out may differ from what was hashed (FlipOneBit).
Ship ==
  /\ tx = "ship" /\ Awaited(Head(Prefetch))
  /\ LET i == Head(Prefetch)
         what == IF read[i] = "bad" THEN "zeros" ELSE read[i]
     IN /\ hashed' = [hashed EXCEPT ![i] = what]
        /\ \/ sentAs' = [sentAs EXCEPT ![i] = what] /\ UNCHANGED faults
           \/ i \notin job.own /\ Fault /\ sentAs' = [sentAs EXCEPT ![i] = "flipped"]
        /\ send' = [send EXCEPT ![i] = "posted"]
        /\ NoteFailure(i)
        /\ InFlight' = Append(InFlight, i)
  /\ Prefetch' = Tail(Prefetch)
  /\ tx' = "fill"
  /\ UNCHANGED <<job, Cursor, txFree, leftUnsent, read, receiver, recv, write, landed, fabric, closed, digest, reply>>

\* shipReady refused (RefuseSendAfterPages), before it looks at the page.
Refuse ==
  /\ tx = "ship" /\ Fault
  /\ tx' = "quiesce" /\ leftUnsent' = TRUE
  /\ UNCHANGED <<job, Cursor, Prefetch, InFlight, txFree, failure, read, send, hashed, sentAs, receiver, recv, write,
                 landed, fabric, closed, digest, reply>>

\* PageSender::quiesce: every send is joined, then every read.
QuiesceTx ==
  /\ tx = "quiesce"
  /\ \/ /\ InFlight # << >> /\ send[Head(InFlight)] \in {"gone", "failed"}
        /\ txFree' = txFree + FromPool(Head(InFlight), job.own)
        /\ InFlight' = Tail(InFlight) /\ UNCHANGED Prefetch
     \/ /\ InFlight = << >> /\ Prefetch # << >> /\ Awaited(Head(Prefetch))
        /\ txFree' = txFree + FromPool(Head(Prefetch), job.own)
        /\ Prefetch' = Tail(Prefetch) /\ UNCHANGED InFlight
  /\ UNCHANGED <<job, tx, Cursor, failure, leftUnsent, read, send, hashed, sentAs, receiver, recv, write, landed, fabric,
                 closed, digest, reply, faults>>

\* A sender that gives up and leaves the session open.
GoQuietly == UNCHANGED closed

\* abandonSend
AbandonSend == closed' = TRUE

\* storeThrough once stream() has returned.  Pages never posted leave the
\* daemon on a receive no control frame reaches, so the client closes (abandon).
SendDigest ==
  /\ tx = "quiesce" /\ InFlight = << >> /\ Prefetch = << >>
  /\ \/ /\ leftUnsent \/ closed
        /\ tx' = "failed" /\ AbandonSend
        /\ digest' = IF closed THEN digest ELSE "error"
     \/ /\ ~leftUnsent /\ ~closed
        /\ tx' = "reply"
        /\ digest' = IF failure THEN "error" ELSE "ok"
        /\ UNCHANGED closed
  /\ UNCHANGED <<job, Cursor, Prefetch, InFlight, txFree, failure, leftUnsent, read, send, hashed, sentAs, receiver, recv,
                 write, landed, fabric, reply, faults>>

\* Done.wait()
TakeReply ==
  /\ tx = "reply" /\ (reply # "none" \/ closed)
  /\ tx' = IF reply = "ok" THEN "ok" ELSE "failed"
  /\ UNCHANGED <<job, Cursor, Prefetch, InFlight, txFree, failure, leftUnsent, read, send, hashed, sentAs, receiver, recv,
                 write, landed, fabric, closed, digest, reply, faults>>

-----------------------------------------------------------------------------
(* PageReceiver *)

KeepReceiving == IF rx = "store" THEN Window(job.rxPool) - 1 ELSE 0
KeepWrites == IF rx = "writes" THEN WriteDepth(job.rxPool) ELSE 0

\* store: the oldest receive is joined and its page handed to the sink, unless
\* it landed in the sink's own memory.
Store ==
  /\ rx \in {"store", "lastStore"} /\ Len(Receiving) > KeepReceiving
  /\ recv[Head(Receiving)] # "posted"
  /\ Receiving' = Tail(Receiving)
  /\ LET i == Head(Receiving)
     IN \/ /\ recv[i] \in {"failed", "refused"}
           /\ rxFree' = rxFree + FromPool(i, job.home)
           /\ rx' = "quiesce" /\ unlanded' = TRUE
           /\ UNCHANGED <<Writes, write, faults>>
        \/ /\ recv[i] = "landed" /\ i \in job.home
           /\ UNCHANGED <<rx, Writes, write, rxFree, unlanded, faults>>
        \/ /\ recv[i] = "landed" /\ i \notin job.home
           /\ \/ /\ Writes' = Append(Writes, i) /\ write' = [write EXCEPT ![i] = "busy"]
                 /\ UNCHANGED <<rx, rxFree, unlanded, faults>>
              \/ /\ Fault /\ rxFree' = rxFree + 1
                 /\ rx' = "quiesce" /\ unlanded' = TRUE
                 /\ UNCHANGED <<Writes, write>>
  /\ UNCHANGED <<job, sender, read, send, At, recv, landed, slot, fabric, closed, digest, reply>>

StoreEnds ==
  /\ rx \in {"store", "lastStore"} /\ Len(Receiving) <= KeepReceiving
  /\ rx' = IF rx = "store" THEN "writes" ELSE "lastWrites"
  /\ UNCHANGED <<job, sender, read, send, At, Receiving, Writes, rxFree, unlanded, recv, write, landed, slot, fabric, closed,
                 digest, reply, faults>>

\* awaitWrites
AwaitWrite ==
  /\ rx \in {"writes", "lastWrites"} /\ Len(Writes) > KeepWrites
  /\ write[Head(Writes)] # "busy"
  /\ Writes' = Tail(Writes) /\ rxFree' = rxFree + 1
  /\ IF write[Head(Writes)] = "bad" THEN rx' = "quiesce" /\ unlanded' = TRUE ELSE UNCHANGED <<rx, unlanded>>
  /\ UNCHANGED <<job, sender, read, send, At, Receiving, recv, write, landed, slot, fabric, closed, digest, reply, faults>>

WritesEnd ==
  /\ rx \in {"writes", "lastWrites"} /\ Len(Writes) <= KeepWrites
  /\ rx' = IF rx = "writes" THEN "post" ELSE "quiesce"
  /\ UNCHANGED <<job, sender, read, send, At, Receiving, Writes, rxFree, unlanded, recv, write, landed, slot, fabric, closed,
                 digest, reply, faults>>

\* takeSlot: one that nothing is outstanding to, or one a failed receive gave back.
SlotsFor(i) ==
  LET having(how) == {slot[k] : k \in {j \in 1..(i - 1) : recv[j] = how}}
  IN  {i} \cup IF job.rdma THEN having("failed") \ having("posted") ELSE {}

\* run: the next page's receive is posted, into the sink's own memory or a page
\* of the pool.  RDMA: one that finds no slot or cannot say where it is fails at
\* once and the peer is offered nothing.
Post ==
  /\ rx = "post"
  /\ At + 1 \in job.home \/ rxFree > 0
  /\ rxFree' = rxFree - FromPool(At + 1, job.home)
  /\ Receiving' = Append(Receiving, At + 1)
  /\ \/ /\ recv' = [recv EXCEPT ![At + 1] = "posted"]
        /\ \E s \in SlotsFor(At + 1) : slot' = [slot EXCEPT ![At + 1] = s]
        /\ UNCHANGED faults
     \/ job.rdma /\ Fault /\ recv' = [recv EXCEPT ![At + 1] = "refused"] /\ UNCHANGED slot
  /\ At' = At + 1
  /\ rx' = IF At + 1 = job.length THEN "lastStore" ELSE "store"
  /\ UNCHANGED <<job, sender, read, send, Writes, unlanded, write, landed, fabric, closed, digest, reply>>

\* PageReceiver::quiesce: every receive is joined, then every write.
QuiesceRx ==
  /\ rx = "quiesce"
  /\ \/ /\ Receiving # << >> /\ recv[Head(Receiving)] # "posted"
        /\ rxFree' = rxFree + FromPool(Head(Receiving), job.home)
        /\ Receiving' = Tail(Receiving) /\ UNCHANGED Writes
     \/ /\ Receiving = << >> /\ Writes # << >> /\ write[Head(Writes)] # "busy"
        /\ rxFree' = rxFree + 1
        /\ Writes' = Tail(Writes) /\ UNCHANGED Receiving
  /\ UNCHANGED <<job, sender, read, send, rx, At, unlanded, recv, write, landed, slot, fabric, closed, digest, reply, faults>>

\* A daemon that leaves the session open behind a failed store.
StayOpen == UNCHANGED closed

\* serve leaves its loop and serveAndClose closes both channels.
EndSession == closed' = TRUE

\* storeAtOffset once land() has returned: a failure is reported and ends the
\* session.
Land ==
  /\ rx = "quiesce" /\ Receiving = << >> /\ Writes = << >>
  /\ IF unlanded THEN rx' = "failed" /\ reply' = "error" /\ EndSession
                 ELSE rx' = "digest" /\ UNCHANGED <<reply, closed>>
  /\ UNCHANGED <<job, sender, read, send, At, Receiving, Writes, rxFree, unlanded, recv, write, landed, slot, fabric, digest,
                 faults>>

\* Only the hashes are compared.
IgnoreVerdict == \A i \in 1..job.length : landed[i] = hashed[i]

\* The sender's word first, then the hash of everything that landed.
Accepts == digest = "ok" /\ \A i \in 1..job.length : landed[i] = hashed[i]

\* Control.expect<StreamDigest>, the comparison, FileWriter::commit, the reply.
TakeDigest ==
  /\ rx = "digest"
  /\ \/ /\ digest # "none"
        /\ \/ Accepts /\ rx' = "ok" /\ reply' = "ok" /\ UNCHANGED faults
           \/ Accepts /\ Fault /\ rx' = "failed" /\ reply' = "error"
           \/ ~Accepts /\ rx' = "failed" /\ reply' = "error" /\ UNCHANGED faults
        /\ UNCHANGED closed
     \/ /\ digest = "none" /\ closed
        /\ rx' = "failed" /\ UNCHANGED <<reply, closed, faults>>
  /\ UNCHANGED <<job, sender, read, send, At, Receiving, Writes, rxFree, unlanded, recv, write, landed, slot, fabric, digest>>

-----------------------------------------------------------------------------
(* The kernels and the channel *)

\* io_uring completes a read: whole, short (the file shrank), or failed.
ReadDone(i) ==
  /\ read[i] = "busy"
  /\ \/ read' = [read EXCEPT ![i] = "data"] /\ UNCHANGED faults
     \/ Fault /\ \E how \in {"short", "bad"} : read' = [read EXCEPT ![i] = how]
  /\ UNCHANGED <<job, sender, send, receiver, recv, write, landed, fabric, closed, digest, reply>>

WriteDone(i) ==
  /\ write[i] = "busy"
  /\ \/ write' = [write EXCEPT ![i] = "good"] /\ UNCHANGED faults
     \/ Fault /\ write' = [write EXCEPT ![i] = "bad"]
  /\ UNCHANGED <<job, sender, read, send, receiver, recv, landed, fabric, closed, digest, reply>>

\* TCP: the sends take turns, and the frame fits the buffers or is being read
\* out of them.
Depart(i) ==
  /\ ~job.rdma /\ send[i] = "posted"
  /\ \A j \in 1..(i - 1) : send[j] # "posted"
  /\ Len(wire) < SocketFrames \/ (wire = << >> /\ recv[i] = "posted" /\ "rx" \notin down)
  /\ send' = [send EXCEPT ![i] = "gone"]
  /\ wire' = Append(wire, i)
  /\ UNCHANGED <<job, sender, read, receiver, recv, write, landed, adapter, landing, down, closed, digest, reply, faults>>

\* TCP: the oldest frame lands in the memory posted for it.  One of another
\* length than the receive's fails the receiver's channel.
Arrive ==
  /\ ~job.rdma /\ wire # << >> /\ "rx" \notin down /\ recv[Head(wire)] = "posted"
  /\ wire' = Tail(wire)
  /\ LET i == Head(wire)
     IN IF sentAs[i] = "short"
        THEN recv' = [recv EXCEPT ![i] = "failed"] /\ down' = down \cup {"rx"} /\ UNCHANGED landed
        ELSE recv' = [recv EXCEPT ![i] = "landed"] /\ landed' = [landed EXCEPT ![i] = sentAs[i]] /\ UNCHANGED down
  /\ UNCHANGED <<job, sender, read, send, receiver, write, adapter, landing, closed, digest, reply, faults>>

\* A send that does not wait for the adapter.
PostAndReturn(i) ==
  /\ job.rdma /\ send[i] = "posted" /\ recv[i] \notin {"idle", "refused"}
  /\ send' = [send EXCEPT ![i] = "gone"]
  /\ adapter' = adapter \cup {i} /\ landing' = landing \cup {i}
  /\ UNCHANGED <<job, sender, read, receiver, recv, write, landed, wire, down, closed, digest, reply, faults>>

\* RDMA: the peer has said where the page goes, and the write is posted to the
\* adapter.  An offer may outlive the receive it was made for.
PostWrite(i) ==
  /\ job.rdma /\ send[i] = "posted" /\ recv[i] \notin {"idle", "refused"}
  /\ send' = [send EXCEPT ![i] = "writing"]
  /\ adapter' = adapter \cup {i} /\ landing' = landing \cup {i}
  /\ UNCHANGED <<job, sender, read, receiver, recv, write, landed, wire, down, closed, digest, reply, faults>>

\* The adapter has finished reading the page.  Nobody is told when the send that
\* posted it has failed since.
WriteCompletes(i) ==
  /\ i \in adapter
  /\ adapter' = adapter \ {i}
  /\ send' = IF send[i] = "writing" THEN [send EXCEPT ![i] = "gone"] ELSE send
  /\ UNCHANGED <<job, sender, read, receiver, recv, write, landed, wire, landing, down, closed, digest, reply, faults>>

\* The write is in the receiver's memory and marks its slot done, for whichever
\* receive has it by now: its own, another's that took it from one that failed,
\* or nobody's.  A short page leaves the rest as it was, and so does another's.
WriteLands(i) ==
  /\ i \in landing
  /\ landing' = landing \ {i}
  /\ LET marked == {j \in 1..job.length : recv[j] = "posted" /\ slot[j] = slot[i]}
     IN /\ recv' = [j \in 1..job.length |-> IF j \in marked THEN "landed" ELSE recv[j]]
        /\ landed' = [j \in 1..job.length |->
                        IF j \notin marked THEN landed[j]
                        ELSE IF j = i /\ sentAs[i] # "short" THEN sentAs[i] ELSE "stale"]
  /\ UNCHANGED <<job, sender, read, send, receiver, write, wire, adapter, down, closed, digest, reply, faults>>

\* An error completion, by itself or because the other end is going: it fails the
\* whole channel of this end.  The page may have been written all the same.
WriteErrs(i) ==
  /\ i \in adapter
  /\ \/ (closed \/ down # {}) /\ UNCHANGED faults
     \/ Fault
  /\ adapter' = adapter \ {i} /\ down' = down \cup {"tx"}
  /\ landing' \in {landing, landing \ {i}}
  /\ UNCHANGED <<job, sender, read, send, receiver, recv, write, landed, wire, closed, digest, reply>>

Sending(i) == send[i] \in {"posted", "writing"}

\* until(), and a write to a socket that is gone: once the session is over or the
\* channel of this end has failed, what is still outstanding fails.  A work
\* request the adapter has, and a write that is under way, stay where they are.
SendFails(i) ==
  /\ Sending(i) /\ (closed \/ "tx" \in down)
  /\ send' = [send EXCEPT ![i] = "failed"]
  /\ UNCHANGED <<job, sender, read, receiver, recv, write, landed, fabric, closed, digest, reply, faults>>

RecvFails(i) ==
  /\ recv[i] = "posted" /\ (closed \/ "rx" \in down)
  /\ recv' = [recv EXCEPT ![i] = "failed"]
  /\ UNCHANGED <<job, sender, read, send, receiver, write, landed, fabric, closed, digest, reply, faults>>

\* RDMA: one send fails with the channel up, before it is posted (no key for the
\* page, ibv_post_send) or in either of its waits (ibv_req_notify_cq).
OneSendErrs(i) ==
  /\ job.rdma /\ Sending(i) /\ Fault
  /\ send' = [send EXCEPT ![i] = "failed"]
  /\ UNCHANGED <<job, sender, read, receiver, recv, write, landed, fabric, closed, digest, reply>>

OneRecvErrs(i) ==
  /\ job.rdma /\ recv[i] = "posted" /\ Fault
  /\ recv' = [recv EXCEPT ![i] = "failed"]
  /\ UNCHANGED <<job, sender, read, send, receiver, write, landed, fabric, closed, digest, reply>>

\* One end's channel fails: its read of the socket, or an error completion.
ChannelFails ==
  /\ Fault
  /\ \E end \in {"tx", "rx"} \ down : down' = down \cup {end}
  /\ UNCHANGED <<job, sender, read, send, receiver, recv, write, landed, wire, adapter, landing, closed, digest, reply>>

LinkLost ==
  /\ ~closed /\ Fault
  /\ closed' = TRUE
  /\ UNCHANGED <<job, sender, read, send, receiver, recv, write, landed, fabric, digest, reply>>

Over == tx \in {"ok", "failed"} /\ rx \in {"ok", "failed"}

Finished == Over /\ UNCHANGED vars

Sender == Fill \/ FillEnds \/ Retire \/ DrainEnds \/ Ship \/ QuiesceTx \/ SendDigest \/ TakeReply
Receiver == Store \/ StoreEnds \/ AwaitWrite \/ WritesEnd \/ Post \/ QuiesceRx \/ Land \/ TakeDigest

Completions ==
  \/ \E i \in 1..job.length :
       \/ ReadDone(i) \/ WriteDone(i) \/ Depart(i) \/ SendFails(i) \/ RecvFails(i)
       \/ recv[i] = "posted" /\ PostWrite(i)
       \/ WriteCompletes(i) \/ WriteLands(i)
  \/ Arrive

\* Nobody owes a write for a receive that has returned: the next offer in the same
\* slot may have replaced its own before the sender looked (offered).
Failures ==
  \/ \E i \in 1..job.length : PostWrite(i) \/ WriteErrs(i) \/ OneSendErrs(i) \/ OneRecvErrs(i)
  \/ ChannelFails \/ LinkLost

Next == Sender \/ Refuse \/ Receiver \/ Completions \/ Failures \/ Finished

Spec == Init /\ [][Next]_vars

\* While a loop has something ready, or a kernel or the fabric something to
\* complete or to fail, one of them goes on.  Nothing is owed a failure.
FairSpec == Spec /\ WF_vars(Sender \/ Receiver \/ Completions)

-----------------------------------------------------------------------------
(* Properties *)

\* Neither end ever waits for a page only it could give back: when fill or run
\* asks the pool for one, one is free, whatever is in flight and being read or
\* written (StreamGeometry::forChannel against acquire()).
NeverWaitsForItself ==
  /\ tx = "fill" /\ CanFill => txFree > 0
  /\ rx = "post" => rxFree > 0

\* The sender never has more sends outstanding than the channel carries at once,
\* nor the receiver more receives (drain(Window - 1), store(Window - 1)).
WithinInFlight == Len(InFlight) <= MaxInFlight /\ Len(Receiving) <= MaxInFlight

\* A store that reports success put every page in the file as the source had it,
\* past failed and short reads, pages sent as zeros, pages corrupted under way
\* and failed writes (readOrZero, matches(), storeAtOffset).
SuccessIsWhole ==
  tx = "ok" => \A i \in 1..job.length : landed[i] = "data" /\ (i \in job.home \/ write[i] = "good")

\* A sender that ends and leaves the session open has sent every page, error
\* paths included, so no receive the daemon posts waits for ever (markFailed,
\* giveUp, abandon).
PostedGetsItsSend ==
  tx \in {"reply", "ok", "failed"} /\ ~closed => \A i \in 1..job.length : send[i] = "gone"

\* When stream() or land() returns, the pool has every page back and nothing of
\* the stream is outstanding (quiesce), up to what until() leaves behind when it
\* fails: the adapter may still read a page whose send failed, and the peer may
\* still write to a page if its receive or an earlier one failed.
AllJoined ==
  /\ tx \in {"reply", "ok", "failed"} =>
       /\ txFree = job.txPool
       /\ \A i \in 1..job.length : read[i] # "busy" /\ ~Sending(i)
       /\ \A i \in adapter : send[i] = "failed"
  /\ rx \in {"digest", "ok", "failed"} =>
       /\ rxFree = job.rxPool
       /\ \A i \in 1..job.length : recv[i] # "posted" /\ write[i] # "busy"
       /\ \A i \in landing : \E j \in 1..i : recv[j] = "failed"

\* A page goes back to the pool only once the adapter has finished reading it
\* (rdma-data-channel.cc:354-355): while it has a request for one, the page's
\* entry is in flight.
PoolAfterAdapter ==
  \A i \in adapter \ job.own : \E k \in 1..Len(InFlight) : InFlight[k] = i

\* Both ends finish, whatever fails on the way.
StreamEnds == <>Over
=============================================================================
