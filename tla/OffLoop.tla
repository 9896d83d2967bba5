------------------------------ MODULE OffLoop -------------------------------
(***************************************************************************)
(* rail::offLoop (io/offload.h): a coroutine hands a blocking call to a     *)
(* worker thread and sleeps on an eventfd until the result has landed.      *)
(* The eventfds are reused, so the question is whether one can be given to  *)
(* a second call while the worker of the first still has its write to do.   *)
(*                                                                          *)
(* The calls of one loop; the workers run beside it, so a worker's store of *)
(* Out, its store of Landed and its write to the eventfd are three steps.   *)
(***************************************************************************)
EXTENDS Naturals, Sequences, FiniteSets

CONSTANTS
  Calls,      \* the calls made on this loop
  Signals,    \* the eventfds the process may have open
  MaxFree,    \* the most idle signals kept, 16 in the code
  Workers,    \* threads of OffLoopPool
  NoSignal

ASSUME MaxFreeIsNat == MaxFree \in Nat
ASSUME WorkersPositive == Workers \in Nat \ {0}
ASSUME NoSignalIsNone == NoSignal \notin Signals

VARIABLES
  free,      \* OffLoopSignals::Free
  ticks,     \* the counter of each eventfd
  signal,    \* State->Signal of each call
  out,       \* State->Out has a value
  landed,    \* State->Landed
  queue,     \* OffLoopPool::Queue
  job,       \* how far the worker is with each call
  pc         \* where the calling coroutine is

vars == <<free, ticks, signal, out, landed, queue, job, pc>>

Init ==
  /\ free = << >>
  /\ ticks = [s \in Signals |-> 0]
  /\ signal = [c \in Calls |-> NoSignal]
  /\ out = [c \in Calls |-> FALSE]
  /\ landed = [c \in Calls |-> FALSE]
  /\ queue = << >>
  /\ job = [c \in Calls |-> "none"]
  /\ pc = [c \in Calls |-> "new"]

\* The job of a call still holds a reference to its signal, and will write to it.
Writing(c) == job[c] \in {"queued", "working", "stored", "landed"}

\* A signal lives while its coroutine, its job or the free list refers to it.
Held(c) == pc[c] \in {"posted", "waiting"} \/ Writing(c)
Idle == {free[i] : i \in 1..Len(free)}
Open == Idle \cup {signal[c] : c \in {d \in Calls : Held(d)}}

-----------------------------------------------------------------------------
(***************************************************************************)
(* The calling coroutine                                                    *)
(***************************************************************************)
\* The job is posted with the signal that OffLoopSignals::take returned.
Begin(c, s) ==
  /\ signal' = [signal EXCEPT ![c] = s]
  /\ queue' = Append(queue, c)
  /\ job' = [job EXCEPT ![c] = "queued"]
  /\ pc' = [pc EXCEPT ![c] = "posted"]
  /\ UNCHANGED <<out, landed>>

CallReusing(c) ==
  /\ pc[c] = "new" /\ free # << >>
  /\ Begin(c, free[Len(free)])
  /\ free' = SubSeq(free, 1, Len(free) - 1)
  /\ UNCHANGED ticks

CallOpening(c) ==
  /\ pc[c] = "new" /\ free = << >>
  /\ \E s \in Signals \ Open : Begin(c, s) /\ ticks' = [ticks EXCEPT ![s] = 0]
  /\ UNCHANGED free

\* No descriptor left: the call fails, or runs on the loop, without a worker.
CallWithoutFd(c) ==
  /\ pc[c] = "new" /\ free = << >>
  /\ Signals \subseteq Open
  /\ pc' = [pc EXCEPT ![c] = "refused"]
  /\ UNCHANGED <<free, ticks, signal, out, landed, queue, job>>

\* A call that keeps its signal for reuse whether or not it has read the tick.
FinishReusing(c) ==
  /\ pc' = [pc EXCEPT ![c] = "returned"]
  /\ ticks' = [ticks EXCEPT ![signal[c]] = 0]
  /\ free' = IF Len(free) < MaxFree THEN Append(free, signal[c]) ELSE free
  /\ UNCHANGED <<signal, out, landed, queue, job>>

\* Read the tick: only a signal whose tick was read goes back to the free list,
\* the worker of any other may still have its write to do.
Finish(c) ==
  /\ pc' = [pc EXCEPT ![c] = "returned"]
  /\ ticks' = [ticks EXCEPT ![signal[c]] = 0]
  /\ free' = IF ticks[signal[c]] > 0 /\ Len(free) < MaxFree THEN Append(free, signal[c]) ELSE free
  /\ UNCHANGED <<signal, out, landed, queue, job>>

\* The first look at Landed, before the coroutine suspends.
AlreadyLanded(c) ==
  /\ pc[c] = "posted" /\ landed[c]
  /\ Finish(c)

Suspend(c) ==
  /\ pc[c] = "posted" /\ ~landed[c]
  /\ pc' = [pc EXCEPT ![c] = "waiting"]
  /\ UNCHANGED <<free, ticks, signal, out, landed, queue, job>>

\* The loop finds the eventfd readable.  Without Landed the coroutine waits again.
Wake(c) ==
  /\ pc[c] = "waiting" /\ ticks[signal[c]] > 0
  /\ landed[c]
  /\ Finish(c)

\* A destroyed call that keeps its signal for reuse.
DestroyReusing(c) ==
  /\ pc[c] = "waiting"
  /\ pc' = [pc EXCEPT ![c] = "destroyed"]
  /\ free' = IF Len(free) < MaxFree THEN Append(free, signal[c]) ELSE free
  /\ UNCHANGED <<ticks, signal, out, landed, queue, job>>

\* The coroutine is destroyed while it waits: ~Unwatch forgets the descriptor.
Destroy(c) ==
  /\ pc[c] = "waiting"
  /\ pc' = [pc EXCEPT ![c] = "destroyed"]
  /\ UNCHANGED <<free, ticks, signal, out, landed, queue, job>>

-----------------------------------------------------------------------------
(***************************************************************************)
(* The workers                                                              *)
(***************************************************************************)
\* OffLoopPool::serve: a worker that is free takes the oldest job.
Take(c) ==
  /\ queue # << >> /\ c = Head(queue)
  /\ Cardinality({d \in Calls : job[d] \in {"working", "stored", "landed"}}) < Workers
  /\ queue' = Tail(queue)
  /\ job' = [job EXCEPT ![c] = "working"]
  /\ UNCHANGED <<free, ticks, signal, out, landed, pc>>

\* A worker that reports the call landed as it begins it.
StoreLate(c) ==
  /\ job[c] = "working"
  /\ landed' = [landed EXCEPT ![c] = TRUE]
  /\ job' = [job EXCEPT ![c] = "stored"]
  /\ UNCHANGED <<free, ticks, signal, out, queue, pc>>

Store(c) ==
  /\ job[c] = "working"
  /\ out' = [out EXCEPT ![c] = TRUE]
  /\ job' = [job EXCEPT ![c] = "stored"]
  /\ UNCHANGED <<free, ticks, signal, landed, queue, pc>>

Land(c) ==
  /\ job[c] = "stored"
  /\ landed' = [landed EXCEPT ![c] = TRUE]
  /\ job' = [job EXCEPT ![c] = "landed"]
  /\ UNCHANGED <<free, ticks, signal, out, queue, pc>>

\* A worker that does not write.
EndQuietly(c) ==
  /\ job[c] = "landed"
  /\ job' = [job EXCEPT ![c] = "done"]
  /\ UNCHANGED <<free, ticks, signal, out, landed, queue, pc>>

Write(c) ==
  /\ job[c] = "landed"
  /\ ticks' = [ticks EXCEPT ![signal[c]] = @ + 1]
  /\ job' = [job EXCEPT ![c] = "done"]
  /\ UNCHANGED <<free, signal, out, landed, queue, pc>>

\* Every call has returned and every worker is idle.
Quiet ==
  /\ \A c \in Calls : pc[c] # "new" /\ ~Held(c)
  /\ UNCHANGED vars

OnLoop(c) == AlreadyLanded(c) \/ Suspend(c) \/ Wake(c)
ByWorker(c) == Take(c) \/ Store(c) \/ Land(c) \/ Write(c)

Next ==
  \/ \E c \in Calls : \/ CallReusing(c) \/ CallOpening(c) \/ CallWithoutFd(c)
                      \/ OnLoop(c) \/ Destroy(c) \/ ByWorker(c)
  \/ Quiet

Spec == Init /\ [][Next]_vars

\* The loop runs what is ready and the workers run their jobs to the end.
Fairness == \A c \in Calls : WF_vars(OnLoop(c)) /\ WF_vars(ByWorker(c))

FairSpec == Spec /\ Fairness

-----------------------------------------------------------------------------
(***************************************************************************)
(* Properties                                                               *)
(***************************************************************************)
\* A signal kept for reuse is nobody's: no worker has yet to write it, no call
\* sleeps on it and no tick is left in it (offload.h:70-71 and 155-156).
IdleSignalsAreFree ==
  /\ \A i, j \in 1..Len(free) : free[i] = free[j] => i = j
  /\ \A s \in Idle : ticks[s] = 0 /\ \A c \in Calls : Held(c) => signal[c] # s

\* Two calls never share a signal, so no call is woken by another's worker.
OneCallPerSignal == \A c, d \in Calls : Held(c) /\ Held(d) /\ signal[c] = signal[d] => c = d

\* A call that returns has its result: what it moves out of the slot is there.
ReturnsItsResult == \A c \in Calls : pc[c] = "returned" => out[c]

\* A call that was handed to the workers returns, unless its coroutine is
\* destroyed first.
CallsReturn == \A c \in Calls : pc[c] = "posted" ~> pc[c] \in {"returned", "destroyed"}
=============================================================================
