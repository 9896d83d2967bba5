-------------------------------- MODULE Turn --------------------------------
(***************************************************************************)
(* rail::Turn (include/rail/io/turn.h): one coroutine at a time, in arrival *)
(* order.  A client takes one for its streamed transfer, a TCP data channel *)
(* for the frame it writes, a control channel for the message it writes.    *)
(*                                                                          *)
(* Everything runs on one loop, so a coroutine runs from one suspension to  *)
(* the next without interruption and every action below is one such run.    *)
(* What makes it hard is that a coroutine may be destroyed wherever it is   *)
(* suspended: queued, or handed the turn and not resumed yet.               *)
(***************************************************************************)
EXTENDS Naturals, Sequences, Lines

CONSTANT Coros   \* the coroutines that take this turn

VARIABLES
  held,      \* Turn::Held
  waiting,   \* Turn::Waiting, the awaiters in arrival order
  phase      \* where each coroutine stands

vars == <<held, waiting, phase>>

\* "out": not in take() and not holding.  "queued" is Awaiter::Queued, "handed"
\* is Awaiter::Handed (scheduled on the loop, not resumed), "in": past take().
Phases == {"out", "queued", "handed", "in"}

Init ==
  /\ held = FALSE
  /\ waiting = << >>
  /\ phase = [c \in Coros |-> "out"]

-----------------------------------------------------------------------------
\* A give() that frees the turn before it wakes the next waiter.
GiveByFreeing(c) ==
  /\ held' = FALSE
  /\ phase' = IF waiting = << >>
              THEN [phase EXCEPT ![c] = "out"]
              ELSE [phase EXCEPT ![c] = "out", ![Head(waiting)] = "handed"]
  /\ waiting' = IF waiting = << >> THEN << >> ELSE Tail(waiting)

\* give() as called by coroutine c, which is out of the turn afterwards.  With
\* a waiter in the queue Held stays set: ownership passes straight to it.
GiveBy(c) ==
  IF waiting = << >>
  THEN /\ held' = FALSE
       /\ phase' = [phase EXCEPT ![c] = "out"]
       /\ UNCHANGED waiting
  ELSE /\ phase' = [phase EXCEPT ![c] = "out", ![Head(waiting)] = "handed"]
       /\ waiting' = Tail(waiting)
       /\ UNCHANGED held

\* A take() that joins the queue at its front.
TakeFirst(c) ==
  /\ phase[c] = "out"
  /\ held
  /\ waiting' = <<c>> \o waiting
  /\ phase' = [phase EXCEPT ![c] = "queued"]
  /\ UNCHANGED held

\* co_await take(): await_ready lets it straight in, or await_suspend queues it.
Queue(c) ==
  /\ phase[c] = "out"
  /\ held
  /\ waiting' = Append(waiting, c)
  /\ phase' = [phase EXCEPT ![c] = "queued"]
  /\ UNCHANGED held

Enter(c) ==
  /\ phase[c] = "out"
  /\ ~held
  /\ held' = TRUE
  /\ phase' = [phase EXCEPT ![c] = "in"]
  /\ UNCHANGED waiting

\* The loop resumes a coroutine that give() scheduled: await_resume.
Resume(c) ==
  /\ phase[c] = "handed"
  /\ held' = TRUE
  /\ phase' = [phase EXCEPT ![c] = "in"]
  /\ UNCHANGED waiting

\* ~Holding: the holder's scope ends, or its coroutine is destroyed part way.
Give(c) ==
  /\ phase[c] = "in"
  /\ GiveBy(c)

\* A destroyed awaiter that stays in the queue.
StayQueued(c) ==
  /\ phase[c] = "queued"
  /\ phase' = [phase EXCEPT ![c] = "out"]
  /\ UNCHANGED <<held, waiting>>

\* ~Awaiter of a coroutine destroyed while it is queued.
LeaveQueue(c) ==
  /\ phase[c] = "queued"
  /\ \E i \in 1..Len(waiting) : waiting[i] = c /\ waiting' = RemoveAt(waiting, i)
  /\ phase' = [phase EXCEPT ![c] = "out"]
  /\ UNCHANGED held

\* A destroyed awaiter that keeps quiet about the turn it was handed.
DropTurn(c) ==
  /\ phase[c] = "handed"
  /\ phase' = [phase EXCEPT ![c] = "out"]
  /\ UNCHANGED <<held, waiting>>

\* ~Awaiter of a coroutine destroyed after give() handed it the turn and before
\* it resumed.
PassOn(c) ==
  /\ phase[c] = "handed"
  /\ GiveBy(c)

Next ==
  \E c \in Coros :
    Queue(c) \/ Enter(c) \/ Resume(c) \/ Give(c) \/ LeaveQueue(c) \/ PassOn(c)

Spec == Init /\ [][Next]_vars

\* The loop resumes what it has scheduled, and a holder does not keep the turn
\* for ever: each holds it for one frame, one message or one transfer.
Fairness == \A c \in Coros : WF_vars(Resume(c)) /\ WF_vars(Give(c))

FairSpec == Spec /\ Fairness

-----------------------------------------------------------------------------
(***************************************************************************)
(* Properties                                                               *)
(***************************************************************************)
Owns(c) == phase[c] \in {"handed", "in"}

TypeOK ==
  /\ held \in BOOLEAN
  /\ waiting \in Seq(Coros)
  /\ phase \in [Coros -> Phases]

\* The queue holds each queued coroutine once and nothing else, so give() never
\* schedules the handle of a coroutine that has been destroyed (turn.h:42-43).
QueueIsLive ==
  /\ \A i \in 1..Len(waiting) : phase[waiting[i]] = "queued"
  /\ \A i, j \in 1..Len(waiting) : waiting[i] = waiting[j] => i = j
  /\ \A c \in Coros : phase[c] = "queued" => \E i \in 1..Len(waiting) : waiting[i] = c

\* One coroutine at a time (turn.h:11): the turn is owned by at most one, counting
\* a coroutine it was handed to that has not run yet.
OneAtATime == \A c, d \in Coros : Owns(c) /\ Owns(d) => c = d

\* The turn is never lost (turn.h:39-41): Held is set only while some coroutine
\* owns it, and whoever waits waits behind an owner.
TurnNotLost ==
  /\ held <=> \E c \in Coros : Owns(c)
  /\ waiting # << >> => held

\* Everything above, in the form that every step preserves.
TurnInv == TypeOK /\ QueueIsLive /\ OneAtATime /\ TurnNotLost

\* Arrival order, and the turn passed straight to the next waiter (turn.h:11-12):
\* the owner and the queue behind it are the line of FifoLock.
line == IF held THEN <<CHOOSE c \in Coros : Owns(c)>> \o waiting ELSE << >>

Fifo == INSTANCE FifoLock

InArrivalOrder == Fifo!Spec

\* Every coroutine that waits gets its turn unless it is destroyed first, whatever
\* the coroutines ahead of it do, being destroyed with the turn in hand included.
EveryWaiterServed ==
  \A c \in Coros : phase[c] = "queued" ~> phase[c] \in {"in", "out"}
=============================================================================
