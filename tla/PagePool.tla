------------------------------ MODULE PagePool ------------------------------
(***************************************************************************)
(* rail::PagePool (page-pool.h, page-pool.cc): a fixed set of registered    *)
(* pages shared by the coroutines of one loop.  acquire() suspends while    *)
(* no page is free, release wakes one waiter, and a woken waiter looks      *)
(* again because a coroutine that ran in between may have taken the page.   *)
(* A coroutine may be destroyed while it waits or after it was woken.       *)
(***************************************************************************)
EXTENDS Naturals, Sequences, FiniteSets, Lines

CONSTANTS
  Pages,   \* the indices 0..PageCount-1
  Coros    \* the coroutines that acquire from this pool

VARIABLES
  backed,    \* backed(): the constructor got memory for every page
  free,      \* FreeList; which free page is taken makes no difference
  waiters,   \* PagePool::Waiters
  woken,     \* the waiters the loop has been told to resume, oldest first
  waiting,   \* the coroutines suspended in acquire()
  holds,     \* the pages each coroutine has
  dropped    \* ghost: a woken waiter was destroyed while others wait

vars == <<backed, free, waiters, woken, waiting, holds, dropped>>

\* A pool takes its pages one by one and gives them all back if one is refused.
Init ==
  /\ backed \in BOOLEAN
  /\ free = IF backed THEN Pages ELSE {}
  /\ waiters = << >>
  /\ woken = << >>
  /\ waiting = {}
  /\ holds = [c \in Coros |-> {}]
  /\ dropped = FALSE

-----------------------------------------------------------------------------
\* The ghost is about the coroutines that wait now.
Settle(line) == dropped' = (dropped /\ line # << >>)

\* Take one of the free pages.
TakeFree(c, p) ==
  /\ free' = free \ {p}
  /\ holds' = [holds EXCEPT ![c] = @ \cup {p}]

\* acquire() of a pool that was refused memory returns an invalid page at once.
AcquireUnbacked(c) ==
  /\ ~backed
  /\ c \notin waiting
  /\ UNCHANGED vars

\* acquire() that finds a page, ahead of any waiter that has been woken for it.
Acquire(c) ==
  /\ backed
  /\ c \notin waiting
  /\ \E p \in free : TakeFree(c, p)
  /\ UNCHANGED <<backed, waiters, woken, waiting, dropped>>

\* acquire() that suspends: PageAwaiter::await_suspend.
Suspend(c) ==
  /\ backed
  /\ c \notin waiting
  /\ free = {}
  /\ waiters' = Append(waiters, c)
  /\ waiting' = waiting \cup {c}
  /\ UNCHANGED <<backed, free, woken, holds, dropped>>

\* A woken waiter that takes a page without looking whether one is still free.
ResumeWithoutLooking(c) ==
  /\ woken # << >> /\ c = Head(woken)
  /\ woken' = Tail(woken)
  /\ \E p \in IF free = {} THEN Pages ELSE free : TakeFree(c, p)
  /\ waiting' = waiting \ {c}
  /\ UNCHANGED <<backed, waiters, dropped>>

\* The loop resumes a woken waiter, which takes a page or, when none is left,
\* goes to the back of the line: the while of acquire().
Resume(c) ==
  /\ woken # << >> /\ c = Head(woken)
  /\ woken' = Tail(woken)
  /\ IF free = {}
     THEN /\ waiters' = Append(waiters, c)
          /\ UNCHANGED <<free, holds, waiting, dropped>>
     ELSE /\ \E p \in free : TakeFree(c, p)
          /\ waiting' = waiting \ {c}
          /\ UNCHANGED <<waiters, dropped>>
  /\ UNCHANGED backed

\* A release that wakes a waiter only when the pool had run dry.
ReleaseWakingOnce(c) ==
  /\ \E p \in holds[c] :
       /\ free' = free \cup {p}
       /\ holds' = [holds EXCEPT ![c] = @ \ {p}]
  /\ IF waiters = << >> \/ free # {}
     THEN UNCHANGED <<waiters, woken>>
     ELSE /\ waiters' = Tail(waiters)
          /\ woken' = Append(woken, Head(waiters))
  /\ Settle(waiters')
  /\ UNCHANGED <<backed, waiting>>

\* ~Page: releaseIndex pushes the index back and schedules the first waiter.  A
\* coroutine that is suspended or destroyed may have pages to give back too.
Release(c) ==
  /\ \E p \in holds[c] :
       /\ free' = free \cup {p}
       /\ holds' = [holds EXCEPT ![c] = @ \ {p}]
  /\ IF waiters = << >>
     THEN UNCHANGED <<waiters, woken>>
     ELSE /\ waiters' = Tail(waiters)
          /\ woken' = Append(woken, Head(waiters))
  /\ Settle(waiters')
  /\ UNCHANGED <<backed, waiting>>

\* A destroyed waiter that leaves its handle in the line.
LeaveHandleBehind(c) ==
  /\ \E i \in 1..Len(waiters) : waiters[i] = c
  /\ waiting' = waiting \ {c}
  /\ UNCHANGED <<backed, free, waiters, woken, holds, dropped>>

\* ~PageAwaiter of a coroutine destroyed while it waits in line.
AbandonWaiting(c) ==
  /\ \E i \in 1..Len(waiters) : waiters[i] = c /\ waiters' = RemoveAt(waiters, i)
  /\ waiting' = waiting \ {c}
  /\ Settle(waiters')
  /\ UNCHANGED <<backed, free, woken, holds>>

\* A coroutine destroyed after it was woken: Loop::cancel takes it off the ready
\* list and nobody is woken in its place.
AbandonWoken(c) ==
  /\ \E i \in 1..Len(woken) : woken[i] = c /\ woken' = RemoveAt(woken, i)
  /\ waiting' = waiting \ {c}
  /\ dropped' = (waiters # << >>)
  /\ UNCHANGED <<backed, free, waiters, holds>>

Next ==
  \E c \in Coros :
    \/ AcquireUnbacked(c) \/ Acquire(c) \/ Suspend(c) \/ Resume(c) \/ Release(c)
    \/ AbandonWaiting(c) \/ AbandonWoken(c)

Spec == Init /\ [][Next]_vars

-----------------------------------------------------------------------------
(***************************************************************************)
(* Properties                                                               *)
(***************************************************************************)
TypeOK ==
  /\ backed \in BOOLEAN
  /\ free \subseteq Pages
  /\ waiters \in Seq(Coros) /\ woken \in Seq(Coros)
  /\ waiting \subseteq Coros
  /\ holds \in [Coros -> SUBSET Pages]
  /\ dropped \in BOOLEAN

\* A page of a backed pool is free or in the hands of exactly one coroutine: it
\* is never handed out twice and never lost, so the pool that is destroyed after
\* its users has every page back (page-pool.cc:24-31).
PagesConserved ==
  backed => \A p \in Pages :
    /\ p \in free <=> \A c \in Coros : p \notin holds[c]
    /\ \A c, d \in Coros : p \in holds[c] /\ p \in holds[d] => c = d

\* Every handle in the line or on the ready list is a suspended coroutine, in one
\* of the two and once, so a release never resumes a destroyed one
\* (page-pool.h:44-45), and no suspended coroutine is in neither.
HandlesLive ==
  LET all == waiters \o woken IN
  /\ \A i \in 1..Len(all) : all[i] \in waiting
  /\ \A i, j \in 1..Len(all) : all[i] = all[j] => i = j
  /\ \A c \in waiting : \E i \in 1..Len(all) : all[i] = c

\* No waiter is forgotten: while coroutines wait in line, every free page has a
\* woken waiter on its way to it, unless a waiter was destroyed on that way.
WakesCoverFreePages ==
  waiters # << >> /\ ~dropped => Cardinality(free) <= Len(woken)
=============================================================================
