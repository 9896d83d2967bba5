------------------------------- MODULE MCLoop -------------------------------
(***************************************************************************)
(* The two queues the coroutines of one loop wait in, a Turn and a          *)
(* PagePool.  They share the coroutines and no state, so a behaviour is one *)
(* of the Turn or one of the PagePool.                                      *)
(***************************************************************************)
EXTENDS Turn

CONSTANT Pages

VARIABLES
  queue,                                                   \* which of the two this behaviour is of
  backed, free, waiters, woken, suspended, holds, dropped  \* PagePool's

pool == <<backed, free, waiters, woken, suspended, holds, dropped>>

Pool == INSTANCE PagePool WITH waiting <- suspended

LoopInit == queue \in {"turn", "pool"} /\ Init /\ Pool!Init

LoopNext ==
  \/ queue = "turn" /\ Next /\ UNCHANGED <<queue, pool>>
  \/ queue = "pool" /\ Pool!Next /\ UNCHANGED <<queue, vars>>

LoopSpec == LoopInit /\ [][LoopNext]_<<queue, vars, pool>> /\ Fairness

\* No page is handed out twice or lost (page-pool.cc:24-31).
PagesConserved == Pool!PagesConserved

\* A release never resumes a destroyed coroutine, and nobody who waits is off
\* both lists (page-pool.h:44-45).
HandlesLive == Pool!HandlesLive

\* While coroutines wait in line, every free page has a woken waiter on its way.
WakesCoverFreePages == Pool!WakesCoverFreePages
=============================================================================
