SPECIFICATION LoopSpec
CONSTANTS
  Coros = {c1, c2, c3, c4}
  Pages = {p1, p2, p3}
INVARIANTS QueueIsLive OneAtATime TurnNotLost PagesConserved HandlesLive WakesCoverFreePages
PROPERTIES InArrivalOrder EveryWaiterServed
