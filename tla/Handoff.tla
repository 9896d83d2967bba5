------------------------------ MODULE Handoff -------------------------------
(***************************************************************************)
(* The daemon's threads (file-service.cc, io/inbox.h): one acceptor offers  *)
(* each connection around a ring of inboxes, and each serving thread takes  *)
(* what was posted to its own, admits it up to its share of the sessions,   *)
(* and reaps the sessions that have ended.  A thread may fail at the start, *)
(* and every thread is told to stop once the acceptor has failed.           *)
(*                                                                          *)
(* An action is one lock-protected operation on an inbox, or one run of a   *)
(* coroutine between two of them; eventfds keep only "rung".                *)
(***************************************************************************)
EXTENDS Naturals, Sequences, FiniteSets, SequencesExt

CONSTANTS
  Wanted,    \* number of serving threads, at least 2
  Total,     \* sessionsAffordable
  Clients,   \* connections that arrive
  Nobody

ASSUME WantedIsMany == Wanted \in Nat /\ Wanted >= 2
ASSUME TotalPositive == Total \in Nat \ {0}

Threads == 0..(Wanted - 1)

\* Each thread's share of the sessions.
Allowed == IF Total \div Wanted = 0 THEN 1 ELSE Total \div Wanted

VARIABLES
  coming,     \* connections in the listen queue or yet to come
  turn,       \* acceptInTurn's Next
  tried,      \* its Tried
  conn,       \* the connection it holds, or Nobody
  apc,        \* where the acceptor is
  handed,     \* Inbox::Handed of each thread
  stopping,   \* Inbox::Stopping
  rung,       \* the inbox's eventfd is readable
  pc,         \* where each serving thread is
  arrived,    \* serveInbox's Arrived
  running,    \* Serving::Running, the sessions that have not ended
  ended,      \* those that have ended and are not reaped
  bell,       \* Serving::Doorbell is readable
  closed,     \* connections the daemon has closed
  given,      \* ghost: how many connections each thread was handed
  failed      \* ghost: threads that could not start serving

acceptor == <<coming, turn, tried, conn, apc, given>>
inboxes == <<handed, stopping, rung>>
sessions == <<arrived, running, ended, bell>>
vars == <<acceptor, inboxes, pc, sessions, closed, failed>>

Init ==
  /\ coming = Clients
  /\ turn = 0 /\ tried = 0 /\ conn = Nobody /\ apc = "accept"
  /\ handed = [t \in Threads |-> << >>]
  /\ stopping = [t \in Threads |-> FALSE]
  /\ rung = [t \in Threads |-> FALSE]
  /\ pc = [t \in Threads |-> "start"]
  /\ arrived = [t \in Threads |-> << >>]
  /\ running = [t \in Threads |-> {}]
  /\ ended = [t \in Threads |-> {}]
  /\ bell = [t \in Threads |-> FALSE]
  /\ closed = {}
  /\ given = [t \in Threads |-> 0]
  /\ failed = {}

-----------------------------------------------------------------------------
(***************************************************************************)
(* The acceptor                                                             *)
(***************************************************************************)
Advance == turn' = (turn + 1) % Wanted

Accept ==
  /\ apc = "accept"
  /\ \E c \in coming : conn' = c /\ coming' = coming \ {c}
  /\ tried' = 0
  /\ apc' = "offer"
  /\ UNCHANGED <<turn, given, inboxes, pc, sessions, closed, failed>>

\* accept fails, and the acceptor with it.
AcceptFails ==
  /\ apc = "accept"
  /\ apc' = "stopping"
  /\ tried' = 0
  /\ UNCHANGED <<coming, turn, conn, given, inboxes, pc, sessions, closed, failed>>

\* Inbox::post, under its lock.
Post ==
  /\ apc = "offer" /\ tried < Wanted
  /\ ~stopping[turn]
  /\ handed' = [handed EXCEPT ![turn] = Append(@, conn)]
  /\ given' = [given EXCEPT ![turn] = @ + 1]
  /\ conn' = Nobody
  /\ apc' = "ring"
  /\ UNCHANGED <<coming, turn, tried, stopping, rung, pc, sessions, closed, failed>>

\* A refusal that has consumed the connection.
RefuseAndConsume ==
  /\ apc = "offer" /\ tried < Wanted
  /\ stopping[turn]
  /\ tried' = tried + 1
  /\ conn' = Nobody
  /\ Advance
  /\ UNCHANGED <<coming, apc, given, inboxes, pc, sessions, closed, failed>>

PostRefused ==
  /\ apc = "offer" /\ tried < Wanted
  /\ stopping[turn]
  /\ tried' = tried + 1
  /\ Advance
  /\ UNCHANGED <<coming, conn, apc, given, inboxes, pc, sessions, closed, failed>>

\* An acceptor that stays on the thread it has just handed a client to.
RingAndStay ==
  /\ apc = "ring"
  /\ rung' = [rung EXCEPT ![turn] = TRUE]
  /\ apc' = "accept"
  /\ UNCHANGED <<coming, turn, tried, conn, given, handed, stopping, pc, sessions, closed, failed>>

\* Inbox::ring, after the lock is released; the outer loop then moves on.
Ring ==
  /\ apc = "ring"
  /\ rung' = [rung EXCEPT ![turn] = TRUE]
  /\ Advance
  /\ apc' = "accept"
  /\ UNCHANGED <<coming, tried, conn, given, handed, stopping, pc, sessions, closed, failed>>

\* Every serving thread has stopped; the connection is closed with the coroutine.
NobodyLeft ==
  /\ apc = "offer" /\ tried = Wanted
  /\ closed' = closed \cup {conn}
  /\ conn' = Nobody
  /\ apc' = "stopping"
  /\ tried' = 0
  /\ UNCHANGED <<coming, turn, given, inboxes, pc, sessions, failed>>

\* A stop that does not ring.
StopQuietly ==
  /\ apc = "stopping" /\ tried < Wanted
  /\ stopping' = [stopping EXCEPT ![tried] = TRUE]
  /\ tried' = tried + 1
  /\ UNCHANGED <<coming, turn, conn, apc, given, handed, rung, pc, sessions, closed, failed>>

\* serveFilesThreaded stops each box, then joins the threads.
StopNext ==
  /\ apc = "stopping" /\ tried < Wanted
  /\ stopping' = [stopping EXCEPT ![tried] = TRUE]
  /\ rung' = [rung EXCEPT ![tried] = TRUE]
  /\ tried' = tried + 1
  /\ UNCHANGED <<coming, turn, conn, apc, given, handed, pc, sessions, closed, failed>>

Join ==
  /\ apc = "stopping" /\ tried = Wanted
  /\ \A t \in Threads : pc[t] = "gone"
  /\ apc' = "joined"
  /\ UNCHANGED <<coming, turn, tried, conn, given, inboxes, pc, sessions, closed, failed>>

Joined == apc = "joined" /\ UNCHANGED vars

-----------------------------------------------------------------------------
(***************************************************************************)
(* A serving thread: serveInbox                                             *)
(***************************************************************************)
Start(t) ==
  /\ pc[t] = "start"
  /\ pc' = [pc EXCEPT ![t] = "top"]
  /\ UNCHANGED <<acceptor, inboxes, sessions, closed, failed>>

\* No eventfd for the doorbell: ~Leaving stops the inbox on the way out.
StartFails(t) ==
  /\ pc[t] = "start"
  /\ pc' = [pc EXCEPT ![t] = "gone"]
  /\ stopping' = [stopping EXCEPT ![t] = TRUE]
  /\ rung' = [rung EXCEPT ![t] = TRUE]
  /\ failed' = failed \cup {t}
  /\ UNCHANGED <<acceptor, handed, sessions, closed>>

\* reap, then Inbox::take.
ReapAndTake(t) ==
  /\ pc[t] = "top"
  /\ ended' = [ended EXCEPT ![t] = {}]
  /\ closed' = closed \cup ended[t]
  /\ arrived' = [arrived EXCEPT ![t] = handed[t]]
  /\ handed' = [handed EXCEPT ![t] = << >>]
  /\ pc' = [pc EXCEPT ![t] = "check"]
  /\ UNCHANGED <<acceptor, stopping, rung, running, bell, failed>>

\* A thread that admits one session more than its share.
AdmitOneMore(t) ==
  /\ pc[t] = "check" /\ ~stopping[t]
  /\ LET room == Allowed + 1 - Cardinality(running[t])
         in == {arrived[t][i] : i \in {j \in 1..Len(arrived[t]) : j <= room}}
     IN  /\ running' = [running EXCEPT ![t] = @ \cup in]
         /\ closed' = closed \cup (ToSet(arrived[t]) \ in)
  /\ arrived' = [arrived EXCEPT ![t] = << >>]
  /\ pc' = [pc EXCEPT ![t] = "wait"]
  /\ UNCHANGED <<acceptor, inboxes, ended, bell, failed>>

\* A thread that clears the ring after it has looked into the inbox.
DrainAfterTake(t) ==
  /\ pc[t] = "check" /\ ~stopping[t]
  /\ running' = [running EXCEPT ![t] = @ \cup ToSet(arrived[t])]
  /\ arrived' = [arrived EXCEPT ![t] = << >>]
  /\ pc' = [pc EXCEPT ![t] = "wait"]
  /\ rung' = [rung EXCEPT ![t] = FALSE]
  /\ UNCHANGED <<acceptor, handed, stopping, ended, bell, closed, failed>>

\* Not stopped: admit what arrived, in order, while there is room for it.  A
\* session that has ended takes up room until it is reaped.
Admit(t) ==
  /\ pc[t] = "check" /\ ~stopping[t]
  /\ LET used == Cardinality(running[t]) + Cardinality(ended[t])
         room == IF used < Allowed THEN Allowed - used ELSE 0
         in == {arrived[t][i] : i \in {j \in 1..Len(arrived[t]) : j <= room}}
     IN  /\ running' = [running EXCEPT ![t] = @ \cup in]
         /\ closed' = closed \cup (ToSet(arrived[t]) \ in)
  /\ arrived' = [arrived EXCEPT ![t] = << >>]
  /\ pc' = [pc EXCEPT ![t] = "wait"]
  /\ UNCHANGED <<acceptor, inboxes, ended, bell, failed>>

\* A thread that closes what it took and does not look again.
CloseWhatArrived(t) ==
  /\ pc[t] = "check" /\ stopping[t]
  /\ closed' = closed \cup ToSet(arrived[t]) \cup running[t] \cup ended[t]
  /\ arrived' = [arrived EXCEPT ![t] = << >>]
  /\ running' = [running EXCEPT ![t] = {}]
  /\ ended' = [ended EXCEPT ![t] = {}]
  /\ bell' = [bell EXCEPT ![t] = FALSE]
  /\ pc' = [pc EXCEPT ![t] = "gone"]
  /\ UNCHANGED <<acceptor, inboxes, failed>>

\* Stopped: take again, close everybody, and destroy the sessions on the way out.
CloseLate(t) ==
  /\ pc[t] = "check" /\ stopping[t]
  /\ closed' = closed \cup ToSet(arrived[t]) \cup ToSet(handed[t]) \cup running[t] \cup ended[t]
  /\ handed' = [handed EXCEPT ![t] = << >>]
  /\ arrived' = [arrived EXCEPT ![t] = << >>]
  /\ running' = [running EXCEPT ![t] = {}]
  /\ ended' = [ended EXCEPT ![t] = {}]
  /\ bell' = [bell EXCEPT ![t] = FALSE]
  /\ pc' = [pc EXCEPT ![t] = "gone"]
  /\ UNCHANGED <<acceptor, stopping, rung, failed>>

\* ReapWait returns once either descriptor is readable; both are drained.
Wake(t) ==
  /\ pc[t] = "wait"
  /\ rung[t] \/ bell[t]
  /\ rung' = [rung EXCEPT ![t] = FALSE]
  /\ bell' = [bell EXCEPT ![t] = FALSE]
  /\ pc' = [pc EXCEPT ![t] = "top"]
  /\ UNCHANGED <<acceptor, handed, stopping, arrived, running, ended, closed, failed>>

\* A session that ends without a word.
EndQuietly(t) ==
  /\ pc[t] = "wait"
  /\ \E c \in running[t] :
       /\ running' = [running EXCEPT ![t] = @ \ {c}]
       /\ ended' = [ended EXCEPT ![t] = @ \cup {c}]
  /\ UNCHANGED <<acceptor, inboxes, pc, arrived, bell, closed, failed>>

\* A session of the thread ends while the thread's own coroutine is suspended,
\* and rings the doorbell.
SessionEnds(t) ==
  /\ pc[t] = "wait"
  /\ \E c \in running[t] :
       /\ running' = [running EXCEPT ![t] = @ \ {c}]
       /\ ended' = [ended EXCEPT ![t] = @ \cup {c}]
  /\ bell' = [bell EXCEPT ![t] = TRUE]
  /\ UNCHANGED <<acceptor, inboxes, pc, arrived, closed, failed>>

Serve(t) ==
  ReapAndTake(t) \/ Admit(t) \/ CloseLate(t) \/ Wake(t)

Next ==
  \/ Accept \/ AcceptFails \/ Post \/ PostRefused \/ Ring \/ NobodyLeft
  \/ StopNext \/ Join \/ Joined
  \/ \E t \in Threads : Start(t) \/ StartFails(t) \/ Serve(t) \/ SessionEnds(t)

\* Every thread that can run does: the acceptor while it holds a connection or is
\* stopping the others, and a serving thread that is not waiting for an event.
Fairness ==
  /\ WF_vars(Post \/ PostRefused \/ Ring \/ NobodyLeft \/ StopNext \/ Join)
  /\ \A t \in Threads : WF_vars(Start(t) \/ StartFails(t)) /\ WF_vars(Serve(t))

Spec == Init /\ [][Next]_vars

FairSpec == Spec /\ Fairness

-----------------------------------------------------------------------------
(***************************************************************************)
(* Properties                                                               *)
(***************************************************************************)
\* The places a connection is in.
Places(c) ==
  (IF c \in coming THEN {<<"coming">>} ELSE {})
  \cup (IF conn = c THEN {<<"conn">>} ELSE {})
  \cup (IF c \in closed THEN {<<"closed">>} ELSE {})
  \cup UNION {{p \in {<<"handed", t>>, <<"arrived", t>>, <<"serving", t>>} :
                 c \in CASE p[1] = "handed" -> ToSet(handed[t])
                         [] p[1] = "arrived" -> ToSet(arrived[t])
                         [] p[1] = "serving" -> running[t] \cup ended[t]} : t \in Threads}

\* A connection is in exactly one place at any time: no two threads serve it, and
\* a thread that refuses it leaves it with the acceptor (inbox.h:30-33).
ConnectionInOnePlace == \A c \in Clients : Cardinality(Places(c)) = 1

\* A thread that was told to stop leaves nobody behind in its inbox, whenever the
\* last post came (file-service.cc:1263-1265).  A thread that could not start is
\* another matter: see NobodyStranded.
NoneLeftBehind == \A t \in Threads : pc[t] = "gone" /\ t \notin failed => handed[t] = << >>

\* No connection is left in the inbox of a thread that serves nobody, for its
\* client to time out (inbox.h:30-31, file-service.cc:1263-1265).
NobodyStranded == \A t \in Threads : pc[t] = "gone" => handed[t] = << >>

\* All the threads together serve no more sessions than the machine can hold
\* (file-service.cc:1342-1343).
SessionsWithinTotal ==
  Cardinality(UNION {running[t] \cup ended[t] : t \in Threads}) <= Total

\* Connections are dealt out in turn: while no thread has stopped, none has been
\* handed two more than another (file-service.cc:1281-1283).
DealtInTurn ==
  (\A t \in Threads : ~stopping[t]) => \A t, u \in Threads : given[t] <= given[u] + 1

\* A connection handed to a thread is taken by it, whatever the order of the post,
\* the ring and the thread's own rounds.
HandedIsTaken ==
  \A t \in Threads, c \in Clients :
    c \in ToSet(handed[t]) ~> (c \notin ToSet(handed[t]) \/ t \in failed)

\* A session that has ended is reaped without waiting for another client
\* (file-service.cc:1184-1186).
EndedIsReaped == \A t \in Threads, c \in Clients : c \in ended[t] ~> c \notin ended[t]

\* Once the acceptor has failed every thread stops and the daemon returns.
StopsAll == apc = "stopping" ~> apc = "joined"
=============================================================================
