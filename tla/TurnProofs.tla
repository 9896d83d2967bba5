----------------------------- MODULE TurnProofs -----------------------------
(***************************************************************************)
(* For every set of coroutines: a Turn has one owner at a time and is never *)
(* lost, and it implements the line of FifoLock.                            *)
(***************************************************************************)
EXTENDS Turn, LineProofs, SequenceTheorems, TLAPS

-----------------------------------------------------------------------------
\* The initial state of a Turn is free, with nobody queued.
LEMMA InitInv == Init => TurnInv
<1> SUFFICES ASSUME Init PROVE TurnInv
  OBVIOUS
<1> USE DEF Init
<1>1. TypeOK
  <2>1. waiting \in Seq(Coros)
    BY EmptySeq
  <2> QED BY <2>1 DEF TypeOK, Phases
<1>2. QueueIsLive
  BY EmptySeq DEF QueueIsLive
<1>3. OneAtATime /\ TurnNotLost
  BY DEF OneAtATime, TurnNotLost, Owns
<1> QED BY <1>1, <1>2, <1>3 DEF TurnInv

\* give() by an owner, whether its scope ended or it was destroyed before it ran:
\* the turn goes to the front of the queue, or is free when nobody waits.
LEMMA GiveByInv ==
  ASSUME TurnInv, NEW c \in Coros, Owns(c), GiveBy(c)
  PROVE  TurnInv'
<1> USE DEF TurnInv, TypeOK, Owns, Phases
<1>1. CASE waiting = << >>
  <2>1. held' = FALSE /\ phase' = [phase EXCEPT ![c] = "out"] /\ waiting' = waiting
    BY <1>1 DEF GiveBy
  <2>2. TypeOK'
    BY <2>1
  <2>3. QueueIsLive'
    BY <1>1, <2>1, EmptySeq DEF QueueIsLive
  <2>4. OneAtATime' /\ TurnNotLost'
    BY <1>1, <2>1 DEF OneAtATime, TurnNotLost
  <2> QED BY <2>2, <2>3, <2>4
<1>2. CASE waiting # << >>
  <2> DEFINE h == Head(waiting)
             t == Tail(waiting)
  <2>1. /\ held' = held
        /\ phase' = [phase EXCEPT ![c] = "out", ![h] = "handed"]
        /\ waiting' = t
    BY <1>2 DEF GiveBy
  <2>2. /\ Len(waiting) \in Nat \ {0}
        /\ h \in Coros
        /\ h = waiting[1]
        /\ t \in Seq(Coros)
        /\ Len(t) = Len(waiting) - 1
        /\ \A i \in 1..Len(t) : t[i] = waiting[i + 1]
    BY <1>2, HeadTailProperties, EmptySeq
  <2> HIDE DEF h, t
  <2>3. phase[h] = "queued" /\ h # c
    BY <2>2 DEF QueueIsLive
  <2>4. TypeOK'
    BY <2>1, <2>2
  <2>5. \A i \in 1..Len(t) : t[i] # h /\ t[i] # c /\ phase[t[i]] = "queued" /\ t[i] \in Coros
    <3> SUFFICES ASSUME NEW i \in 1..Len(t)
                 PROVE  t[i] # h /\ t[i] # c /\ phase[t[i]] = "queued" /\ t[i] \in Coros
      OBVIOUS
    <3>1. i + 1 \in 1..Len(waiting) /\ 1 \in 1..Len(waiting) /\ i + 1 # 1
      BY <2>2
    <3>2. t[i] = waiting[i + 1] /\ phase[waiting[i + 1]] = "queued" /\ waiting[i + 1] # waiting[1]
      BY <2>2, <3>1 DEF QueueIsLive
    <3>3. t[i] \in Coros
      BY <2>2, ElementOfSeq
    <3> QED BY <2>2, <3>2, <3>3
  <2>6. QueueIsLive'
    <3>1. \A i \in 1..Len(t) : phase'[t[i]] = "queued"
      BY <2>1, <2>5
    <3>2. \A i, j \in 1..Len(t) : t[i] = t[j] => i = j
      <4> SUFFICES ASSUME NEW i \in 1..Len(t), NEW j \in 1..Len(t), t[i] = t[j]
                   PROVE  i = j
        OBVIOUS
      <4>1. i + 1 \in 1..Len(waiting) /\ j + 1 \in 1..Len(waiting)
        BY <2>2
      <4>2. waiting[i + 1] = waiting[j + 1]
        BY <2>2
      <4>3. i + 1 = j + 1
        BY <4>1, <4>2 DEF QueueIsLive
      <4> QED BY <2>2, <4>3
    <3>3. ASSUME NEW d \in Coros, phase'[d] = "queued"
          PROVE  \E i \in 1..Len(t) : t[i] = d
      <4>1. d # h /\ phase[d] = "queued"
        BY <2>1, <2>2, <3>3
      <4>2. PICK k \in 1..Len(waiting) : waiting[k] = d
        BY <4>1 DEF QueueIsLive
      <4>3. k # 1
        BY <2>2, <4>1, <4>2
      <4>4. k - 1 \in 1..Len(t) /\ t[k - 1] = d
        BY <2>2, <4>2, <4>3
      <4> QED BY <4>4
    <3> QED BY <2>1, <3>1, <3>2, <3>3 DEF QueueIsLive
  <2>7. OneAtATime'
    BY <2>1, <2>2, <2>3 DEF OneAtATime
  <2>8. TurnNotLost'
    <3>1. held
      BY DEF TurnNotLost
    <3>2. h \in Coros /\ phase'[h] = "handed"
      BY <2>1, <2>2
    <3> QED BY <2>1, <3>1, <3>2 DEF TurnNotLost
  <2> QED BY <2>4, <2>6, <2>7, <2>8
<1> QED BY <1>1, <1>2

\* Every step of a Turn preserves the invariant, a step per action.
LEMMA StepInv == TurnInv /\ [Next]_vars => TurnInv'
<1> SUFFICES ASSUME TurnInv, [Next]_vars PROVE TurnInv'
  OBVIOUS
<1> USE DEF TurnInv, TypeOK, Owns, Phases
<1>1. ASSUME NEW c \in Coros, Queue(c) PROVE TurnInv'
  <2> DEFINE w == Append(waiting, c)
  <2>1. /\ phase[c] = "out" /\ held /\ held' = held
        /\ phase' = [phase EXCEPT ![c] = "queued"]
        /\ waiting' = w
    BY <1>1 DEF Queue
  <2>2. /\ w \in Seq(Coros)
        /\ Len(waiting) \in Nat
        /\ Len(w) = Len(waiting) + 1
        /\ \A i \in 1..Len(waiting) : w[i] = waiting[i] /\ waiting[i] \in Coros
        /\ w[Len(waiting) + 1] = c
    BY AppendProperties, LenProperties, ElementOfSeq
  <2> HIDE DEF w
  <2>3. TypeOK'
    BY <2>1, <2>2
  <2>4. \A i \in 1..Len(waiting) : waiting[i] # c
    BY <2>1 DEF QueueIsLive
  <2>5. \A i \in 1..Len(w) : (i \in 1..Len(waiting) /\ w[i] = waiting[i] /\ w[i] # c) \/ (i = Len(waiting) + 1 /\ w[i] = c)
    BY <2>2, <2>4
  <2>6. QueueIsLive'
    <3>1. \A i \in 1..Len(w) : phase'[w[i]] = "queued"
      BY <2>1, <2>2, <2>5 DEF QueueIsLive
    <3>2. \A i, j \in 1..Len(w) : w[i] = w[j] => i = j
      BY <2>5 DEF QueueIsLive
    <3>3. ASSUME NEW d \in Coros, phase'[d] = "queued"
          PROVE  \E i \in 1..Len(w) : w[i] = d
      <4>1. CASE d = c
        BY <2>2, <4>1
      <4>2. CASE d # c
        <5>1. PICK k \in 1..Len(waiting) : waiting[k] = d
          BY <2>1, <3>3, <4>2 DEF QueueIsLive
        <5>2. k \in 1..Len(w) /\ w[k] = d
          BY <2>2, <5>1
        <5> QED BY <5>2
      <4> QED BY <4>1, <4>2
    <3> QED BY <2>1, <3>1, <3>2, <3>3 DEF QueueIsLive
  <2>7. OneAtATime' /\ TurnNotLost'
    <3>1. \A d \in Coros : phase'[d] \in {"handed", "in"} <=> phase[d] \in {"handed", "in"}
      BY <2>1
    <3> QED BY <2>1, <3>1 DEF OneAtATime, TurnNotLost
  <2> QED BY <2>3, <2>6, <2>7
<1>2. ASSUME NEW c \in Coros, Enter(c) PROVE TurnInv'
  <2>1. /\ phase[c] = "out" /\ ~held /\ held' = TRUE /\ waiting' = waiting
        /\ phase' = [phase EXCEPT ![c] = "in"]
    BY <1>2 DEF Enter
  <2>2. waiting = << >>
    BY <2>1 DEF TurnNotLost
  <2>3. TypeOK'
    BY <2>1
  <2>4. QueueIsLive'
    BY <2>1, <2>2, EmptySeq DEF QueueIsLive
  <2>5. OneAtATime' /\ TurnNotLost'
    BY <2>1, <2>2 DEF OneAtATime, TurnNotLost
  <2> QED BY <2>3, <2>4, <2>5
<1>3. ASSUME NEW c \in Coros, Resume(c) PROVE TurnInv'
  <2>1. /\ phase[c] = "handed" /\ held' = TRUE /\ waiting' = waiting
        /\ phase' = [phase EXCEPT ![c] = "in"]
    BY <1>3 DEF Resume
  <2>2. TypeOK'
    BY <2>1
  <2>3. \A i \in 1..Len(waiting) : waiting[i] # c /\ waiting[i] \in Coros
    BY <2>1, ElementOfSeq DEF QueueIsLive
  <2>4. QueueIsLive'
    BY <2>1, <2>3 DEF QueueIsLive
  <2>5. OneAtATime' /\ TurnNotLost'
    BY <2>1 DEF OneAtATime, TurnNotLost
  <2> QED BY <2>2, <2>4, <2>5
<1>4. ASSUME NEW c \in Coros, Give(c) PROVE TurnInv'
  BY <1>4, GiveByInv DEF Give
<1>5. ASSUME NEW c \in Coros, PassOn(c) PROVE TurnInv'
  BY <1>5, GiveByInv DEF PassOn
<1>6. ASSUME NEW c \in Coros, LeaveQueue(c) PROVE TurnInv'
  <2>1. PICK i \in 1..Len(waiting) : waiting[i] = c /\ waiting' = RemoveAt(waiting, i)
    BY <1>6 DEF LeaveQueue
  <2>2. phase[c] = "queued" /\ held' = held /\ phase' = [phase EXCEPT ![c] = "out"]
    BY <1>6 DEF LeaveQueue
  <2> DEFINE w == RemoveAt(waiting, i)
  <2>3. /\ Len(waiting) \in Nat
        /\ w \in Seq(Coros)
        /\ Len(w) = Len(waiting) - 1
        /\ \A j \in 1..(Len(waiting) - 1) : w[j] = IF j < i THEN waiting[j] ELSE waiting[j + 1]
    BY RemoveAtProperties, LenProperties
  <2>4. waiting' = w
    BY <2>1
  <2> HIDE DEF w
  <2> DEFINE from(j) == IF j < i THEN j ELSE j + 1
  <2>5. \A j \in 1..Len(w) : /\ from(j) \in 1..Len(waiting)
                             /\ from(j) # i
                             /\ w[j] = waiting[from(j)]
    BY <2>3
  <2>6. \A j, k \in 1..Len(w) : from(j) = from(k) => j = k
    BY <2>3
  <2>7. \A k \in 1..Len(waiting) : k # i => \E j \in 1..Len(w) : from(j) = k
    <3> SUFFICES ASSUME NEW k \in 1..Len(waiting), k # i
                 PROVE  \E j \in 1..Len(w) : from(j) = k
      OBVIOUS
    <3>1. CASE k < i
      <4>1. k \in 1..Len(w) /\ from(k) = k
        BY <2>3, <3>1
      <4> QED BY <4>1
    <3>2. CASE k > i
      <4>1. k - 1 \in 1..Len(w) /\ from(k - 1) = k
        BY <2>3, <3>2
      <4> QED BY <4>1
    <3> QED BY <2>3, <3>1, <3>2
  <2> HIDE DEF from
  <2>8. TypeOK'
    BY <2>2, <2>3, <2>4
  <2>9. QueueIsLive'
    <3>1. \A j \in 1..Len(w) : phase'[w[j]] = "queued"
      <4> SUFFICES ASSUME NEW j \in 1..Len(w) PROVE phase'[w[j]] = "queued"
        OBVIOUS
      <4>1. waiting[from(j)] # c /\ phase[waiting[from(j)]] = "queued" /\ waiting[from(j)] \in Coros
        BY <2>1, <2>5, ElementOfSeq DEF QueueIsLive
      <4> QED BY <2>2, <2>5, <4>1
    <3>2. \A j, k \in 1..Len(w) : w[j] = w[k] => j = k
      BY <2>5, <2>6 DEF QueueIsLive
    <3>3. ASSUME NEW d \in Coros, phase'[d] = "queued"
          PROVE  \E j \in 1..Len(w) : w[j] = d
      <4>1. d # c /\ phase[d] = "queued"
        BY <2>2, <3>3
      <4>2. PICK k \in 1..Len(waiting) : waiting[k] = d
        BY <4>1 DEF QueueIsLive
      <4>3. PICK j \in 1..Len(w) : from(j) = k
        BY <2>1, <2>7, <4>1, <4>2
      <4> QED BY <2>5, <4>2, <4>3
    <3> QED BY <2>4, <3>1, <3>2, <3>3 DEF QueueIsLive
  <2>10. OneAtATime' /\ TurnNotLost'
    <3>1. \A d \in Coros : phase'[d] \in {"handed", "in"} <=> phase[d] \in {"handed", "in"}
      BY <2>2
    <3>2. held
      BY <2>1, EmptySeq DEF TurnNotLost
    <3> QED BY <2>2, <3>1, <3>2 DEF OneAtATime, TurnNotLost
  <2> QED BY <2>8, <2>9, <2>10
<1>7. CASE UNCHANGED vars
  BY <1>7 DEF vars, QueueIsLive, OneAtATime, TurnNotLost
<1> QED BY <1>1, <1>2, <1>3, <1>4, <1>5, <1>6, <1>7 DEF Next

\* The invariant of the step lemma holds throughout.
LEMMA TurnInvariant == Spec => []TurnInv
BY InitInv, StepInv, PTL DEF Spec

\* A Turn of any number of coroutines keeps its queue live, has one owner at a
\* time and is never lost (turn.h:11-12 and 39-41), whichever coroutines are
\* destroyed and when.
THEOREM TurnCorrect == Spec => [](TypeOK /\ QueueIsLive /\ OneAtATime /\ TurnNotLost)
BY TurnInvariant, PTL DEF TurnInv

-----------------------------------------------------------------------------
(***************************************************************************)
(* A Turn is a FifoLock: the owner followed by the queue is its line.       *)
(***************************************************************************)

\* With an owner the line is that owner followed by the queue.
LEMMA LineOfOwner ==
  ASSUME TurnInv, NEW o \in Coros, Owns(o)
  PROVE  line = <<o>> \o waiting
<1>1. held
  BY DEF TurnInv, TurnNotLost
<1>2. (CHOOSE c \in Coros : Owns(c)) = o
  BY DEF TurnInv, OneAtATime
<1> QED BY <1>1, <1>2 DEF line

\* The owner leaves a non-empty queue behind: the line loses its front.
LEMMA GiveByLeaves ==
  ASSUME TurnInv, TurnInv', NEW c \in Coros, Owns(c), GiveBy(c)
  PROVE  Fifo!Leave(c)
<1> USE DEF TurnInv, TypeOK
<1>1. line = <<c>> \o waiting
  BY LineOfOwner
<1>2. /\ line \in Seq(Coros) /\ Len(waiting) \in Nat
      /\ Len(line) = Len(waiting) + 1 /\ line[1] = c
      /\ \A j \in 1..Len(waiting) : line[j + 1] = waiting[j]
  BY <1>1, ConsProperties, LenProperties
<1>3. /\ RemoveAt(line, 1) \in Seq(Coros)
      /\ Len(RemoveAt(line, 1)) = Len(waiting)
      /\ \A j \in 1..Len(waiting) : RemoveAt(line, 1)[j] = waiting[j]
  <2>1. 1 \in 1..Len(line)
    BY <1>2
  <2> DEFINE r == RemoveAt(line, 1)
  <2>2. /\ r \in Seq(Coros)
        /\ Len(r) = Len(line) - 1
        /\ \A j \in 1..(Len(line) - 1) : r[j] = IF j < 1 THEN line[j] ELSE line[j + 1]
    BY <1>2, <2>1, RemoveAtProperties
  <2> HIDE DEF r
  <2>3. \A j \in 1..Len(waiting) : r[j] = waiting[j]
    BY <1>2, <2>2
  <2> QED BY <1>2, <2>2, <2>3 DEF r
<1>4. RemoveAt(line, 1) = waiting
  BY <1>3, SeqEqual
<1>5. line' = waiting
  <2>1. CASE waiting = << >>
    BY <2>1 DEF GiveBy, line
  <2>2. CASE waiting # << >>
    <3> DEFINE t == Tail(waiting)
    <3>0. PICK h \in Coros : h = Head(waiting)
      BY <2>2, HeadTailProperties
    <3>1. phase' = [phase EXCEPT ![c] = "out", ![h] = "handed"] /\ waiting' = t
      BY <2>2, <3>0 DEF GiveBy
    <3>2. (Owns(h))'
      BY <3>1 DEF Owns, Phases
    <3>3. held' = TRUE /\ (CHOOSE d \in Coros : Owns(d))' = h
      BY <3>1, <3>2 DEF OneAtATime, TurnNotLost
    <3>4. line' = <<h>> \o t
      BY <3>1, <3>3 DEF line
    <3>5. <<h>> \o t = waiting
      <4>1. /\ t \in Seq(Coros) /\ Len(t) = Len(waiting) - 1 /\ h = waiting[1]
            /\ \A j \in 1..Len(t) : t[j] = waiting[j + 1]
        BY <2>2, <3>0, HeadTailProperties, EmptySeq
      <4> HIDE DEF t
      <4>2. /\ <<h>> \o t \in Seq(Coros)
            /\ Len(<<h>> \o t) = Len(t) + 1
            /\ (<<h>> \o t)[1] = h
            /\ \A j \in 1..Len(t) : (<<h>> \o t)[j + 1] = t[j]
        BY <4>1, ConsProperties
      <4> DEFINE l == <<h>> \o t
      <4>3. l \in Seq(Coros) /\ Len(l) = Len(t) + 1 /\ l[1] = h /\ \A j \in 1..Len(t) : l[j + 1] = t[j]
        BY <4>2
      <4> HIDE DEF l
      <4>4. Len(l) = Len(waiting)
        BY <1>2, <4>1, <4>3
      <4>5. \A j \in 1..Len(l) : l[j] = waiting[j]
        <5> SUFFICES ASSUME NEW j \in 1..Len(l) PROVE l[j] = waiting[j]
          OBVIOUS
        <5>1. CASE j = 1
          BY <4>1, <4>3, <5>1
        <5>2. CASE j # 1
          <6>1. j - 1 \in 1..Len(t) /\ (j - 1) + 1 = j
            BY <1>2, <4>1, <4>4, <5>2
          <6>2. l[(j - 1) + 1] = t[j - 1] /\ t[j - 1] = waiting[(j - 1) + 1]
            BY <4>1, <4>3, <6>1
          <6> QED BY <6>1, <6>2
        <5> QED BY <5>1, <5>2
      <4>6. l = waiting
        BY <4>3, <4>4, <4>5, SeqEqual
      <4> QED BY <4>6 DEF l
    <3> QED BY <3>4, <3>5
  <2> QED BY <2>1, <2>2
<1>6. 1 \in 1..Len(line) /\ line[1] = c /\ line' = RemoveAt(line, 1)
  BY <1>2, <1>4, <1>5
<1> QED BY <1>6 DEF Fifo!Leave, Fifo!RemoveAt, RemoveAt

\* Each step of a Turn is a step of the FifoLock or leaves its line alone.
LEMMA StepRefines ==
  ASSUME TurnInv, TurnInv', [Next]_vars
  PROVE  [Fifo!Next]_line
<1> USE DEF TurnInv, TypeOK
<1>1. ASSUME NEW c \in Coros, Queue(c) PROVE Fifo!Arrive(c)
  <2>1. PICK o \in Coros : Owns(o)
    BY <1>1 DEF Queue, TurnNotLost
  <2>2. /\ phase[c] = "out" /\ waiting' = Append(waiting, c) /\ held' = held
        /\ phase' = [phase EXCEPT ![c] = "queued"]
    BY <1>1 DEF Queue
  <2>3. o # c /\ (Owns(o))'
    BY <2>1, <2>2 DEF Owns
  <2>4. line = <<o>> \o waiting
    BY <2>1, LineOfOwner
  <2>5. line' = <<o>> \o Append(waiting, c)
    <3>1. held' = TRUE /\ (CHOOSE d \in Coros : Owns(d))' = o
      BY <2>3 DEF OneAtATime, TurnNotLost
    <3> QED BY <2>2, <3>1 DEF line
  <2> DEFINE w == Append(waiting, c)
             l == <<o>> \o waiting
             m == <<o>> \o w
             n == Append(l, c)
  <2>6. /\ w \in Seq(Coros) /\ Len(waiting) \in Nat /\ Len(w) = Len(waiting) + 1
        /\ \A i \in 1..Len(waiting) : w[i] = waiting[i]
        /\ w[Len(waiting) + 1] = c
    BY AppendProperties, LenProperties
  <2> HIDE DEF w
  <2>7. /\ l \in Seq(Coros) /\ Len(l) = Len(waiting) + 1 /\ l[1] = o
        /\ \A j \in 1..Len(waiting) : l[j + 1] = waiting[j]
    BY ConsProperties
  <2>8. /\ m \in Seq(Coros) /\ Len(m) = Len(w) + 1 /\ m[1] = o
        /\ \A j \in 1..Len(w) : m[j + 1] = w[j]
    BY <2>6, ConsProperties
  <2> HIDE DEF l, m
  <2>9. /\ n \in Seq(Coros) /\ Len(n) = Len(l) + 1
        /\ \A i \in 1..Len(l) : n[i] = l[i]
        /\ n[Len(l) + 1] = c
    BY <2>7, AppendProperties
  <2> HIDE DEF n
  <2>10. Len(m) = Len(n)
    BY <2>6, <2>7, <2>8, <2>9
  <2>11. ASSUME NEW j \in 1..Len(m) PROVE m[j] = n[j]
    <3>1. CASE j = 1
      BY <2>6, <2>7, <2>8, <2>9, <3>1
    <3>2. CASE j \in 2..(Len(waiting) + 1)
      <4>1. j - 1 \in 1..Len(waiting) /\ j - 1 \in 1..Len(w) /\ (j - 1) + 1 = j /\ j \in 1..Len(l)
        BY <2>6, <2>7, <3>2
      <4>2. m[(j - 1) + 1] = w[j - 1] /\ w[j - 1] = waiting[j - 1] /\ l[(j - 1) + 1] = waiting[j - 1] /\ n[j] = l[j]
        BY <2>6, <2>7, <2>8, <2>9, <4>1
      <4> QED BY <4>1, <4>2
    <3>3. CASE j = Len(waiting) + 2
      <4>1. Len(w) \in 1..Len(w) /\ Len(w) + 1 = j /\ Len(l) + 1 = j
        BY <2>6, <2>7, <3>3
      <4> QED BY <2>6, <2>8, <2>9, <4>1
    <3> QED BY <2>6, <2>8, <3>1, <3>2, <3>3
  <2>12. m = n
    BY <2>8, <2>9, <2>10, <2>11, SeqEqual
  <2>13. line' = Append(line, c)
    BY <2>4, <2>5, <2>12 DEF m, n, l, w
  <2>14. ASSUME NEW i \in 1..Len(l) PROVE l[i] # c
    <3>1. CASE i = 1
      BY <2>3, <2>7, <3>1
    <3>2. CASE i # 1
      <4>1. i - 1 \in 1..Len(waiting) /\ (i - 1) + 1 = i
        BY <2>6, <2>7, <3>2
      <4>2. l[(i - 1) + 1] = waiting[i - 1] /\ waiting[i - 1] # c
        BY <2>2, <2>7, <4>1 DEF QueueIsLive
      <4> QED BY <4>1, <4>2
    <3> QED BY <3>1, <3>2
  <2>15. \A i \in 1..Len(line) : line[i] # c
    BY <2>4, <2>14 DEF l
  <2> QED BY <2>13, <2>15 DEF Fifo!Arrive
<1>2. ASSUME NEW c \in Coros, Enter(c) PROVE Fifo!Arrive(c)
  <2>1. waiting = << >> /\ waiting' = << >> /\ line = << >> /\ held' = TRUE
    BY <1>2 DEF Enter, TurnNotLost, line
  <2>2. (Owns(c))'
    BY <1>2 DEF Enter, Owns
  <2>3. (CHOOSE d \in Coros : Owns(d))' = c
    BY <2>2 DEF OneAtATime
  <2>4. line' = <<c>> \o << >>
    BY <2>1, <2>3 DEF line
  <2>5. line' = Append(line, c)
    BY <2>1, <2>4
  <2> QED BY <2>1, <2>5 DEF Fifo!Arrive
<1>3. ASSUME NEW c \in Coros, Resume(c) PROVE line' = line
  <2>1. Owns(c) /\ (Owns(c))' /\ waiting' = waiting /\ held' = TRUE
    BY <1>3 DEF Resume, Owns
  <2>2. line = <<c>> \o waiting
    BY <2>1, LineOfOwner
  <2>3. (CHOOSE d \in Coros : Owns(d))' = c
    BY <2>1 DEF OneAtATime
  <2> QED BY <2>1, <2>2, <2>3 DEF line
<1>4. ASSUME NEW c \in Coros, Give(c) \/ PassOn(c) PROVE Fifo!Leave(c)
  BY <1>4, GiveByLeaves DEF Give, PassOn, Owns
<1>5. ASSUME NEW c \in Coros, LeaveQueue(c) PROVE Fifo!Leave(c)
  <2>1. PICK i \in 1..Len(waiting) : waiting[i] = c /\ waiting' = RemoveAt(waiting, i)
    BY <1>5 DEF LeaveQueue
  <2>2. held' = held /\ phase' = [phase EXCEPT ![c] = "out"] /\ phase[c] = "queued"
    BY <1>5 DEF LeaveQueue
  <2>3. PICK o \in Coros : Owns(o)
    BY <2>1, EmptySeq DEF TurnNotLost
  <2>4. o # c /\ (Owns(o))'
    BY <2>2, <2>3 DEF Owns
  <2> DEFINE w == RemoveAt(waiting, i)
             l == <<o>> \o waiting
             m == <<o>> \o w
             n == RemoveAt(l, i + 1)
  <2>5. line = l
    BY <2>3, LineOfOwner
  <2>6. line' = m
    <3>1. held' = TRUE /\ (CHOOSE d \in Coros : Owns(d))' = o
      BY <2>4 DEF OneAtATime, TurnNotLost
    <3> QED BY <2>1, <3>1 DEF line
  <2>7. /\ Len(waiting) \in Nat
        /\ w \in Seq(Coros) /\ Len(w) = Len(waiting) - 1
        /\ \A j \in 1..(Len(waiting) - 1) : w[j] = IF j < i THEN waiting[j] ELSE waiting[j + 1]
    BY RemoveAtProperties, LenProperties
  <2> HIDE DEF w
  <2>8. /\ l \in Seq(Coros) /\ Len(l) = Len(waiting) + 1 /\ l[1] = o
        /\ \A j \in 1..Len(waiting) : l[j + 1] = waiting[j]
    BY ConsProperties
  <2>9. /\ m \in Seq(Coros) /\ Len(m) = Len(w) + 1 /\ m[1] = o
        /\ \A j \in 1..Len(w) : m[j + 1] = w[j]
    BY <2>7, ConsProperties
  <2> HIDE DEF l, m
  <2>10. i + 1 \in 1..Len(l)
    BY <2>7, <2>8
  <2>11. /\ n \in Seq(Coros) /\ Len(n) = Len(l) - 1
         /\ \A j \in 1..(Len(l) - 1) : n[j] = IF j < i + 1 THEN l[j] ELSE l[j + 1]
    BY <2>8, <2>10, RemoveAtProperties
  <2> HIDE DEF n
  <2>12. Len(m) = Len(n)
    BY <2>7, <2>8, <2>9, <2>11
  <2>13. ASSUME NEW j \in 1..Len(m) PROVE m[j] = n[j]
    <3>1. CASE j = 1
      BY <2>7, <2>8, <2>9, <2>11, <3>1
    <3>2. CASE j # 1
      <4>1. /\ j - 1 \in 1..Len(w) /\ (j - 1) + 1 = j /\ j \in 1..(Len(l) - 1)
            /\ j - 1 \in 1..(Len(waiting) - 1) /\ j \in 1..Len(waiting)
        BY <2>7, <2>8, <2>9, <3>2
      <4>2. m[j] = w[j - 1]
        BY <2>9, <4>1
      <4>3. l[j] = waiting[j - 1] /\ l[j + 1] = waiting[j]
        <5>1. l[(j - 1) + 1] = waiting[j - 1] /\ l[j + 1] = waiting[j]
          BY <2>7, <2>8, <4>1
        <5> QED BY <4>1, <5>1
      <4>4. CASE j - 1 < i
        BY <2>7, <2>11, <4>1, <4>2, <4>3, <4>4
      <4>5. CASE j - 1 >= i
        BY <2>7, <2>11, <4>1, <4>2, <4>3, <4>5
      <4> QED BY <4>1, <4>4, <4>5
    <3> QED BY <3>1, <3>2
  <2>14. m = n
    BY <2>9, <2>11, <2>12, <2>13, SeqEqual
  <2>15. l[i + 1] = c
    BY <2>1, <2>8
  <2>16. i + 1 \in 1..Len(line) /\ line[i + 1] = c /\ line' = RemoveAt(line, i + 1)
    BY <2>5, <2>6, <2>10, <2>14, <2>15 DEF n
  <2> QED BY <2>16 DEF Fifo!Leave, Fifo!RemoveAt, RemoveAt
<1>6. CASE UNCHANGED vars
  BY <1>6 DEF vars, line, Owns
<1> QED BY <1>1, <1>2, <1>3, <1>4, <1>5, <1>6 DEF Next, Fifo!Next

\* Coroutines get a Turn in the order they asked for it, and it passes straight
\* from each owner to the next in line, whoever is destroyed on the way.
THEOREM TurnIsFifo == Spec => InArrivalOrder
<1>1. Init => Fifo!Init
  BY DEF Init, Fifo!Init, line
<1>2. TurnInv /\ TurnInv' /\ [Next]_vars => [Fifo!Next]_line
  BY StepRefines
<1> QED BY <1>1, <1>2, TurnInvariant, PTL DEF Spec, Fifo!Spec, InArrivalOrder
=============================================================================
