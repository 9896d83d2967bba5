-------------------------- MODULE PageStreamProofs --------------------------
(***************************************************************************)
(* The windows of a stream against its pool, for every pool of at least two *)
(* pages, every limit of the channel and of the ring, and every length; and *)
(* that both ends have joined everything when they return, for every pool.  *)
(***************************************************************************)
EXTENDS PageStream, FiniteSetTheorems, TLAPS

(***************************************************************************)
(* The inductive invariant.  The entries of a sender are consecutive pages: *)
(* InFlight, then Prefetch, up to Cursor.  So are the receives of a         *)
(* receiver, up to At.  Each entry that is not the caller's own memory      *)
(* holds a page of the pool, and the rest are free.                         *)
(***************************************************************************)
Shipped == Cursor - Len(Prefetch)
Retired == Shipped - Len(InFlight)
Stored == At - Len(Receiving)

TxLines ==
  /\ txFree \in Nat /\ Cursor \in 0..job.length
  /\ Prefetch \in Seq(Nat) /\ InFlight \in Seq(Nat)
  /\ Retired \in Nat
  /\ \A k \in 1..Len(Prefetch) : Prefetch[k] = Shipped + k
  /\ \A k \in 1..Len(InFlight) : InFlight[k] = Retired + k

TxPages == txFree + Cardinality((Retired + 1 .. Cursor) \ job.own) = job.txPool

TxWindows ==
  /\ Len(Prefetch) <= ReadAhead(job.txPool)
  /\ Len(InFlight) <= Window(job.txPool)
  /\ tx \in {"drain", "ship"} => Prefetch # << >>
  /\ tx = "ship" => Len(InFlight) < Window(job.txPool)
  /\ tx \in {"reply", "ok", "failed"} => Prefetch = << >> /\ InFlight = << >>

TxBusy ==
  /\ DOMAIN read = 1..job.length /\ DOMAIN send = 1..job.length
  /\ \A i \in 1..job.length : read[i] = "busy" => Shipped < i /\ i <= Cursor
  /\ \A i \in 1..job.length : Sending(i) => Retired < i /\ i <= Shipped
  /\ \A i \in 1..job.length : send[i] # "idle" => i <= Shipped

TxInv == TxLines /\ TxPages /\ TxWindows /\ TxBusy

RxLines ==
  /\ rxFree \in Nat /\ At \in 0..job.length
  /\ rx \in {"store", "writes", "post"} => At < job.length
  /\ Receiving \in Seq(Nat) /\ Writes \in Seq(Nat)
  /\ Stored \in Nat
  /\ \A k \in 1..Len(Receiving) : Receiving[k] = Stored + k

RxPages == rxFree + Len(Writes) + Cardinality((Stored + 1 .. At) \ job.home) = job.rxPool

RxWindows ==
  /\ Len(Receiving) <= Window(job.rxPool)
  /\ rx \in {"writes", "post"} => Len(Receiving) < Window(job.rxPool)
  /\ rx = "post" => Len(Writes) <= WriteDepth(job.rxPool)
  /\ rx \in {"digest", "ok", "failed"} => Receiving = << >> /\ Writes = << >>

RxBusy ==
  /\ DOMAIN recv = 1..job.length /\ DOMAIN write = 1..job.length
  /\ \A i \in 1..job.length : recv[i] = "posted" => Stored < i /\ i <= At
  /\ \A i \in 1..job.length : recv[i] # "idle" => i <= At
  /\ \A i \in 1..job.length : write[i] = "busy" => \E k \in 1..Len(Writes) : Writes[k] = i

RxInv == RxLines /\ RxPages /\ RxWindows /\ RxBusy

\* The receive of page i or of an earlier page has failed.
ReceiveLost(i) == \E j \in 1..i : recv[j] = "failed"

\* Only a receive posted after one that failed has a slot a late write may name.
SlotInv ==
  /\ DOMAIN slot = 1..job.length /\ \A i \in 1..job.length : slot[i] \in 1..i
  /\ \A i \in 1..job.length : slot[i] = i \/ (i <= At /\ ReceiveLost(i))
  /\ \A i, k \in 1..job.length : i < k /\ recv[i] = "posted" => slot[i] # slot[k]

\* What the adapters hold belongs to a send that waits or has failed and to a
\* receive that waits, unless one has failed; and none is done before its page is
\* written, with the same exception.
FabricInv ==
  /\ \A i \in adapter : i \in 1..job.length /\ send[i] \in {"writing", "failed"}
  /\ \A i \in landing : /\ job.rdma /\ i \in 1..job.length
                        /\ send[i] \in {"writing", "gone", "failed"}
                        /\ recv[i] = "posted" \/ ReceiveLost(i)
  /\ \A i \in 1..job.length :
       job.rdma /\ send[i] \in {"idle", "posted"} => recv[i] \in {"idle", "refused", "posted"} \/ ReceiveLost(i)

StreamInv == job \in Jobs /\ TxInv /\ RxInv /\ SlotInv /\ FabricInv

-----------------------------------------------------------------------------
\* StreamGeometry::forChannel: the window is at least one and within what the
\* channel carries, whatever the pool.
LEMMA WindowBounds ==
  ASSUME NEW p \in Pools
  PROVE  /\ p \in Nat \ {0}
         /\ Window(p) \in Nat \ {0} /\ Window(p) <= MaxInFlight
         /\ ReadAhead(p) \in Nat \ {0}
         /\ WriteDepth(p) \in Nat
BY PoolsAreCounts, LimitsArePositive, SMTT(20) DEF Window, ReadAhead, WriteDepth, Least, Most

\* StreamGeometry::forChannel: with two pages or more, what is in flight and
\* what is being read, or written, fit the pool together.
LEMMA GeometryFits ==
  ASSUME NEW p \in Pools, p >= 2
  PROVE  /\ Window(p) + ReadAhead(p) <= p
         /\ Window(p) + WriteDepth(p) <= p
BY PoolsAreCounts, LimitsArePositive DEF Window, ReadAhead, WriteDepth, Least, Most

\* The pages of the pool among consecutive entries: no more than the entries.
LEMMA HeldBounded ==
  ASSUME NEW a \in Nat, NEW b \in Nat, a <= b, NEW own
  PROVE  /\ IsFiniteSet((a + 1 .. b) \ own)
         /\ Cardinality((a + 1 .. b) \ own) \in Nat
         /\ Cardinality((a + 1 .. b) \ own) <= b - a
         /\ a = b => Cardinality((a + 1 .. b) \ own) = 0
<1>1. IsFiniteSet(a + 1 .. b) /\ Cardinality(a + 1 .. b) = b - a
  <2>1. a + 1 \in Int /\ b \in Int
    OBVIOUS
  <2>2. /\ IsFiniteSet(a + 1 .. b)
        /\ Cardinality(a + 1 .. b) = IF a + 1 > b THEN 0 ELSE b - (a + 1) + 1
    BY <2>1, FS_Interval
  <2> QED BY <2>2
<1>2. (a + 1 .. b) \ own \in SUBSET (a + 1 .. b)
  OBVIOUS
<1>3. /\ IsFiniteSet((a + 1 .. b) \ own)
      /\ Cardinality((a + 1 .. b) \ own) <= Cardinality(a + 1 .. b)
  BY <1>1, <1>2, FS_Subset
<1>4. Cardinality((a + 1 .. b) \ own) \in Nat
  BY <1>3, FS_CardinalityType
<1> QED BY <1>1, <1>3, <1>4

\* An entry at the back (fill, run) takes a page unless it is the caller's own.
LEMMA HeldGrows ==
  ASSUME NEW a \in Nat, NEW b \in Nat, a <= b, NEW own
  PROVE  Cardinality((a + 1 .. b + 1) \ own) = Cardinality((a + 1 .. b) \ own) + FromPool(b + 1, own)
<1> DEFINE S == (a + 1 .. b) \ own
<1>1. IsFiniteSet(S) /\ Cardinality(S) \in Nat
  BY HeldBounded, Zenon
<1>2. b + 1 \notin S
  OBVIOUS
<1>3. CASE b + 1 \in own
  <2>1. (a + 1 .. b + 1) \ own = S
    BY <1>3
  <2> QED BY <1>1, <1>3, <2>1 DEF FromPool
<1>4. CASE b + 1 \notin own
  <2>1. (a + 1 .. b + 1) \ own = S \cup {b + 1}
    BY <1>4
  <2>2. Cardinality(S \cup {b + 1}) = Cardinality(S) + 1
    BY <1>1, <1>2, FS_AddElement
  <2> QED BY <1>4, <2>1, <2>2 DEF FromPool
<1> QED BY <1>3, <1>4

\* An entry off the front (drain, store, quiesce) gives its page back.
LEMMA HeldShrinks ==
  ASSUME NEW a \in Nat, NEW b \in Nat, a < b, NEW own
  PROVE  Cardinality((a + 1 + 1 .. b) \ own) + FromPool(a + 1, own) = Cardinality((a + 1 .. b) \ own)
<1> DEFINE S == (a + 1 + 1 .. b) \ own
<1>1. IsFiniteSet(S) /\ Cardinality(S) \in Nat
  <2>1. a + 1 \in Nat /\ a + 1 <= b
    OBVIOUS
  <2> QED BY <2>1, HeldBounded, Zenon
<1>2. a + 1 \notin S
  OBVIOUS
<1>3. CASE a + 1 \in own
  <2>1. (a + 1 .. b) \ own = S
    BY <1>3
  <2> QED BY <1>1, <1>3, <2>1 DEF FromPool
<1>4. CASE a + 1 \notin own
  <2>1. (a + 1 .. b) \ own = S \cup {a + 1}
    BY <1>4
  <2>2. Cardinality(S \cup {a + 1}) = Cardinality(S) + 1
    BY <1>1, <1>2, FS_AddElement, Zenon
  <2> QED BY <1>4, <2>1, <2>2 DEF FromPool
<1> QED BY <1>3, <1>4

\* Popping the front of a line of consecutive pages leaves consecutive pages.
LEMMA Popped ==
  ASSUME NEW s \in Seq(Nat), NEW n \in Nat, s # << >>, \A k \in 1..Len(s) : s[k] = n + k
  PROVE  /\ Len(s) \in Nat \ {0} /\ Head(s) = n + 1
         /\ Tail(s) \in Seq(Nat) /\ Len(Tail(s)) = Len(s) - 1
         /\ \A k \in 1..Len(Tail(s)) : Tail(s)[k] = (n + 1) + k
OBVIOUS

\* So does putting the next page at its back.
LEMMA Pushed ==
  ASSUME NEW s \in Seq(Nat), NEW n \in Nat, NEW m \in Nat, m = n + Len(s) + 1, \A k \in 1..Len(s) : s[k] = n + k
  PROVE  /\ Append(s, m) \in Seq(Nat) /\ Len(Append(s, m)) = Len(s) + 1
         /\ \A k \in 1..Len(Append(s, m)) : Append(s, m)[k] = n + k
BY SMTT(30)

-----------------------------------------------------------------------------
\* Both ends start with every page free and nothing outstanding.
LEMMA StreamInit == Init => StreamInv
<1> SUFFICES ASSUME Init PROVE StreamInv
  OBVIOUS
<1>1. /\ job \in Jobs /\ job.txPool \in Pools /\ job.rxPool \in Pools
      /\ job.length \in Nat /\ 1 <= job.length
  BY BoundsAreNaturals DEF Init, Jobs
<1>2. \A S : Cardinality((0 + 1 .. 0) \ S) = 0
  <2>1. \A S : (0 + 1 .. 0) \ S = {}
    OBVIOUS
  <2> QED BY <2>1, FS_EmptySet
<1>3. TxInv
  <2>1. TxLines
    BY <1>1, WindowBounds DEF Init, TxLines, Shipped, Retired
  <2>2. TxPages
    BY <1>1, <1>2, WindowBounds DEF Init, TxPages, Shipped, Retired
  <2>3. TxWindows /\ TxBusy
    BY <1>1, WindowBounds DEF Init, TxWindows, TxBusy, Sending
  <2> QED BY <2>1, <2>2, <2>3 DEF TxInv
<1>4. RxInv
  <2>1. RxLines
    BY <1>1, WindowBounds DEF Init, RxLines, Stored
  <2>2. RxPages
    BY <1>1, <1>2, WindowBounds DEF Init, RxPages, Stored
  <2>3. RxWindows /\ RxBusy
    BY <1>1, WindowBounds DEF Init, RxWindows, RxBusy
  <2> QED BY <2>1, <2>2, <2>3 DEF RxInv
<1>5. SlotInv
  <2>1. \A i \in 1..job.length : slot[i] = i /\ slot[i] \in 1..i /\ recv[i] = "idle"
    BY <1>1 DEF Init
  <2>2. DOMAIN slot = 1..job.length
    BY Zenon DEF Init
  <2> QED BY <2>1, <2>2 DEF SlotInv
<1>6. FabricInv
  <2>1. adapter = {} /\ landing = {} /\ \A i \in 1..job.length : recv[i] = "idle"
    BY Zenon DEF Init
  <2> QED BY <2>1 DEF FabricInv
<1> QED BY <1>1, <1>3, <1>4, <1>5, <1>6 DEF StreamInv

\* A step that leaves an end's own state alone leaves its invariant alone.
LEMMA TxUntouched == TxInv /\ UNCHANGED <<job, sender, read, send>> => TxInv'
BY Zenon DEF TxInv, TxLines, TxPages, TxWindows, TxBusy, Sending, Shipped, Retired, sender

LEMMA RxUntouched == RxInv /\ UNCHANGED <<job, receiver, recv, write>> => RxInv'
BY DEF RxInv, RxLines, RxPages, RxWindows, RxBusy, Stored, receiver

-----------------------------------------------------------------------------
TxNumbers ==
  /\ job.txPool \in Pools /\ job.txPool \in Nat /\ job.length \in Nat
  /\ Window(job.txPool) \in Nat \ {0} /\ ReadAhead(job.txPool) \in Nat \ {0}
  /\ Len(Prefetch) \in Nat /\ Len(InFlight) \in Nat
  /\ Cursor \in Nat /\ Cursor <= job.length /\ Shipped \in Nat /\ Retired \in Nat
  /\ Cursor = Shipped + Len(Prefetch) /\ Shipped = Retired + Len(InFlight)

\* What the invariant says of a sender's numbers, in the form the steps use.
LEMMA TxFacts ==
  ASSUME job \in Jobs, TxInv
  PROVE  TxLines /\ TxPages /\ TxWindows /\ TxBusy /\ TxNumbers
<1> USE DEF TxInv
<1>1. job.txPool \in Pools /\ job.length \in Nat
  BY BoundsAreNaturals DEF Jobs
<1>2. Window(job.txPool) \in Nat \ {0} /\ ReadAhead(job.txPool) \in Nat \ {0} /\ job.txPool \in Nat
  BY <1>1, WindowBounds
<1>3. Len(Prefetch) \in Nat /\ Len(InFlight) \in Nat /\ Cursor \in Nat /\ Cursor <= job.length
  BY <1>1 DEF TxLines
<1>4. Retired \in Nat /\ Shipped = Retired + Len(InFlight) /\ Cursor = Shipped + Len(Prefetch)
  BY <1>3 DEF TxLines, Shipped, Retired
<1>5. Shipped \in Nat
  BY <1>3, <1>4
<1> QED BY <1>1, <1>2, <1>3, <1>4, <1>5 DEF TxNumbers

\* fill appends the next page, and takes a page of the pool for it unless it is
\* the source's own.
LEMMA FillInv ==
  ASSUME job \in Jobs, TxInv, Fill
  PROVE  TxInv'
<1>0. TxLines /\ TxPages /\ TxWindows /\ TxBusy /\ TxNumbers
  BY TxFacts
<1>1. /\ Len(Prefetch) < ReadAhead(job.txPool) /\ Cursor < job.length /\ tx = "fill"
      /\ Cursor' = Cursor + 1 /\ Prefetch' = Append(Prefetch, Cursor + 1)
      /\ UNCHANGED <<job, tx, InFlight, send>>
  BY Zenon DEF Fill, CanFill
<1>2. /\ Prefetch' \in Seq(Nat) /\ Len(Prefetch') = Len(Prefetch) + 1
      /\ \A k \in 1..Len(Prefetch') : Prefetch'[k] = Shipped + k
  <2>1. /\ Prefetch \in Seq(Nat) /\ Shipped \in Nat /\ Cursor + 1 = Shipped + Len(Prefetch) + 1
        /\ \A k \in 1..Len(Prefetch) : Prefetch[k] = Shipped + k
    BY <1>0 DEF TxNumbers, TxLines
  <2>2. Cursor + 1 \in Nat
    BY <1>0 DEF TxNumbers
  <2>3. /\ Append(Prefetch, Cursor + 1) \in Seq(Nat) /\ Len(Append(Prefetch, Cursor + 1)) = Len(Prefetch) + 1
        /\ \A k \in 1..Len(Append(Prefetch, Cursor + 1)) : Append(Prefetch, Cursor + 1)[k] = Shipped + k
    BY <2>1, <2>2, Pushed, SMTT(20)
  <2> QED BY <1>1, <2>3
<1>3. Shipped' = Shipped /\ Retired' = Retired
  BY <1>0, <1>1, <1>2 DEF TxNumbers, Shipped, Retired
<1>4. txFree' \in Nat /\ txFree' + FromPool(Cursor + 1, job.own) = txFree
  <2>1. \/ Cursor + 1 \in job.own /\ txFree' = txFree
        \/ Cursor + 1 \notin job.own /\ txFree > 0 /\ txFree' = txFree - 1
    BY Zenon DEF Fill
  <2>2. txFree \in Nat
    BY <1>0, Zenon DEF TxLines
  <2> QED BY ONLY <2>1, <2>2, SMTT(20) DEF FromPool
<1>5. TxLines'
  <2>1. Cursor' \in 0..job'.length
    BY <1>0, <1>1 DEF TxNumbers
  <2>2. InFlight' \in Seq(Nat) /\ Retired' \in Nat /\ \A k \in 1..Len(InFlight') : InFlight'[k] = Retired + k
    BY <1>0, <1>1, <1>3 DEF TxLines
  <2> QED BY <1>2, <1>3, <1>4, <2>1, <2>2 DEF TxLines
<1>6. TxPages'
  <2>0. Retired \in Nat /\ Cursor \in Nat /\ Retired <= Cursor
    BY <1>0 DEF TxNumbers
  <2>1. Cardinality((Retired + 1 .. Cursor + 1) \ job.own)
          = Cardinality((Retired + 1 .. Cursor) \ job.own) + FromPool(Cursor + 1, job.own)
    BY <2>0, HeldGrows, Zenon
  <2>2. Cardinality((Retired + 1 .. Cursor) \ job.own) \in Nat
    BY <2>0, HeldBounded, Zenon
  <2>3. FromPool(Cursor + 1, job.own) \in Nat
    BY <1>0 DEF TxNumbers, FromPool
  <2>4. txFree + Cardinality((Retired + 1 .. Cursor) \ job.own) = job.txPool
    BY <1>0 DEF TxPages
  <2>5. txFree' + Cardinality((Retired + 1 .. Cursor + 1) \ job.own) = job.txPool
    BY <1>4, <2>1, <2>2, <2>3, <2>4
  <2> QED BY <1>1, <1>3, <2>5, Zenon DEF TxPages
<1>7. TxWindows'
  BY <1>0, <1>1, <1>2 DEF TxNumbers, TxWindows
<1>8. TxBusy'
  <2>1. \E v : read' = [read EXCEPT ![Cursor + 1] = v]
    BY Zenon DEF Fill
  <2> QED BY <1>0, <1>1, <1>3, <2>1, SMTT(20) DEF TxBusy, TxNumbers, Sending
<1> QED BY <1>5, <1>6, <1>7, <1>8 DEF TxInv

\* Joining the oldest send (drain, quiesce) gives its page back.
LEMMA PopInFlightInv ==
  ASSUME job \in Jobs, TxInv, InFlight # << >>, send[Head(InFlight)] \in {"gone", "failed"},
         InFlight' = Tail(InFlight), txFree' = txFree + FromPool(Head(InFlight), job.own),
         UNCHANGED <<job, Cursor, Prefetch, read, send>>,
         tx' = tx \/ tx' = "quiesce", tx # "ship", tx \notin {"reply", "ok", "failed"}
  PROVE  TxInv'
<1>0. TxLines /\ TxPages /\ TxWindows /\ TxBusy /\ TxNumbers
  BY TxFacts
<1>1. /\ Len(InFlight) \in Nat \ {0} /\ Head(InFlight) = Retired + 1
      /\ InFlight' \in Seq(Nat) /\ Len(InFlight') = Len(InFlight) - 1
      /\ \A k \in 1..Len(InFlight') : InFlight'[k] = (Retired + 1) + k
  <2>1. /\ InFlight \in Seq(Nat) /\ Retired \in Nat
        /\ \A k \in 1..Len(InFlight) : InFlight[k] = Retired + k
    BY <1>0 DEF TxNumbers, TxLines
  <2> QED BY <2>1, Popped
<1>2. Shipped' = Shipped /\ Retired' = Retired + 1
  BY <1>0, <1>1 DEF TxNumbers, Shipped, Retired
<1>3. txFree' \in Nat /\ txFree' = txFree + FromPool(Retired + 1, job.own) /\ FromPool(Retired + 1, job.own) \in Nat
  BY <1>0, <1>1, SMTT(30) DEF TxNumbers, FromPool, TxLines
<1>4. TxLines'
  BY <1>0, <1>1, <1>2, <1>3 DEF TxNumbers, TxLines
<1>5. TxPages'
  <2>1. Retired \in Nat /\ Cursor \in Nat /\ Retired < Cursor /\ Retired + 1 <= Cursor /\ Retired + 1 \in Nat
    BY <1>0, <1>1, SMTT(20) DEF TxNumbers
  <2>2. Cardinality((Retired + 1 + 1 .. Cursor) \ job.own) + FromPool(Retired + 1, job.own)
          = Cardinality((Retired + 1 .. Cursor) \ job.own)
    BY <2>1, HeldShrinks
  <2>3. Cardinality((Retired + 1 + 1 .. Cursor) \ job.own) \in Nat
    BY <2>1, HeldBounded, Zenon
  <2>4. txFree + Cardinality((Retired + 1 .. Cursor) \ job.own) = job.txPool /\ txFree \in Nat
    BY <1>0 DEF TxPages, TxLines
  <2>5. txFree' + Cardinality((Retired + 1 + 1 .. Cursor) \ job.own) = job.txPool
    BY ONLY <1>3, <2>2, <2>3, <2>4, SMTT(20)
  <2> QED BY <1>2, <2>5 DEF TxPages
<1>6. TxWindows'
  BY <1>0, <1>1, SMTT(20) DEF TxNumbers, TxWindows
<1>7. TxBusy'
  BY <1>0, <1>1, <1>2, SMTT(30) DEF TxNumbers, TxBusy, Sending
<1> QED BY <1>4, <1>5, <1>6, <1>7 DEF TxInv

\* Joining the oldest read (quiesce, nothing in flight) gives its page back.
LEMMA PopPrefetchInv ==
  ASSUME job \in Jobs, TxInv, InFlight = << >>, Prefetch # << >>, read[Head(Prefetch)] # "busy",
         Prefetch' = Tail(Prefetch), txFree' = txFree + FromPool(Head(Prefetch), job.own),
         UNCHANGED <<job, tx, Cursor, InFlight, read, send>>, tx = "quiesce"
  PROVE  TxInv'
<1>0. TxLines /\ TxPages /\ TxWindows /\ TxBusy /\ TxNumbers
  BY TxFacts
<1>1. Retired = Shipped
  <2>1. Len(InFlight) = 0
    OBVIOUS
  <2> QED BY <1>0, <2>1 DEF TxNumbers
<1>2. /\ Len(Prefetch) \in Nat \ {0} /\ Head(Prefetch) = Shipped + 1
      /\ Prefetch' \in Seq(Nat) /\ Len(Prefetch') = Len(Prefetch) - 1
      /\ \A k \in 1..Len(Prefetch') : Prefetch'[k] = (Shipped + 1) + k
  <2>1. /\ Prefetch \in Seq(Nat) /\ Shipped \in Nat
        /\ \A k \in 1..Len(Prefetch) : Prefetch[k] = Shipped + k
    BY <1>0 DEF TxNumbers, TxLines
  <2> QED BY <2>1, Popped
<1>3. Shipped' = Shipped + 1 /\ Retired' = Retired + 1
  BY <1>0, <1>2 DEF TxNumbers, Shipped, Retired
<1>4. txFree' \in Nat /\ txFree' = txFree + FromPool(Retired + 1, job.own) /\ FromPool(Retired + 1, job.own) \in Nat
  BY <1>0, <1>1, <1>2 DEF TxNumbers, FromPool, TxLines
<1>5. TxLines'
  BY <1>0, <1>2, <1>3, <1>4 DEF TxNumbers, TxLines
<1>6. TxPages'
  <2>1. Retired \in Nat /\ Cursor \in Nat /\ Retired < Cursor /\ Retired + 1 <= Cursor /\ Retired + 1 \in Nat
    BY <1>0, <1>1, <1>2 DEF TxNumbers
  <2>2. Cardinality((Retired + 1 + 1 .. Cursor) \ job.own) + FromPool(Retired + 1, job.own)
          = Cardinality((Retired + 1 .. Cursor) \ job.own)
    BY <2>1, HeldShrinks
  <2>3. Cardinality((Retired + 1 + 1 .. Cursor) \ job.own) \in Nat
    BY <2>1, HeldBounded, Zenon
  <2>4. txFree + Cardinality((Retired + 1 .. Cursor) \ job.own) = job.txPool /\ txFree \in Nat
    BY <1>0 DEF TxPages, TxLines
  <2>5. txFree' + Cardinality((Retired + 1 + 1 .. Cursor) \ job.own) = job.txPool
    BY ONLY <1>4, <2>2, <2>3, <2>4
  <2> QED BY <1>3, <2>5 DEF TxPages
<1>7. TxWindows'
  BY <1>0, <1>2 DEF TxNumbers, TxWindows
<1>8. TxBusy'
  BY <1>0, <1>1, <1>2, <1>3, SMTT(30) DEF TxNumbers, TxBusy, Sending
<1> QED BY <1>5, <1>6, <1>7, <1>8 DEF TxInv

\* shipReady moves the front of Prefetch to the back of InFlight.
LEMMA ShipInv ==
  ASSUME job \in Jobs, TxInv, Ship
  PROVE  TxInv'
<1>0. TxLines /\ TxPages /\ TxWindows /\ TxBusy /\ TxNumbers
  BY TxFacts
<1>1. /\ tx = "ship" /\ tx' = "fill" /\ read[Head(Prefetch)] # "busy"
      /\ Prefetch' = Tail(Prefetch) /\ InFlight' = Append(InFlight, Head(Prefetch))
      /\ send' = [send EXCEPT ![Head(Prefetch)] = "posted"]
      /\ UNCHANGED <<job, Cursor, txFree, read>>
  BY Zenon DEF Ship, Awaited
<1>2. Prefetch # << >> /\ Len(InFlight) < Window(job.txPool)
  BY <1>0, <1>1 DEF TxNumbers, TxWindows
<1>3. /\ Len(Prefetch) \in Nat \ {0} /\ Head(Prefetch) = Shipped + 1
      /\ Prefetch' \in Seq(Nat) /\ Len(Prefetch') = Len(Prefetch) - 1
      /\ \A k \in 1..Len(Prefetch') : Prefetch'[k] = (Shipped + 1) + k
  <2>1. /\ Prefetch \in Seq(Nat) /\ Shipped \in Nat
        /\ \A k \in 1..Len(Prefetch) : Prefetch[k] = Shipped + k
    BY <1>0 DEF TxNumbers, TxLines
  <2> QED BY <1>1, <1>2, <2>1, Popped
<1>4. /\ InFlight' \in Seq(Nat) /\ Len(InFlight') = Len(InFlight) + 1
      /\ \A k \in 1..Len(InFlight') : InFlight'[k] = Retired + k
  <2>1. /\ InFlight \in Seq(Nat) /\ Retired \in Nat /\ Head(Prefetch) = Retired + Len(InFlight) + 1
        /\ \A k \in 1..Len(InFlight) : InFlight[k] = Retired + k
    BY <1>0, <1>3 DEF TxNumbers, TxLines
  <2>2. Head(Prefetch) \in Nat
    BY <1>0, <1>3, SMTT(20) DEF TxNumbers
  <2>3. /\ Append(InFlight, Head(Prefetch)) \in Seq(Nat)
        /\ Len(Append(InFlight, Head(Prefetch))) = Len(InFlight) + 1
        /\ \A k \in 1..Len(Append(InFlight, Head(Prefetch))) : Append(InFlight, Head(Prefetch))[k] = Retired + k
    BY <2>1, <2>2, Pushed, Zenon
  <2> QED BY <1>1, <2>3
<1>5. Shipped' = Shipped + 1 /\ Retired' = Retired
  BY <1>0, <1>1, <1>3, <1>4 DEF TxNumbers, Shipped, Retired
<1>6. TxLines'
  BY <1>0, <1>1, <1>3, <1>4, <1>5, Zenon DEF TxNumbers, TxLines
<1>7. TxPages'
  BY <1>0, <1>1, <1>5 DEF TxNumbers, TxPages
<1>8. TxWindows'
  BY <1>0, <1>1, <1>2, <1>3, <1>4, SMTT(30) DEF TxNumbers, TxWindows
<1>9. TxBusy'
  <2>1. DOMAIN read' = 1..job'.length /\ DOMAIN send' = 1..job'.length
    BY <1>0, <1>1 DEF TxBusy
  <2>2. ASSUME NEW i \in 1..job.length, read[i] = "busy"
        PROVE  Shipped + 1 < i /\ i <= Cursor
    BY <1>0, <1>1, <1>3, <2>2, SMTT(30) DEF TxNumbers, TxBusy
  <2>3. ASSUME NEW i \in 1..job.length
        PROVE  /\ send'[i] \in {"posted", "writing"} => Retired < i /\ i <= Shipped + 1
               /\ send'[i] # "idle" => i <= Shipped + 1
    <3>1. CASE i = Shipped + 1
      BY <1>0, <3>1 DEF TxNumbers
    <3>2. CASE i # Shipped + 1
      <4>1. send'[i] = send[i]
        BY <1>0, <1>1, <1>3, <3>2 DEF TxBusy
      <4> QED BY <1>0, <4>1, SMTT(20) DEF TxNumbers, TxBusy, Sending
    <3> QED BY <3>1, <3>2
  <2> QED BY <1>1, <1>5, <2>1, <2>2, <2>3 DEF TxBusy, Sending
<1> QED BY <1>6, <1>7, <1>8, <1>9 DEF TxInv

\* The steps of the sender that touch no line: a change of tx alone.
LEMMA TxMoves ==
  ASSUME job \in Jobs, TxInv, FillEnds \/ DrainEnds \/ Refuse \/ SendDigest \/ TakeReply
  PROVE  TxInv'
<1>0. TxLines /\ TxPages /\ TxWindows /\ TxBusy /\ TxNumbers
  BY TxFacts, Zenon
<1>1. UNCHANGED <<job, Cursor, Prefetch, InFlight, txFree, read, send>>
  BY Zenon DEF FillEnds, DrainEnds, Refuse, SendDigest, TakeReply
<1>2. TxLines' /\ TxPages' /\ TxBusy'
  BY <1>0, <1>1, Zenon DEF TxLines, TxPages, TxBusy, Sending, Shipped, Retired
<1>3. TxWindows'
  <2>1. CASE FillEnds
    BY <1>0, <1>1, <2>1, Zenon DEF TxWindows, FillEnds
  <2>2. CASE DrainEnds
    <3>1. tx' \in {"ship", "quiesce"} /\ (tx' = "ship" => tx = "drain")
      BY <2>2, Zenon DEF DrainEnds
    <3>2. tx' = "ship" => Len(InFlight) < Window(job.txPool)
      <4>1. tx = "drain" => Len(InFlight) <= Window(job.txPool) - 1
        BY <2>2, Zenon DEF DrainEnds, Keep
      <4>2. Len(InFlight) \in Nat /\ Window(job.txPool) \in Nat \ {0}
        BY <1>0, Zenon DEF TxNumbers
      <4> QED BY ONLY <3>1, <4>1, <4>2, SMTT(20)
    <3> QED BY <1>0, <1>1, <3>1, <3>2 DEF TxWindows
  <2>3. CASE Refuse
    BY <1>0, <1>1, <2>3, Zenon DEF TxWindows, Refuse
  <2>4. CASE SendDigest
    <3>1. tx' \in {"reply", "failed"} /\ Prefetch = << >> /\ InFlight = << >>
      BY <2>4, Zenon DEF SendDigest
    <3> QED BY <1>0, <1>1, <3>1 DEF TxWindows
  <2>5. CASE TakeReply
    <3>1. tx = "reply" /\ tx' \in {"ok", "failed"}
      BY <2>5, Zenon DEF TakeReply
    <3> QED BY <1>0, <1>1, <3>1 DEF TxWindows
  <2> QED BY <2>1, <2>2, <2>3, <2>4, <2>5, Zenon
<1> QED BY <1>2, <1>3 DEF TxInv

\* The sends and reads that go on, complete or fail leave the sender's lines alone.
LEMMA TxCompletes ==
  ASSUME job \in Jobs, TxInv, UNCHANGED <<job, sender>>, NEW i \in 1..job.length,
         read' = read \/ \E v \in {"data", "short", "bad"} : read' = [read EXCEPT ![i] = v],
         send' = send \/ (Sending(i) /\ \E v \in {"writing", "gone", "failed"} : send' = [send EXCEPT ![i] = v])
  PROVE  TxInv'
<1>1. TxLines' /\ TxPages' /\ TxWindows' /\ Shipped' = Shipped /\ Retired' = Retired
  BY DEF TxInv, TxLines, TxPages, TxWindows, Shipped, Retired, sender
<1>2. TxBusy'
  <2>1. /\ DOMAIN read = 1..job.length /\ DOMAIN send = 1..job.length
        /\ \A j \in 1..job.length : read[j] = "busy" => Shipped < j /\ j <= Cursor
        /\ \A j \in 1..job.length : Sending(j) => Retired < j /\ j <= Shipped
        /\ \A j \in 1..job.length : send[j] # "idle" => j <= Shipped
    BY DEF TxInv, TxBusy
  <2>2. job' = job /\ Cursor' = Cursor
    BY DEF sender
  <2>3. DOMAIN read' = 1..job.length /\ \A j \in 1..job.length : read'[j] = "busy" => read[j] = "busy"
    BY <2>1, Zenon
  <2>4. DOMAIN send' = 1..job.length
    BY <2>1, Zenon
  <2>5. \A j \in 1..job.length : send'[j] = send[j] \/ Sending(j)
    BY <2>1, Zenon
  <2>6. \A j \in 1..job.length : /\ send'[j] \in {"posted", "writing"} => Sending(j)
                                 /\ send'[j] # "idle" => Sending(j) \/ send[j] # "idle"
    BY <2>5, Zenon DEF Sending
  <2>7. \A j \in 1..job.length : /\ send'[j] \in {"posted", "writing"} => Retired < j /\ j <= Shipped
                                 /\ send'[j] # "idle" => j <= Shipped
    BY <2>1, <2>6, Zenon
  <2> QED BY <1>1, <2>1, <2>2, <2>3, <2>4, <2>7, Zenon DEF TxBusy, Sending
<1> QED BY <1>1, <1>2, Zenon DEF TxInv

\* Every step of the sender, and every completion of its own, keeps its invariant.
LEMMA SenderInv ==
  ASSUME job \in Jobs, TxInv, Sender \/ Refuse
  PROVE  TxInv'
<1>0. TxLines /\ TxPages /\ TxWindows /\ TxBusy /\ TxNumbers
  BY TxFacts
<1>1. CASE Fill
  BY <1>1, FillInv
<1>2. CASE FillEnds \/ DrainEnds \/ Refuse \/ SendDigest \/ TakeReply
  BY <1>2, TxMoves
<1>3. CASE Retire
  <2>1. InFlight # << >>
    <3>1. Keep \in Nat /\ Len(InFlight) > Keep
      <4>1. Len(InFlight) > Keep
        BY <1>3, Zenon DEF Retire
      <4>2. Window(job.txPool) \in Nat \ {0}
        BY <1>0, Zenon DEF TxNumbers
      <4>3. Keep \in Nat
        BY ONLY <4>2, SMTT(20) DEF Keep
      <4> QED BY <4>1, <4>3, Zenon
    <3> QED BY <1>0, <3>1 DEF TxLines
  <2>2. /\ send[Head(InFlight)] \in {"gone", "failed"} /\ InFlight' = Tail(InFlight)
        /\ txFree' = txFree + FromPool(Head(InFlight), job.own)
        /\ UNCHANGED <<job, Cursor, Prefetch, read, send>>
        /\ tx' = tx \/ tx' = "quiesce"
        /\ tx # "ship" /\ tx \notin {"reply", "ok", "failed"}
    BY <1>3, Zenon DEF Retire
  <2> QED BY <2>1, <2>2, PopInFlightInv
<1>4. CASE Ship
  BY <1>4, ShipInv
<1>5. CASE QuiesceTx
  <2>0. tx = "quiesce" /\ UNCHANGED <<job, tx, Cursor, read, send>>
    BY <1>5, Zenon DEF QuiesceTx
  <2>1. CASE InFlight # << >>
    <3>1. /\ send[Head(InFlight)] \in {"gone", "failed"} /\ InFlight' = Tail(InFlight)
          /\ txFree' = txFree + FromPool(Head(InFlight), job.own) /\ UNCHANGED Prefetch
      BY <1>5, <2>1, Zenon DEF QuiesceTx
    <3> QED BY <2>0, <2>1, <3>1, PopInFlightInv
  <2>2. CASE InFlight = << >>
    <3>1. /\ Prefetch # << >> /\ read[Head(Prefetch)] # "busy" /\ Prefetch' = Tail(Prefetch)
          /\ txFree' = txFree + FromPool(Head(Prefetch), job.own) /\ UNCHANGED InFlight
      BY <1>5, <2>2, Zenon DEF QuiesceTx, Awaited
    <3> QED BY <2>0, <2>2, <3>1, PopPrefetchInv
  <2> QED BY <2>1, <2>2
<1> QED BY <1>1, <1>2, <1>3, <1>4, <1>5, Zenon DEF Sender

-----------------------------------------------------------------------------
RxNumbers ==
  /\ job.rxPool \in Pools /\ job.rxPool \in Nat /\ job.length \in Nat
  /\ Window(job.rxPool) \in Nat \ {0} /\ WriteDepth(job.rxPool) \in Nat
  /\ Len(Receiving) \in Nat /\ Len(Writes) \in Nat
  /\ At \in Nat /\ At <= job.length /\ Stored \in Nat /\ At = Stored + Len(Receiving)

\* What the invariant says of a receiver's numbers, in the form the steps use.
LEMMA RxFacts ==
  ASSUME job \in Jobs, RxInv
  PROVE  RxLines /\ RxPages /\ RxWindows /\ RxBusy /\ RxNumbers
<1> USE DEF RxInv
<1>1. job.rxPool \in Pools /\ job.length \in Nat
  BY BoundsAreNaturals DEF Jobs
<1>2. Window(job.rxPool) \in Nat \ {0} /\ WriteDepth(job.rxPool) \in Nat /\ job.rxPool \in Nat
  BY <1>1, WindowBounds
<1>3. Len(Receiving) \in Nat /\ Len(Writes) \in Nat /\ At \in Nat /\ At <= job.length
  BY <1>1 DEF RxLines
<1>4. Stored \in Nat /\ At = Stored + Len(Receiving)
  BY <1>3, SMTT(20) DEF RxLines, Stored
<1> QED BY <1>1, <1>2, <1>3, <1>4 DEF RxNumbers

\* run appends the next page, and takes a page of the pool for it unless it is
\* the sink's own.
LEMMA PostInv ==
  ASSUME job \in Jobs, RxInv, Post
  PROVE  RxInv'
<1>0. RxLines /\ RxPages /\ RxWindows /\ RxBusy /\ RxNumbers
  BY RxFacts
<1>1. /\ rx = "post" /\ At' = At + 1 /\ Receiving' = Append(Receiving, At + 1)
      /\ recv' = [recv EXCEPT ![At + 1] = "posted"] \/ recv' = [recv EXCEPT ![At + 1] = "refused"]
      /\ rx' = IF At + 1 = job.length THEN "lastStore" ELSE "store"
      /\ UNCHANGED <<job, Writes, write>>
  BY Zenon DEF Post
<1>2. /\ Receiving' \in Seq(Nat) /\ Len(Receiving') = Len(Receiving) + 1
      /\ \A k \in 1..Len(Receiving') : Receiving'[k] = Stored + k
  <2>1. /\ Receiving \in Seq(Nat) /\ Stored \in Nat /\ At + 1 \in Nat /\ At + 1 = Stored + Len(Receiving) + 1
        /\ \A k \in 1..Len(Receiving) : Receiving[k] = Stored + k
    BY <1>0 DEF RxNumbers, RxLines
  <2>2. /\ Append(Receiving, At + 1) \in Seq(Nat) /\ Len(Append(Receiving, At + 1)) = Len(Receiving) + 1
        /\ \A k \in 1..Len(Append(Receiving, At + 1)) : Append(Receiving, At + 1)[k] = Stored + k
    BY <2>1, Pushed, SMTT(30)
  <2> QED BY <1>1, <2>2
<1>3. Stored' = Stored
  BY <1>0, <1>1, <1>2 DEF Stored, RxNumbers
<1>4. rxFree' \in Nat /\ rxFree' + FromPool(At + 1, job.home) = rxFree /\ FromPool(At + 1, job.home) \in Nat
  <2>1. (At + 1 \in job.home \/ rxFree > 0) /\ rxFree' = rxFree - FromPool(At + 1, job.home)
    BY Zenon DEF Post
  <2>2. rxFree \in Nat
    BY <1>0, Zenon DEF RxLines
  <2> QED BY ONLY <2>1, <2>2, SMTT(20) DEF FromPool
<1>5. At < job.length
  BY <1>0, <1>1 DEF RxLines
<1>6. RxLines'
  <2>1. rx' \in {"store", "writes", "post"} => At' < job'.length
    BY <1>0, <1>1, <1>5 DEF RxNumbers
  <2>2. At' \in 0..job'.length
    BY <1>0, <1>1, <1>5 DEF RxNumbers
  <2>3. Writes' \in Seq(Nat) /\ Stored' \in Nat
    BY <1>0, <1>1, <1>3 DEF RxLines
  <2> QED BY <1>2, <1>3, <1>4, <2>1, <2>2, <2>3, SMTT(20) DEF RxLines
<1>7. RxPages'
  <2>0. Stored \in Nat /\ At \in Nat /\ Stored <= At
    BY <1>0 DEF RxNumbers
  <2>1. Cardinality((Stored + 1 .. At + 1) \ job.home)
          = Cardinality((Stored + 1 .. At) \ job.home) + FromPool(At + 1, job.home)
    BY <2>0, HeldGrows, Zenon
  <2>2. Cardinality((Stored + 1 .. At) \ job.home) \in Nat
    BY <2>0, HeldBounded, Zenon
  <2>3. rxFree + Len(Writes) + Cardinality((Stored + 1 .. At) \ job.home) = job.rxPool
    BY <1>0 DEF RxPages
  <2>4. rxFree' + Len(Writes) + Cardinality((Stored + 1 .. At + 1) \ job.home) = job.rxPool
    BY <1>0, <1>4, <2>1, <2>2, <2>3, SMTT(20) DEF RxNumbers
  <2> QED BY <1>1, <1>3, <2>4 DEF RxPages
<1>8. RxWindows'
  BY <1>0, <1>1, <1>2, SMTT(20) DEF RxWindows, RxNumbers
<1>9. RxBusy'
  <2>1. DOMAIN recv' = 1..job'.length /\ DOMAIN write' = 1..job'.length
    BY <1>0, <1>1 DEF RxBusy
  <2>2. ASSUME NEW i \in 1..job.length
        PROVE  /\ recv'[i] = "posted" => Stored < i /\ i <= At + 1
               /\ recv'[i] # "idle" => i <= At + 1
    <3>1. CASE i = At + 1
      BY <1>0, <3>1 DEF RxNumbers
    <3>2. CASE i # At + 1
      <4>1. recv'[i] = recv[i]
        BY <1>0, <1>1, <3>2, Zenon DEF RxBusy
      <4> QED BY <1>0, <4>1, SMTT(20) DEF RxNumbers, RxBusy
    <3> QED BY <3>1, <3>2
  <2> QED BY <1>0, <1>1, <1>3, <2>1, <2>2, SMTT(20) DEF RxBusy
<1> QED BY <1>6, <1>7, <1>8, <1>9 DEF RxInv

\* Joining the oldest receive (store, quiesce): its page goes back, or on to Writes.
LEMMA PopReceivingInv ==
  ASSUME job \in Jobs, RxInv, Receiving # << >>, recv[Head(Receiving)] # "posted",
         Receiving' = Tail(Receiving), UNCHANGED <<job, At, recv>>,
         rxFree' \in Nat, Writes' \in Seq(Nat),
         rxFree' + Len(Writes') = rxFree + Len(Writes) + FromPool(Head(Receiving), job.home),
         rx \in {"store", "lastStore", "quiesce"}, rx' = rx \/ rx' = "quiesce",
         DOMAIN write' = 1..job.length,
         \A i \in 1..job.length : write'[i] = "busy" => \E k \in 1..Len(Writes') : Writes'[k] = i
  PROVE  RxInv'
<1>0. RxLines /\ RxPages /\ RxWindows /\ RxBusy /\ RxNumbers
  BY RxFacts
<1>1. /\ Len(Receiving) \in Nat \ {0} /\ Head(Receiving) = Stored + 1
      /\ Receiving' \in Seq(Nat) /\ Len(Receiving') = Len(Receiving) - 1
      /\ \A k \in 1..Len(Receiving') : Receiving'[k] = (Stored + 1) + k
  <2>1. /\ Receiving \in Seq(Nat) /\ Stored \in Nat
        /\ \A k \in 1..Len(Receiving) : Receiving[k] = Stored + k
    BY <1>0 DEF RxNumbers, RxLines
  <2> QED BY <2>1, Popped
<1>2. Stored' = Stored + 1
  BY <1>0, <1>1, SMTT(20) DEF Stored, RxNumbers
<1>3. RxLines'
  BY <1>0, <1>1, <1>2, SMTT(20) DEF RxLines, RxNumbers
<1>4. RxPages'
  <2>1. Stored \in Nat /\ At \in Nat /\ Stored < At /\ Stored + 1 <= At /\ Stored + 1 \in Nat
    BY <1>0, <1>1, SMTT(30) DEF RxNumbers
  <2>2. Cardinality((Stored + 1 + 1 .. At) \ job.home) + FromPool(Stored + 1, job.home)
          = Cardinality((Stored + 1 .. At) \ job.home)
    BY ONLY <2>1, HeldShrinks
  <2>3. Cardinality((Stored + 1 + 1 .. At) \ job.home) \in Nat /\ FromPool(Stored + 1, job.home) \in Nat
    BY <2>1, HeldBounded, Zenon DEF FromPool
  <2>4. Len(Writes') \in Nat
    OBVIOUS
  <2> QED BY <1>0, <1>1, <1>2, <2>2, <2>3, <2>4, SMTT(30) DEF RxPages, RxLines, RxNumbers
<1>5. RxWindows'
  <2>1. rx' \in {"store", "lastStore", "quiesce"}
    OBVIOUS
  <2>2. Len(Receiving') <= Window(job.rxPool)
    BY <1>0, <1>1, SMTT(20) DEF RxWindows, RxNumbers
  <2> QED BY ONLY <2>1, <2>2, job' = job DEF RxWindows
<1>6. RxBusy'
  <2>1. \A i \in 1..job.length : recv[i] = "posted" => Stored + 1 < i /\ i <= At
    BY <1>0, <1>1, SMTT(30) DEF RxBusy, RxNumbers
  <2> QED BY <1>0, <1>2, <2>1, SMTT(20) DEF RxBusy
<1> QED BY <1>3, <1>4, <1>5, <1>6 DEF RxInv

\* Joining the oldest write (awaitWrites, quiesce) gives its page back.
LEMMA PopWritesInv ==
  ASSUME job \in Jobs, RxInv, Writes # << >>, write[Head(Writes)] # "busy",
         Writes' = Tail(Writes), rxFree' = rxFree + 1, UNCHANGED <<job, At, Receiving, recv, write>>,
         rx \in {"writes", "lastWrites", "quiesce"}, rx' = rx \/ rx' = "quiesce"
  PROVE  RxInv'
<1>0. RxLines /\ RxPages /\ RxWindows /\ RxBusy /\ RxNumbers
  BY RxFacts
<1>1. /\ Len(Writes) \in Nat \ {0} /\ Writes' \in Seq(Nat) /\ Len(Writes') = Len(Writes) - 1
      /\ \A k \in 1..Len(Writes') : Writes'[k] = Writes[k + 1]
      /\ Head(Writes) = Writes[1]
  BY <1>0 DEF RxLines
<1>2. Stored' = Stored
  BY DEF Stored
<1>3. RxLines'
  BY <1>0, <1>1, <1>2, SMTT(20) DEF RxLines
<1>4. RxPages'
  <2>1. Cardinality((Stored + 1 .. At) \ job.home) \in Nat
    <3>1. Stored \in Nat /\ At \in Nat /\ Stored <= At
      BY <1>0 DEF RxNumbers
    <3> QED BY <3>1, HeldBounded, Zenon
  <2> QED BY <1>0, <1>1, <1>2, <2>1 DEF RxPages, RxLines, RxNumbers
<1>5. RxWindows'
  BY <1>0, <1>1, SMTT(30) DEF RxWindows, RxNumbers
<1>6. RxBusy'
  <2>1. ASSUME NEW i \in 1..job.length, write[i] = "busy"
        PROVE  \E k \in 1..Len(Writes') : Writes'[k] = i
    <3>1. PICK k \in 1..Len(Writes) : Writes[k] = i
      BY <1>0, <2>1 DEF RxBusy
    <3>2. k # 1
      BY <1>1, <2>1, <3>1
    <3>3. k - 1 \in 1..Len(Writes') /\ Writes'[k - 1] = Writes[(k - 1) + 1]
      BY <1>1, <3>2
    <3>4. (k - 1) + 1 = k
      BY <1>1
    <3> QED BY <3>1, <3>3, <3>4, Zenon
  <2> QED BY <1>0, <1>2, <2>1 DEF RxBusy
<1> QED BY <1>3, <1>4, <1>5, <1>6 DEF RxInv

\* The steps of the receiver that touch no line: a change of rx alone.
LEMMA RxMoves ==
  ASSUME job \in Jobs, RxInv, StoreEnds \/ WritesEnd \/ Land \/ TakeDigest
  PROVE  RxInv'
<1>0. RxLines /\ RxPages /\ RxWindows /\ RxBusy /\ RxNumbers
  BY RxFacts, Zenon
<1>1. UNCHANGED <<job, At, Receiving, Writes, rxFree, recv, write>>
  BY Zenon DEF StoreEnds, WritesEnd, Land, TakeDigest
<1>2. RxPages' /\ RxBusy'
  BY <1>0, <1>1, Zenon DEF RxPages, RxBusy, Stored
<1>3. RxLines' /\ RxWindows'
  <2>1. CASE StoreEnds
    <3>1. rx' \in {"writes", "lastWrites"} /\ (rx' = "writes" => rx = "store")
      BY <2>1, Zenon DEF StoreEnds
    <3>2. rx' = "writes" => Len(Receiving) < Window(job.rxPool)
      <4>1. rx = "store" => Len(Receiving) <= Window(job.rxPool) - 1
        BY <2>1, Zenon DEF StoreEnds, KeepReceiving
      <4>2. Len(Receiving) \in Nat /\ Window(job.rxPool) \in Nat \ {0}
        BY <1>0, Zenon DEF RxNumbers
      <4> QED BY ONLY <3>1, <4>1, <4>2, SMTT(20)
    <3> QED BY <1>0, <1>1, <3>1, <3>2, SMTT(20) DEF RxLines, RxWindows, Stored
  <2>2. CASE WritesEnd
    <3>1. rx' \in {"post", "quiesce"} /\ (rx' = "post" => rx = "writes")
      BY <2>2, Zenon DEF WritesEnd
    <3>2. rx' = "post" => Len(Writes) <= WriteDepth(job.rxPool)
      BY <1>0, <2>2, <3>1, Zenon DEF WritesEnd, KeepWrites, RxNumbers
    <3> QED BY <1>0, <1>1, <3>1, <3>2 DEF RxLines, RxWindows, Stored
  <2>3. CASE Land
    <3>1. rx' \in {"digest", "failed"} /\ Receiving = << >> /\ Writes = << >>
      BY <2>3, Zenon DEF Land
    <3> QED BY <1>0, <1>1, <3>1 DEF RxLines, RxWindows, Stored
  <2>4. CASE TakeDigest
    <3>1. rx = "digest" /\ rx' \in {"ok", "failed"}
      BY <2>4, Zenon DEF TakeDigest
    <3> QED BY <1>0, <1>1, <3>1, SMTT(20) DEF RxLines, RxWindows, Stored
  <2> QED BY <2>1, <2>2, <2>3, <2>4, Zenon
<1> QED BY <1>2, <1>3 DEF RxInv

\* The receives and writes that complete or fail leave the receiver's lines alone.
LEMMA RxCompletes ==
  ASSUME job \in Jobs, RxInv, UNCHANGED <<job, receiver>>, NEW i,
         DOMAIN recv' = DOMAIN recv,
         \A j \in DOMAIN recv : recv'[j] = recv[j] \/ (recv[j] = "posted" /\ recv'[j] \in {"landed", "failed"}),
         write' = write \/ \E v \in {"good", "bad"} : write' = [write EXCEPT ![i] = v]
  PROVE  RxInv'
<1>1. RxLines' /\ RxPages' /\ RxWindows' /\ Stored' = Stored
  BY Zenon DEF RxInv, RxLines, RxPages, RxWindows, Stored, receiver
<1>2. RxBusy'
  <2>1. \A j \in DOMAIN recv : recv'[j] = "posted" => recv[j] = "posted"
    BY Zenon
  <2>2. \A j \in DOMAIN recv : recv'[j] = recv[j] \/ recv[j] = "posted"
    BY Zenon
  <2>3. \A j \in DOMAIN recv : recv'[j] # "idle" => recv[j] # "idle"
    BY <2>2
  <2>4. DOMAIN write' = DOMAIN write /\ \A j \in DOMAIN write : write'[j] = "busy" => write[j] = "busy"
    BY Zenon
  <2> QED BY <1>1, <2>1, <2>3, <2>4 DEF RxInv, RxBusy, receiver
<1> QED BY <1>1, <1>2, Zenon DEF RxInv

\* store hands the oldest page to the sink, or gives the stream up.
LEMMA StoreInv ==
  ASSUME job \in Jobs, RxInv, Store
  PROVE  RxInv'
<1>0. RxLines /\ RxPages /\ RxWindows /\ RxBusy /\ RxNumbers
  BY RxFacts
<1>1. Receiving # << >>
  <2>1. KeepReceiving \in Nat /\ Len(Receiving) > KeepReceiving
    <3>1. Len(Receiving) > KeepReceiving
      BY Zenon DEF Store
    <3>2. Window(job.rxPool) \in Nat \ {0}
      BY <1>0, Zenon DEF RxNumbers
    <3>3. KeepReceiving \in Nat
      BY ONLY <3>2, SMTT(20) DEF KeepReceiving
    <3> QED BY <3>1, <3>3, Zenon
  <2> QED BY <1>0, <2>1, SMTT(30) DEF RxLines
<1>2. /\ recv[Head(Receiving)] # "posted" /\ Receiving' = Tail(Receiving) /\ UNCHANGED <<job, At, recv>>
      /\ rx \in {"store", "lastStore", "quiesce"}
  BY Zenon DEF Store
<1>3. rx' = rx \/ rx' = "quiesce"
  BY Zenon DEF Store
<1>4. rxFree \in Nat /\ Len(Writes) \in Nat /\ Writes \in Seq(Nat)
  BY <1>0 DEF RxLines, RxNumbers
<1>5. CASE UNCHANGED <<Writes, write>> /\ rxFree' = rxFree + FromPool(Head(Receiving), job.home)
  <2>1. /\ rxFree' \in Nat /\ Writes' \in Seq(Nat)
        /\ rxFree' + Len(Writes') = rxFree + Len(Writes) + FromPool(Head(Receiving), job.home)
    BY <1>4, <1>5, SMTT(30) DEF FromPool
  <2>2. /\ DOMAIN write' = 1..job.length
        /\ \A i \in 1..job.length : write'[i] = "busy" => \E k \in 1..Len(Writes') : Writes'[k] = i
    BY <1>0, <1>5 DEF RxBusy
  <2> QED BY <1>1, <1>2, <1>3, <2>1, <2>2, PopReceivingInv, SMTT(20)
<1>6. CASE /\ Head(Receiving) \notin job.home /\ UNCHANGED rxFree
           /\ Writes' = Append(Writes, Head(Receiving)) /\ write' = [write EXCEPT ![Head(Receiving)] = "busy"]
  <2>0. Head(Receiving) \in Nat
    BY <1>0, <1>1 DEF RxLines
  <2>1. /\ Writes' \in Seq(Nat) /\ Len(Writes') = Len(Writes) + 1
        /\ Writes'[Len(Writes) + 1] = Head(Receiving)
        /\ \A k \in 1..Len(Writes) : Writes'[k] = Writes[k]
    BY <1>4, <1>6, <2>0
  <2>2. /\ rxFree' \in Nat
        /\ rxFree' + Len(Writes') = rxFree + Len(Writes) + FromPool(Head(Receiving), job.home)
    BY <1>4, <1>6, <2>1, SMTT(20) DEF FromPool
  <2>3. DOMAIN write' = 1..job.length
    BY <1>0, <1>6 DEF RxBusy
  <2>4. ASSUME NEW i \in 1..job.length, write'[i] = "busy"
        PROVE  \E k \in 1..Len(Writes') : Writes'[k] = i
    <3>1. CASE i = Head(Receiving)
      <4>1. Len(Writes) + 1 \in 1..Len(Writes')
        BY <1>4, <2>1
      <4> QED BY <2>1, <3>1, <4>1
    <3>2. CASE i # Head(Receiving)
      <4>1. write[i] = "busy"
        BY <1>0, <1>6, <2>4, <3>2 DEF RxBusy
      <4>2. PICK k \in 1..Len(Writes) : Writes[k] = i
        BY <1>0, <4>1 DEF RxBusy
      <4>3. k \in 1..Len(Writes') /\ Writes'[k] = i
        BY <1>4, <2>1, <4>2, SMTT(30)
      <4> QED BY <4>3
    <3> QED BY <3>1, <3>2
  <2> QED BY <1>1, <1>2, <1>3, <2>1, <2>2, <2>3, <2>4, PopReceivingInv, SMTT(20)
<1>7. \/ UNCHANGED <<Writes, write>> /\ rxFree' = rxFree + FromPool(Head(Receiving), job.home)
      \/ /\ Head(Receiving) \notin job.home /\ UNCHANGED rxFree
         /\ Writes' = Append(Writes, Head(Receiving)) /\ write' = [write EXCEPT ![Head(Receiving)] = "busy"]
  <2>1. \/ UNCHANGED <<Writes, write>> /\ rxFree' = rxFree + FromPool(Head(Receiving), job.home)
        \/ UNCHANGED <<Writes, write>> /\ rxFree' = rxFree /\ Head(Receiving) \in job.home
        \/ UNCHANGED <<Writes, write>> /\ rxFree' = rxFree + 1 /\ Head(Receiving) \notin job.home
        \/ /\ Head(Receiving) \notin job.home /\ UNCHANGED rxFree
           /\ Writes' = Append(Writes, Head(Receiving)) /\ write' = [write EXCEPT ![Head(Receiving)] = "busy"]
    BY Zenon DEF Store
  <2>2. /\ Head(Receiving) \in job.home => FromPool(Head(Receiving), job.home) = 0
        /\ Head(Receiving) \notin job.home => FromPool(Head(Receiving), job.home) = 1
    BY Zenon DEF FromPool
  <2>3. rxFree + 0 = rxFree
    BY <1>4
  <2> QED BY <2>1, <2>2, <2>3, Zenon
<1> QED BY <1>5, <1>6, <1>7

\* Every step of the receiver keeps its invariant.
LEMMA ReceiverInv ==
  ASSUME job \in Jobs, RxInv, Receiver
  PROVE  RxInv'
<1>0. RxLines /\ RxPages /\ RxWindows /\ RxBusy /\ RxNumbers
  BY RxFacts
<1>1. CASE Store
  BY <1>1, StoreInv
<1>2. CASE StoreEnds \/ WritesEnd \/ Land \/ TakeDigest
  BY <1>2, RxMoves
<1>3. CASE AwaitWrite
  <2>1. Writes # << >>
    <3>1. KeepWrites \in Nat /\ Len(Writes) > KeepWrites
      BY <1>0, <1>3, Zenon DEF AwaitWrite, KeepWrites, RxNumbers
    <3> QED BY <1>0, <3>1 DEF RxLines
  <2>2. /\ write[Head(Writes)] # "busy" /\ Writes' = Tail(Writes) /\ rxFree' = rxFree + 1
        /\ UNCHANGED <<job, At, Receiving, recv, write>>
        /\ rx \in {"writes", "lastWrites", "quiesce"} /\ (rx' = rx \/ rx' = "quiesce")
    BY <1>3, Zenon DEF AwaitWrite
  <2> QED BY <2>1, <2>2, PopWritesInv
<1>4. CASE Post
  BY <1>4, PostInv
<1>5. CASE QuiesceRx
  <2>0. rx = "quiesce" /\ UNCHANGED <<job, rx, At, recv, write>>
    BY <1>5, Zenon DEF QuiesceRx
  <2>1. CASE Receiving # << >>
    <3>1. /\ recv[Head(Receiving)] # "posted" /\ Receiving' = Tail(Receiving)
          /\ rxFree' = rxFree + FromPool(Head(Receiving), job.home) /\ Writes' = Writes
      BY <1>5, <2>1, Zenon DEF QuiesceRx
    <3>2. /\ rxFree' \in Nat /\ Writes' \in Seq(Nat)
          /\ rxFree' + Len(Writes') = rxFree + Len(Writes) + FromPool(Head(Receiving), job.home)
      <4>1. rxFree \in Nat /\ Writes \in Seq(Nat) /\ Len(Writes) \in Nat
        BY <1>0 DEF RxLines, RxNumbers
      <4>2. FromPool(Head(Receiving), job.home) \in Nat
        BY DEF FromPool
      <4> QED BY <3>1, <4>1, <4>2
    <3>3. /\ DOMAIN write' = 1..job.length
          /\ \A i \in 1..job.length : write'[i] = "busy" => \E k \in 1..Len(Writes') : Writes'[k] = i
      BY <1>0, <2>0, <3>1 DEF RxBusy
    <3> QED BY <2>0, <2>1, <3>1, <3>2, <3>3, PopReceivingInv, SMTT(20)
  <2>2. CASE Receiving = << >>
    <3>1. /\ Writes # << >> /\ write[Head(Writes)] # "busy" /\ Writes' = Tail(Writes)
          /\ rxFree' = rxFree + 1 /\ UNCHANGED Receiving
      BY <1>5, <2>2, Zenon DEF QuiesceRx
    <3> QED BY <2>0, <3>1, PopWritesInv
  <2> QED BY <2>1, <2>2
<1> QED BY <1>1, <1>2, <1>3, <1>4, <1>5, Zenon DEF Receiver

-----------------------------------------------------------------------------
\* A receive that has failed stays failed.
LEMMA LostStays ==
  ASSUME job.length \in Nat, NEW i \in 1..job.length, ReceiveLost(i),
         \A j \in 1..job.length : recv[j] = "failed" => recv'[j] = "failed"
  PROVE  ReceiveLost(i)'
<1>1. PICK j \in 1..i : recv[j] = "failed"
  BY Zenon DEF ReceiveLost
<1>2. j \in 1..job.length
  BY <1>1
<1> QED BY <1>1, <1>2, Zenon DEF ReceiveLost

\* Between two posts of run no receive changes its slot.
LEMMA SlotsStay ==
  ASSUME job.length \in Nat, SlotInv, UNCHANGED <<job, slot, At>>,
         \A j \in 1..job.length : /\ recv[j] = "failed" => recv'[j] = "failed"
                                  /\ recv'[j] = "posted" => recv[j] = "posted"
  PROVE  SlotInv'
<1>1. \A i \in 1..job.length : ReceiveLost(i) => ReceiveLost(i)'
  BY LostStays, Zenon
<1>2. ASSUME NEW i \in 1..job.length
      PROVE  slot'[i] \in 1..i /\ (slot'[i] = i \/ (i <= At' /\ ReceiveLost(i)'))
  BY <1>1, Zenon DEF SlotInv
<1>3. ASSUME NEW i \in 1..job.length, NEW k \in 1..job.length, i < k, recv'[i] = "posted"
      PROVE  slot'[i] # slot'[k]
  BY <1>3, Zenon DEF SlotInv
<1>4. DOMAIN slot' = 1..job'.length
  BY Zenon DEF SlotInv
<1> QED BY <1>2, <1>3, <1>4, Zenon DEF SlotInv

\* takeSlot gives run's next receive a slot of its own, or one a failed receive
\* gave back and no posted one has.
LEMMA SlotsOfPost ==
  ASSUME job \in Jobs, RxInv, SlotInv, Post
  PROVE  SlotInv'
<1>0. RxLines /\ RxBusy /\ RxNumbers
  BY RxFacts
<1> DEFINE n == At + 1
<1>1. /\ job' = job /\ At' = n /\ rx = "post"
      /\ \/ /\ recv' = [recv EXCEPT ![n] = "posted"]
            /\ \E s \in SlotsFor(n) : slot' = [slot EXCEPT ![n] = s]
         \/ recv' = [recv EXCEPT ![n] = "refused"] /\ slot' = slot
  BY Zenon DEF Post
<1>2. n \in 1..job.length /\ job.length \in Nat /\ n \in Nat
  BY <1>0, <1>1, SMTT(20) DEF RxLines, RxNumbers
<1>3. recv[n] = "idle" /\ DOMAIN recv = 1..job.length
  <2>1. recv[n] # "idle" => n <= At
    BY <1>0, <1>2, Zenon DEF RxBusy
  <2>2. ~(n <= At)
    BY <1>0 DEF RxNumbers
  <2> QED BY <1>0, <2>1, <2>2, Zenon DEF RxBusy
<1>4. \A j \in 1..job.length : j # n => recv'[j] = recv[j]
  BY <1>1, <1>3, Zenon
<1>5. \A j \in 1..job.length : recv[j] = "failed" => recv'[j] = "failed"
  <2>1. \A j \in 1..job.length : recv[j] = "failed" => j # n
    BY <1>3
  <2> QED BY <1>4, <2>1, Zenon
<1>6. \A i \in 1..job.length : ReceiveLost(i) => ReceiveLost(i)'
  BY <1>2, <1>5, LostStays, Zenon
<1>7. /\ DOMAIN slot = 1..job.length /\ \A i \in 1..job.length : slot[i] \in 1..i
      /\ \A i \in 1..job.length : slot[i] = i \/ (i <= At /\ ReceiveLost(i))
      /\ \A i, k \in 1..job.length : i < k /\ recv[i] = "posted" => slot[i] # slot[k]
  BY Zenon DEF SlotInv
<1>8. DOMAIN slot' = 1..job.length /\ \A i \in 1..job.length : i # n => slot'[i] = slot[i]
  BY <1>1, <1>7, Zenon
<1>9. slot[n] = n
  <2>1. ~(n <= At)
    BY <1>0 DEF RxNumbers
  <2> QED BY <1>2, <1>7, <2>1, Zenon
<1>10. /\ slot'[n] \in 1..n /\ (slot'[n] = n \/ ReceiveLost(n))
       /\ \A i \in 1..(n - 1) : recv[i] = "posted" => slot[i] # slot'[n]
  <2>1. CASE slot'[n] = n
    <3>1. \A i \in 1..(n - 1) : i \in 1..job.length /\ i # n /\ i \in Nat /\ i < n
      BY <1>2
    <3>2. \A i \in 1..(n - 1) : slot[i] # n
      <4> SUFFICES ASSUME NEW i \in 1..(n - 1) PROVE slot[i] # n
        OBVIOUS
      <4>1. slot[i] \in 1..i /\ i < n /\ i \in Nat
        BY <1>7, <3>1, Zenon
      <4> QED BY <1>2, <4>1
    <3>3. n \in 1..n
      BY <1>2
    <3> QED BY <2>1, <3>2, <3>3, Zenon
  <2>2. ASSUME NEW s \in SlotsFor(n), s # n, slot'[n] = s
        PROVE  /\ s = slot'[n] /\ s \in 1..n /\ ReceiveLost(n)
               /\ \A i \in 1..(n - 1) : recv[i] = "posted" => slot[i] # s
    <3>1. /\ \E k \in 1..(n - 1) : recv[k] = "failed" /\ s = slot[k]
          /\ \A k \in 1..(n - 1) : recv[k] = "posted" => s # slot[k]
      BY <2>2, Zenon DEF SlotsFor
    <3>2. PICK k \in 1..(n - 1) : recv[k] = "failed" /\ s = slot[k]
      BY <3>1, Zenon
    <3>3. k \in 1..job.length /\ k \in 1..n /\ k \in Nat /\ k < n
      BY <1>2, <3>2
    <3>4. s \in 1..k
      BY <1>7, <3>2, <3>3, Zenon
    <3>5. s \in 1..n
      BY <1>2, <3>3, <3>4
    <3>6. ReceiveLost(n)
      BY <3>2, <3>3, Zenon DEF ReceiveLost
    <3> QED BY <2>2, <3>1, <3>5, <3>6, Zenon
  <2>3. slot'[n] = n \/ slot'[n] \in SlotsFor(n)
    BY <1>1, <1>2, <1>7, <1>9, Zenon
  <2> QED BY <2>1, <2>2, <2>3, Zenon
<1>11. ASSUME NEW i \in 1..job.length
       PROVE  slot'[i] \in 1..i /\ (slot'[i] = i \/ (i <= n /\ ReceiveLost(i)'))
  <2>1. CASE i = n
    <3>1. n <= n
      BY <1>2
    <3> QED BY <1>2, <1>6, <1>10, <2>1, <3>1, Zenon
  <2>2. CASE i # n
    <3>1. i <= At => i <= n
      BY <1>0 DEF RxNumbers
    <3> QED BY <1>6, <1>7, <1>8, <2>2, <3>1, Zenon
  <2> QED BY <2>1, <2>2
<1>12. ASSUME NEW i \in 1..job.length, NEW k \in 1..job.length, i < k, recv'[i] = "posted"
       PROVE  slot'[i] # slot'[k]
  <2>1. CASE i = n
    <3>1. k # n /\ ~(k <= At) /\ k \in Nat
      BY <1>0, <1>2, <1>12, <2>1 DEF RxNumbers
    <3>2. slot'[k] = k
      BY <1>7, <1>8, <3>1, Zenon
    <3>3. slot'[i] \in 1..n
      BY <1>10, <2>1, Zenon
    <3> QED BY <1>2, <1>12, <2>1, <3>2, <3>3, SMTT(20)
  <2>2. CASE k = n
    <3>1. i \in 1..(n - 1) /\ i # n
      BY <1>2, <1>12, <2>2
    <3>2. recv[i] = "posted" /\ slot'[i] = slot[i]
      BY <1>4, <1>8, <1>12, <3>1, Zenon
    <3> QED BY <1>10, <2>2, <3>1, <3>2, Zenon
  <2>3. CASE i # n /\ k # n
    BY <1>4, <1>7, <1>8, <1>12, <2>3, Zenon
  <2> QED BY <2>1, <2>2, <2>3
<1> QED BY <1>1, <1>8, <1>11, <1>12, Zenon DEF SlotInv

\* A step that moves sends on and no receive.
LEMMA FabricSends ==
  ASSUME FabricInv, UNCHANGED <<job, recv>>, adapter' \subseteq adapter, landing' \subseteq landing,
         \A i \in adapter' : send[i] \in {"writing", "failed"} => send'[i] \in {"writing", "failed"},
         \A i \in 1..job.length : send'[i] \in {"idle", "posted"} => send[i] \in {"idle", "posted"},
         \A i \in landing' : send[i] \in {"writing", "gone", "failed"} => send'[i] \in {"writing", "gone", "failed"}
  PROVE  FabricInv'
<1>1. \A i : ReceiveLost(i)' <=> ReceiveLost(i)
  BY Zenon DEF ReceiveLost
<1>2. ASSUME NEW i \in adapter'
      PROVE  i \in 1..job.length /\ send'[i] \in {"writing", "failed"}
  BY <1>2, Zenon DEF FabricInv
<1>3. ASSUME NEW i \in landing'
      PROVE  /\ job.rdma /\ i \in 1..job.length /\ send'[i] \in {"writing", "gone", "failed"}
             /\ recv[i] = "posted" \/ ReceiveLost(i)
  BY <1>3, Zenon DEF FabricInv
<1>4. ASSUME NEW i \in 1..job.length, job.rdma, send'[i] \in {"idle", "posted"}
      PROVE  recv[i] \in {"idle", "refused", "posted"} \/ ReceiveLost(i)
  BY <1>4, Zenon DEF FabricInv
<1> QED BY <1>1, <1>2, <1>3, <1>4, Zenon DEF FabricInv

\* A step that moves receives on and no send: where a receive is done with a write
\* of its page to come, or before its page was sent, one has failed.
LEMMA FabricReceives ==
  ASSUME job.length \in Nat, FabricInv, UNCHANGED <<job, send, adapter>>, landing' \subseteq landing,
         \A j \in 1..job.length : recv[j] = "failed" => recv'[j] = "failed",
         \A j \in landing' : recv[j] = "posted" => recv'[j] = "posted" \/ ReceiveLost(j)',
         \A j \in 1..job.length : job.rdma /\ send[j] \in {"idle", "posted"}
                                    => \/ recv'[j] = recv[j]
                                       \/ recv'[j] \in {"idle", "refused", "posted"}
                                       \/ ReceiveLost(j)'
  PROVE  FabricInv'
<1>1. \A i \in 1..job.length : ReceiveLost(i) => ReceiveLost(i)'
  BY LostStays, Zenon
<1>2. ASSUME NEW i \in landing'
      PROVE  /\ job.rdma /\ i \in 1..job.length /\ send[i] \in {"writing", "gone", "failed"}
             /\ recv'[i] = "posted" \/ ReceiveLost(i)'
  BY <1>1, <1>2, Zenon DEF FabricInv
<1>3. ASSUME NEW i \in 1..job.length, job.rdma, send[i] \in {"idle", "posted"}
      PROVE  recv'[i] \in {"idle", "refused", "posted"} \/ ReceiveLost(i)'
  BY <1>1, <1>3, Zenon DEF FabricInv
<1>4. \A i \in adapter : i \in 1..job.length /\ send[i] \in {"writing", "failed"}
  BY Zenon DEF FabricInv
<1> QED BY <1>2, <1>3, <1>4, Zenon DEF FabricInv

\* A write that lands marks another's receive only where an earlier one failed.
LEMMA FabricLands ==
  ASSUME job.length \in Nat, FabricInv, SlotInv, NEW i \in 1..job.length, WriteLands(i)
  PROVE  FabricInv'
<1>1. /\ i \in landing /\ landing' = landing \ {i} /\ UNCHANGED <<job, send, adapter, slot>>
      /\ recv' = [j \in 1..job.length |->
                    IF j \in {k \in 1..job.length : recv[k] = "posted" /\ slot[k] = slot[i]} THEN "landed" ELSE recv[j]]
  BY Zenon DEF WriteLands, receiver
<1>2. \A j \in 1..job.length : \/ recv'[j] = recv[j]
                               \/ recv[j] = "posted" /\ slot[j] = slot[i] /\ recv'[j] = "landed"
  BY <1>1, Zenon
<1>3. \A j \in 1..job.length : recv[j] = "failed" => recv'[j] = "failed"
  BY <1>2
<1>4. ASSUME NEW j \in 1..job.length, j # i, recv[j] = "posted", slot[j] = slot[i]
      PROVE  ReceiveLost(j)
  <2>1. /\ slot[i] \in 1..i /\ (slot[j] = j \/ ReceiveLost(j))
        /\ j < i => slot[j] # slot[i]
    BY <1>4, Zenon DEF SlotInv
  <2>2. slot[j] # j
    BY <1>4, <2>1
  <2> QED BY <2>1, <2>2
<1>5. \A j \in 1..job.length : j # i /\ recv[j] = "posted" /\ recv'[j] # "posted" => ReceiveLost(j)'
  <2>1. \A j \in 1..job.length : j # i /\ recv[j] = "posted" /\ recv'[j] # "posted" => ReceiveLost(j)
    BY <1>2, <1>4, Zenon
  <2> QED BY <1>3, <2>1, LostStays, Zenon
<1>6. \A j \in landing' : j \in 1..job.length /\ j # i
  BY <1>1, Zenon DEF FabricInv
<1>7. \A j \in landing' : recv[j] = "posted" => recv'[j] = "posted" \/ ReceiveLost(j)'
  BY <1>5, <1>6, Zenon
<1>8. send[i] \notin {"idle", "posted"}
  <2>1. send[i] \in {"writing", "gone", "failed"}
    BY <1>1, Zenon DEF FabricInv
  <2> QED BY <2>1
<1>9. ASSUME NEW j \in 1..job.length, send[j] \in {"idle", "posted"}
      PROVE  recv'[j] = recv[j] \/ ReceiveLost(j)'
  <2>1. j # i
    BY <1>8, <1>9, Zenon
  <2>2. recv'[j] = recv[j] \/ (recv[j] = "posted" /\ recv'[j] # "posted")
    BY <1>2
  <2> QED BY <1>5, <2>1, <2>2, Zenon
<1>10. landing' \subseteq landing
  BY <1>1
<1> QED BY <1>1, <1>3, <1>7, <1>9, <1>10, FabricReceives, Zenon

\* A page whose write is posted finds its receive waiting, unless one has failed.
LEMMA FabricPosts ==
  ASSUME FabricInv, NEW i \in 1..job.length, DOMAIN send = 1..job.length, PostWrite(i)
  PROVE  FabricInv'
<1>1. /\ UNCHANGED <<job, recv>> /\ job.rdma /\ send[i] = "posted" /\ recv[i] \notin {"idle", "refused"}
      /\ send' = [send EXCEPT ![i] = "writing"]
      /\ adapter' = adapter \cup {i} /\ landing' = landing \cup {i}
  BY Zenon DEF PostWrite
<1>2. \A j : ReceiveLost(j)' <=> ReceiveLost(j)
  BY <1>1, Zenon DEF ReceiveLost
<1>3. send'[i] = "writing" /\ \A j \in 1..job.length : j # i => send'[j] = send[j]
  BY <1>1, Zenon
<1>4. recv[i] = "posted" \/ ReceiveLost(i)
  <2>1. recv[i] \in {"idle", "refused", "posted"} \/ ReceiveLost(i)
    BY <1>1, Zenon DEF FabricInv
  <2> QED BY <1>1, <2>1, Zenon
<1>5. ASSUME NEW j \in adapter'
      PROVE  j \in 1..job.length /\ send'[j] \in {"writing", "failed"}
  <2>1. j = i \/ (j # i /\ j \in 1..job.length /\ send[j] \in {"writing", "failed"})
    BY <1>1, <1>5, Zenon DEF FabricInv
  <2> QED BY <1>3, <2>1, Zenon
<1>6. ASSUME NEW j \in landing'
      PROVE  /\ job.rdma /\ j \in 1..job.length /\ send'[j] \in {"writing", "gone", "failed"}
             /\ recv[j] = "posted" \/ ReceiveLost(j)
  <2>1. \/ j = i
        \/ /\ j # i /\ j \in 1..job.length /\ send[j] \in {"writing", "gone", "failed"}
           /\ recv[j] = "posted" \/ ReceiveLost(j)
    BY <1>1, <1>6, Zenon DEF FabricInv
  <2> QED BY <1>1, <1>3, <1>4, <2>1, Zenon
<1>7. ASSUME NEW j \in 1..job.length, send'[j] \in {"idle", "posted"}
      PROVE  recv[j] \in {"idle", "refused", "posted"} \/ ReceiveLost(j)
  <2>1. j # i
    BY <1>3, <1>7
  <2>2. send[j] \in {"idle", "posted"}
    BY <1>3, <1>7, <2>1, Zenon
  <2> QED BY <1>1, <2>2, Zenon DEF FabricInv
<1> QED BY <1>1, <1>2, <1>5, <1>6, <1>7, Zenon DEF FabricInv

\* A receive that completes or fails where no write of its slot does it: only a
\* failure, with RDMA.
LEMMA FabricFails ==
  ASSUME job.length \in Nat, FabricInv, UNCHANGED <<job, send, adapter, landing>>,
         \A j \in 1..job.length : \/ recv'[j] = recv[j]
                                  \/ recv[j] = "posted" /\ (recv'[j] = "failed" \/ ~job.rdma)
  PROVE  FabricInv'
<1>1. \A j \in 1..job.length : recv'[j] = "failed" => ReceiveLost(j)'
  <2> SUFFICES ASSUME NEW j \in 1..job.length, recv'[j] = "failed" PROVE ReceiveLost(j)'
    OBVIOUS
  <2>1. j \in 1..j
    OBVIOUS
  <2> QED BY <2>1, Zenon DEF ReceiveLost
<1>2. \A j \in 1..job.length : recv[j] = "failed" => recv'[j] = "failed"
  OBVIOUS
<1>3. \A j \in landing : job.rdma /\ j \in 1..job.length
  BY Zenon DEF FabricInv
<1>4. \A j \in landing' : recv[j] = "posted" => recv'[j] = "posted" \/ ReceiveLost(j)'
  BY <1>1, <1>3, Zenon
<1>5. \A j \in 1..job.length : job.rdma => recv'[j] = recv[j] \/ ReceiveLost(j)'
  BY <1>1, Zenon
<1> QED BY <1>2, <1>4, <1>5, FabricReceives, Zenon

\* shipReady starts a send no adapter has yet, and run a receive.
LEMMA FabricOfEnds ==
  ASSUME StreamInv, Sender \/ Refuse \/ Receiver
  PROVE  SlotInv' /\ FabricInv'
<1>0. /\ SlotInv /\ FabricInv /\ job \in Jobs /\ TxLines /\ TxWindows /\ TxBusy /\ TxNumbers
      /\ RxInv /\ RxLines /\ RxBusy /\ RxNumbers
  BY TxFacts, RxFacts DEF StreamInv
<1>1. UNCHANGED <<job, adapter, landing>>
  BY Zenon DEF Sender, Receiver, fabric, Fill, FillEnds, Retire, DrainEnds, Ship, Refuse, QuiesceTx, SendDigest,
               TakeReply, Store, StoreEnds, AwaitWrite, WritesEnd, Post, QuiesceRx, Land, TakeDigest
<1>n. job.length \in Nat
  BY <1>0 DEF RxNumbers
<1>2. CASE Ship
  <2>1. /\ send' = [send EXCEPT ![Head(Prefetch)] = "posted"] /\ UNCHANGED <<recv, slot, At>>
        /\ Prefetch # << >>
    BY <1>0, <1>2, Zenon DEF Ship, TxWindows, receiver
  <2>2. Head(Prefetch) = Shipped + 1
    <3>1. /\ Prefetch \in Seq(Nat) /\ Shipped \in Nat
          /\ \A k \in 1..Len(Prefetch) : Prefetch[k] = Shipped + k
      BY <1>0 DEF TxNumbers, TxLines
    <3> QED BY <2>1, <3>1, Popped, SMTT(20)
  <2>3. ASSUME NEW i \in 1..job.length
        PROVE  send[i] = "idle" \/ send'[i] = send[i]
    <3>1. send[i] # "idle" => i <= Shipped /\ DOMAIN send = 1..job.length
      BY <1>0, Zenon DEF TxBusy
    <3>2. i <= Shipped => i # Shipped + 1
      BY <1>0 DEF TxNumbers
    <3> QED BY <2>1, <2>2, <3>1, <3>2, Zenon
  <2>4. \A i \in adapter \cup landing : i \in 1..job.length /\ send[i] # "idle"
    BY <1>0, Zenon DEF FabricInv
  <2>5. \A i \in adapter \cup landing : send'[i] = send[i]
    BY <2>3, <2>4, Zenon
  <2>6. \A i \in 1..job.length : send'[i] \in {"idle", "posted"} => send[i] \in {"idle", "posted"}
    BY <2>3, Zenon
  <2>7. FabricInv'
    BY <1>0, <1>1, <2>1, <2>5, <2>6, FabricSends, Zenon
  <2>8. SlotInv'
    BY <1>0, <1>1, <1>n, <2>1, SlotsStay, Zenon
  <2> QED BY <2>7, <2>8, Zenon
<1>3. CASE Post
  <2>1. /\ recv' = [recv EXCEPT ![At + 1] = "posted"] \/ recv' = [recv EXCEPT ![At + 1] = "refused"]
        /\ send' = send
    BY <1>3, Zenon DEF Post
  <2>2. ASSUME NEW i \in 1..job.length
        PROVE  \/ recv'[i] = recv[i]
               \/ recv[i] = "idle" /\ recv'[i] \in {"posted", "refused"}
    <3>1. recv[i] # "idle" => i <= At
      BY <1>0, Zenon DEF RxBusy
    <3>2. i <= At => i # At + 1
      BY <1>0 DEF RxNumbers
    <3>3. DOMAIN recv = 1..job.length
      BY <1>0, Zenon DEF RxBusy
    <3> QED BY <2>1, <3>1, <3>2, <3>3, Zenon
  <2>3. \A i \in 1..job.length : recv[i] = "failed" => recv'[i] = "failed"
    BY <2>2
  <2>4. \A i \in 1..job.length : recv[i] = "posted" => recv'[i] = "posted"
    BY <2>2
  <2>5. \A i \in landing : i \in 1..job.length
    BY <1>0, Zenon DEF FabricInv
  <2>6. \A i \in landing' : recv[i] = "posted" => recv'[i] = "posted"
    BY <1>1, <2>4, <2>5, Zenon
  <2>7. \A i \in 1..job.length : recv'[i] = recv[i] \/ recv'[i] \in {"idle", "refused", "posted"}
    BY <2>2, Zenon
  <2>8. FabricInv'
    BY <1>0, <1>1, <1>n, <2>1, <2>3, <2>6, <2>7, FabricReceives, Zenon
  <2> QED BY <1>0, <1>3, <2>8, SlotsOfPost, Zenon
<1>4. CASE ~Ship /\ ~Post
  <2>1. UNCHANGED <<send, recv, slot>>
    BY <1>4, Zenon DEF Sender, Receiver, Fill, FillEnds, Retire, DrainEnds, Refuse, QuiesceTx, SendDigest, TakeReply,
                       Store, StoreEnds, AwaitWrite, WritesEnd, QuiesceRx, Land, TakeDigest, receiver
  <2>2. At' = At
    BY <1>4, Zenon DEF Sender, Receiver, Fill, FillEnds, Retire, DrainEnds, Refuse, QuiesceTx, SendDigest, TakeReply,
                       Store, StoreEnds, AwaitWrite, WritesEnd, QuiesceRx, Land, TakeDigest, receiver
  <2>3. SlotInv'
    BY <1>0, <1>1, <1>n, <2>1, <2>2, SlotsStay, Zenon
  <2>4. FabricInv'
    BY <1>0, <1>1, <2>1, FabricSends, Zenon
  <2> QED BY <2>3, <2>4
<1> QED BY <1>2, <1>3, <1>4

\* Every step of the stream keeps the invariant.
LEMMA StreamStep == StreamInv /\ [Next]_vars => StreamInv'
<1> SUFFICES ASSUME StreamInv, [Next]_vars PROVE StreamInv'
  OBVIOUS
<1>0. job \in Jobs /\ TxInv /\ RxInv /\ SlotInv /\ FabricInv
  BY Zenon DEF StreamInv
<1>d. DOMAIN send = 1..job.length /\ DOMAIN recv = 1..job.length
  BY <1>0, Zenon DEF TxInv, TxBusy, RxInv, RxBusy
<1>n. job.length \in Nat
  BY <1>0, BoundsAreNaturals DEF Jobs
<1>1. CASE Sender \/ Refuse
  <2>1. UNCHANGED <<job, receiver, recv, write>>
    BY <1>1, Zenon DEF Sender, Fill, FillEnds, Retire, DrainEnds, Ship, Refuse, QuiesceTx, SendDigest, TakeReply
  <2>2. TxInv' /\ RxInv' /\ SlotInv' /\ FabricInv'
    BY <1>0, <1>1, <2>1, SenderInv, RxUntouched, FabricOfEnds, Zenon
  <2> QED BY <1>0, <2>1, <2>2, Zenon DEF StreamInv
<1>2. CASE Receiver
  <2>1. UNCHANGED <<job, sender, read, send>>
    BY <1>2, Zenon DEF Receiver, Store, StoreEnds, AwaitWrite, WritesEnd, Post, QuiesceRx, Land, TakeDigest
  <2>2. TxInv' /\ RxInv' /\ SlotInv' /\ FabricInv'
    BY <1>0, <1>2, <2>1, ReceiverInv, TxUntouched, FabricOfEnds, Zenon
  <2> QED BY <1>0, <2>1, <2>2, Zenon DEF StreamInv
<1>3. ASSUME NEW i \in 1..job.length, ReadDone(i) \/ Depart(i) \/ SendFails(i) \/ OneSendErrs(i)
      PROVE  StreamInv'
  <2>1. UNCHANGED <<job, sender, receiver, recv, write, adapter, landing>>
    BY <1>3, Zenon DEF ReadDone, Depart, SendFails, OneSendErrs, fabric
  <2>2. /\ read' = read \/ \E v \in {"data", "short", "bad"} : read' = [read EXCEPT ![i] = v]
        /\ send' = send \/ (Sending(i) /\ \E v \in {"writing", "gone", "failed"} : send' = [send EXCEPT ![i] = v])
    BY <1>3, Zenon DEF ReadDone, Depart, SendFails, OneSendErrs, Sending
  <2>3. TxInv' /\ RxInv'
    BY <1>0, <2>1, <2>2, TxCompletes, RxUntouched, Zenon
  <2>4. SlotInv'
    BY <1>0, <1>n, <2>1, SlotsStay, Zenon DEF receiver
  <2>5. FabricInv'
    <3>1. CASE send' = send
      BY <1>0, <2>1, <3>1, FabricSends, Zenon
    <3>2. CASE send[i] = "posted" /\ send' = [send EXCEPT ![i] = "gone"]
      <4>1. \A j \in 1..job.length : j # i => send'[j] = send[j]
        BY <1>d, <3>2, Zenon
      <4>2. send'[i] = "gone"
        BY <1>d, <3>2, Zenon
      <4>3. \A j \in adapter : j \in 1..job.length /\ j # i
        BY <1>0, <3>2, Zenon DEF FabricInv
      <4>4. \A j \in landing : j \in 1..job.length /\ j # i
        BY <1>0, <3>2, Zenon DEF FabricInv
      <4>5. \A j \in 1..job.length : send'[j] \in {"idle", "posted"} => send[j] \in {"idle", "posted"}
        BY <4>1, <4>2, Zenon
      <4> QED BY <1>0, <2>1, <4>1, <4>3, <4>4, <4>5, FabricSends, Zenon
    <3>3. CASE send' = [send EXCEPT ![i] = "failed"]
      <4>1. \A j \in 1..job.length : send'[j] = send[j] \/ send'[j] = "failed"
        BY <1>d, <3>3, Zenon
      <4>2. \A j \in adapter \cup landing : j \in 1..job.length
        BY <1>0, Zenon DEF FabricInv
      <4>3. \A j \in 1..job.length : send'[j] \in {"idle", "posted"} => send[j] \in {"idle", "posted"}
        BY <4>1, Zenon
      <4>4. /\ \A j \in adapter : send'[j] = send[j] \/ send'[j] = "failed"
            /\ \A j \in landing : send'[j] = send[j] \/ send'[j] = "failed"
        BY <4>1, <4>2, Zenon
      <4> QED BY <1>0, <2>1, <4>3, <4>4, FabricSends, Zenon
    <3> QED BY <1>3, <3>1, <3>2, <3>3, Zenon DEF ReadDone, Depart, SendFails, OneSendErrs
  <2> QED BY <1>0, <2>1, <2>3, <2>4, <2>5, Zenon DEF StreamInv
<1>4. ASSUME NEW i \in 1..job.length, WriteDone(i) \/ RecvFails(i) \/ OneRecvErrs(i)
      PROVE  StreamInv'
  <2>1. UNCHANGED <<job, sender, read, send, receiver, adapter, landing>>
    BY <1>4, Zenon DEF WriteDone, RecvFails, OneRecvErrs, fabric
  <2>2. /\ recv' = recv \/ (recv[i] = "posted" /\ recv' = [recv EXCEPT ![i] = "failed"])
        /\ write' = write \/ \E v \in {"good", "bad"} : write' = [write EXCEPT ![i] = v]
    BY <1>4, Zenon DEF WriteDone, RecvFails, OneRecvErrs
  <2>3. /\ DOMAIN recv' = DOMAIN recv
        /\ \A j \in 1..job.length : recv'[j] = recv[j] \/ (recv[j] = "posted" /\ recv'[j] = "failed")
    BY <1>d, <2>2, Zenon
  <2>4. TxInv' /\ RxInv'
    BY <1>0, <1>d, <2>1, <2>2, <2>3, RxCompletes, TxUntouched, Zenon
  <2>5. SlotInv'
    <3>1. \A j \in 1..job.length : /\ recv[j] = "failed" => recv'[j] = "failed"
                                   /\ recv'[j] = "posted" => recv[j] = "posted"
      BY <2>3
    <3> QED BY <1>0, <1>n, <2>1, <3>1, SlotsStay, Zenon DEF receiver
  <2>6. FabricInv'
    BY <1>0, <1>n, <2>1, <2>3, FabricFails, Zenon
  <2> QED BY <1>0, <2>1, <2>4, <2>5, <2>6, Zenon DEF StreamInv
<1>5. CASE Arrive
  <2>1. UNCHANGED <<job, sender, read, send, receiver, write, adapter, landing>> /\ ~job.rdma
    BY <1>5, Zenon DEF Arrive
  <2>2. recv[Head(wire)] = "posted" /\ \E v \in {"landed", "failed"} : recv' = [recv EXCEPT ![Head(wire)] = v]
    BY <1>5, Zenon DEF Arrive
  <2>3. /\ DOMAIN recv' = DOMAIN recv
        /\ \A j \in 1..job.length : recv'[j] = recv[j] \/ (recv[j] = "posted" /\ recv'[j] \in {"landed", "failed"})
    BY <1>d, <2>2, Zenon
  <2>4. TxInv' /\ RxInv'
    BY <1>0, <1>d, <2>1, <2>3, RxCompletes, TxUntouched, Zenon
  <2>5. SlotInv'
    <3>1. \A j \in 1..job.length : /\ recv[j] = "failed" => recv'[j] = "failed"
                                   /\ recv'[j] = "posted" => recv[j] = "posted"
      BY <2>3
    <3> QED BY <1>0, <1>n, <2>1, <3>1, SlotsStay, Zenon DEF receiver
  <2>6. FabricInv'
    BY <1>0, <1>n, <2>1, <2>3, FabricFails, Zenon
  <2> QED BY <1>0, <2>1, <2>4, <2>5, <2>6, Zenon DEF StreamInv
<1>6. ASSUME NEW i \in 1..job.length, PostWrite(i)
      PROVE  StreamInv'
  <2>1. UNCHANGED <<job, sender, read, receiver, recv, write>>
    BY <1>6, Zenon DEF PostWrite
  <2>2. Sending(i) /\ send' = [send EXCEPT ![i] = "writing"]
    BY <1>6, Zenon DEF PostWrite, Sending
  <2>3. TxInv' /\ RxInv'
    BY <1>0, <2>1, <2>2, TxCompletes, RxUntouched, Zenon
  <2>4. SlotInv'
    BY <1>0, <1>n, <2>1, SlotsStay, Zenon DEF receiver
  <2>5. FabricInv'
    BY <1>0, <1>6, <1>d, FabricPosts, Zenon
  <2> QED BY <1>0, <2>1, <2>3, <2>4, <2>5, Zenon DEF StreamInv
<1>7. ASSUME NEW i \in 1..job.length, WriteCompletes(i)
      PROVE  StreamInv'
  <2>1. UNCHANGED <<job, sender, read, receiver, recv, write, landing>> /\ adapter' = adapter \ {i}
    BY <1>7, Zenon DEF WriteCompletes
  <2>2. send' = send \/ (send[i] = "writing" /\ send' = [send EXCEPT ![i] = "gone"])
    BY <1>7, Zenon DEF WriteCompletes
  <2>3. send' = send \/ (Sending(i) /\ \E v \in {"writing", "gone", "failed"} : send' = [send EXCEPT ![i] = v])
    BY <2>2, Zenon DEF Sending
  <2>4. TxInv' /\ RxInv'
    BY <1>0, <2>1, <2>3, TxCompletes, RxUntouched, Zenon
  <2>5. SlotInv'
    BY <1>0, <1>n, <2>1, SlotsStay, Zenon DEF receiver
  <2>6. /\ \A j \in 1..job.length : j # i => send'[j] = send[j]
        /\ send'[i] = send[i] \/ send'[i] = "gone"
    BY <1>d, <2>2, Zenon
  <2>7. /\ adapter' \subseteq adapter /\ \A j \in adapter' : j \in 1..job.length /\ j # i
        /\ \A j \in landing : j \in 1..job.length
    BY <1>0, <2>1, Zenon DEF FabricInv
  <2>8. \A j \in adapter' : send'[j] = send[j]
    BY <2>6, <2>7, Zenon
  <2>9. \A j \in 1..job.length : send'[j] = send[j] \/ send'[j] = "gone"
    BY <2>6, Zenon
  <2>10. \A j \in 1..job.length : send'[j] \in {"idle", "posted"} => send[j] \in {"idle", "posted"}
    BY <2>9, Zenon
  <2>11. \A j \in landing' : send'[j] = send[j] \/ send'[j] = "gone"
    BY <2>1, <2>7, <2>9, Zenon
  <2>12. FabricInv'
    BY <1>0, <2>1, <2>7, <2>8, <2>10, <2>11, FabricSends, Zenon
  <2> QED BY <1>0, <2>1, <2>4, <2>5, <2>12, Zenon DEF StreamInv
<1>8. ASSUME NEW i \in 1..job.length, WriteLands(i)
      PROVE  StreamInv'
  <2>1. UNCHANGED <<job, sender, read, send, receiver, write, adapter>>
    BY <1>8, Zenon DEF WriteLands
  <2>2. recv' = [j \in 1..job.length |->
                   IF j \in {k \in 1..job.length : recv[k] = "posted" /\ slot[k] = slot[i]} THEN "landed" ELSE recv[j]]
    BY <1>8, Zenon DEF WriteLands
  <2>3. /\ DOMAIN recv' = DOMAIN recv
        /\ \A j \in 1..job.length : recv'[j] = recv[j] \/ (recv[j] = "posted" /\ recv'[j] = "landed")
    BY <1>d, <2>2, Zenon
  <2>4. TxInv' /\ RxInv'
    BY <1>0, <1>d, <2>1, <2>3, RxCompletes, TxUntouched, Zenon
  <2>5. SlotInv'
    <3>1. \A j \in 1..job.length : /\ recv[j] = "failed" => recv'[j] = "failed"
                                   /\ recv'[j] = "posted" => recv[j] = "posted"
      BY <2>3
    <3> QED BY <1>0, <1>n, <2>1, <3>1, SlotsStay, Zenon DEF receiver
  <2>6. FabricInv'
    BY <1>0, <1>n, <1>8, FabricLands, Zenon
  <2> QED BY <1>0, <2>1, <2>4, <2>5, <2>6, Zenon DEF StreamInv
<1>9. CASE (\E i \in 1..job.length : WriteErrs(i)) \/ ChannelFails \/ LinkLost \/ Finished \/ UNCHANGED vars
  <2>1. UNCHANGED <<job, sender, read, send, receiver, recv, write>>
    BY <1>9, ZenonT(30) DEF WriteErrs, ChannelFails, LinkLost, Finished, vars
  <2>2. adapter' \subseteq adapter /\ landing' \subseteq landing
    BY <1>9, Zenon DEF WriteErrs, ChannelFails, LinkLost, Finished, vars, fabric
  <2>3. TxInv' /\ RxInv' /\ FabricInv'
    BY <1>0, <2>1, <2>2, TxUntouched, RxUntouched, FabricSends, Zenon
  <2>4. SlotInv'
    BY <1>0, <1>n, <2>1, SlotsStay, Zenon DEF receiver
  <2> QED BY <1>0, <2>1, <2>3, <2>4, Zenon DEF StreamInv
<1> QED BY <1>1, <1>2, <1>3, <1>4, <1>5, <1>6, <1>7, <1>8, <1>9, Zenon DEF Next, Completions, Failures

\* The invariant holds of every stream, whatever its pools.
LEMMA StreamInvariant == Spec => []StreamInv
BY StreamInit, StreamStep, PTL DEF Spec

\* Every stream, whatever its pools, its length and the failures on the way, stays
\* within what the channel carries.  When it returns it has joined every read,
\* send, receive and write and has every page back, and no adapter has a page of
\* it unless its send has failed, or its receive or an earlier one (drain, store,
\* quiesce, until).
THEOREM StreamJoinsAll == Spec => [](WithinInFlight /\ AllJoined)
<1>1. StreamInv => WithinInFlight /\ AllJoined
  <2> SUFFICES ASSUME StreamInv PROVE WithinInFlight /\ AllJoined
    OBVIOUS
  <2>0. FabricInv
    BY DEF StreamInv
  <2>1. TxLines /\ TxPages /\ TxWindows /\ TxBusy /\ TxNumbers
    BY TxFacts DEF StreamInv
  <2>2. RxLines /\ RxPages /\ RxWindows /\ RxBusy /\ RxNumbers
    BY RxFacts DEF StreamInv
  <2>3. WithinInFlight
    <3>1. Window(job.txPool) <= MaxInFlight /\ Window(job.rxPool) <= MaxInFlight
      BY <2>1, <2>2, WindowBounds, SMTT(30) DEF TxNumbers, RxNumbers
    <3>2. /\ Len(InFlight) <= Window(job.txPool) /\ Len(InFlight) \in Nat /\ Window(job.txPool) \in Nat
          /\ Len(Receiving) <= Window(job.rxPool) /\ Len(Receiving) \in Nat /\ Window(job.rxPool) \in Nat
      BY <2>1, <2>2 DEF TxWindows, RxWindows, TxNumbers, RxNumbers
    <3> QED BY <3>1, <3>2, LimitsArePositive, SMTT(20) DEF WithinInFlight
  <2>4. ASSUME tx \in {"reply", "ok", "failed"}
        PROVE  /\ txFree = job.txPool
               /\ \A i \in 1..job.length : read[i] # "busy" /\ ~Sending(i)
               /\ \A i \in adapter : send[i] = "failed"
    <3>1. Len(Prefetch) = 0 /\ Len(InFlight) = 0
      BY <2>1, <2>4 DEF TxWindows
    <3>2. Retired = Cursor /\ Shipped = Cursor /\ Cursor \in Nat
      BY <2>1, <3>1 DEF TxNumbers
    <3>3. Cardinality((Retired + 1 .. Cursor) \ job.own) = 0
      <4>1. (Retired + 1 .. Cursor) \ job.own = {}
        BY <3>2, SMTT(20)
      <4> QED BY <4>1, FS_EmptySet
    <3>4. txFree = job.txPool
      BY <2>1, <3>3, SMTT(20) DEF TxPages, TxLines
    <3>5. ASSUME NEW i \in 1..job.length
          PROVE  read[i] # "busy" /\ ~Sending(i)
      BY <2>1, <3>2 DEF TxBusy, TxNumbers
    <3>6. ASSUME NEW i \in adapter
          PROVE  send[i] = "failed"
      <4>1. i \in 1..job.length /\ send[i] \in {"writing", "failed"}
        BY <2>0, Zenon DEF FabricInv
      <4> QED BY <3>5, <4>1, Zenon DEF Sending
    <3> QED BY <3>4, <3>5, <3>6, Zenon
  <2>5. ASSUME rx \in {"digest", "ok", "failed"}
        PROVE  /\ rxFree = job.rxPool
               /\ \A i \in 1..job.length : recv[i] # "posted" /\ write[i] # "busy"
               /\ \A i \in landing : \E j \in 1..i : recv[j] = "failed"
    <3>1. Len(Receiving) = 0 /\ Len(Writes) = 0
      BY <2>2, <2>5 DEF RxWindows
    <3>2. Stored = At /\ At \in Nat
      BY <2>2, <3>1 DEF RxNumbers
    <3>3. Cardinality((Stored + 1 .. At) \ job.home) = 0
      <4>1. (Stored + 1 .. At) \ job.home = {}
        BY <3>2
      <4> QED BY <4>1, FS_EmptySet
    <3>4. rxFree = job.rxPool
      BY <2>2, <3>1, <3>3, SMTT(20) DEF RxPages, RxLines
    <3>5. ASSUME NEW i \in 1..job.length
          PROVE  recv[i] # "posted" /\ write[i] # "busy"
      BY <2>2, <3>1, <3>2 DEF RxBusy, RxNumbers
    <3>6. ASSUME NEW i \in landing
          PROVE  \E j \in 1..i : recv[j] = "failed"
      <4>1. i \in 1..job.length /\ (recv[i] = "posted" \/ ReceiveLost(i))
        BY <2>0, Zenon DEF FabricInv
      <4> QED BY <3>5, <4>1, Zenon DEF ReceiveLost
    <3> QED BY <3>4, <3>5, <3>6, Zenon
  <2> QED BY <2>3, <2>4, <2>5 DEF AllJoined
<1> QED BY <1>1, StreamInvariant, PTL

\* With pools of two pages or more neither end of a stream ever waits for a page
\* only it could give back (StreamGeometry::forChannel).
THEOREM StreamNeverStarves == (\A p \in Pools : p >= 2) => (Spec => []NeverWaitsForItself)
<1> SUFFICES ASSUME \A p \in Pools : p >= 2 PROVE Spec => []NeverWaitsForItself
  OBVIOUS
<1>1. StreamInv => NeverWaitsForItself
  <2> SUFFICES ASSUME StreamInv PROVE NeverWaitsForItself
    OBVIOUS
  <2>1. TxLines /\ TxPages /\ TxWindows /\ TxNumbers
    BY TxFacts DEF StreamInv
  <2>2. RxLines /\ RxPages /\ RxWindows /\ RxNumbers
    BY RxFacts, SMTT(30) DEF StreamInv
  <2>3. ASSUME tx = "fill", CanFill PROVE txFree > 0
    <3>1. Window(job.txPool) + ReadAhead(job.txPool) <= job.txPool
      BY <2>1, GeometryFits DEF TxNumbers
    <3>2. /\ Cardinality((Retired + 1 .. Cursor) \ job.own) \in Nat
          /\ Cardinality((Retired + 1 .. Cursor) \ job.own) <= Cursor - Retired
      BY <2>1, Retired <= Cursor, HeldBounded, Zenon DEF TxNumbers
    <3>3. Len(Prefetch) < ReadAhead(job.txPool) /\ Len(InFlight) <= Window(job.txPool)
      BY <2>1, <2>3, SMTT(30) DEF CanFill, TxWindows
    <3> QED BY <2>1, <3>1, <3>2, <3>3, SMTT(20) DEF TxPages, TxLines, TxNumbers
  <2>4. ASSUME rx = "post" PROVE rxFree > 0
    <3>1. Window(job.rxPool) + WriteDepth(job.rxPool) <= job.rxPool
      BY <2>2, GeometryFits, SMTT(30) DEF RxNumbers
    <3>2. /\ Cardinality((Stored + 1 .. At) \ job.home) \in Nat
          /\ Cardinality((Stored + 1 .. At) \ job.home) <= At - Stored
      BY <2>2, Stored <= At, HeldBounded, Zenon DEF RxNumbers
    <3>3. Len(Writes) <= WriteDepth(job.rxPool) /\ Len(Receiving) < Window(job.rxPool)
      BY <2>2, <2>4 DEF RxWindows
    <3> QED BY <2>2, <3>1, <3>2, <3>3, SMTT(20) DEF RxPages, RxLines, RxNumbers
  <2> QED BY <2>3, <2>4 DEF NeverWaitsForItself
<1> QED BY <1>1, StreamInvariant, PTL
=============================================================================
