------------------------------- MODULE Memory -------------------------------
(***************************************************************************)
(* rail::Memory (memory.h, memory.cc): the registered memory every thread   *)
(* of the process allocates from.  Regions of frames are added one by one   *)
(* up to a ceiling, each registered with every attached device.  Lock       *)
(* guards the regions and is held for single steps, so what happens under   *)
(* it is one action; Growing is held while a region is built, which is too  *)
(* slow to do under Lock.                                                   *)
(*                                                                          *)
(* The threads are PagePool and AddressSpace (address-space.cc): each       *)
(* claims several runs of one size and keeps all of them or none.           *)
(***************************************************************************)
EXTENDS Naturals, Sequences, FiniteSets

CONSTANTS
  Threads,    \* threads that allocate and attach
  Devices,    \* RDMA devices
  Frames,     \* frames of a region: RegionBytes / FrameSize
  Ceiling,    \* RegionCeiling
  MaxCount,   \* most runs a thread claims at once
  None        \* nobody holds Growing

ASSUME FramesPositive == Frames \in Nat \ {0}
ASSUME CeilingPositive == Ceiling \in Nat \ {0}
ASSUME NoneIsNoThread == None \notin Threads

VARIABLES
  taken,        \* the frames of each region that are taken: MemoryRegion::Taken
  used,         \* MemoryRegion::Used, kept beside it
  registered,   \* the devices each region has a key for: MemoryRegion::Registered
  devices,      \* Memory::Devices
  growing,      \* the holder of Memory::Growing
  pc,           \* where each thread is
  want,         \* the frames of each run it claims
  count,        \* the number of runs it claims
  held,         \* the runs it holds
  snap,         \* the devices it registers the region it builds with
  seen          \* ghost: the number of regions at its last look for room

vars == <<taken, used, registered, devices, growing, pc, want, count, held, snap, seen>>

regions == 1..Len(taken)

\* The first region is built by the constructor, with no device attached.
Init ==
  /\ taken = << {} >>
  /\ used = << 0 >>
  /\ registered = << {} >>
  /\ devices = {}
  /\ growing = None
  /\ pc = [t \in Threads |-> "idle"]
  /\ want = [t \in Threads |-> 0]
  /\ count = [t \in Threads |-> 0]
  /\ held = [t \in Threads |-> {}]
  /\ snap = [t \in Threads |-> {}]
  /\ seen = [t \in Threads |-> 0]

-----------------------------------------------------------------------------
(***************************************************************************)
(* takeLocked: the first region with room and, in it, the first run of      *)
(* consecutive free frames.                                                 *)
(***************************************************************************)
Span(first, n) == first..(first + n - 1)

Fits(r, first, n) ==
  /\ first + n <= Frames
  /\ Span(first, n) \cap taken[r] = {}

HasRoom(r, n) == n <= Frames - used[r] /\ \E first \in 0..(Frames - 1) : Fits(r, first, n)

CanTake(n) == \E r \in regions : HasRoom(r, n)

\* The run takeLocked returns.
Found(n) ==
  LET r == CHOOSE r \in regions : HasRoom(r, n) /\ \A q \in 1..(r - 1) : ~HasRoom(q, n)
      f == CHOOSE f \in 0..(Frames - 1) : Fits(r, f, n) /\ \A g \in 0..(f - 1) : ~Fits(r, g, n)
  IN  [region |-> r, first |-> f, frames |-> n]

\* The run is the thread's: on to the next one, or the claim is complete.
Take(t) ==
  LET run == Found(want[t]) IN
  /\ taken' = [taken EXCEPT ![run.region] = @ \cup Span(run.first, run.frames)]
  /\ used' = [used EXCEPT ![run.region] = @ + run.frames]
  /\ held' = [held EXCEPT ![t] = @ \cup {run}]
  /\ pc' = [pc EXCEPT ![t] = IF Cardinality(held'[t]) = count[t] THEN "done" ELSE "alloc"]
  /\ UNCHANGED <<registered, devices, want, count, snap>>

\* alloc returns an invalid run: the claim gives back what it has.
Refuse(t) ==
  /\ pc' = [pc EXCEPT ![t] = "undo"]
  /\ UNCHANGED <<taken, used, registered, devices, want, count, held, snap>>

At(t, here, there) ==
  /\ pc[t] = here
  /\ pc' = [pc EXCEPT ![t] = there]
  /\ UNCHANGED <<taken, used, registered, devices, want, count, held>>

Looked(t) == seen' = [seen EXCEPT ![t] = Len(taken)]

-----------------------------------------------------------------------------
\* AddressSpace::claim, or a PagePool: n runs of w frames.
Claim(t, w, n) ==
  /\ pc[t] = "idle"
  /\ pc' = [pc EXCEPT ![t] = "alloc"]
  /\ want' = [want EXCEPT ![t] = w]
  /\ count' = [count EXCEPT ![t] = n]
  /\ UNCHANGED <<taken, used, registered, devices, growing, held, snap, seen>>

\* alloc under Lock: refused for good, taken, or off to wait for Growing.
AllocTooLarge(t) ==
  /\ pc[t] = "alloc" /\ want[t] > Frames
  /\ Refuse(t)
  /\ UNCHANGED <<growing, seen>>

AllocTake(t) ==
  /\ pc[t] = "alloc" /\ want[t] <= Frames /\ CanTake(want[t])
  /\ Take(t)
  /\ UNCHANGED <<growing, seen>>

AllocMiss(t) ==
  /\ want[t] <= Frames /\ ~CanTake(want[t])
  /\ At(t, "alloc", "wait")
  /\ Looked(t)
  /\ UNCHANGED <<growing, snap>>

\* A grower that builds without looking again once it is alone.
SkipSecondLook(t) ==
  /\ growing = None
  /\ growing' = t
  /\ At(t, "wait", "ceiling")
  /\ UNCHANGED <<snap, seen>>

\* A grower that does not wait for the one ahead of it.
GrowTogether(t) ==
  /\ growing' = t
  /\ At(t, "wait", "look")
  /\ UNCHANGED <<snap, seen>>

\* The lock_guard on Growing.
EnterGrow(t) ==
  /\ growing = None
  /\ growing' = t
  /\ At(t, "wait", "look")
  /\ UNCHANGED <<snap, seen>>

\* The second look.
LookTake(t) ==
  /\ pc[t] = "look" /\ CanTake(want[t])
  /\ Take(t)
  /\ growing' = None
  /\ UNCHANGED seen

LookMiss(t) ==
  /\ ~CanTake(want[t])
  /\ At(t, "look", "ceiling")
  /\ Looked(t)
  /\ UNCHANGED <<growing, snap>>

\* growLocked: the ceiling, then build, which snapshots the devices under Lock
\* and registers the new region with them outside it.
AtCeiling(t) ==
  /\ pc[t] = "ceiling" /\ Len(taken) >= Ceiling
  /\ Refuse(t)
  /\ growing' = None
  /\ UNCHANGED seen

BelowCeiling(t) ==
  /\ Len(taken) < Ceiling
  /\ At(t, "ceiling", "build")
  /\ UNCHANGED <<growing, snap, seen>>

Snapshot(t) ==
  /\ At(t, "build", "register")
  /\ snap' = [snap EXCEPT ![t] = devices]
  /\ UNCHANGED <<growing, seen>>

Register(t) ==
  /\ At(t, "register", "push")
  /\ UNCHANGED <<growing, snap, seen>>

\* posix_memalign or ibv_reg_mr fails; the region is destroyed.
BuildFails(t) ==
  /\ pc[t] \in {"build", "register"}
  /\ Refuse(t)
  /\ growing' = None
  /\ UNCHANGED seen

Push(t) ==
  /\ pc[t] = "push"
  /\ taken' = Append(taken, {})
  /\ used' = Append(used, 0)
  /\ registered' = Append(registered, snap[t])
  /\ pc' = [pc EXCEPT ![t] = "take"]
  /\ UNCHANGED <<devices, growing, want, count, held, snap, seen>>

\* The take after growing may still miss: others allocate without Growing.
GrownTake(t) ==
  /\ pc[t] = "take" /\ CanTake(want[t])
  /\ Take(t)
  /\ growing' = None
  /\ UNCHANGED seen

GrownMiss(t) ==
  /\ pc[t] = "take" /\ ~CanTake(want[t])
  /\ Refuse(t)
  /\ growing' = None
  /\ UNCHANGED seen

\* A release that leaves Used as it was.
ReleaseKeepsUsed(t, run) ==
  /\ taken' = [taken EXCEPT ![run.region] = @ \ Span(run.first, run.frames)]
  /\ held' = [held EXCEPT ![t] = @ \ {run}]
  /\ UNCHANGED used

\* Memory::release, from ~Run.
Release(t, run) ==
  /\ taken' = [taken EXCEPT ![run.region] = @ \ Span(run.first, run.frames)]
  /\ used' = [used EXCEPT ![run.region] = @ - run.frames]
  /\ held' = [held EXCEPT ![t] = @ \ {run}]

\* The runs go back one by one: a claim that failed part way, or one whose owner
\* is done with it.
GiveBack(t) ==
  /\ pc[t] \in {"undo", "done"}
  /\ \E run \in held[t] : Release(t, run)
  /\ pc' = [pc EXCEPT ![t] = "undo"]
  /\ UNCHANGED <<registered, devices, growing, want, count, snap, seen>>

\* A failed claim that forgets the runs it had.
ForgetRuns(t) ==
  /\ pc[t] = "undo"
  /\ pc' = [pc EXCEPT ![t] = "idle"]
  /\ held' = [held EXCEPT ![t] = {}]
  /\ UNCHANGED <<taken, used, registered, devices, growing, want, count, snap, seen>>

GivenBack(t) ==
  /\ pc[t] = "undo" /\ held[t] = {}
  /\ pc' = [pc EXCEPT ![t] = "idle"]
  /\ UNCHANGED <<taken, used, registered, devices, growing, want, count, held, snap, seen>>

\* An attach that takes Lock alone.
AttachWithoutGrowing(t, d) ==
  /\ pc[t] \in {"idle", "done"}
  /\ d \notin devices
  /\ registered' = [r \in regions |-> registered[r] \cup {d}]
  /\ devices' = devices \cup {d}
  /\ UNCHANGED <<taken, used, growing, pc, want, count, held, snap, seen>>

\* attach holds both locks.  Registering with some region may fail; the regions
\* before it keep their key and the device is not added.
Attach(t, d) ==
  /\ pc[t] \in {"idle", "done"}
  /\ growing = None
  /\ d \notin devices
  /\ registered' = [r \in regions |-> registered[r] \cup {d}]
  /\ devices' = devices \cup {d}
  /\ UNCHANGED <<taken, used, growing, pc, want, count, held, snap, seen>>

AttachFails(t, d) ==
  /\ pc[t] \in {"idle", "done"}
  /\ growing = None
  /\ d \notin devices
  /\ \E k \in regions : /\ d \notin registered[k]
                        /\ registered' = [r \in regions |-> IF r < k THEN registered[r] \cup {d}
                                                                     ELSE registered[r]]
  /\ UNCHANGED <<taken, used, devices, growing, pc, want, count, held, snap, seen>>

Next ==
  \E t \in Threads :
    \/ \E w \in 1..(Frames + 1), n \in 1..MaxCount : Claim(t, w, n)
    \/ AllocTooLarge(t) \/ AllocTake(t) \/ AllocMiss(t)
    \/ EnterGrow(t) \/ LookTake(t) \/ LookMiss(t)
    \/ AtCeiling(t) \/ BelowCeiling(t) \/ Snapshot(t) \/ Register(t) \/ BuildFails(t) \/ Push(t)
    \/ GrownTake(t) \/ GrownMiss(t)
    \/ GiveBack(t) \/ GivenBack(t)
    \/ \E d \in Devices : Attach(t, d) \/ AttachFails(t, d)

Spec == Init /\ [][Next]_vars

-----------------------------------------------------------------------------
(***************************************************************************)
(* Properties                                                               *)
(***************************************************************************)
Runs == UNION {held[t] : t \in Threads}

\* No frame is in two runs, and a frame is marked taken exactly while some thread
\* holds the run it is in: nothing a pool writes lands in another pool's page, and
\* nothing leaks when a claim fails part way (address-space.cc:16-23).
FramesExclusive ==
  /\ \A s, t \in Threads : s # t => held[s] \cap held[t] = {}
  /\ \A a, b \in Runs : a # b /\ a.region = b.region =>
       Span(a.first, a.frames) \cap Span(b.first, b.frames) = {}
  /\ \A r \in regions :
       taken[r] = UNION {Span(a.first, a.frames) : a \in {b \in Runs : b.region = r}}

\* The count takeLocked rules a region out by is the number of frames taken in it,
\* so a region with room is never passed over.
UsedIsCount == \A r \in regions : used[r] = Cardinality(taken[r])

\* Every region has a key for every attached device, whichever of attach and a
\* region under construction came first (memory.cc:318-319).
EveryRegionHasItsKeys == \A r \in regions : devices \subseteq registered[r]

\* The regions never pass the ceiling, however many threads want to grow at once.
CeilingHolds == Len(taken) <= Ceiling

\* A grower goes on to build only from a look, taken alone, that found no room,
\* and builds only while no region was added since: neither a region another
\* thread added nor a run it gave back while this one waited for Growing is
\* overlooked, and no region is built that nobody needs (memory.cc:223-224).
GrowsOnWhatItSaw ==
  /\ [](\A t \in Threads : pc[t] \in {"ceiling", "build", "register", "push"} => seen[t] = Len(taken))
  /\ [][\A t \in Threads : pc[t] # "ceiling" /\ pc'[t] = "ceiling" => ~CanTake(want[t])]_vars
=============================================================================
