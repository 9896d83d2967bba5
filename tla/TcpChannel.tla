----------------------------- MODULE TcpChannel -----------------------------
(***************************************************************************)
(* The receiving side of a TCP data channel (tcp-data-channel.cc).  Many    *)
(* receives are posted at once, each under its key, and share one socket:   *)
(* one of them reads frames and hands each to whoever asked for its key     *)
(* until its own has landed, then another takes over.  A frame whose        *)
(* receive is not posted yet parks the reader.                              *)
(*                                                                          *)
(* One loop runs all of them, so an action is one run of one coroutine from *)
(* a suspension to the next, scheduling of others included.                 *)
(***************************************************************************)
EXTENDS Naturals, Sequences, FiniteSets

CONSTANT Keys   \* the keys asked for over the control channel

VARIABLES
  pc,        \* where the receive of each key is
  posted,    \* the keys in Waiting
  done,      \* the keys whose Posted::Done is set
  reading,   \* Reading
  failure,   \* Failure is not empty
  frame,     \* the header the reader holds: its key, and whether its length fits
  wire,      \* the frames the peer has sent and nobody has read the header of
  sent,      \* the keys the peer has sent the frame of
  open,      \* Peer is not closed
  lost       \* the connection is gone

vars == <<pc, posted, done, reading, failure, frame, wire, sent, open, lost>>
network == <<wire, sent, open, lost>>

\* "new": not called.  "top": woken in recv's loop.  "idle": asleep in it.  The
\* reader: "header" and "payload" wait for bytes, "parked" waits for the receive
\* of the frame it holds, "relook" is woken from there.
PCs == {"new", "top", "idle", "header", "parked", "relook", "payload", "ok", "failed"}
Reader == {"header", "parked", "relook", "payload"}
Frames == [key : Keys, fits : BOOLEAN]

Init ==
  /\ pc = [k \in Keys |-> "new"]
  /\ posted = {} /\ done = {}
  /\ reading = FALSE /\ failure = FALSE
  /\ frame \in Frames
  /\ wire = << >> /\ sent = {}
  /\ open = TRUE /\ lost = FALSE

-----------------------------------------------------------------------------
\* wakeReaders: everybody in Idlers is scheduled.
Woken(p) ==
  [k \in Keys |-> CASE p[k] = "idle" -> "top" [] p[k] = "parked" -> "relook" [] OTHER -> p[k]]

\* A loop that reads beside the one that is reading.
ReadTogether(k, p, w) ==
  \/ /\ k \in done \/ failure
     /\ pc' = [p EXCEPT ![k] = IF k \in done THEN "ok" ELSE "failed"]
     /\ posted' = w \ {k}
     /\ UNCHANGED reading
  \/ /\ k \notin done /\ ~failure
     /\ pc' = [p EXCEPT ![k] = "header"]
     /\ posted' = w
     /\ reading' = TRUE

\* The top of recv's loop: return, take the socket on, or sleep.
AtTop(k, p, w) ==
  \/ /\ k \in done \/ failure
     /\ pc' = [p EXCEPT ![k] = IF k \in done THEN "ok" ELSE "failed"]
     /\ posted' = w \ {k}
     /\ UNCHANGED reading
  \/ /\ k \notin done /\ ~failure /\ ~reading
     /\ pc' = [p EXCEPT ![k] = "header"]
     /\ posted' = w
     /\ reading' = TRUE
  \/ /\ k \notin done /\ ~failure /\ reading
     /\ pc' = [p EXCEPT ![k] = "idle"]
     /\ posted' = w
     /\ UNCHANGED reading

\* recv: the receive is posted and whoever is parked on its frame told.
Recv(k) ==
  /\ pc[k] = "new"
  /\ AtTop(k, Woken(pc), posted \cup {k})
  /\ UNCHANGED <<done, failure, frame, network>>

\* recv of a length no frame carries, or of a key whose receive is posted: its
\* caller is told and the channel stays as it was.
RecvRefused(k, tooLong) ==
  /\ tooLong \/ k \in posted
  /\ UNCHANGED vars

Resume(k) ==
  /\ pc[k] = "top"
  /\ AtTop(k, pc, posted)
  /\ UNCHANGED <<done, failure, frame, network>>

\* The reader gives up: fail() tells everybody, and recv returns the error.
GiveUp(k) ==
  /\ failure' = TRUE
  /\ reading' = FALSE
  /\ pc' = [Woken(pc) EXCEPT ![k] = "failed"]
  /\ posted' = posted \ {k}
  /\ UNCHANGED done

\* A reader that throws away a frame nobody has asked for.
DropUnknown(k, f) ==
  \/ /\ f.key \notin posted
     /\ pc' = [pc EXCEPT ![k] = "header"]
     /\ UNCHANGED <<posted, done, reading, failure>>
  \/ /\ f.key \in posted /\ f.fits
     /\ pc' = [pc EXCEPT ![k] = "payload"]
     /\ UNCHANGED <<posted, done, reading, failure>>
  \/ /\ f.key \in posted /\ ~f.fits
     /\ GiveUp(k)

\* Look the frame's key up: read its payload, park until its receive is posted,
\* or give up on a length that is not the one asked for.
LookUp(k, f) ==
  \/ /\ f.key \notin posted
     /\ pc' = [pc EXCEPT ![k] = "parked"]
     /\ UNCHANGED <<posted, done, reading, failure>>
  \/ /\ f.key \in posted /\ f.fits
     /\ pc' = [pc EXCEPT ![k] = "payload"]
     /\ UNCHANGED <<posted, done, reading, failure>>
  \/ /\ f.key \in posted /\ ~f.fits
     /\ GiveUp(k)

ReadHeader(k) ==
  /\ pc[k] = "header" /\ open /\ wire # << >>
  /\ frame' = Head(wire)
  /\ wire' = Tail(wire)
  /\ LookUp(k, Head(wire))
  /\ UNCHANGED <<sent, open, lost>>

LookAgain(k) ==
  /\ pc[k] = "relook"
  /\ LookUp(k, frame)
  /\ UNCHANGED <<frame, network>>

\* A reader that stops without waking anybody to take over.
StopQuietly(k) ==
  /\ pc[k] = "payload" /\ open
  /\ done' = done \cup {frame.key}
  /\ IF frame.key = k
     THEN /\ reading' = FALSE
          /\ pc' = [pc EXCEPT ![k] = "ok"]
          /\ posted' = posted \ {k}
     ELSE /\ pc' = [Woken(pc) EXCEPT ![k] = "header"]
          /\ UNCHANGED <<reading, posted>>
  /\ UNCHANGED <<failure, frame, network>>

\* The payload is in.  Another's: wake it and read on.  Its own: stop reading,
\* wake everybody so that somebody takes over, and return.
ReadPayload(k) ==
  /\ pc[k] = "payload" /\ open
  /\ done' = done \cup {frame.key}
  /\ IF frame.key = k
     THEN /\ reading' = FALSE
          /\ pc' = [Woken(pc) EXCEPT ![k] = "ok"]
          /\ posted' = posted \ {k}
     ELSE /\ pc' = [Woken(pc) EXCEPT ![k] = "header"]
          /\ UNCHANGED <<reading, posted>>
  /\ UNCHANGED <<failure, frame, network>>

\* A read fails: the connection is gone, or the socket was closed under it.
ReadFails(k) ==
  /\ pc[k] \in {"header", "payload"}
  /\ lost \/ ~open
  /\ GiveUp(k)
  /\ UNCHANGED <<frame, network>>

\* A close that leaves the socket to the channel's destructor.
CloseLater ==
  /\ ~failure
  /\ failure' = TRUE
  /\ pc' = Woken(pc)
  /\ UNCHANGED <<posted, done, reading, frame, network>>

Close ==
  /\ open
  /\ open' = FALSE
  /\ failure' = TRUE
  /\ pc' = Woken(pc)
  /\ UNCHANGED <<posted, done, reading, frame, wire, sent, lost>>

-----------------------------------------------------------------------------
\* The peer sends a frame that was asked for, in any order of the keys, and with
\* the length that was asked for unless it has lost its place.
PeerSends(k) ==
  /\ k \notin sent /\ ~lost
  /\ sent' = sent \cup {k}
  /\ \E fits \in BOOLEAN : wire' = Append(wire, [key |-> k, fits |-> fits])
  /\ UNCHANGED <<pc, posted, done, reading, failure, frame, open, lost>>

Disconnect ==
  /\ ~lost
  /\ lost' = TRUE
  /\ UNCHANGED <<pc, posted, done, reading, failure, frame, wire, sent, open>>

Step(k) ==
  \/ Resume(k) \/ ReadHeader(k) \/ LookAgain(k) \/ ReadPayload(k) \/ ReadFails(k)

\* A channel that is closed at both ends may stay as it is.
Over ==
  /\ ~open /\ lost
  /\ UNCHANGED vars

Next ==
  \/ \E k \in Keys : Recv(k) \/ Step(k) \/ PeerSends(k)
  \/ \E k \in Keys, tooLong \in BOOLEAN : RecvRefused(k, tooLong)
  \/ Close \/ Disconnect \/ Over

Spec == Init /\ [][Next]_vars

\* The loop runs what is ready, a receive that was asked for is posted, and the
\* peer sends what was asked for while the connection lasts.
Fairness ==
  \A k \in Keys : WF_vars(Step(k)) /\ WF_vars(Recv(k)) /\ WF_vars(PeerSends(k))

FairSpec == Spec /\ Fairness

-----------------------------------------------------------------------------
(***************************************************************************)
(* Properties                                                               *)
(***************************************************************************)
\* One coroutine at a time reads the socket, and Reading says whether one does:
\* two would split a frame between them, and a stale flag leaves the rest asleep.
OneReader ==
  /\ \A j, k \in Keys : pc[j] \in Reader /\ pc[k] \in Reader => j = k
  /\ reading <=> \E k \in Keys : pc[k] \in Reader

\* While bytes may still arrive, the buffer the reader fills belongs to a receive
\* that is waiting for it (tcp-data-channel.cc:232-233): no receive returns, and
\* gives its page back, in the middle of its own payload.
FrameToLiveBuffer ==
  \A k \in Keys : pc[k] = "payload" /\ open => frame.key \in posted \ done

\* Every frame the peer sent is on the wire, in the reader's hand or delivered,
\* until the channel fails: one that came before its receive is kept for it
\* (tcp-data-channel.cc:166-169).
NoFrameDropped ==
  ~failure =>
    sent = done \cup {wire[i].key : i \in 1..Len(wire)}
                \cup {frame.key : k \in {j \in Keys : pc[j] \in {"parked", "relook", "payload"}}}

Returned(k) == pc[k] \in {"ok", "failed"}

\* Every receive returns, with its page or with the error of the connection,
\* whichever receive happens to read and in whatever order the frames come.
ReceivesReturn == \A k \in Keys : pc[k] # "new" ~> (Returned(k) \/ ~open)

\* Once the channel is closed every posted receive returns, or whoever joins it
\* waits forever (tcp-data-channel.cc:147-149).
CloseReleasesAll == \A k \in Keys : (~open /\ pc[k] # "new") ~> Returned(k)
=============================================================================
