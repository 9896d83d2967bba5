----------------------------- MODULE TcpAbandon -----------------------------
(***************************************************************************)
(* TcpChannel with receives whose coroutine is destroyed while it is        *)
(* suspended, the case Unpost and ~Idle provide for                         *)
(* (tcp-data-channel.cc:226-239): the receive is unposted and off Idlers.   *)
(***************************************************************************)
EXTENDS TcpChannel

Destroy(k) ==
  /\ pc[k] \notin {"new", "ok", "failed"}
  /\ pc' = [pc EXCEPT ![k] = "failed"]
  /\ posted' = posted \ {k}
  /\ UNCHANGED <<done, reading, failure, frame, network>>

AbandonNext == Next \/ \E k \in Keys : Destroy(k)

AbandonSpec == Init /\ [][AbandonNext]_vars
=============================================================================
