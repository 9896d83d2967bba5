------------------------------ MODULE FifoLock ------------------------------
(***************************************************************************)
(* What a turnstile promises: callers line up, and whoever stands at the    *)
(* front of the line owns the turn.  Nobody is let in ahead of a caller     *)
(* that came first, and whenever the owner leaves, the next in line owns    *)
(* the turn at once.                                                        *)
(***************************************************************************)
EXTENDS Naturals, Sequences, Lines

CONSTANT Coros

VARIABLE line

Init == line = << >>

Arrive(c) ==
  /\ \A i \in 1..Len(line) : line[i] # c
  /\ line' = Append(line, c)

\* The owner is done, or a caller further back is destroyed: either way it
\* leaves the line and everybody behind it moves up.
Leave(c) ==
  \E i \in 1..Len(line) : line[i] = c /\ line' = RemoveAt(line, i)

Next == \E c \in Coros : Arrive(c) \/ Leave(c)

Spec == Init /\ [][Next]_line
=============================================================================
