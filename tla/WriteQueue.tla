----------------------------- MODULE WriteQueue -----------------------------
(***************************************************************************)
(* What the realtime database client promises of the writes it is given,   *)
(* whatever its connection does: they wait in one queue, the server sees   *)
(* them in order, an answer always concerns the oldest one, a lost         *)
(* connection makes every unanswered write wait again while copies may     *)
(* still be travelling, and a write is decided once.                       *)
(***************************************************************************)
EXTENDS Naturals

CONSTANTS
    Writes       \* the writes, numbered from 1 in the order they are given

VARIABLES
    queue,       \* the server's decision on each undecided write, "pending" before
                 \* it; the queue is in the order of the writes' numbers
    late,        \* writes of which a copy may travel on a dead connection
    stored,      \* the write the location holds, 0 for none
    outcome      \* what became of each write

vars == <<queue, late, stored, outcome>>

Init ==
    /\ queue = [w \in {} |-> "pending"]
    /\ late = {}
    /\ stored = 0
    /\ outcome = [w \in Writes |-> "none"]

Queued == DOMAIN queue

Pending == {w \in Queued : queue[w] = "pending"}

\* A write is given: the first that was not.
Write(w) ==
    /\ \A v \in Writes : v < w <=> v \in Queued \/ outcome[v] # "none"
    /\ queue' = [v \in Queued \cup {w} |-> IF v = w THEN "pending" ELSE queue[v]]
    /\ UNCHANGED <<late, stored, outcome>>

\* The server decides the oldest write it has not decided.
Decide(w) ==
    /\ w \in Pending
    /\ \A v \in Pending : w <= v
    /\ \/ /\ queue' = [queue EXCEPT ![w] = "ok"]
          /\ stored' = w
       \/ /\ queue' = [queue EXCEPT ![w] = "failed"]
          /\ UNCHANGED stored
    /\ UNCHANGED <<late, outcome>>

\* The answer about the oldest write comes back.
Ack(w) ==
    /\ w \in Queued \ Pending
    /\ \A v \in Queued : w <= v
    /\ queue' = [v \in Queued \ {w} |-> queue[v]]
    /\ outcome' = [outcome EXCEPT ![w] = queue[w]]
    /\ UNCHANGED <<late, stored>>

\* The connection goes, or the writes C are given up: what is left waits again.
GiveUp(C) ==
    /\ C \subseteq Queued
    /\ \/ queue' = [v \in Queued \ C |-> queue[v]]
       \/ queue' = [v \in Queued \ C |-> "pending"]
    /\ late' \in SUBSET (late \cup Pending)
    /\ outcome' = [w \in Writes |-> IF w \in C THEN "withdrawn" ELSE outcome[w]]
    /\ UNCHANGED stored

\* A copy arrives late: the server may apply it, and another may follow.
Late(w) ==
    /\ w \in late
    /\ late' \in {late, late \ {w}}
    /\ stored' \in {stored, w}
    /\ UNCHANGED <<queue, outcome>>

Next ==
    \/ \E w \in Writes : Write(w) \/ Decide(w) \/ Ack(w) \/ Late(w)
    \/ \E C \in SUBSET Queued : GiveUp(C)

Spec == Init /\ [][Next]_vars
=============================================================================
