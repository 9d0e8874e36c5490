------------------------------- MODULE EventFeed -------------------------------
(***************************************************************************)
(* What a bounded feed of events promises to its listeners: events are     *)
(* numbered as they come, the latest are kept, and a listener is given     *)
(* every kept event in order before any later one.  It may be given an     *)
(* event again, and one that is no longer kept.                            *)
(***************************************************************************)
EXTENDS Naturals

CONSTANTS Listeners,
          Capacity  \* the most events the feed keeps

VARIABLES first,  \* the events kept are first..last
          last,
          seen    \* the events each listener was given since it came

feed == <<first, last, seen>>

Init ==
    /\ first = 1 /\ last = 0
    /\ seen = [l \in Listeners |-> {}]

\* An event comes, and the oldest may go.
Add ==
    /\ last' = last + 1
    /\ first' \in {first, first + 1}
    /\ last' < first' + Capacity
    /\ UNCHANGED seen

Deliver(l) ==
    /\ \E i \in 1..last :
           /\ \A j \in first..(i - 1) : j \in seen[l]
           /\ seen' = [seen EXCEPT ![l] = @ \cup {i}]
    /\ UNCHANGED <<first, last>>

Leave(l) ==
    /\ seen' = [seen EXCEPT ![l] = {}]
    /\ UNCHANGED <<first, last>>

\* The feed starts over with what it has stored, and without listeners.
Reset ==
    /\ first' = 1
    /\ last' \in 0..Capacity
    /\ seen' = [l \in Listeners |-> {}]

Next == Add \/ Reset \/ \E l \in Listeners : Deliver(l) \/ Leave(l)

Spec == Init /\ [][Next]_feed
================================================================================
