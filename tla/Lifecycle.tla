----------------------------- MODULE Lifecycle -----------------------------
(* What the ControlPlane reconciler promises about the objects that no        *)
(* garbage collector removes: the life of a resource, seen from outside.      *)
(*                                                                            *)
(* Each kind of such objects has a guard, a finalizer.  Objects are made only *)
(* under all guards, a guard goes only after the objects of its kind, and the *)
(* resource only after its guards.  Passes, copies, caches, failures and      *)
(* crashes are details of an implementation.                                  *)
CONSTANT Kinds   \* the kinds of objects that are guarded

VARIABLES
    phase,       \* "live", "leaving" (its deletion is asked for) or "gone"
    guards,      \* the kinds whose guard is on the resource
    objects      \* the kinds of which there is an object

vars == <<phase, guards, objects>>

Init == phase = "live" /\ guards = {} /\ objects = {}

\* All guards are put on a resource nobody has deleted.
Guard ==
    /\ phase = "live"
    /\ guards' = Kinds
    /\ UNCHANGED <<phase, objects>>

\* Objects are made under all guards, even while the resource is leaving.
Make ==
    /\ phase # "gone" /\ guards = Kinds
    /\ \E k \in Kinds : objects' = objects \cup {k}
    /\ UNCHANGED <<phase, guards>>

\* The last object of a kind goes, by the cleanup or by another hand.
Lose ==
    /\ \E k \in Kinds : objects' = objects \ {k}
    /\ UNCHANGED <<phase, guards>>

\* A resource without guards may go at any time once it is being deleted, unless
\* others keep it.
Departed == IF guards' = {} THEN {"leaving", "gone"} ELSE {"leaving"}

Leave ==
    /\ phase = "live"
    /\ UNCHANGED <<guards, objects>>
    /\ phase' \in Departed

\* A guard goes after the objects it guards; none of them comes back.
Release ==
    /\ phase = "leaving"
    /\ \E k \in guards \ objects : guards' = guards \ {k}
    /\ phase' \in Departed
    /\ UNCHANGED objects

Vanish ==
    /\ phase = "leaving" /\ guards = {}
    /\ phase' = "gone"
    /\ UNCHANGED <<guards, objects>>

Next == Guard \/ Make \/ Lose \/ Leave \/ Release \/ Vanish

Spec == Init /\ [][Next]_vars

\* Every object is guarded, and what is gone has no guard: an invariant.
Covered ==
    /\ objects \subseteq guards /\ guards \subseteq Kinds
    /\ phase = "gone" => guards = {}

\* What follows: a resource leaves nothing behind.
NothingLeft == phase = "gone" => objects = {}
=============================================================================
