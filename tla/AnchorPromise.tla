--------------------------- MODULE AnchorPromise ---------------------------
(***************************************************************************)
(* What anchoring one log to one sink promises, without schedules, leases, *)
(* windows or crashes: a head that was observed may be frozen as the one   *)
(* target, it is greater than every anchored head, it stays the target     *)
(* until it is anchored, and its result never changes.                     *)
(***************************************************************************)
EXTENDS Integers

CONSTANTS MaxTree, AnchorIDs

VARIABLES
    observed,   \* tree sizes handed over for anchoring
    target,     \* the size being anchored, 0 if none
    results     \* tree size -> anchor identifier, 0 if none

promise == <<observed, target, results>>

Heads == 1 .. MaxTree

Init ==
    /\ observed = {}
    /\ target = 0
    /\ results = [n \in Heads |-> 0]

Observe(n) ==
    /\ observed' = observed \cup {n}
    /\ UNCHANGED <<target, results>>

Freeze(n) ==
    /\ target = 0
    /\ n \in observed
    /\ \A m \in Heads : m >= n => results[m] = 0
    /\ target' = n
    /\ UNCHANGED <<observed, results>>

Anchor(id) ==
    /\ target # 0
    /\ results' = [results EXCEPT ![target] = id]
    /\ target' = 0
    /\ UNCHANGED observed

Next ==
    \/ \E n \in Heads : Observe(n) \/ Freeze(n)
    \/ \E id \in AnchorIDs : Anchor(id)

Spec == Init /\ [][Next]_promise
=============================================================================
