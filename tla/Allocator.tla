------------------------------ MODULE Allocator ------------------------------
(***************************************************************************)
(* What a memory manager promises its clients: each pointer variable holds *)
(* no region or one that overlaps no other and whose bytes are as its      *)
(* owner left them, whatever the other clients and the manager do; only    *)
(* the owner's own calls give it a region, resize it or take it back.      *)
(***************************************************************************)
EXTENDS Integers

CONSTANTS Slots, NoRegion
VARIABLE region

Given(s, r) == /\ r.intact
               /\ \A q \in Slots \ {s} : region[q] = NoRegion
                                         \/ r.at + r.n <= region[q].at \/ region[q].at + region[q].n <= r.at

Init == region = [s \in Slots |-> NoRegion]
Alloc(s) == region[s] = NoRegion /\ region'[s] # NoRegion /\ Given(s, region'[s])
Resize(s) == region[s] # NoRegion /\ region'[s] # NoRegion /\ Given(s, region'[s])
Free(s) == region[s] # NoRegion /\ region'[s] = NoRegion
Next == \E s \in Slots : /\ region' = [region EXCEPT ![s] = region'[s]]
                         /\ Alloc(s) \/ Resize(s) \/ Free(s)
Spec == Init /\ [][Next]_region
==============================================================================
