------------------------------- MODULE Custody -------------------------------
(***************************************************************************)
(* What services/release.rs and services/disputes.rs promise about one     *)
(* payment held for a recipient: it is whole, it is in one place, and it   *)
(* moves once out of the window - to the recipient, or into a dispute that *)
(* ends with one winner.                                                   *)
(***************************************************************************)
VARIABLE place      \* where the recipient's share is

Init == place = "nowhere"

Move(from, to) == place = from /\ place' = to

Captured == Move("nowhere", "pending")
Released == Move("pending", "available")
Frozen   == Move("pending", "disputed")
Kept     == Move("disputed", "available")
Refunded == Move("disputed", "returned")

Next == Captured \/ Released \/ Frozen \/ Kept \/ Refunded

Spec == Init /\ [][Next]_place
=============================================================================
