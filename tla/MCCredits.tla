------------------------------- MODULE MCCredits -------------------------------
(* Credits with interchangeable instances, each serving requests and        *)
(* sweeping.                                                                *)
EXTENDS Credits, TLC

Symmetry == Permutations(Server)

(* What was granted for which month and what was given back are histories,  *)
(* which nothing reads and which say nothing once `disturbed` holds.        *)
Seen == <<balance, journal, status, stale, talking, redeemed, period, sub, marked, doing, job, disturbed, stops,
          IF disturbed THEN None ELSE <<dawn, monthly, refunds>> >>
=============================================================================
