------------------------------ MODULE MCEscrows ------------------------------
(***************************************************************************)
(* Money a company puts aside: for a mission (Missions) and for a contest  *)
(* (Prizes).  They share no step and no state, so a behaviour is that of   *)
(* one of them, and the other rests.                                       *)
(***************************************************************************)
EXTENDS Missions, Prizes
CONSTANTS u1, u2, u3

VARIABLE purpose \* whose behaviour this is

all == <<purpose, vars, prizeVars>>

(* Three entrants. *)
Three == <<u1, u2, u3>>

Symmetry == Permutations(Worker) \cup Permutations(Handler)

(* No step reads what people were credited in fragments; and once podiums   *)
(* differed in size, which sizes they had says nothing more.               *)
Sizes == IF Cardinality(podiums) <= 1 THEN podiums ELSE {0, 1}
Seen  == <<purpose, vars, status, escrow, prize, entered, rank, Sizes, entries, journal, process, bounds>>

(* Whichever rests is in one initial state. *)
EscrowsInit ==
  /\ purpose \in {"mission", "prize"}
  /\ Init /\ PrizesInit
  /\ purpose = "mission" => status = "upcoming" /\ entered = 0
  /\ purpose = "prize" => ~milestones

(* A bound of the runs: requests over a contest overlap, or one of them is  *)
(* cut off, not both.                                                      *)
CutOrCrossed == cuts' = 0 \/ ~crossed'

EscrowsNext ==
  /\ \/ purpose = "mission" /\ Next /\ UNCHANGED prizeVars
     \/ purpose = "prize"   /\ PrizesNext /\ UNCHANGED vars /\ CutOrCrossed
  /\ UNCHANGED purpose

EscrowsSpec == EscrowsInit /\ [][EscrowsNext]_all
===============================================================================
