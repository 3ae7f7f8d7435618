------------------------------- MODULE MCGroups -------------------------------
(***************************************************************************)
(* What people form: a cohort (Cohorts), a guild (Guilds), and the wars of *)
(* guilds (Wars).  They share no step and no state, so a behaviour is that *)
(* of one of them, and the others rest.                                    *)
(***************************************************************************)
EXTENDS Cohorts, Wars
CONSTANTS Person,    \* who may found and join guilds
          Hall,      \* the guilds they form
          Companies, \* who founds one, and with whom
          MaxMembers, MaxStops, GuildMoves,
          u1, v1, v2

(* Everybody who founds a guild can be seated in it. *)
ASSUME GuildsAssumption ==
  /\ IsFiniteSet(Person) /\ IsFiniteSet(Worker)
  /\ None \notin Hall \cup {"founder", "officer", "member", "recruit"}
  /\ MaxMembers \in Nat \ {0}
  /\ \A c \in Companies :
       /\ c.founder \in Person /\ c.others \subseteq Person /\ c.founder \notin c.others
       /\ Cardinality(c.others) < MaxMembers

VARIABLES group, \* whose behaviour this is
          state, home, grole, cooling, invited, accepted, revoked, applied, gpc, gmemo, misled, stops, gmoves

guilds == <<state, home, grole, cooling, invited, accepted, revoked, applied, gpc, gmemo, misled, stops, gmoves>>
all    == <<group, vars, guilds, warVars>>

G == INSTANCE Guilds WITH
  User <- Person, Guild <- Hall, MaxMoves <- GuildMoves, role <- grole, pc <- gpc, memo <- gmemo, moves <- gmoves

(* Who founds a guild with another may found one himself later. *)
Pairs == {[founder |-> v1, others |-> {u1}], [founder |-> u1, others |-> {v2}]}

(* The bronze division. *)
Bronze == [low |-> 1, high |-> 2]

Symmetry ==
  Permutations(Worker) \cup Permutations(User \ {Creator}) \cup Permutations(Hall)
    \cup {o @@ s @@ i : o \in Permutations(Officer), s \in Permutations(Side), i \in Permutations(War)}

(* An update gives one field. *)
AllBodies ==
  [cap : Optional(Caps), public : Optional(BOOLEAN), archive : BOOLEAN, over : Optional(BOOLEAN)]

OneField ==
  {body \in AllBodies :
     Cardinality({f \in {"cap", "public", "over"} : body[f] # None})
       + (IF body.archive THEN 1 ELSE 0) = 1}

(* Requests clash over one war or one pair, while the others go well and   *)
(* guilds neither earn nor are disbanded.                                  *)
OneClash ==
  \/ contested' = {} /\ rushed' = {}
  \/ /\ Cardinality(contested') + Cardinality(rushed') = 1
     /\ bonuses' = 0 /\ disbanded' = {}

(* A group that rests is in one initial state. *)
GroupsInit ==
  /\ group \in {"cohort", "guild", "war"}
  /\ Init /\ G!Init /\ WarsInit
  /\ group # "cohort" => cap = Cardinality(User) /\ public
  /\ group # "war" => \A g \in Side : gp[g] = 0

GroupsNext ==
  /\ \/ group = "cohort" /\ Next /\ UNCHANGED <<guilds, warVars>>
     \/ group = "guild"  /\ G!Next /\ UNCHANGED <<vars, warVars>>
     \/ group = "war"    /\ WarsNext /\ OneClash /\ UNCHANGED <<vars, guilds>>
  /\ UNCHANGED group

GroupsSpec == GroupsInit /\ [][GroupsNext]_all

-----------------------------------------------------------------------------
(* Whoever kicks, promotes or leaves at the same time, a guild keeps its   *)
(* founder, and overlapping joins overrun its limit by one.                *)
GuildIsLed == G!TypeOK /\ G!FounderStays /\ G!OverrunIsBounded

(* Nobody has both finished the cohort and left it (Cohorts).              *)
CohortIsSound == TypeOK /\ FinishedOrLeft
=============================================================================
