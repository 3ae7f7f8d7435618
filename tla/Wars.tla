--------------------------------- MODULE Wars ---------------------------------
(***************************************************************************)
(* Wars between guilds and the guild points (GP) staked on them            *)
(* (services/guild.rs, routes/guild.rs).                                   *)
(*                                                                         *)
(* An officer is one officer's or administrator's request.  It reads in    *)
(* one step and writes in another, a transaction being one step; nothing   *)
(* it read is locked or compared again; two histories keep where that      *)
(* mattered.  That the caller belongs to the guild is left out.            *)
(***************************************************************************)
EXTENDS Integers, FiniteSets, Functions

CONSTANTS Officer,    \* requests that may run at the same time
          Side,       \* the guilds
          War,        \* the rows guild_wars may get
          StartGp,    \* the GP a guild may start with
          Percents,   \* the stake range of the guilds' division, [low, high]
          Bonus,      \* what one piece of work earns a guild
          Nothing,    \* no row, nobody, nothing read
          MaxEarned   \* how often guilds earn a bonus

Statuses == {"proposed", "accepted", "rejected", "concluded"}

(* A row of guild_wars. *)
WarRow == [status : Statuses, challenger : Side, defender : Side, stake : Nat \ {0},
           winner : Side \cup {Nothing}]

ASSUME WarsAssumption ==
  /\ IsFiniteSet(Side) /\ IsFiniteSet(War) /\ StartGp \subseteq Nat
  /\ Percents.low \in Nat /\ Percents.high \in Nat /\ Bonus \in Nat
  /\ Nothing \notin WarRow

VARIABLES gp,         \* gp[g]: guilds.gp_total
          disbanded,  \* guilds whose disbanded_at is set
          war,        \* war[i]: the row, or Nothing
          lapsed,     \* wars proposed more than WAR_DECISION_WINDOW_HOURS ago
          earned,     \* the GP that guilds started with or earned
          paid,       \* paid[i]: the GP that concluding war i has paid out
          doing,      \* the next step of each request
          found,      \* what it has read
          contested,  \* history: wars that two requests had in hand at once
          rushed,     \* history: pairs of guilds with two proposals under way at once
          bonuses

points  == <<gp, earned, bonuses>>
clashes == <<contested, rushed>>
warVars == <<points, disbanded, war, lapsed, paid, doing, found, clashes>>

Fought   == {i \in War : war[i] # Nothing}
InStatus(status) == {i \in Fought : war[i].status = status}
Parties(i) == {war[i].challenger, war[i].defender}

WarsTypeOK ==
  /\ gp        \in [Side -> Nat]
  /\ disbanded \subseteq Side
  /\ war       \in [War -> WarRow \cup {Nothing}]
  /\ \A i \in Fought : war[i].challenger # war[i].defender
  /\ lapsed    \subseteq Fought
  /\ doing     \in [Officer -> {"idle", "propose", "accept", "reject", "conclude"}]
  /\ contested \subseteq Fought /\ rushed \subseteq SUBSET Side

AllPoints == SumFunction(gp)

WarsInit ==
  /\ gp        \in [Side -> StartGp]
  /\ earned    = AllPoints
  /\ disbanded = {}
  /\ war       = [i \in War |-> Nothing]
  /\ lapsed    = {}
  /\ paid      = [i \in War |-> 0]
  /\ doing     = [w \in Officer |-> "idle"]
  /\ found     = [w \in Officer |-> Nothing]
  /\ contested = {} /\ rushed = {}
  /\ bonuses   = 0

-----------------------------------------------------------------------------
Goes(w, from, to) == doing[w] = from /\ doing' = [doing EXCEPT ![w] = to]

(* A war that another request has in hand is contested from now on.        *)
Deciding == {"accept", "reject", "conclude"}
InHand(i) == \E w \in Officer : doing[w] \in Deciding /\ found[w].war = i

Contend(i) ==
  /\ contested' = IF InHand(i) THEN contested \cup {i} ELSE contested
  /\ UNCHANGED rushed

Finds(w, to, value) ==
  /\ Goes(w, "idle", to)
  /\ found' = [found EXCEPT ![w] = value]
  /\ UNCHANGED <<points, disbanded, war, lapsed, paid>>

Writes(w, from) ==
  /\ Goes(w, from, "idle")
  /\ found' = [found EXCEPT ![w] = Nothing]
  /\ UNCHANGED <<earned, bonuses, disbanded, lapsed, clashes>>

-----------------------------------------------------------------------------
(* validate_stake_amount: a part of the poorer guild's GP, and never less  *)
(* than one point.                                                         *)
Larger(a, b)  == IF a > b THEN a ELSE b
Smaller(a, b) == IF a < b THEN a ELSE b

LeastStake(poorer) == Larger((poorer * Percents.low) \div 100, 1)
MostStake(poorer)  == Larger((poorer * Percents.high) \div 100, LeastStake(poorer))
Stakes(c, d) ==
  LET poorer == Smaller(gp[c], gp[d]) IN LeastStake(poorer) .. MostStake(poorer)

(* The guilds of the proposal a request is about to record. *)
Pair(w) == {found[w].challenger, found[w].defender}

Rush(pair) ==
  /\ rushed' = IF \E w \in Officer : doing[w] = "propose" /\ Pair(w) = pair THEN rushed \cup {pair} ELSE rushed
  /\ UNCHANGED contested

Active(i, c, d) == war[i].status \in {"proposed", "accepted"} /\ Parties(i) = {c, d}

Propose(w) ==
  \E c \in Side \ disbanded, d \in Side \ disbanded :
    /\ c # d
    /\ \A i \in Fought : ~Active(i, c, d)
    /\ Rush({c, d})
    /\ \E stake \in Stakes(c, d) :
         Finds(w, "propose", [status |-> "proposed", challenger |-> c, defender |-> d,
                              stake |-> stake, winner |-> Nothing])

RecordProposal(w) ==
  \E i \in War \ Fought :
    /\ Writes(w, "propose")
    /\ war' = [war EXCEPT ![i] = found[w]]
    /\ UNCHANGED <<gp, paid>>

(* Mutant: an accepted war is answered again. *)
Answerable_Again(i) == war[i].status \in {"proposed", "accepted"}

(* respond_to_war: a proposed war is accepted or rejected; past the window *)
(* every answer rejects it.                                                *)
Answerable(i) == war[i].status = "proposed"

Respond(w) ==
  \E i \in Fought, answer \in {"accept", "reject"} :
    /\ Answerable(i) /\ Contend(i)
    /\ Finds(w, IF i \in lapsed THEN "reject" ELSE answer, [war |-> i, winner |-> Nothing])

(* A guild with less than the stake is not debited, and nobody looks.      *)
Debited(points_, g, stake) ==
  IF points_[g] >= stake THEN [points_ EXCEPT ![g] = @ - stake] ELSE points_

Accept(w) ==
  LET i == found[w].war
  IN  /\ Writes(w, "accept")
      /\ gp'  = Debited(Debited(gp, war[i].challenger, war[i].stake),
                        war[i].defender, war[i].stake)
      /\ war' = [war EXCEPT ![i].status = "accepted"]
      /\ UNCHANGED paid

Reject(w) ==
  /\ Writes(w, "reject")
  /\ war' = [war EXCEPT ![found[w].war].status = "rejected"]
  /\ UNCHANGED <<gp, paid>>

(* conclude_war: the winner is named by one of its officers or by an       *)
(* administrator, and gets both stakes.                                    *)
ConcludeWar(w) ==
  \E i \in InStatus("accepted") : \E g \in Parties(i) :
    Contend(i) /\ Finds(w, "conclude", [war |-> i, winner |-> g])

RecordVictory(w) ==
  LET i == found[w].war
      pot == 2 * war[i].stake
  IN  /\ Writes(w, "conclude")
      /\ gp'   = [gp EXCEPT ![found[w].winner] = @ + pot]
      /\ paid' = [paid EXCEPT ![i] = @ + pot]
      /\ war'  = [war EXCEPT ![i].status = "concluded", ![i].winner = found[w].winner]

-----------------------------------------------------------------------------
(* award_gp_for_fragments, award_bonus_gp_for_team. *)
Earn ==
  \E g \in Side \ disbanded :
    /\ bonuses < MaxEarned
    /\ bonuses' = bonuses + 1
    /\ gp'      = [gp EXCEPT ![g] = @ + Bonus]
    /\ earned'  = earned + Bonus
    /\ UNCHANGED <<disbanded, war, lapsed, paid, doing, found, clashes>>

(* leave_guild by the last member, or admin_dissolve. *)
Disband ==
  \E g \in Side \ disbanded :
    /\ disbanded' = disbanded \cup {g}
    /\ UNCHANGED <<points, war, lapsed, paid, doing, found, clashes>>

(* Two days after a proposal. *)
Lapse ==
  \E i \in InStatus("proposed") \ lapsed :
    /\ lapsed' = lapsed \cup {i}
    /\ UNCHANGED <<points, disbanded, war, paid, doing, found, clashes>>

(* A request is cut off before it writes. *)
WarCutOff(w) == doing[w] # "idle" /\ Writes(w, doing[w]) /\ UNCHANGED <<gp, war, paid>>

WarsNext ==
  \/ \E w \in Officer :
       \/ Propose(w) \/ RecordProposal(w)
       \/ Respond(w) \/ Accept(w) \/ Reject(w)
       \/ ConcludeWar(w) \/ RecordVictory(w)
       \/ WarCutOff(w)
  \/ Earn \/ Disband \/ Lapse

WarsSpec == WarsInit /\ [][WarsNext]_warVars

-----------------------------------------------------------------------------
Pots == SumFunction([i \in War |-> IF i \in InStatus("accepted") THEN 2 * war[i].stake ELSE 0])

(* No points vanish: what guilds hold, with the pots of the wars under     *)
(* way, is never less than what they started with and earned, until two    *)
(* requests have one war in hand at once.                                  *)
NothingVanishes == contested = {} => AllPoints + Pots >= earned

(* At most one war is proposed or in progress between two guilds, unless   *)
(* two proposals of theirs overlapped, or two answers did.                 *)
UnderWay == InStatus("proposed") \cup InStatus("accepted")

OnePerPair ==
  \A i, j \in UnderWay \ contested :
    Parties(i) = Parties(j) /\ Parties(i) \notin rushed => i = j

(* A war that no two requests had in hand at once is decided once, and     *)
(* pays its two stakes once, whatever happens to the others.               *)
PaidOnce ==
  \A i \in Fought \ contested :
    paid[i] = IF war[i].status = "concluded" THEN 2 * war[i].stake ELSE 0

(* No points are lost in a war, two guilds fight one at a time, and a war  *)
(* pays once, but where requests about the same war or pair overlap.       *)
WarsAreFair == WarsTypeOK /\ NothingVanishes /\ OnePerPair /\ PaidOnce
=============================================================================
