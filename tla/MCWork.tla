-------------------------------- MODULE MCWork --------------------------------
(***************************************************************************)
(* The two sides of a slice, explored one at a time: what its pull request *)
(* goes through until it is validated and merged (Slices), and what a      *)
(* merged pull request earns (Reviews).  Both write project_slices; what   *)
(* Reviews does to the row of a challenge is in Slices, as far as that row *)
(* can tell, so a behaviour belongs to one of them, and the other rests.   *)
(***************************************************************************)
EXTENDS Slices, Reviews
CONSTANTS a, b, u1, u2, w1, w2, v1, s1, s2

VARIABLE life \* which of them this behaviour is about

all == <<life, vars, reviewVars>>

(* Two pull requests of one contributor.  The first has two spellings.     *)
Contributor == [u \in PR |-> a]
Leads       == [w \in Url |-> IF w = w2 THEN u2 ELSE u1]
Written     == [u \in PR |-> IF u = u1 THEN w1 ELSE w2]

(* Merged pull requests of two people who may have claimed the slice, or   *)
(* of one of them and of somebody without an account.                      *)
Openers == [u \in PR |-> IF u = u1 THEN a ELSE b]

Strangers == INSTANCE Reviews WITH Opener <- [u \in PR |-> IF u = u1 THEN a ELSE None]

(* Here every author is checked, and claims neither age nor are a team's.  *)
Checked ==
  \A s \in Slice : /\ row'[s].status = "submitted" => s \in vouched'
                  /\ row'[s].clock # "past" /\ row'[s].team = None

(* One challenge, two people who take it and two pull requests, one of     *)
(* which goes well: the other slice was refused as a draft before anything *)
(* else happened.                                                          *)
Single ==
  /\ IF row[s2].status = "draft" THEN RefuseDraft(s2) ELSE Next
  /\ UNCHANGED issue[s2] /\ row'[s1].user \in {a, b, None} /\ row'[s1].url # v1
  /\ hub'[u2].state # "closed" /\ u2 \notin bare' /\ \A c \in Check : hub'[u2].checks[c] # "failed"

NoBounty == UNCHANGED decided /\ \A s \in Slice : row'[s].status # "in_review"

OneChallenge == Single /\ Checked /\ NoBounty

(* The same by anybody and for any time, but nothing is polled.            *)
Unchecked == Single /\ NoBounty /\ UNCHANGED <<asked, listed>>

(* One challenge that is a bounty, or that a deliverable is made for.      *)
Bounty ==
  /\ Single /\ Checked /\ row'[s1].user # b /\ row'[s1].url # w2
  /\ UNCHANGED <<asked, hub[u2]>> /\ \A c \in Check : hub'[u1].checks[c] # "failed"

(* Two challenges, one contributor and one pull request, which the second  *)
(* may carry under another URL; its checks are there in time, and of the   *)
(* two pollers only refresh_once runs.                                     *)
TwoChallenges ==
  /\ Next /\ Checked /\ NoBounty /\ bare' = bare /\ UNCHANGED <<hub[u2], asked>>
  /\ row'[s1].url # v1 /\ \A s \in Slice : row'[s].user \in {a, None} /\ row'[s].url # w2

(* The challenges differ in their names only: s1 is listed first.          *)
WorkInit ==
  /\ life \in {"one challenge", "unchecked", "bounty", "two challenges", "deliverables", "a stranger's"}
  /\ Init /\ ReviewsInit
  /\ touched[s1] < touched[s2]

WorkNext ==
  /\ \/ life = "one challenge"  /\ OneChallenge  /\ UNCHANGED reviewVars
     \/ life = "unchecked"      /\ Unchecked     /\ UNCHANGED reviewVars
     \/ life = "bounty"         /\ Bounty        /\ UNCHANGED reviewVars
     \/ life = "two challenges" /\ TwoChallenges /\ UNCHANGED reviewVars
     \/ life = "deliverables"   /\ ReviewsNext /\ UNCHANGED vars
     \/ life = "a stranger's"   /\ Strangers!ReviewsNext /\ UNCHANGED vars
  /\ UNCHANGED life

WorkSpec == WorkInit /\ [][WorkNext]_all
=============================================================================
