------------------------------- MODULE SliceRow -------------------------------
(***************************************************************************)
(* One row of project_slices, and what the statements that write its       *)
(* status do to it.  Three workflows write the same row: a challenge is    *)
(* claimed, submitted, validated (Slices), a merged pull request becomes a *)
(* deliverable somebody may have to review (Reviews), and a funded slice,  *)
(* a bounty, is claimed, given a pull request, paid or cancelled (its      *)
(* claim and its pull request in both, its end in Slices).  The hand-ins   *)
(* and reviews of designs are not here (design_reviews.rs).                *)
(*                                                                         *)
(* A statement is the set of rows it returns: none when its WHERE clause   *)
(* does not match, else the row as it is then.                             *)
(***************************************************************************)
CONSTANTS Person,  \* users
          Team,    \* persistent teams
          PR,      \* pull requests
          Url,     \* what submitted_pr_url may hold: spellings of pull requests
          None

Status == {"draft", "open", "claimed", "in_review", "submitted", "ci_green",
           "pending_validation", "validated", "merged", "closed"}

(* url is submitted_pr_url, clock is claim_expires_at: unset, ahead, or in *)
(* the past.                                                               *)
Row == [status : Status, user : Person \cup {None}, team : Team \cup {None},
        url : Url \cup {None}, picker : Person \cup {None}, clock : {"unset", "ahead", "past"}]

Fresh(status) == [status |-> status, user |-> None, team |-> None, url |-> None,
                  picker |-> None, clock |-> "unset"]

Update(where, r) == IF where THEN {r} ELSE {}

(* publish_draft and reject_draft. *)
Published(r)  == Update(r.status = "draft", [r EXCEPT !.status = "open"])

DraftRefused(r) == Update(r.status = "draft", [r EXCEPT !.status = "closed"])

(* claim: what an earlier claim left in the other columns stays there.     *)
Claimed(r, p) ==
  Update(r.status = "open", [r EXCEPT !.status = "claimed", !.user = p, !.clock = "ahead"])

TeamClaimed(r, t) ==
  Update(r.status = "open", [r EXCEPT !.status = "claimed", !.user = None, !.team = t, !.clock = "ahead"])

(* unclaim and unclaim_by_team. *)
Unclaimed(r, p) ==
  Update(r.status = "claimed" /\ r.user = p, [r EXCEPT !.status = "open", !.user = None, !.clock = "unset"])

TeamUnclaimed(r, t) ==
  Update(r.status = "claimed" /\ r.team = t, [r EXCEPT !.status = "open", !.team = None, !.clock = "unset"])

(* expire_stale_claims. *)
Expired(r) ==
  Update(r.status = "claimed" /\ r.clock = "past",
         [r EXCEPT !.status = "open", !.user = None, !.team = None, !.clock = "unset"])

(* Mutant: anybody hands in anybody's claim. *)
Submitted_Anyones(r, p, u) ==
  Update(r.status = "claimed", [r EXCEPT !.status = "submitted", !.url = u])

(* slices.rs, submit_pr. *)
Submitted(r, p, u) ==
  Update(r.status = "claimed" /\ r.user = p, [r EXCEPT !.status = "submitted", !.url = u])

(* advance_to_ci_green_by_url. *)
Green(r, u) ==
  Update(r.status = "submitted" /\ r.url = u, [r EXCEPT !.status = "ci_green"])

(* pickup, approve and reject: the UPDATE of each. *)
PickedUp(r, p) ==
  Update(r.status = "ci_green" /\ r.picker = None,
         [r EXCEPT !.status = "pending_validation", !.picker = p])

Approved(r, p) ==
  Update(r.status = "pending_validation" /\ r.picker = p, [r EXCEPT !.status = "validated"])

Rejected(r, p) ==
  Update(r.status = "pending_validation" /\ r.picker = p,
         [r EXCEPT !.status = "claimed", !.picker = None])

(* The pull request of a validated slice was merged upstream.              *)
Rewarded(r) == Update(r.status = "validated", [r EXCEPT !.status = "merged"])

(* Mutant: the decision was made, so the row is not looked at again. *)
Rewound_ById(r) == {[r EXCEPT !.status = "claimed", !.picker = None]}

(* It was closed unmerged. *)
Rewound(r) ==
  Update(r.status \in {"submitted", "ci_green", "pending_validation"},
         [r EXCEPT !.status = "claimed", !.picker = None])

(* The issue was closed. *)
IssueClosed(r) ==
  Update(r.status \in {"open", "draft", "claimed"}, [r EXCEPT !.status = "closed"])

(* bounties.rs, claim_bounty: the row is locked, and a claimer may repeat. *)
BountyClaimed(r, p) ==
  Update(r.status = "open" \/ (r.status = "claimed" /\ r.user = p),
         [r EXCEPT !.status = "claimed", !.user = p,
                   !.clock = IF r.clock = "unset" THEN "ahead" ELSE r.clock])

(* bounties.rs, submit_pr: the pull request goes into a column of its own. *)
Attached(r, p) ==
  Update(r.status \in {"claimed", "in_review"} /\ r.user = p, [r EXCEPT !.status = "in_review"])

(* reviews.rs, apply_verified_side_effects. *)
ReviewMerged(r) ==
  Update(r.status \in {"in_review", "claimed"}, [r EXCEPT !.status = "merged"])

(* deliverables.rs and cancel_bounty: the writes no WHERE clause guards,   *)
(* the check was an earlier statement.                                     *)
Put(r, status) == [r EXCEPT !.status = status]
=============================================================================
