-------------------------------- MODULE Slices --------------------------------
(***************************************************************************)
(* Challenges on real projects: a slice is published, claimed by a user or *)
(* a team, submitted as a pull request, found green, picked up by a        *)
(* validator, approved or rejected, and rewarded when its pull request is  *)
(* merged (services/slices.rs, ci_sync.rs, slice_validation.rs,            *)
(* external_refresh.rs).                                                   *)
(*                                                                         *)
(* GitHub is heard through webhooks, each of which may be lost, and        *)
(* through two pollers, each of which lists rows, asks GitHub about them   *)
(* one by one, and writes what it heard.  Deliverables and bounties write  *)
(* the same rows after checks of their own.                                *)
(***************************************************************************)
EXTENDS SliceRow, Naturals, FiniteSets

CONSTANTS Slice,
          Validator, \* persons with challenge_validator for the slices' domain
          Check,     \* the check runs of a pull request
          Author,    \* Author[u]: who opened it
          Names,     \* Names[w]: the pull request a URL leads to
          Canonical, \* Canonical[u]: the URL GitHub writes for u
          PerTick,   \* POLL_MAX_PER_TICK of both pollers
          CronRuns   \* somebody calls expire_stale_claims; main.rs does not

(* Validators are users, and the keys of the tables are not NULL.          *)
ASSUME SlicesAssumption ==
  /\ IsFiniteSet(Slice) /\ Validator \subseteq Person
  /\ Names \in [Url -> PR] /\ Canonical \in [PR -> Url] /\ \A u \in PR : Names[Canonical[u]] = u
  /\ None \notin Slice \cup Url \cup Person

VARIABLES row,     \* project_slices
          hash,    \* attestation_hash: the URL it was computed over
          touched, \* touched[s]: the place of s in the order of updated_at
          handed,  \* the same for submitted_at
          hub,     \* GitHub: the pull requests
          issue,   \* GitHub: the issue each slice was made from
          busy,    \* what a validator's request remembers between two statements
          asked,   \* rows poll_once has listed and not asked about
          green,   \* the URL of the pull request it found green
          listed,  \* snapshots refresh_once has taken and not asked about
          todo,    \* what it decided to do
          decided, \* slices that a delivery or a bounty request found theirs to write
          vouched, \* history: slices handed in last with a check of the author
          bare,    \* history: pull requests found green without a check run
          made     \* history: what deliverables and bounties wrote to the row

orderVars   == <<touched, handed>>
hubVars     == <<hub, issue>>
pollVars    == <<asked, green>>
refreshVars == <<listed, todo>>
histories   == <<vouched, bare, made>>
vars == <<row, hash, orderVars, hubVars, busy, pollVars, refreshVars, decided, histories>>

Idle     == [at |-> "idle", slice |-> None, url |-> None]
Snapshot == [slice : Slice, status : Status, url : Url \cup {None}]
Todo     == [slice : Slice, do : {"close", "award", "rewind"}]

(* A check run appears some time after the commit it runs on. *)
CheckStates == {"absent", "running", "ok", "failed"}

TypeOK ==
  /\ row     \in [Slice -> Row]
  /\ hash    \in [Slice -> Url \cup {None}]
  /\ touched \in [Slice -> Nat]
  /\ handed  \in [Slice -> Nat]
  /\ hub     \in [PR -> [state : {"open", "closed", "merged"}, checks : [Check -> CheckStates]]]
  /\ issue   \in [Slice -> {"open", "closed"}]
  /\ busy    \in [Validator -> [at : {"idle", "take", "approve"}, slice : Slice \cup {None}, url : Url \cup {None}]]
  /\ asked   \subseteq [slice : Slice, url : Url \cup {None}]
  /\ green   \in Url \cup {None}
  /\ listed  \subseteq Snapshot
  /\ todo    \in Todo \cup {None}
  /\ decided \subseteq Slice /\ vouched \subseteq Slice /\ bare \subseteq PR
  /\ made    \in [Slice -> {"nothing", "in time", "late"}]

Orders == {f \in [Slice -> 1 .. Cardinality(Slice)] : \A s, t \in Slice : f[s] = f[t] => s = t}

Init ==
  /\ row     = [s \in Slice |-> Fresh("draft")]
  /\ hash    = [s \in Slice |-> None]
  /\ touched \in Orders /\ handed = touched
  /\ hub     = [u \in PR |-> [state |-> "open", checks |-> [c \in Check |-> "absent"]]]
  /\ issue   = [s \in Slice |-> "open"]
  /\ busy    = [v \in Validator |-> Idle]
  /\ asked = {}  /\ green = None
  /\ listed = {} /\ todo = None
  /\ decided = {} /\ vouched = {} /\ bare = {}
  /\ made    = [s \in Slice |-> "nothing"]

(* s becomes the last in an order. *)
Last(order, s) ==
  [t \in Slice |-> IF t = s THEN Cardinality(Slice)
                   ELSE IF order[t] > order[s] THEN order[t] - 1 ELSE order[t]]

(* ORDER BY ... LIMIT PerTick. *)
Oldest(S, order) ==
  {s \in S : Cardinality({t \in S : order[t] < order[s]}) < PerTick}

(* The row of s becomes r; every statement here stamps updated_at.         *)
Write(s, r) ==
  /\ row' = [row EXCEPT ![s] = r]
  /\ touched' = Last(touched, s)

-----------------------------------------------------------------------------
(* Stewards, contributors and teams.                                       *)

ByHand(s, rows) ==
  /\ \E r \in rows : Write(s, r)
  /\ UNCHANGED <<hash, handed, hubVars, busy, pollVars, refreshVars, decided, histories>>

Publish(s)     == ByHand(s, Published(row[s]))
RefuseDraft(s) == ByHand(s, DraftRefused(row[s]))

Claim(p, s)         == ByHand(s, Claimed(row[s], p))
ClaimAsTeam(t, s)   == ByHand(s, TeamClaimed(row[s], t))
Unclaim(p, s)       == ByHand(s, Unclaimed(row[s], p))
UnclaimByTeam(t, s) == ByHand(s, TeamUnclaimed(row[s], t))

Active == {"submitted", "ci_green", "pending_validation", "validated", "merged"}

(* uq_slices_submitted_pr_url_active compares spellings. *)
Taken(w) == \E s \in Slice : row[s].url = w /\ row[s].status \in Active

(* submit_pr.  assert_pr_authored_by_user asks GitHub, unless the person   *)
(* has no GitHub account here or the server no token.                      *)
Submit(p, s, w, checked) ==
  /\ checked => Author[Names[w]] = p
  /\ ~Taken(w)
  /\ \E r \in Submitted(row[s], p, w) : Write(s, r)
  /\ handed' = Last(handed, s)
  /\ vouched' = IF checked THEN vouched \cup {s} ELSE vouched \ {s}
  /\ UNCHANGED <<hash, hubVars, busy, pollVars, refreshVars, decided, bare, made>>

(* Seven days pass. *)
ClaimAges(s) ==
  /\ row[s].clock = "ahead"
  /\ row' = [row EXCEPT ![s].clock = "past"]
  /\ UNCHANGED <<hash, orderVars, hubVars, busy, pollVars, refreshVars, decided, histories>>

(* expire_stale_claims: one statement over the table, here row by row.     *)
ExpireClaim(s) == CronRuns /\ ByHand(s, Expired(row[s]))

-----------------------------------------------------------------------------
(* GitHub.                                                                 *)

Upstream == UNCHANGED <<row, hash, orderVars, busy, pollVars, refreshVars, decided, histories>>

CheckStarts(u, c) ==
  /\ hub[u].checks[c] = "absent"
  /\ hub' = [hub EXCEPT ![u].checks[c] = "running"]
  /\ UNCHANGED issue /\ Upstream

CheckEnds(u, c, conclusion) ==
  /\ hub[u].checks[c] = "running"
  /\ hub' = [hub EXCEPT ![u].checks[c] = conclusion]
  /\ UNCHANGED issue /\ Upstream

PullRequestEnds(u, state) ==
  /\ hub[u].state = "open"
  /\ hub' = [hub EXCEPT ![u].state = state]
  /\ UNCHANGED issue /\ Upstream

CloseIssue(s) ==
  /\ issue[s] = "open"
  /\ issue' = [issue EXCEPT ![s] = "closed"]
  /\ UNCHANGED hub /\ Upstream

-----------------------------------------------------------------------------
(* Webhooks.  What happened on GitHub is delivered at any later time, any  *)
(* number of times, or never.                                              *)

(* An UPDATE that matches no row changes nothing. *)
WriteIfAny(s, rows) ==
  \/ \E r \in rows : Write(s, r)
  \/ rows = {} /\ UNCHANGED <<row, touched>>

(* advance_to_ci_green_by_url: the index leaves one row at most. *)
TurnGreen(w) ==
  \/ \E s \in Slice : \E r \in Green(row[s], w) : Write(s, r)
  \/ (\A s \in Slice : Green(row[s], w) = {}) /\ UNCHANGED <<row, touched>>

(* handle_check_run_event: one successful check run of the pull request.   *)
HearCheck(u) ==
  /\ \E c \in Check : hub[u].checks[c] = "ok"
  /\ TurnGreen(Canonical[u])
  /\ UNCHANGED <<hash, handed, hubVars, busy, pollVars, refreshVars, decided, histories>>

(* handle_pull_request_event, merged. *)
HearMerge(u) ==
  /\ hub[u].state = "merged"
  /\ \E s \in Slice : row[s].url = Canonical[u] /\ \E r \in Rewarded(row[s]) : Write(s, r)
  /\ UNCHANGED <<hash, handed, hubVars, busy, pollVars, refreshVars, decided, histories>>

-----------------------------------------------------------------------------
(* Validators: pickup and approve read, then write.                        *)

CheckPickup(v, s) ==
  /\ busy[v] = Idle
  /\ row[s].status = "ci_green" /\ row[s].user # v
  /\ busy' = [busy EXCEPT ![v] = [at |-> "take", slice |-> s, url |-> None]]
  /\ UNCHANGED <<row, hash, orderVars, hubVars, pollVars, refreshVars, decided, histories>>

PickUp(v) ==
  /\ busy[v].at = "take"
  /\ WriteIfAny(busy[v].slice, PickedUp(row[busy[v].slice], v))
  /\ busy' = [busy EXCEPT ![v] = Idle]
  /\ UNCHANGED <<hash, handed, hubVars, pollVars, refreshVars, decided, histories>>

ReadForApproval(v, s) ==
  /\ busy[v] = Idle
  /\ row[s].url # None
  /\ busy' = [busy EXCEPT ![v] = [at |-> "approve", slice |-> s, url |-> row[s].url]]
  /\ UNCHANGED <<row, hash, orderVars, hubVars, pollVars, refreshVars, decided, histories>>

Approve(v) ==
  LET s == busy[v].slice IN
  /\ busy[v].at = "approve"
  /\ WriteIfAny(s, Approved(row[s], v))
  /\ hash' = IF Approved(row[s], v) = {} THEN hash ELSE [hash EXCEPT ![s] = busy[v].url]
  /\ busy' = [busy EXCEPT ![v] = Idle]
  /\ UNCHANGED <<handed, hubVars, pollVars, refreshVars, decided, histories>>

(* The request is dropped between its statements. *)
Abandon(v) ==
  /\ busy[v] # Idle
  /\ busy' = [busy EXCEPT ![v] = Idle]
  /\ UNCHANGED <<row, hash, orderVars, hubVars, pollVars, refreshVars, decided, histories>>

Reject(v, s) == ByHand(s, Rejected(row[s], v))

-----------------------------------------------------------------------------
(* ci_sync.rs, poll_once.                                                  *)

Polling == UNCHANGED <<hash, handed, hubVars, busy, refreshVars, decided, vouched, made>>

PollList ==
  /\ asked = {} /\ green = None
  /\ asked' = {[slice |-> s, url |-> row[s].url] :
                 s \in Oldest({s \in Slice : row[s].status = "submitted"}, handed)}
  /\ asked' # {}
  /\ UNCHANGED <<row, touched, green, bare>> /\ Polling

(* Mutant: a check run that has not ended is good enough. *)
AllGreen_NoneFailed(u) == \A c \in Check : hub[u].checks[c] # "failed"

(* check_pr_is_green: every check run there is, so also when there is none *)
(* yet, or none at all.                                                    *)
AllGreen(u) == \A c \in Check : hub[u].checks[c] \in {"absent", "ok"}
Bare(u)     == \A c \in Check : hub[u].checks[c] = "absent"

PollAsk(a) ==
  LET u == Names[a.url] IN
  /\ a \in asked /\ green = None
  /\ asked' = asked \ {a}
  /\ green' = IF AllGreen(u) THEN a.url ELSE None
  /\ bare'  = IF Bare(u) THEN bare \cup {u} ELSE bare
  /\ UNCHANGED <<row, touched>> /\ Polling

PollAskFails(a) ==
  /\ a \in asked /\ green = None
  /\ asked' = asked \ {a}
  /\ UNCHANGED <<row, touched, green, bare>> /\ Polling

PollAdvance ==
  /\ green # None
  /\ TurnGreen(green)
  /\ green' = None
  /\ UNCHANGED <<asked, bare>> /\ Polling

-----------------------------------------------------------------------------
(* external_refresh.rs, refresh_once.                                      *)

Refreshing == UNCHANGED <<hash, handed, hubVars, busy, pollVars, decided, histories>>

Refreshable == Status \ {"merged", "closed"}

(* pick_candidates, but for the limit. *)
Unfinished == {s \in Slice : row[s].status \in Refreshable}

RefreshList ==
  /\ listed = {} /\ todo = None
  /\ listed' = {[slice |-> s, status |-> row[s].status, url |-> row[s].url] :
                  s \in Oldest(Unfinished, touched)}
  /\ listed' # {}
  /\ UNCHANGED <<row, touched, todo>> /\ Refreshing

UnderReview == {"submitted", "ci_green", "pending_validation"}

(* decide_action, from the snapshot and what GitHub says now.              *)
Decisions(c) ==
  {d \in {"award", "rewind", "close"} :
     CASE d = "award"  -> c.status = "validated" /\ hub[Names[c.url]].state = "merged"
       [] d = "rewind" -> c.status \in UnderReview /\ hub[Names[c.url]].state = "closed"
       [] d = "close"  -> c.status \in {"open", "draft", "claimed"} /\ issue[c.slice] = "closed"}

RefreshAsk(c) ==
  /\ c \in listed /\ todo = None
  /\ listed' = listed \ {c}
  /\ \/ Decisions(c) = {} /\ UNCHANGED todo
     \/ \E d \in Decisions(c) : todo' = [slice |-> c.slice, do |-> d]
  /\ UNCHANGED <<row, touched>> /\ Refreshing

RefreshAskFails(c) ==
  /\ c \in listed /\ todo = None
  /\ listed' = listed \ {c}
  /\ UNCHANGED <<row, touched, todo>> /\ Refreshing

(* apply_action: each UPDATE repeats the statuses it may start from.       *)
RefreshApply ==
  /\ todo # None
  /\ LET r == row[todo.slice] IN
     WriteIfAny(todo.slice, CASE todo.do = "award"  -> Rewarded(r)
                              [] todo.do = "rewind" -> Rewound(r)
                              [] todo.do = "close"  -> IssueClosed(r))
  /\ todo' = None
  /\ UNCHANGED listed /\ Refreshing

(* The process dies; both pollers forget where they were.                  *)
Restart ==
  /\ asked # {} \/ green # None \/ listed # {} \/ todo # None
  /\ asked' = {} /\ green' = None /\ listed' = {} /\ todo' = None
  /\ UNCHANGED <<row, hash, orderVars, hubVars, busy, decided, histories>>

-----------------------------------------------------------------------------
(* The same rows seen by bounties and deliverables.  Bounties do not stamp *)
(* updated_at.                                                             *)

Elsewhere == UNCHANGED <<hash, handed, hubVars, busy, pollVars, refreshVars, vouched, bare>>

AsBounty(s, rows) ==
  /\ \E r \in rows : row' = [row EXCEPT ![s] = r]
  /\ UNCHANGED <<touched, decided, made>> /\ Elsewhere

ClaimBounty(p, s) == AsBounty(s, BountyClaimed(row[s], p))
Attach(p, s)      == AsBounty(s, Attached(row[s], p))

(* create_from_pr_merged, cancel_bounty and the payout's handler check the *)
(* status, any number of them; the payout fails before it writes.          *)
Theirs == {"open", "claimed", "in_review"}
Made   == {"in_review", "merged", "closed"}

Decide(s) ==
  /\ row[s].status \in Theirs
  /\ decided' = decided \cup {s}
  /\ UNCHANGED <<row, touched, made>> /\ Elsewhere

(* They write what they decided whatever the status is by now; only the    *)
(* unique index may refuse.                                                *)
Overwrite(s, status) ==
  /\ s \in decided
  /\ status \in Active => \A t \in Slice \ {s} :
       row[t].status \in Active => row[t].url # row[s].url \/ row[s].url = None
  /\ row' = [row EXCEPT ![s] = Put(row[s], status)]
  /\ touched' \in {touched, Last(touched, s)}
  /\ made' = [made EXCEPT ![s] = IF row[s].status \in Theirs /\ made[s] # "late" THEN "in time" ELSE "late"]
  /\ UNCHANGED decided /\ Elsewhere

(* reviews.rs: the verdict on a deliverable. *)
VerdictMerges(s) ==
  /\ made[s] # "nothing"
  /\ \A t \in Slice \ {s} :
       row[t].status \in Active => row[t].url # row[s].url \/ row[s].url = None
  /\ \E r \in ReviewMerged(row[s]) : Write(s, r)
  /\ UNCHANGED <<decided, made>> /\ Elsewhere

-----------------------------------------------------------------------------
People ==
  \E s \in Slice :
    \/ Publish(s) \/ RefuseDraft(s)
    \/ \E p \in Person :
         \/ Claim(p, s) \/ Unclaim(p, s) \/ ClaimBounty(p, s) \/ Attach(p, s)
         \/ \E w \in Url, checked \in BOOLEAN : Submit(p, s, w, checked)
    \/ \E t \in Team : ClaimAsTeam(t, s) \/ UnclaimByTeam(t, s)
    \/ ClaimAges(s) \/ ExpireClaim(s)
    \/ \E v \in Validator : CheckPickup(v, s) \/ ReadForApproval(v, s) \/ Reject(v, s)

GitHub ==
  \/ \E u \in PR :
       \/ \E c \in Check : CheckStarts(u, c) \/ \E k \in {"ok", "failed"} : CheckEnds(u, c, k)
       \/ \E k \in {"closed", "merged"} : PullRequestEnds(u, k)
  \/ \E s \in Slice : CloseIssue(s)

Next ==
  \/ People
  \/ \E v \in Validator : PickUp(v) \/ Approve(v) \/ Abandon(v)
  \/ GitHub
  \/ \E u \in PR : HearCheck(u) \/ HearMerge(u)
  \/ PollList \/ PollAdvance \/ \E a \in asked : PollAsk(a) \/ PollAskFails(a)
  \/ RefreshList \/ RefreshApply \/ \E c \in listed : RefreshAsk(c) \/ RefreshAskFails(c)
  \/ Restart
  \/ \E s \in Slice :
       \/ Decide(s) \/ VerdictMerges(s)
       \/ \E status \in Made : Overwrite(s, status)

Spec == Init /\ [][Next]_vars

-----------------------------------------------------------------------------
(* A challenge under review or won is its claimer's own pull request, if   *)
(* its author was checked when it was handed in (assert_pr_authored_by_user *)
(* lets a person without a GitHub account through): whoever claimed the    *)
(* slice before, and whatever an older claim left in the row.  And no two  *)
(* are under one URL (uq_slices_submitted_pr_url_active), whoever writes.  *)
ActiveIsOwnWork ==
  /\ \A s \in Slice :
       row[s].status \in Active /\ made[s] = "nothing" =>
         /\ row[s].url # None
         /\ s \in vouched => row[s].user = Author[Names[row[s].url]]
  /\ \A s, t \in Slice :
       row[s].status \in Active /\ row[t].status \in Active /\ row[s].url = row[t].url =>
         s = t \/ row[s].url = None

(* What a validator can pick up had a successful check run on the very     *)
(* pull request it carries now, or none at all when it was polled, though  *)
(* the news may have been asked for before the slice was handed in again   *)
(* with another one.                                                       *)
PickableWasGreen ==
  \A s \in Slice :
    row[s].status \in Active \ {"submitted"} /\ made[s] = "nothing" =>
      Names[row[s].url] \in bare \/ \E c \in Check : hub[Names[row[s].url]].checks[c] = "ok"

(* The bonus is for work that was both validated here and merged upstream  *)
(* (ci_sync.rs, "If the slice never reached `validated`, the merge is ...  *)
(* not treated as Skilluv success"), on the pull request the slice carries,*)
(* unless it was a deliverable or a bounty that made the slice merged.     *)
RewardedWasMerged ==
  \A s \in Slice :
    row[s].status = "merged" /\ made[s] = "nothing" =>
      hub[Names[row[s].url]].state = "merged" /\ hash[s] # None

(* A slice that a deliverable or a bounty wrote to is a challenge no more: *)
(* nobody picks up, validates or rewards it.                               *)
EndsElsewhere == \A s \in Slice : made[s] # "nothing" => row[s].status \in Made

(* The rows keep to their types, what validators may pick up was green, and *)
(* what was rewarded was merged, or was no challenge any more.             *)
GreenThenMerged == TypeOK /\ PickableWasGreen /\ RewardedWasMerged /\ EndsElsewhere

(* A poll that listed a slice earlier takes nothing back: a validated      *)
(* challenge stays won, with the same claimer, pull request and            *)
(* attestation, and one that was handed in is not closed because its issue *)
(* was (external_refresh.rs, apply_action; "the PR lifecycle drive[s]").   *)
(* A bounty or a deliverable may, when what it checked is no longer so.    *)
Won(s) == row[s].status \in {"validated", "merged"}

WonStays ==
  \A s \in Slice : made'[s] # "late" =>
    /\ Won(s) => /\ Won(s)'
                 /\ row'[s].user = row[s].user /\ row'[s].url = row[s].url
                 /\ row'[s].picker = row[s].picker /\ hash'[s] = hash[s]
    /\ row[s].status \in Active => row'[s].status # "closed"

ValidatedIsFinal == [][WonStays]_vars
=============================================================================
