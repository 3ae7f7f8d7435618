-------------------------------- MODULE Reviews --------------------------------
(***************************************************************************)
(* What a merged pull request earns.  GitHub's webhook turns it into a     *)
(* deliverable (services/deliverables.rs, create_from_pr_merged): verified *)
(* at once when its author is the claimer of the slice, else held for      *)
(* somebody to review (services/reviews.rs, submit_verdict; the queue is   *)
(* services/review_queue.rs).                                              *)
(*                                                                         *)
(* Both read before they write, in a transaction that locks nothing it     *)
(* reads: a worker is a delivery or a reviewer, and each remembers what it *)
(* read.  Two histories keep where that mattered.                          *)
(***************************************************************************)
EXTENDS SliceRow, Naturals, FiniteSets

CONSTANTS Reviewer,  \* persons who may give a verdict in the slice's domain
          Opener     \* Opener[u]: who opened it, None without an account here

ASSUME ReviewsAssumption ==
  /\ Reviewer \subseteq Person /\ Reviewer \cap PR = {} /\ IsFiniteSet(Reviewer)
  /\ Opener \in [PR -> Person \cup {None}]
  /\ None \notin Person \cup Team \cup PR

VARIABLES slice,    \* the slice every pull request here names
          delivery, \* delivery[u]: where GitHub's event about u is
          answer,   \* answer[u]: what the webhook's response says
          work,     \* deliverables: the one made from u
          task,     \* review_tasks: the one for that deliverable
          reviews,  \* reviews: (deliverable, reviewer, verdict)
          earned,   \* earned[u]: how often its fragments were credited
          read,     \* what each worker has read and not yet acted upon
          contested, \* history: pull requests whose work two reviewers had in hand at once
          overtaken  \* history: the slice was merged while a delivery held an older reading

overlaps   == <<contested, overtaken>>
reviewVars == <<slice, delivery, answer, work, task, reviews, earned, read, overlaps>>

Worker   == PR \cup Reviewer
Verdicts == {"approve", "request_changes", "reject", "abstain"}
Waiting  == {"pending", "pending_manual_review"}
NoWork   == [status |-> "none", user |-> None]

(* A delivery remembers the slice's claimer, a reviewer the deliverable's  *)
(* status.                                                                 *)
Memory == [of : {"slice"}, user : Person \cup {None}] \cup [of : PR, status : Waiting] \cup {None}

ReviewsTypeOK ==
  /\ slice    \in Row
  /\ delivery \in [PR -> {"unmerged", "sent", "recorded", "over"}]
  /\ answer   \in [PR -> {"none", "verified", "held", "ignored"}]
  /\ work     \in [PR -> [status : {"none", "verified", "rejected"} \cup Waiting, user : Person \cup {None}]]
  /\ task     \in [PR -> {"none", "open", "claimed", "completed"}]
  /\ reviews  \subseteq PR \X Reviewer \X Verdicts
  /\ earned   \in [PR -> Nat]
  /\ read     \in [Worker -> Memory]
  /\ contested \subseteq PR /\ overtaken \in BOOLEAN

ReviewsInit ==
  /\ slice    = Fresh("open")
  /\ delivery = [u \in PR |-> "unmerged"]
  /\ answer   = [u \in PR |-> "none"]
  /\ work     = [u \in PR |-> NoWork]
  /\ task     = [u \in PR |-> "none"]
  /\ reviews  = {}
  /\ earned   = [u \in PR |-> 0]
  /\ read     = [w \in Worker |-> None]
  /\ contested = {} /\ overtaken = FALSE

Reads(w) == read[w] # None

(* The slice becomes r; a delivery that is not w's own may have read it as *)
(* it was.                                                                 *)
Becomes(r, w) ==
  /\ slice' = r
  /\ overtaken' = (overtaken \/ (r.status = "merged" /\ \E u \in PR \ {w} : Reads(u)))

-----------------------------------------------------------------------------
(* The slice is claimed and given back; a bounty's claimer attaches a pull *)
(* request.                                                                *)

Change(rows) ==
  /\ slice' \in rows
  /\ UNCHANGED <<delivery, answer, work, task, reviews, earned, read, overlaps>>

Take(p)          == Change(Claimed(slice, p))
GiveBack(p)      == Change(Unclaimed(slice, p))
TakeAsTeam(t)    == Change(TeamClaimed(slice, t))
TeamGivesBack(t) == Change(TeamUnclaimed(slice, t))
TakeBounty(p)    == Change(BountyClaimed(slice, p))
AttachTo(p)      == Change(Attached(slice, p))

-----------------------------------------------------------------------------
(* github_slices_webhook.                                                  *)

Merge(u) ==
  /\ delivery[u] = "unmerged"
  /\ delivery' = [delivery EXCEPT ![u] = "sent"]
  /\ UNCHANGED <<slice, answer, work, task, reviews, earned, read, overlaps>>

(* The delivery id is recorded first; from now on a repetition of the      *)
(* event is answered "duplicate".                                          *)
Record(u) ==
  /\ delivery[u] = "sent"
  /\ delivery' = [delivery EXCEPT ![u] = "recorded"]
  /\ UNCHANGED <<slice, answer, work, task, reviews, earned, read, overlaps>>

Actionable == slice.status \in {"claimed", "in_review", "open"}

(* The author is unknown and there is nobody to suppose the work of.       *)
Nobodys(u) == Opener[u] = None /\ slice.user = None

ReadSlice(u) ==
  /\ delivery[u] = "recorded" /\ ~Reads(u)
  /\ \/ /\ Actionable /\ ~Nobodys(u)
        /\ read' = [read EXCEPT ![u] = [of |-> "slice", user |-> slice.user]]
        /\ UNCHANGED <<delivery, answer>>
     \/ /\ ~Actionable \/ Nobodys(u)
        /\ delivery' = [delivery EXCEPT ![u] = "over"]
        /\ answer' = [answer EXCEPT ![u] = "ignored"]
        /\ UNCHANGED read
  /\ UNCHANGED <<slice, work, task, reviews, earned, overlaps>>

Respond(u, what) ==
  /\ delivery' = [delivery EXCEPT ![u] = "over"]
  /\ answer' = [answer EXCEPT ![u] = what]
  /\ read' = [read EXCEPT ![u] = None]

(* insert_deliverable_verified. *)
Verify(u) ==
  /\ u \in PR /\ Reads(u)
  /\ Opener[u] # None /\ read[u].user = Opener[u]
  /\ work' = [work EXCEPT ![u] = [status |-> "verified", user |-> Opener[u]]]
  /\ Becomes(Put(slice, "merged"), u)
  /\ earned' = [earned EXCEPT ![u] = @ + 1]
  /\ Respond(u, "verified")
  /\ UNCHANGED <<task, reviews, contested>>

(* create_task_for_slice_claim. *)
QueueFor(u) == task' = [task EXCEPT ![u] = "open"]

(* insert_deliverable_pending_manual_review. *)
Hold(u) ==
  /\ Reads(u)
  /\ Opener[u] # None /\ read[u].user # Opener[u]
  /\ work' = [work EXCEPT ![u] =
       [status |-> "pending_manual_review", user |-> IF read[u].user = None THEN Opener[u] ELSE read[u].user]]
  /\ Becomes(Put(slice, "in_review"), u)
  /\ QueueFor(u)
  /\ Respond(u, "held")
  /\ UNCHANGED <<reviews, earned, contested>>

(* The same for an author without an account, but the function returns     *)
(* before it commits.                                                      *)
HoldForStranger(u) ==
  /\ Reads(u) /\ Opener[u] = None
  /\ Respond(u, "held")
  /\ UNCHANGED <<slice, work, task, reviews, earned, overlaps>>

(* The handler is cut off after the record: the event is lost.             *)
Lose(u) ==
  /\ delivery[u] = "recorded"
  /\ delivery' = [delivery EXCEPT ![u] = "over"]
  /\ read' = [read EXCEPT ![u] = None]
  /\ UNCHANGED <<slice, answer, work, task, reviews, earned, overlaps>>

-----------------------------------------------------------------------------
(* Reviewers.                                                              *)

TakeTask(r, u) ==
  /\ task[u] = "open"
  /\ task' = [task EXCEPT ![u] = "claimed"]
  /\ UNCHANGED <<slice, delivery, answer, work, reviews, earned, read, overlaps>>

(* submit_verdict, the checks: no task is asked for. *)
Open(u, r) == work[u].status \in Waiting /\ work[u].user # r

ReadWork(r, u) ==
  /\ ~Reads(r) /\ Open(u, r)
  /\ read' = [read EXCEPT ![r] = [of |-> u, status |-> work[u].status]]
  /\ contested' = IF \E q \in Reviewer : Reads(q) /\ read[q].of = u THEN contested \cup {u} ELSE contested
  /\ UNCHANGED <<slice, delivery, answer, work, task, reviews, earned, overtaken>>

(* The status a verdict gives the deliverable. *)
Outcome(verdict, before) ==
  CASE verdict = "approve" -> "verified"
    [] verdict = "request_changes" -> "pending"
    [] verdict = "reject" -> "rejected"
    [] verdict = "abstain" -> before

(* Mutant: fragments for every verdict that is not a refusal. *)
Credit_UnlessRejected(u, verdict) ==
  earned' = IF verdict # "reject" THEN [earned EXCEPT ![u] = @ + 1] ELSE earned

(* apply_verified_side_effects: the fragments. *)
Credit(u, verdict) ==
  earned' = IF verdict = "approve" THEN [earned EXCEPT ![u] = @ + 1] ELSE earned

(* The status is written over whatever it is by now, unless the verdict    *)
(* leaves what was read.                                                   *)
GiveVerdict(r, verdict) ==
  LET u      == read[r].of
      status == Outcome(verdict, read[r].status) IN
  /\ Reads(r)
  /\ \A v \in Verdicts : <<u, r, v>> \notin reviews
  /\ reviews' = reviews \cup {<<u, r, verdict>>}
  /\ work' = IF status = read[r].status THEN work ELSE [work EXCEPT ![u].status = status]
  /\ Credit(u, verdict)
  /\ \/ verdict = "approve" /\ \E n \in ReviewMerged(slice) : Becomes(n, r)
     \/ (verdict # "approve" \/ ReviewMerged(slice) = {}) /\ UNCHANGED <<slice, overtaken>>
  /\ task' = IF task[u] \in {"open", "claimed"} THEN [task EXCEPT ![u] = "completed"] ELSE task
  /\ read' = [read EXCEPT ![r] = None]
  /\ UNCHANGED <<delivery, answer, contested>>

(* A second verdict of the same reviewer, or a dropped request.            *)
Withdraw(r) ==
  /\ Reads(r)
  /\ read' = [read EXCEPT ![r] = None]
  /\ UNCHANGED <<slice, delivery, answer, work, task, reviews, earned, overlaps>>

-----------------------------------------------------------------------------
ReviewsNext ==
  \/ \E p \in Person : Take(p) \/ GiveBack(p) \/ TakeBounty(p) \/ AttachTo(p)
  \/ \E t \in Team : TakeAsTeam(t) \/ TeamGivesBack(t)
  \/ \E u \in PR :
       \/ Merge(u) \/ Record(u) \/ ReadSlice(u)
       \/ Verify(u) \/ Hold(u) \/ HoldForStranger(u) \/ Lose(u)
       \/ \E r \in Reviewer : TakeTask(r, u) \/ ReadWork(r, u)
  \/ \E r \in Reviewer : Withdraw(r) \/ \E v \in Verdicts : GiveVerdict(r, v)

ReviewsSpec == ReviewsInit /\ [][ReviewsNext]_reviewVars

-----------------------------------------------------------------------------
(* Fragments are credited for a vouched reason, whatever overlaps: one for *)
(* an author who was the claimer, one for each reviewer who approved.      *)
(* Work that no two reviewers had in hand at once earned once if it is     *)
(* verified and nothing if it is not; and a slice is only merged when some *)
(* work was credited.                                                      *)
Approvals(u) == {r \in Reviewer : <<u, r, "approve">> \in reviews}

EarnedIsVouched ==
  /\ \A u \in PR : earned[u] = Cardinality(Approvals(u)) + (IF answer[u] = "verified" THEN 1 ELSE 0)
  /\ \A u \in PR \ contested : earned[u] = IF work[u].status = "verified" THEN 1 ELSE 0
  /\ slice.status = "merged" => \E u \in PR : earned[u] > 0

(* What is held for a human is in the queue until a human has looked       *)
(* (0065, "Une review_task est creee automatiquement").                    *)
HeldHasTask ==
  \A u \in PR :
    work[u].status \in Waiting =>
      task[u] \in {"open", "claimed"} \/ \E r \in Reviewer, v \in Verdicts : <<u, r, v>> \in reviews

(* A merge is for good, unless a delivery that read the slice before it    *)
(* writes after it; verified work stays so and earns no more, unless two   *)
(* reviewers had it in hand at once.                                       *)
Settles ==
  /\ slice.status = "merged" /\ ~overtaken' => slice'.status = "merged"
  /\ \A u \in PR \ contested' :
       work[u].status = "verified" => work'[u] = work[u] /\ earned'[u] = earned[u]

SettledStays == [][Settles]_reviewVars
=============================================================================
