------------------------------- MODULE Missions -------------------------------
(***************************************************************************)
(* One paid mission: who does it, the rounds handed in, and the money held *)
(* until the client accepts.  services/missions.rs, mission_delivery.rs,   *)
(* mission_milestones.rs, mission_billing.rs and the arbitration in        *)
(* routes/admin_missions.rs.                                               *)
(*                                                                         *)
(* A worker is a request; it runs one operation, one statement, one        *)
(* transaction or one provider call per step.  A step that reads and a     *)
(* later one that writes are two steps, because others may come between.   *)
(* The ledger posts a movement at most once per key (module Book): book[i] *)
(* is the set of movements posted for invoice i.                           *)
(***************************************************************************)
EXTENDS Naturals

CONSTANTS Worker,      \* requests that may run at the same time
          None,
          Instalments, \* shares of the milestone split; the bound on invoices
          MaxRounds,   \* MAX_ROUNDS
          MaxStops     \* how many times somebody stops, or a provider errs

ASSUME MissionsAssumption == /\ Instalments \in Nat /\ MaxRounds \in Nat /\ MaxStops \in Nat

VARIABLES state, assigned, ended,   \* missions: status, assigned_user_id, closed_at is set
          milestones,                \* its payment model is milestone_iteration
          round,                     \* round[n]: the decision on the n-th delivery
          arbitration,               \* the outcome in mission_arbitrations
          bill,                      \* bill[i]: the status of the i-th invoice
          book,                      \* book[i]: the movements posted for it
          returned,          \* given back by the provider, or to be, by an operator
          pc, job,                   \* per worker: its next statement, and what it remembers
          overlapped,                \* history: two operations ran at once, or one was cut off
          stops

missionVars == <<state, assigned, ended>>
moneyVars   == <<bill, book, returned>>
vars == <<missionVars, milestones, round, arbitration, moneyVars, pc, job, overlapped, stops>>

Invoice == 1 .. Instalments
Rounds  == 1 .. MaxRounds

Status  == {"draft", "published", "applications_closed", "in_progress", "delivered", "closed", "cancelled"}
Outcome == {"accepted", "cancelled"}
Steps   == {"idle", "select", "schedule", "insert_round", "write", "arbitrate", "rule_check", "rule",
            "list_releases", "release", "post_release", "stamp_release",
            "list_refunds", "refund", "refund_books"}

(* The target of a status change; the invoices to go through. *)
Jobs == [goal : Status \cup {"accepted", None}, todo : SUBSET Invoice]
NoJob      == [goal |-> None, todo |-> {}]
Goal(to)   == [NoJob EXCEPT !.goal = to]
ToDo(invoices) == [NoJob EXCEPT !.todo = invoices]

TypeOK ==
  /\ state      \in Status
  /\ assigned    \in BOOLEAN
  /\ ended       \in BOOLEAN
  /\ milestones  \in BOOLEAN
  /\ round       \in [Rounds -> {"none", "waiting", "accepted", "changes_requested"}]
  /\ arbitration \in Outcome \cup {None}
  /\ bill        \in [Invoice -> {"none", "issued", "paid", "released", "refunded"}]
  /\ book        \in [Invoice -> SUBSET {"capture", "release", "refund"}]
  /\ returned    \subseteq Invoice
  /\ pc          \in [Worker -> Steps]
  /\ job         \in [Worker -> Jobs]
  /\ overlapped  \in BOOLEAN
  /\ stops       \in 0 .. MaxStops

Init ==
  /\ state = "draft" /\ assigned = FALSE /\ ended = FALSE
  /\ milestones \in BOOLEAN
  /\ round  = [n \in Rounds |-> "none"]
  /\ arbitration = None
  /\ bill   = [i \in Invoice |-> "none"]
  /\ book   = [i \in Invoice |-> {}]
  /\ returned = {}
  /\ pc     = [w \in Worker |-> "idle"]
  /\ job    = [w \in Worker |-> NoJob]
  /\ overlapped = FALSE
  /\ stops  = 0

-----------------------------------------------------------------------------
Busy == {w \in Worker : pc[w] # "idle"}

(* Every step of a worker: it moves on, and the history is kept.            *)
Advance(w, from, to, next) ==
  /\ pc[w] = from
  /\ pc'  = [pc EXCEPT ![w] = to]
  /\ job' = [job EXCEPT ![w] = IF to = "idle" THEN NoJob ELSE next]
  /\ overlapped' = (overlapped \/ Busy \ {w} # {})
  /\ UNCHANGED milestones

StepWith(w, from, to, next) == Advance(w, from, to, next) /\ UNCHANGED stops

Step(w, from, to) == StepWith(w, from, to, job[w])

(* Cut off: by an error, a dropped connection, a process that dies.         *)
CutOff(w) ==
  /\ stops < MaxStops /\ stops' = stops + 1
  /\ pc'  = [pc EXCEPT ![w] = "idle"]
  /\ job' = [job EXCEPT ![w] = NoJob]
  /\ overlapped' = TRUE
  /\ UNCHANGED milestones

(* The list it goes through, in the order of `sequence`. *)
Current(w, i) == i \in job[w].todo /\ \A j \in job[w].todo : i <= j

Done(w, i, from, again) ==
  LET rest == job[w].todo \ {i}
  IN  StepWith(w, from, IF rest = {} THEN "idle" ELSE again, ToDo(rest))

Post(i, movement) == book' = [book EXCEPT ![i] = @ \cup {movement}]

-----------------------------------------------------------------------------
(* decide(selected) reads the mission's status ...                          *)
DecideSelected(w) ==
  /\ state \in {"published", "applications_closed"}
  /\ Step(w, "idle", "select")
  /\ UNCHANGED <<missionVars, round, arbitration, moneyVars>>

(* ... and assigns the mission in a transaction that does not read it again. *)
(* Once somebody is selected, only the same application passes the unique    *)
(* index, unless it was rejected since.                                      *)
Select(w) ==
  /\ Step(w, "select", IF milestones THEN "schedule" ELSE "idle")
  /\ state' = "in_progress" /\ assigned' = TRUE
  /\ UNCHANGED <<ended, round, arbitration, moneyVars>>

SelectRefused(w) ==
  /\ assigned
  /\ Step(w, "select", "idle")
  /\ UNCHANGED <<missionVars, round, arbitration, moneyVars>>

-----------------------------------------------------------------------------
(* Invoices: one by one (issue), or the whole schedule (schedule_on_assignment). *)

Billable == assigned /\ state \notin {"closed", "cancelled"}   \* the trigger of 0194

Issue(i) ==
  /\ Billable
  /\ bill[i] = "none" /\ \A j \in Invoice : j < i => bill[j] # "none"
  /\ bill' = [bill EXCEPT ![i] = "issued"]
  /\ UNCHANGED <<missionVars, milestones, round, arbitration, book, returned,
                 pc, job, overlapped, stops>>

Schedule(w) ==
  /\ Step(w, "schedule", "idle")
  /\ bill' = IF Billable /\ \A i \in Invoice : bill[i] = "none" THEN [i \in Invoice |-> "issued"] ELSE bill
  /\ UNCHANGED <<missionVars, round, arbitration, book, returned>>

(* UPDATE mission_invoices ... WHERE status = <from>. *)
Stamp(i, from, to) == bill' = [bill EXCEPT ![i] = IF @ = from THEN to ELSE @]

(* pay_invoice looks at the invoice, not at the mission, and a payment may    *)
(* arrive late: any issued invoice may be paid.  fulfilment::deliver then runs *)
(* capture: the posting, then the row.  Nothing looks at an invoice between    *)
(* the two, so they are one step, which may fail half-way and then be run      *)
(* again (Payments has the roads that lead here).                              *)
Capture(i) ==
  /\ bill[i] = "issued"
  /\ Post(i, "capture")
  /\ Stamp(i, "issued", "paid")
  /\ UNCHANGED <<missionVars, milestones, round, arbitration, returned, pc, job, overlapped, stops>>

(* Mutant: the row before the posting. *)
CaptureStops_RowFirst(i) ==
  /\ bill[i] = "issued"
  /\ stops < MaxStops /\ stops' = stops + 1
  /\ Stamp(i, "issued", "paid")
  /\ UNCHANGED <<missionVars, milestones, round, arbitration, book, returned, pc, job, overlapped>>

CaptureStops(i) ==
  /\ bill[i] = "issued"
  /\ stops < MaxStops /\ stops' = stops + 1
  /\ Post(i, "capture")
  /\ UNCHANGED <<missionVars, milestones, round, arbitration, bill, returned, pc, job, overlapped>>

-----------------------------------------------------------------------------
(* Rounds. *)

Waiting == {n \in Rounds : round[n] = "waiting"}
Handed  == {n \in Rounds : round[n] # "none"}

Deliver(w) ==
  /\ state = "in_progress"
  /\ Waiting = {}
  /\ Step(w, "idle", "insert_round")
  /\ UNCHANGED <<missionVars, round, arbitration, moneyVars>>

(* The number comes from the rounds there are by then; UNIQUE (mission, round). *)
InsertRound(w) ==
  /\ Step(w, "insert_round", "idle")
  /\ round' = [n \in Rounds |-> IF n \notin Handed /\ \A m \in Rounds : m < n => m \in Handed THEN "waiting" ELSE round[n]]
  /\ UNCHANGED <<missionVars, arbitration, moneyVars>>

(* waiting_round: the last one, locked. *)
LastWaiting(n) == n \in Waiting /\ \A m \in Waiting : m <= n

(* accept: one transaction, then the instalment this round earned, if it is *)
(* paid that way (release_for_round).                                       *)
Accept(w, n) ==
  /\ LastWaiting(n)
  /\ StepWith(w, "idle", IF milestones /\ n \in Invoice THEN "release" ELSE "idle", ToDo({n}))
  /\ round'  = [round EXCEPT ![n] = "accepted"]
  /\ state' = IF state = "in_progress" THEN "delivered" ELSE state
  /\ UNCHANGED <<assigned, ended, arbitration, moneyVars>>

RequestChanges(n) ==
  /\ LastWaiting(n)
  /\ round' = [round EXCEPT ![n] = "changes_requested"]
  /\ UNCHANGED <<missionVars, milestones, arbitration, moneyVars, pc, job, overlapped, stops>>

-----------------------------------------------------------------------------
(* set_status reads the status and checks the move ...                      *)

Transitions(from) ==
  CASE from = "draft"               -> {"published", "cancelled"}
    [] from = "published"           -> {"applications_closed", "in_progress", "cancelled"}
    [] from = "applications_closed" -> {"in_progress", "published", "cancelled"}
    [] from = "in_progress"         -> {"delivered", "cancelled"}
    [] from = "delivered"           -> {"closed"}
    [] OTHER                        -> {}

Allowed(to, arbiter) ==
  /\ \/ to \in Transitions(state)
     \/ arbiter /\ state = "delivered" /\ to = "cancelled"
  /\ to \in {"in_progress", "delivered"} => assigned

SetState(w, to) ==
  /\ Allowed(to, FALSE)
  /\ StepWith(w, "idle", "write", Goal(to))
  /\ UNCHANGED <<missionVars, round, arbitration, moneyVars>>

(* Mutant: the money is released when the work is handed in. *)
Write_ReleasesOnDelivery(w, from, to, next) ==
  /\ StepWith(w, from, IF job[w].goal \in {"closed", "delivered"} THEN "list_releases" ELSE to, next)
  /\ state' = job[w].goal
  /\ ended'  = (ended \/ job[w].goal \in {"closed", "cancelled"})
  /\ UNCHANGED <<assigned, round, arbitration, moneyVars>>

(* ... and writes it, whatever it is by then; only afterwards the money moves. *)
Write(w, from, to, next) ==
  /\ StepWith(w, from, CASE job[w].goal = "cancelled" -> "list_refunds"
                         [] job[w].goal = "closed"    -> "list_releases"
                         [] OTHER                     -> to, next)
  /\ state' = job[w].goal
  /\ ended'  = (ended \/ job[w].goal \in {"closed", "cancelled"})
  /\ UNCHANGED <<assigned, round, arbitration, moneyVars>>

WriteStatus(w) == Write(w, "write", "idle", NoJob)

(* An arbitration: the status is read, the decision is written and the      *)
(* waiting round answered in one transaction, then set_status runs, twice   *)
(* when the delivery stands.                                                *)
Arbitrate(w, outcome) ==
  /\ state \in {"in_progress", "delivered"}
  /\ StepWith(w, "idle", "arbitrate", Goal(outcome))
  /\ UNCHANGED <<missionVars, round, arbitration, moneyVars>>

AnswerTo(outcome) == IF outcome = "accepted" THEN "accepted" ELSE "changes_requested"

DecideArbitration(w) ==
  LET outcome == job[w].goal
      stands  == arbitration \in {None, outcome}
  IN  /\ StepWith(w, "arbitrate", IF stands THEN "rule_check" ELSE "idle",
                  Goal(IF outcome = "accepted" THEN "delivered" ELSE "cancelled"))
      /\ arbitration' = IF stands THEN outcome ELSE arbitration
      /\ round' = [n \in Rounds |-> IF stands /\ LastWaiting(n) THEN AnswerTo(outcome) ELSE round[n]]
      /\ UNCHANGED <<missionVars, moneyVars>>

(* A mission that is already there is left alone, and the next move comes.  *)
RuleCheck(w) ==
  LET to == job[w].goal
  IN  /\ IF state = to
         THEN StepWith(w, "rule_check", IF to = "delivered" THEN "rule_check" ELSE "idle", Goal("closed"))
         ELSE Step(w, "rule_check", IF Allowed(to, TRUE) THEN "rule" ELSE "idle")
      /\ UNCHANGED <<missionVars, round, arbitration, moneyVars>>

Rule(w) == Write(w, "rule", "rule_check", Goal("closed"))

-----------------------------------------------------------------------------
(* release_all and release_one. *)

(* Mutant: what was released is listed again. *)
PaidInvoices_AlsoReleased == {i \in Invoice : bill[i] \in {"paid", "released"}}

PaidInvoices == {i \in Invoice : bill[i] = "paid"}

List(w, from, to) ==
  /\ StepWith(w, from, IF PaidInvoices = {} \/ ~assigned THEN "idle" ELSE to, ToDo(PaidInvoices))
  /\ UNCHANGED <<missionVars, round, arbitration, moneyVars>>

ListReleases(w) == List(w, "list_releases", "release")

(* Mutant: the books without the provider. *)
ListRefunds_BooksOnly(w) == List(w, "list_refunds", "refund_books")

ListRefunds(w)  == List(w, "list_refunds", "refund")

FindPaid(w, i) ==
  /\ Current(w, i)
  /\ IF bill[i] = "paid"
     THEN Step(w, "release", "post_release")
     ELSE Done(w, i, "release", "release")
  /\ UNCHANGED <<missionVars, round, arbitration, moneyVars>>

PostRelease(w, i) ==
  /\ Current(w, i)
  /\ Step(w, "post_release", "stamp_release")
  /\ Post(i, "release")
  /\ UNCHANGED <<missionVars, round, arbitration, bill, returned>>

StampRelease(w, i) ==
  /\ Current(w, i)
  /\ Done(w, i, "stamp_release", "release")
  /\ Stamp(i, "paid", "released")
  /\ UNCHANGED <<missionVars, round, arbitration, book, returned>>

-----------------------------------------------------------------------------
(* refund_all: at the provider first (collect::refund), then the books and  *)
(* the row in one transaction.                                              *)

(* collect::refund: the provider gives it back; or there is no succeeded    *)
(* payment, or one that kept no reference, and an operator is told to.      *)
RefundInvoice(w, i) ==
  /\ Current(w, i)
  /\ Step(w, "refund", "refund_books")
  /\ returned' = returned \cup {i}
  /\ UNCHANGED <<missionVars, round, arbitration, bill, book>>

(* A provider that cannot refund stops this, and the remaining invoices are *)
(* left alone.                                                              *)
ProviderCannot(w, i) ==
  /\ Current(w, i)
  /\ stops < MaxStops /\ stops' = stops + 1
  /\ Advance(w, "refund", "idle", NoJob)
  /\ UNCHANGED <<missionVars, round, arbitration, moneyVars>>

RefundBooks(w, i) ==
  /\ Current(w, i)
  /\ Done(w, i, "refund_books", "refund")
  /\ Post(i, "refund")
  /\ Stamp(i, "paid", "refunded")
  /\ UNCHANGED <<missionVars, round, arbitration, returned>>

-----------------------------------------------------------------------------
(* A request dropped, a statement or a provider call that fails. *)
Stop(w) ==
  /\ pc[w] # "idle"
  /\ CutOff(w)
  /\ UNCHANGED <<missionVars, round, arbitration, moneyVars>>

Settle(w, i) ==
  \/ FindPaid(w, i) \/ PostRelease(w, i) \/ StampRelease(w, i)
  \/ RefundInvoice(w, i) \/ RefundBooks(w, i)

Continue(w) ==
  \/ Select(w) \/ SelectRefused(w) \/ Schedule(w) \/ InsertRound(w)
  \/ WriteStatus(w) \/ DecideArbitration(w) \/ RuleCheck(w) \/ Rule(w)
  \/ ListReleases(w) \/ ListRefunds(w)
  \/ \E i \in Invoice : Settle(w, i)

Next ==
  \/ \E i \in Invoice : Issue(i) \/ Capture(i) \/ CaptureStops(i)
  \/ \E n \in Rounds : RequestChanges(n)
  \/ \E w \in Worker : \/ \E n \in Rounds : Accept(w, n)
                       \/ \E to \in Status : SetState(w, to)
                       \/ \E outcome \in Outcome : Arbitrate(w, outcome)
                       \/ DecideSelected(w) \/ Deliver(w) \/ Continue(w) \/ Stop(w)
                       \/ \E i \in Invoice : ProviderCannot(w, i)

Spec == Init /\ [][Next]_vars

-----------------------------------------------------------------------------
(* An invoice says paid, released or refunded only once the books do, and   *)
(* money nobody has put up is neither released nor given back ("paying the  *)
(* designer out of the platform's pocket would be the alternative").        *)
PostedFirst ==
  \A i \in Invoice : /\ bill[i] = "paid"     => "capture" \in book[i]
                     /\ bill[i] = "released" => "release" \in book[i]
                     /\ bill[i] = "refunded" => "refund" \in book[i]
                     /\ book[i] # {} => "capture" \in book[i]

(* Money leaves escrow early only for the instalment of a round the client, *)
(* or an arbiter, accepted; otherwise the mission has ended.                *)
OnlyAcceptedIsPaidEarly ==
  \A i \in Invoice : "release" \in book[i] => ended \/ (milestones /\ i \in Rounds /\ round[i] = "accepted")

(* The books give money back only on a mission that ended, and after the    *)
(* provider did or an operator was told to.                                 *)
RefundedAtProviderFirst == \A i \in Invoice : "refund" \in book[i] => ended /\ i \in returned

(* Unless two operations overlapped or one was cut off, an invoice's money  *)
(* is settled once, and the row says how.                                   *)
SettledOnce ==
  ~overlapped =>
    \A i \in Invoice : /\ ~({"release", "refund"} \subseteq book[i])
                       /\ Busy = {} => /\ "release" \in book[i] <=> bill[i] = "released"
                                       /\ "refund"  \in book[i] <=> bill[i] = "refunded"
=============================================================================
