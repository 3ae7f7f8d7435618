------------------------------- MODULE Payouts -------------------------------
(***************************************************************************)
(* Money leaving: routes/talent_wallet.rs::withdraw, services/payout.rs,   *)
(* services/payment_webhooks.rs (the payout events) and                    *)
(* services/reconciliation.rs.                                             *)
(*                                                                         *)
(* Each request runs `send` statement by statement; each provider callback *)
(* runs `receive`; one sweep replays callbacks that were stored and not    *)
(* applied, and asks the provider about payouts that stay pending.  They   *)
(* share the ledger, where a posting happens at most once per key (module  *)
(* Book), and the payouts table.  Every withdrawal is of one unit.         *)
(*                                                                         *)
(* The provider of a payout is one of three kinds:                         *)
(*   transfer  answers at once that it paid, and the recipient's bank may  *)
(*             bounce the money days later (Stripe);                       *)
(*   polled    accepts, settles later, and can be asked (FedaPay);         *)
(*   pushed    accepts, settles later, and only calls back (Mobile Money). *)
(***************************************************************************)
EXTENDS Integers, FiniteSets

CONSTANTS Req,        \* requests to withdraw
          Key,        \* idempotency keys: user, amount and second
          Sweep,      \* the reconciliation sweep
          None,       \* no key, no event
          Rails,      \* the kinds of provider in play
          Funds,      \* what the person may withdraw at the start
          MaxStops,   \* how many times somebody stops half-way
          MaxLost,    \* how many provider answers are lost after it acted
          MaxChecks   \* MAX_CHECKS

VARIABLES rail,       \* rail[k]: the kind of provider payout k is sent through
          withdrawn,  \* keys whose withdrawal is posted
          returned,   \* keys whose withdrawal is reversed
          payout,     \* the payouts table
          escalated,  \* payouts an operator has been notified of
          age,        \* age[k]: how old the row is, as the sweep sees it
          step,       \* step[r]: where request r is in `send`
          keyOf,      \* keyOf[r]: the key it goes under
          prov,       \* prov[k]: what the provider did with the money
          asked,      \* asked[k]: how often it was asked to
          inbox,      \* inbox[e]: what became of callback e
          at,         \* at[a]: where an applier of events is
          doing,      \* the event the sweep is applying
          stored,     \* it comes from the inbox, not from a poll
          page,       \* rows the sweep has yet to examine, and if they had a reference
          stops, lost

sendVars  == <<step, keyOf>>
bookVars  == <<withdrawn, returned>>
provVars  == <<prov, asked>>
sweepVars == <<doing, stored, page>>
vars == <<rail, bookVars, payout, escalated, age, sendVars, provVars, inbox, at, sweepVars, stops, lost>>

Event   == Key \X {"settled", "failed"}
Applier == Event \cup {Sweep}

PayoutsAssumption == /\ Sweep \notin Event
                     /\ {MaxStops, MaxLost, MaxChecks} \subseteq Nat

ASSUME PayoutsAssumption

Available == Funds - Cardinality(withdrawn) + Cardinality(returned)

NoRow == [status |-> "none", reference |-> FALSE, checks |-> 0]

PayoutRow == [ status    : {"none", "pending", "sent", "failed"},
               reference : BOOLEAN,
               checks    : 0 .. MaxChecks ]

SenderSteps  == {"idle", "post", "insert", "ask", "record_pending", "record_sent",
                 "reverse", "fail", "done", "stopped"}
ApplierSteps == {"idle", "apply", "reverse", "fail", "mark"}

TypeOK ==
  /\ rail      \in [Key -> Rails]
  /\ withdrawn \subseteq Key
  /\ returned  \subseteq Key
  /\ payout    \in [Key -> PayoutRow]
  /\ escalated \subseteq Key
  /\ age       \in [Key -> {"fresh", "quiet", "overdue"}]
  /\ step      \in [Req -> SenderSteps]
  /\ keyOf     \in [Req -> Key \cup {None}]
  /\ prov      \in [Key -> {"none", "processing", "paid", "refused", "bounced"}]
  /\ asked     \in [Key -> Nat]
  /\ inbox     \in [Event -> {"new", "unverified", "stored", "processed"}]
  /\ at        \in [Applier -> ApplierSteps]
  /\ doing     \in Event \cup {None}
  /\ stored    \in BOOLEAN
  /\ page      \subseteq Key \X BOOLEAN
  /\ stops     \in 0 .. MaxStops
  /\ lost      \in 0 .. MaxLost

Init ==
  /\ rail      \in [Key -> Rails]
  /\ withdrawn = {}
  /\ returned  = {}
  /\ payout    = [k \in Key |-> NoRow]
  /\ escalated = {}
  /\ age       = [k \in Key |-> "fresh"]
  /\ step      = [r \in Req |-> "idle"]
  /\ keyOf     = [r \in Req |-> None]
  /\ prov      = [k \in Key |-> "none"]
  /\ asked     = [k \in Key |-> 0]
  /\ inbox     = [e \in Event |-> "new"]
  /\ at        = [a \in Applier |-> "idle"]
  /\ doing     = None
  /\ stored    = FALSE
  /\ page      = {}
  /\ stops     = 0
  /\ lost      = 0

Status(k) == payout[k].status

SetStatus(k, s) == payout' = [payout EXCEPT ![k].status = s]

-----------------------------------------------------------------------------
(* A request: the wallet's balance is read, then `send` runs. *)

SenderGoto(r, s) == step' = [step EXCEPT ![r] = s] /\ UNCHANGED keyOf

Request(r, k) ==
  /\ step[r] = "idle"
  /\ Available >= 1
  /\ step'  = [step EXCEPT ![r] = "post"]
  /\ keyOf' = [keyOf EXCEPT ![r] = k]
  /\ UNCHANGED <<rail, bookVars, payout, escalated, age, provVars, inbox, at, sweepVars, stops, lost>>

(* A replay of the key ends the request here. *)
AfterPosting_ReplayGoesOn(r) == "insert"
AfterPosting(r)              == IF keyOf[r] \in withdrawn THEN "done" ELSE "insert"

(* ledger::withdraw *)
Post(r) ==
  /\ step[r] = "post"
  /\ SenderGoto(r, AfterPosting(r))
  /\ withdrawn' = withdrawn \cup {keyOf[r]}
  /\ UNCHANGED <<rail, returned, payout, escalated, age, provVars, inbox, at, sweepVars, stops, lost>>

InsertRow(r) ==
  /\ step[r] = "insert"
  /\ SetStatus(keyOf[r], "pending")
  /\ SenderGoto(r, "ask")
  /\ UNCHANGED <<rail, bookVars, escalated, age, provVars, inbox, at, sweepVars, stops, lost>>

(* provider.pay: the money starts to move as `outcome`, or does not move.  *)
(* `next` is what the answer, if it came, makes `send` do.                 *)
Ask(r, outcome, next) ==
  /\ step[r] = "ask"
  /\ prov'  = [prov EXCEPT ![keyOf[r]] = outcome]
  /\ asked' = [asked EXCEPT ![keyOf[r]] = @ + 1]
  /\ SenderGoto(r, next)
  /\ UNCHANGED <<rail, bookVars, payout, escalated, age, inbox, at, sweepVars, stops>>

Deferred(r) == rail[keyOf[r]] # "transfer"

PayAccepted(r)  == Ask(r, "processing", "record_pending") /\ Deferred(r) /\ UNCHANGED lost
PayCompleted(r) == Ask(r, "paid", "record_sent") /\ UNCHANGED lost
PayRefused_FailFirst(r) == Ask(r, "refused", "fail") /\ UNCHANGED lost
PayRefused(r)   == Ask(r, "refused", "reverse") /\ UNCHANGED lost

(* It acted and the answer never came back: `send` sees an error. *)
PayAnswerLost(r) ==
  /\ lost < MaxLost
  /\ lost' = lost + 1
  /\ Ask(r, IF Deferred(r) THEN "processing" ELSE "paid", "reverse")

RecordedStatus(r) == IF step[r] = "record_sent" THEN "sent" ELSE "pending"

Record(r) ==
  /\ step[r] \in {"record_pending", "record_sent"}
  /\ payout' = [payout EXCEPT
       ![keyOf[r]].reference = TRUE,
       ![keyOf[r]].status    = RecordedStatus(r)]
  /\ SenderGoto(r, "done")
  /\ UNCHANGED <<rail, bookVars, escalated, age, provVars, inbox, at, sweepVars, stops, lost>>

Reverse(r) ==
  /\ step[r] = "reverse"
  /\ returned' = returned \cup {keyOf[r]}
  /\ SenderGoto(r, "fail")
  /\ UNCHANGED <<rail, withdrawn, payout, escalated, age, provVars, inbox, at, sweepVars, stops, lost>>

FailPayout(r) ==
  /\ step[r] = "fail"
  /\ SetStatus(keyOf[r], "failed")
  /\ SenderGoto(r, "done")
  /\ UNCHANGED <<rail, bookVars, escalated, age, provVars, inbox, at, sweepVars, stops, lost>>

Send(r) == \/ Post(r) \/ InsertRow(r)
           \/ PayAccepted(r) \/ PayCompleted(r) \/ PayRefused(r) \/ PayAnswerLost(r)
           \/ Record(r) \/ Reverse(r) \/ FailPayout(r)

-----------------------------------------------------------------------------
(* The provider. *)

Provider(k, from, to) ==
  /\ prov[k] = from
  /\ prov' = [prov EXCEPT ![k] = to]
  /\ UNCHANGED <<rail, bookVars, payout, escalated, age, sendVars, asked, inbox, at, sweepVars, stops, lost>>

Pays(k)    == Provider(k, "processing", "paid")
Refuses(k) == Provider(k, "processing", "refused")
Bounces(k) == rail[k] = "transfer" /\ Provider(k, "paid", "bounced")

Happened(e) == prov[e[1]] \in IF e[2] = "settled" THEN {"paid", "bounced"} ELSE {"refused", "bounced"}

-----------------------------------------------------------------------------
(* A callback.  The UNIQUE event id makes a redelivery a no-op, whether the *)
(* first delivery was applied, failed to apply, or failed its signature.   *)

Receive(e) ==
  /\ Happened(e)
  /\ inbox[e] = "new"
  /\ inbox' = [inbox EXCEPT ![e] = "stored"]
  /\ at'    = [at EXCEPT ![e] = "apply"]
  /\ UNCHANGED <<rail, bookVars, payout, escalated, age, sendVars, provVars, sweepVars, stops, lost>>

RejectSignature(e) ==
  /\ Happened(e)
  /\ inbox[e] = "new"
  /\ inbox' = [inbox EXCEPT ![e] = "unverified"]
  /\ UNCHANGED <<rail, bookVars, payout, escalated, age, sendVars, provVars, at, sweepVars, stops, lost>>

Doing(a) == IF a = Sweep THEN doing ELSE a
Subject(a) == Doing(a)[1]

Goto(a, s) == at' = [at EXCEPT ![a] = s]

(* Only an event from the inbox is marked; a polled answer is just done. *)
Finish(a) == IF a = Sweep /\ ~stored
             THEN Goto(a, "idle") /\ doing' = None
             ELSE Goto(a, "mark") /\ UNCHANGED doing

(* The row a provider's reference leads to, while it is pending. *)
FindPending(k) == payout[k].reference /\ Status(k) = "pending"

ApplySettled(a) ==
  /\ at[a] = "apply"
  /\ Doing(a)[2] = "settled"
  /\ IF FindPending(Subject(a)) THEN SetStatus(Subject(a), "sent") ELSE UNCHANGED payout
  /\ Finish(a)
  /\ UNCHANGED <<rail, bookVars, escalated, age, sendVars, provVars, inbox, stored, page, stops, lost>>

ApplyFailed(a) ==
  /\ at[a] = "apply"
  /\ Doing(a)[2] = "failed"
  /\ IF FindPending(Subject(a)) THEN Goto(a, "reverse") /\ UNCHANGED doing ELSE Finish(a)
  /\ UNCHANGED <<rail, bookVars, payout, escalated, age, sendVars, provVars, inbox, stored, page, stops, lost>>

ReverseFailed_Forgotten(a) ==
  /\ at[a] = "reverse"
  /\ Goto(a, "fail")
  /\ UNCHANGED <<rail, bookVars, payout, escalated, age, sendVars, provVars, inbox, sweepVars, stops, lost>>

ReverseFailed(a) ==
  /\ at[a] = "reverse"
  /\ returned' = returned \cup {Subject(a)}
  /\ Goto(a, "fail")
  /\ UNCHANGED <<rail, withdrawn, payout, escalated, age, sendVars, provVars, inbox, sweepVars, stops, lost>>

(* By id: whatever the row has become since FindPending. *)
FailFound(a) ==
  /\ at[a] = "fail"
  /\ SetStatus(Subject(a), "failed")
  /\ Finish(a)
  /\ UNCHANGED <<rail, bookVars, escalated, age, sendVars, provVars, inbox, stored, page, stops, lost>>

MarkProcessed(a) ==
  /\ at[a] = "mark"
  /\ inbox' = [inbox EXCEPT ![Doing(a)] = "processed"]
  /\ Goto(a, "idle")
  /\ IF a = Sweep THEN doing' = None ELSE UNCHANGED doing
  /\ UNCHANGED <<rail, bookVars, payout, escalated, age, sendVars, provVars, stored, page, stops, lost>>

ApplyEvent(a) == ApplySettled(a) \/ ApplyFailed(a) \/ ReverseFailed(a) \/ FailFound(a) \/ MarkProcessed(a)

-----------------------------------------------------------------------------
(* The sweep. *)

SweepFree == at[Sweep] = "idle"

Replay(e) ==
  /\ SweepFree /\ page = {}
  /\ inbox[e] = "stored"
  /\ Goto(Sweep, "apply")
  /\ doing'  = e
  /\ stored' = TRUE
  /\ UNCHANGED <<rail, bookVars, payout, escalated, age, sendVars, provVars, inbox, page, stops, lost>>

(* A pending row becomes older than the quiet period, then than the deadline. *)
GrowOld(k) ==
  /\ Status(k) = "pending" /\ age[k] # "overdue"
  /\ age' = [age EXCEPT ![k] = IF @ = "fresh" THEN "quiet" ELSE "overdue"]
  /\ UNCHANGED <<rail, bookVars, payout, escalated, sendVars, provVars, inbox, at, sweepVars, stops, lost>>

Stale == { k \in Key : Status(k) = "pending" /\ age[k] # "fresh" }

List ==
  /\ SweepFree /\ page = {} /\ Stale # {}
  /\ page' = { <<k, payout[k].reference>> : k \in Stale }
  /\ UNCHANGED <<rail, bookVars, payout, escalated, age, sendVars, provVars, inbox, at, doing, stored, stops, lost>>

(* reconcile_one: the row is counted as checked whatever comes of it. *)
Examine(k, known) ==
  /\ SweepFree
  /\ <<k, known>> \in page
  /\ page'   = page \ {<<k, known>>}
  /\ payout' = [payout EXCEPT ![k].checks = IF @ < MaxChecks THEN @ + 1 ELSE @]
  /\ UNCHANGED <<rail, bookVars, age, sendVars, provVars, inbox, stops, lost>>

Escalate(k) == escalated' = escalated \cup {k} /\ UNCHANGED <<at, doing, stored>>
LeaveIt     == UNCHANGED <<escalated, at, doing, stored>>

NoReference_LeftAlone(k) == Examine(k, FALSE) /\ LeaveIt
NoReference(k)           == Examine(k, FALSE) /\ Escalate(k)

Pollable(k) == rail[k] # "pushed"

(* The events a provider's answer can stand for: none while it is undecided. *)
Verdicts_NotSentIsFailed(k) == { IF prov[k] \in {"paid", "bounced"} THEN "settled" ELSE "failed" }
Verdicts(k)                 == { what \in {"settled", "failed"} : Happened(<<k, what>>) }

(* The answer becomes the event a callback would have carried. *)
PollAnswered(k) ==
  /\ Pollable(k)
  /\ Examine(k, TRUE)
  /\ \E what \in Verdicts(k) : doing' = <<k, what>>
  /\ Goto(Sweep, "apply")
  /\ stored' = FALSE
  /\ UNCHANGED escalated

PollUndecided(k) ==
  /\ Pollable(k) /\ Verdicts(k) = {}
  /\ Examine(k, TRUE)
  /\ LeaveIt

PollError(k) ==
  /\ Pollable(k)
  /\ Examine(k, TRUE)
  /\ IF payout[k].checks + 1 >= MaxChecks THEN Escalate(k) ELSE LeaveIt

OnlyPushes(k) ==
  /\ ~Pollable(k)
  /\ Examine(k, TRUE)
  /\ IF age[k] = "overdue" THEN Escalate(k) ELSE LeaveIt

ReconcileOne(k) ==
  NoReference(k) \/ PollAnswered(k) \/ PollUndecided(k) \/ PollError(k) \/ OnlyPushes(k)

-----------------------------------------------------------------------------
(* Somebody stops half-way: the client hangs up and its future is dropped, *)
(* a statement fails, the process dies.                                    *)

StopSend(r) ==
  /\ step[r] \notin {"idle", "done", "stopped"}
  /\ stops < MaxStops /\ stops' = stops + 1
  /\ SenderGoto(r, "stopped")
  /\ UNCHANGED <<rail, bookVars, payout, escalated, age, provVars, inbox, at, sweepVars, lost>>

StopApply(a) ==
  /\ at[a] # "idle"
  /\ stops < MaxStops /\ stops' = stops + 1
  /\ Goto(a, "idle")
  /\ IF a = Sweep THEN doing' = None /\ page' = {} ELSE UNCHANGED <<doing, page>>
  /\ UNCHANGED <<rail, bookVars, payout, escalated, age, sendVars, provVars, inbox, stored, lost>>

Next ==
  \/ \E r \in Req : (\E k \in Key : Request(r, k)) \/ Send(r) \/ StopSend(r)
  \/ \E k \in Key : Pays(k) \/ Refuses(k) \/ Bounces(k) \/ GrowOld(k) \/ ReconcileOne(k)
  \/ \E e \in Event : Receive(e) \/ RejectSignature(e) \/ Replay(e)
  \/ \E a \in Applier : ApplyEvent(a) \/ StopApply(a)
  \/ List

(* The runtime drives what has begun, time passes, the sweep ends its      *)
(* replays and lists again, and a provider that accepted decides.  No      *)
(* callback is promised, and a poll may fail every time.                   *)
Fairness ==
  /\ \A r \in Req : WF_vars(Send(r))
  /\ \A a \in Applier : WF_vars(ApplyEvent(a))
  /\ \A k \in Key : WF_vars(GrowOld(k)) /\ WF_vars(ReconcileOne(k)) /\ WF_vars(Pays(k) \/ Refuses(k))
  /\ SF_vars(List)

Spec     == Init /\ [][Next]_vars
FairSpec == Spec /\ Fairness

-----------------------------------------------------------------------------
(* Two requests under one key, a replay, a stop: the provider is asked to   *)
(* pay a key at most once (`send`, step 1: "A replay stops here").          *)
AskedOnce == \A k \in Key : asked[k] <= 1

(* Whatever stops, money the provider was told to move is in the ledger     *)
(* and has a row for the sweep to find (the order of `send`).               *)
RecordedBeforeAsked == \A k \in Key : prov[k] # "none" => k \in withdrawn /\ Status(k) # "none"

(* Both: one payment per key, and never one the sweep cannot find.          *)
AskedOnceOnRecord == AskedOnce /\ RecordedBeforeAsked

(* A payout is called failed only once its money is back (`send` and        *)
(* `apply` reverse first), so no stop leaves a failed payout debited.       *)
FailedIsReturned == \A k \in Key : Status(k) = "failed" => k \in returned

(* A payout called sent was paid, and was not handed back as well.          *)
SentIsPaid == \A k \in Key : Status(k) = "sent" => prov[k] \in {"paid", "bounced"} /\ k \notin returned

(* Both: what the row says of an ended payout is true of its money.         *)
EndedRowsAreTrue == FailedIsReturned /\ SentIsPaid

(* As long as no answer is lost, money handed back to the wallet is money   *)
(* the provider did not move: callbacks, polls and `send` never both pay    *)
(* and return it.                                                           *)
ReturnedIsUnpaid == lost = 0 => \A k \in returned : prov[k] = "refused"

(* No payout stays unconfirmed in silence (services/reconciliation.rs):     *)
(* each is settled, failed, or brought to an operator.                      *)
NoneStaysPending == \A k \in Key : Status(k) = "pending" ~> Status(k) # "pending" \/ k \in escalated

(* Money a provider refused comes back to the wallet, or an operator knows. *)
RefusalIsHandled == \A k \in Key : prov[k] = "refused" ~> k \in returned \/ k \in escalated
=============================================================================
