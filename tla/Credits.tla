------------------------------- MODULE Credits --------------------------------
(***************************************************************************)
(* The credits of one enterprise: what grants them (a pack, a promotional  *)
(* code, a subscription), what spends them (asking one talent for a        *)
(* contact) and what gives half of one back (a refusal, or thirty days     *)
(* without an answer).  services/credits.rs, services/subscriptions.rs,    *)
(* routes/contact.rs and the webhook of routes/enterprise_credits.rs.      *)
(*                                                                         *)
(* A process is a request or the sweep of one instance of the program; it  *)
(* runs one statement, or one transaction, per step.  Half credits are the *)
(* unit: a contact costs 2, a refund gives back 1.                         *)
(***************************************************************************)
EXTENDS Integers, FiniteSets

CONSTANTS Server,     \* requests, of the enterprise, of the talent or of Stripe
          Sweeper,    \* instances running start_interest_timeout_refunder
          None,
          Requests,   \* the bound on the contacts asked for
          MaxPeriods, \* the bound on the periods of the subscription
          MaxCuts     \* how often somebody is cut off, or a refund fails

ASSUME CreditsAssumption ==
  /\ Requests \in Nat /\ MaxPeriods \in Nat /\ MaxCuts \in Nat
  /\ IsFiniteSet(Server) /\ IsFiniteSet(Sweeper)
  /\ None \notin Nat

VARIABLES balance,      \* enterprise_credits.balance
          journal,      \* journal[reason]: the rows of credit_transactions
          status,       \* status[r]: the r-th interest request
          stale,        \* the requests thirty days older than their last change
          refunds,      \* refunds[r]: how often the contact r was refunded
          talking,      \* the requests that have a conversation
          redeemed,     \* the row of promo_code_redemptions
          period,       \* Stripe's period of the subscription; 0 before it starts
          sub,          \* enterprise_subscriptions: current and last granted period
          dawn,         \* the period in which the program heard of the checkout; 0 before
          monthly,      \* monthly[p]: how often the period recorded as p was granted
          marked,       \* the events stripe_webhook_events holds
          doing, job,   \* per process: its next statement, and what it remembers
          disturbed,    \* history: two processes met, one was cut off, or a period went back
          stops

accountVars == <<balance, journal>>
contactVars == <<status, stale, refunds, talking>>
stripeVars  == <<period, sub, dawn, monthly, marked>>
creditVars == <<accountVars, contactVars, redeemed, stripeVars, doing, job, disturbed, stops>>

Process == Server \cup Sweeper
Request == 1 .. Requests
Starts  == 0 .. MaxPeriods   \* 0: the program's clock when it heard of the checkout
Months  == 1 .. MaxPeriods   \* the periods of Stripe

Reason == {"purchase", "promo_code", "subscription_grant",
           "spend_interest_request", "refund_refused", "refund_timeout"}
Contact == 2
Refund  == 1
Bundle  == 2   \* what a pack, a code or a month is worth here

Event == [kind : {"pack", "started", "updated", "paid"}, period : Starts]
Steps == {"idle", "send", "accept", "open", "decline", "refund_refused", "close",
          "refund_timeout", "grant_promo", "redeem", "handle", "grant_month", "stamp"}
Jobs  == [request : Request \cup {None}, todo : SUBSET Request,
          event : Event \cup {None}, start : Starts \cup {None}]
NoJob == [request |-> None, todo |-> {}, event |-> None, start |-> None]

CreditsTypeOK ==
  /\ balance  \in Nat
  /\ journal  \in [Reason -> Nat]
  /\ status   \in [Request -> {"none", "pending", "accepted", "declined"}]
  /\ stale    \subseteq Request
  /\ refunds  \in [Request -> Nat]
  /\ talking  \subseteq Request
  /\ redeemed \in BOOLEAN
  /\ period   \in Starts
  /\ sub      \in [current : Starts \cup {None}, granted : Starts \cup {None}]
  /\ dawn     \in Starts
  /\ monthly  \in [Starts -> Nat]
  /\ marked   \subseteq Event
  /\ doing    \in [Process -> Steps]
  /\ job      \in [Process -> Jobs]
  /\ disturbed \in BOOLEAN
  /\ stops    \in 0 .. MaxCuts

CreditsInit ==
  /\ balance = 0 /\ journal = [reason \in Reason |-> 0]
  /\ status  = [r \in Request |-> "none"] /\ stale = {}
  /\ refunds = [r \in Request |-> 0] /\ talking = {}
  /\ redeemed = FALSE
  /\ period = 0 /\ sub = [current |-> None, granted |-> None]
  /\ dawn = 0 /\ monthly = [p \in Starts |-> 0]
  /\ marked = {}
  /\ doing = [w \in Process |-> "idle"]
  /\ job   = [w \in Process |-> NoJob]
  /\ disturbed = FALSE
  /\ stops = 0

-----------------------------------------------------------------------------
Busy == {w \in Process : doing[w] # "idle"}

Move(w, from, to, next) ==
  /\ doing[w] = from
  /\ doing' = [doing EXCEPT ![w] = to]
  /\ job'   = [job EXCEPT ![w] = IF to = "idle" THEN NoJob ELSE next]

StepWith(w, from, to, next) ==
  /\ Move(w, from, to, next)
  /\ disturbed' = (disturbed \/ Busy \ {w} # {})
  /\ UNCHANGED stops

Step(w, from, to) == StepWith(w, from, to, job[w])

CutOff == stops < MaxCuts /\ stops' = stops + 1 /\ disturbed' = TRUE

(* grant: the balance and the journal in one transaction.                   *)
Grant(reason, amount) ==
  /\ balance' = balance + amount
  /\ journal' = [journal EXCEPT ![reason] = @ + 1]

-----------------------------------------------------------------------------
(* send_interest: the cooldown and the pending request are looked for ...   *)
Pending(r)    == status[r] = "pending"
CoolingOff(r) == status[r] = "declined" /\ r \notin stale

AskContact(w) ==
  /\ w \in Server
  /\ \A r \in Request : ~Pending(r) /\ ~CoolingOff(r)
  /\ Step(w, "idle", "send")
  /\ UNCHANGED <<accountVars, contactVars, redeemed, stripeVars>>

(* ... and the request is inserted with its price in one transaction, which *)
(* the unique index or the balance may refuse.                              *)
Insertable(r) == /\ status[r] = "none" /\ \A q \in Request : q < r => status[q] # "none"
                 /\ \A q \in Request : ~Pending(q)
                 /\ balance >= Contact

SendContact(w, r) ==
  /\ Insertable(r)
  /\ Step(w, "send", "idle")
  /\ balance' = balance - Contact
  /\ journal' = [journal EXCEPT !["spend_interest_request"] = @ + 1]
  /\ status'  = [status EXCEPT ![r] = "pending"]
  /\ UNCHANGED <<stale, refunds, talking, redeemed, stripeVars>>

SendRefused(w) ==
  /\ \A r \in Request : ~Insertable(r)
  /\ Step(w, "send", "idle")
  /\ UNCHANGED <<accountVars, contactVars, redeemed, stripeVars>>

(* Time: thirty days, for a request to lapse or for a cooldown to end.      *)
GrowStale(r) ==
  /\ status[r] \in {"pending", "declined"} /\ r \notin stale
  /\ stale' = stale \cup {r}
  /\ UNCHANGED <<accountVars, status, refunds, talking, redeemed, stripeVars, doing, job, disturbed, stops>>

Reply(r, answer) ==
  /\ status' = [status EXCEPT ![r] = answer]
  /\ stale'  = stale \ {r}

(* Mutant: an answered request may be answered again. *)
FindPending_Any(w, r, to) ==
  /\ w \in Server
  /\ status[r] # "none"
  /\ StepWith(w, "idle", to, [NoJob EXCEPT !.request = r])
  /\ UNCHANGED <<accountVars, contactVars, redeemed, stripeVars>>

(* accept_interest and decline_interest read a pending request ...          *)
FindPending(w, r, to) ==
  /\ w \in Server
  /\ Pending(r)
  /\ StepWith(w, "idle", to, [NoJob EXCEPT !.request = r])
  /\ UNCHANGED <<accountVars, contactVars, redeemed, stripeVars>>

(* ... and write their answer over whatever it says by then.                *)
Accept(w) ==
  /\ Step(w, "accept", "open")
  /\ Reply(job[w].request, "accepted")
  /\ UNCHANGED <<accountVars, refunds, talking, redeemed, stripeVars>>

(* One conversation per request: UNIQUE refuses a second one.               *)
Open(w) ==
  /\ Step(w, "open", "idle")
  /\ talking' = talking \cup {job[w].request}
  /\ UNCHANGED <<accountVars, status, stale, refunds, redeemed, stripeVars>>

Decline(w) ==
  /\ Step(w, "decline", "refund_refused")
  /\ Reply(job[w].request, "declined")
  /\ UNCHANGED <<accountVars, refunds, talking, redeemed, stripeVars>>

(* refund_spend.  It looks for an earlier refund that names the request, and *)
(* grant, which writes them, names none: it never finds one.                 *)
GiveBack(r, reason) ==
  /\ Grant(reason, Refund)
  /\ refunds' = [refunds EXCEPT ![r] = @ + 1]

RefundRefused(w) ==
  /\ Step(w, "refund_refused", "idle")
  /\ GiveBack(job[w].request, "refund_refused")
  /\ UNCHANGED <<status, stale, talking, redeemed, stripeVars>>

-----------------------------------------------------------------------------
(* sweep_expired_interest_requests.                                         *)
Lapsed == {r \in Request : Pending(r) /\ r \in stale}

Sweep(w) ==
  /\ w \in Sweeper
  /\ Lapsed # {}
  /\ StepWith(w, "idle", "close", [NoJob EXCEPT !.todo = Lapsed])
  /\ UNCHANGED <<accountVars, contactVars, redeemed, stripeVars>>

(* It declines what is still pending and refunds whether it was or not.     *)
Close(w, r) ==
  /\ r \in job[w].todo
  /\ StepWith(w, "close", "refund_timeout", [job[w] EXCEPT !.request = r])
  /\ IF Pending(r) THEN Reply(r, "declined") ELSE UNCHANGED <<status, stale>>
  /\ UNCHANGED <<accountVars, refunds, talking, redeemed, stripeVars>>

Rest(w) == job[w].todo \ {job[w].request}
AfterRefund(w) == IF Rest(w) = {} THEN "idle" ELSE "close"
NextLapsed(w)  == [NoJob EXCEPT !.todo = Rest(w)]

RefundTimeout(w) ==
  /\ StepWith(w, "refund_timeout", AfterRefund(w), NextLapsed(w))
  /\ GiveBack(job[w].request, "refund_timeout")
  /\ UNCHANGED <<status, stale, talking, redeemed, stripeVars>>

(* A refund that fails is not reported, and the sweep goes on.              *)
RefundFails(w) ==
  /\ CutOff
  /\ \/ Move(w, "refund_refused", "idle", NoJob)
     \/ Move(w, "refund_timeout", AfterRefund(w), NextLapsed(w))
  /\ UNCHANGED <<accountVars, contactVars, redeemed, stripeVars>>

-----------------------------------------------------------------------------
(* redeem_promo: looked up, granted and recorded in three statements; the   *)
(* primary key refuses a second record, after the second grant.             *)
AskPromo(w) ==
  /\ w \in Server
  /\ ~redeemed
  /\ Step(w, "idle", "grant_promo")
  /\ UNCHANGED <<accountVars, contactVars, redeemed, stripeVars>>

GrantPromo(w) ==
  /\ Step(w, "grant_promo", "redeem")
  /\ Grant("promo_code", Bundle)
  /\ UNCHANGED <<contactVars, redeemed, stripeVars>>

RecordPromo(w) ==
  /\ Step(w, "redeem", "idle")
  /\ redeemed' = TRUE
  /\ UNCHANGED <<accountVars, contactVars, stripeVars>>

-----------------------------------------------------------------------------
(* Stripe renews the subscription.  It sends an event for each start, each  *)
(* payment, each change and each pack sold, and may repeat it; they arrive  *)
(* in any order, or late.                                                   *)
Renew ==
  /\ period < MaxPeriods /\ period' = period + 1
  /\ UNCHANGED <<accountVars, contactVars, redeemed, sub, dawn, monthly, marked, doing, job, disturbed, stops>>

Sent == [kind : {"pack"}, period : {0}]
          \cup [kind : {"started"}, period : {0} \cap 0 .. period - 1]
          \cup [kind : {"updated", "paid"}, period : 1 .. period]

(* stripe_webhook marks an event before it handles it, and answers 200 to   *)
(* one it has marked.                                                       *)
Unmarked == Sent \ marked

Deliver(w, e) ==
  /\ w \in Server
  /\ StepWith(w, "idle", "handle", [NoJob EXCEPT !.event = e])
  /\ marked' = marked \cup {e}
  /\ UNCHANGED <<accountVars, contactVars, redeemed, period, sub, dawn, monthly>>

Handles(w, kind) == doing[w] = "handle" /\ job[w].event.kind = kind

HandlePack(w) ==
  /\ Handles(w, "pack")
  /\ Step(w, "handle", "idle")
  /\ Grant("purchase", Bundle)
  /\ UNCHANGED <<contactVars, redeemed, stripeVars>>

(* Mutant: a period that was granted is granted again. *)
IfDue_Always(w, seen) ==
  StepWith(w, "handle", IF seen.current # None THEN "grant_month" ELSE "idle", [job[w] EXCEPT !.start = seen.current])

(* grant_monthly_credits_if_due sees the row as it was read: by the upsert  *)
(* that records the start, or by the handler of a payment.                  *)
IfDue(w, seen) ==
  LET due == seen.current # None /\ seen.granted # seen.current
  IN  StepWith(w, "handle", IF due THEN "grant_month" ELSE "idle", [job[w] EXCEPT !.start = seen.current])

HandleStarted(w) ==
  /\ Handles(w, "started")
  /\ sub' = [sub EXCEPT !.current = 0]
  /\ dawn' = period
  /\ IfDue(w, sub')
  /\ UNCHANGED <<accountVars, contactVars, redeemed, period, monthly, marked>>

HandlePaid(w) ==
  /\ Handles(w, "paid")
  /\ IfDue(w, sub)
  /\ UNCHANGED <<accountVars, contactVars, redeemed, stripeVars>>

(* An update of a subscription nobody recorded touches no row.              *)
HandleUpdated(w) ==
  LET to == job[w].event.period
  IN  /\ Handles(w, "updated")
      /\ Move(w, "handle", "idle", NoJob)
      /\ sub' = IF sub.current = None THEN sub ELSE [sub EXCEPT !.current = to]
      /\ disturbed' = (disturbed \/ Busy \ {w} # {} \/ to < period)
      /\ UNCHANGED <<accountVars, contactVars, redeemed, period, dawn, monthly, marked, stops>>

GrantMonth(w) ==
  /\ Step(w, "grant_month", "stamp")
  /\ Grant("subscription_grant", Bundle)
  /\ monthly' = [monthly EXCEPT ![job[w].start] = @ + 1]
  /\ UNCHANGED <<contactVars, redeemed, period, sub, dawn, marked>>

StampMonth(w) ==
  /\ Step(w, "stamp", "idle")
  /\ sub' = [sub EXCEPT !.granted = job[w].start]
  /\ UNCHANGED <<accountVars, contactVars, redeemed, period, dawn, monthly, marked>>

-----------------------------------------------------------------------------
Halt(w) ==
  /\ doing[w] # "idle"
  /\ CutOff
  /\ Move(w, doing[w], "idle", NoJob)
  /\ UNCHANGED <<accountVars, contactVars, redeemed, stripeVars>>

Begin(w) ==
  \/ AskContact(w) \/ AskPromo(w)
  \/ \E r \in Request, to \in {"accept", "decline"} : FindPending(w, r, to)
  \/ \E e \in Unmarked : Deliver(w, e)

Continue(w) ==
  \/ SendRefused(w) \/ Accept(w) \/ Open(w) \/ Decline(w) \/ RefundRefused(w)
  \/ RefundTimeout(w) \/ GrantPromo(w) \/ RecordPromo(w)
  \/ HandlePack(w) \/ HandleStarted(w) \/ HandlePaid(w) \/ HandleUpdated(w)
  \/ GrantMonth(w) \/ StampMonth(w)
  \/ \E r \in Request : SendContact(w, r) \/ Close(w, r)

CreditsNext ==
  \/ Renew
  \/ \E r \in Request : GrowStale(r)
  \/ \E w \in Process : Begin(w) \/ Sweep(w) \/ Continue(w) \/ RefundFails(w) \/ Halt(w)

CreditsSpec == CreditsInit /\ [][CreditsNext]_creditVars

-----------------------------------------------------------------------------
(* Unless two processes met or one was cut off, a contact ends one way: a   *)
(* declined one gave back half a credit once, an accepted one has its       *)
(* conversation and gave nothing back.                                      *)
ContactEndsOneWay ==
  ~disturbed =>
    \A r \in Request :
      /\ refunds[r] # 0 => refunds[r] = 1 /\ status[r] = "declined"
      /\ r \in talking => status[r] = "accepted"
      /\ Busy = {} => /\ status[r] = "declined" => refunds[r] = 1
                      /\ status[r] = "accepted" => r \in talking

(* However often and in whatever order Stripe delivers, a pack is granted   *)
(* at most once, and no month is granted without an event of its own.       *)
OneGrantPerEvent ==
  /\ journal["purchase"] <= Cardinality({e \in marked : e.kind = "pack"})
  /\ journal["subscription_grant"] <= Cardinality({e \in marked : e.kind \in {"started", "paid"}})

(* Both, of values the tables can hold. *)
OneEndOneGrant == CreditsTypeOK /\ ContactEndsOneWay /\ OneGrantPerEvent

(* The months' worth of credits that month m brought: the period recorded by *)
(* the program's clock is the month in which it heard of the checkout.       *)
Credited(m) == monthly[m] + (IF m = dawn THEN monthly[0] ELSE 0)

(* Unless disturbed, a code is granted once, and no month twice - but the    *)
(* month of the checkout, whose start by the program's clock is not Stripe's. *)
GrantedOnce ==
  ~disturbed => /\ journal["promo_code"] <= 1
                /\ Busy = {} => (redeemed <=> journal["promo_code"] = 1)
                /\ \A m \in Months : Credited(m) <= IF m = dawn THEN 2 ELSE 1

(* "Grant the monthly included credits once per period.  Idempotent via      *)
(* last_grant_period_start" (subscriptions.rs:107): it is not.               *)
MonthGrantedOnce == ~disturbed => \A m \in Months : Credited(m) <= 1
=============================================================================
