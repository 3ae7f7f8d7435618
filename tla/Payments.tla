------------------------------- MODULE Payments -------------------------------
(***************************************************************************)
(* Collecting one payment and delivering what it bought                    *)
(* (services/collect.rs, fulfilment.rs, payment_poller.rs, the payment     *)
(* half of payment_webhooks.rs, and the return page of routes/payments.rs).*)
(*                                                                         *)
(* Request handlers (callers) and the poller work on one row of            *)
(* `payments`, one statement or provider call at a time.  The provider     *)
(* keeps one checkout per idempotency key; it sends each notice once, and  *)
(* `receive` drops what it has already stored, so a notice is applied at   *)
(* most once.                                                              *)
(***************************************************************************)
EXTENDS Naturals

CONSTANTS Caller,      \* request handlers, serving any request
          Poller,      \* loops of start_payment_poller
          Rails,       \* the providers the payer may be routed to
          MaxStarts,   \* bound: times the payer presses "pay"
          MaxDeclines, \* bound: attempts the provider declines
          MaxLost,     \* bound: notices that never arrive
          MaxStops     \* bound: workers cut off half way

VARIABLES rail,      \* the provider of this payment
          row,       \* the row of `payments`
          aged,      \* it is older than FIRST_CHECK_SECONDS
          charge,    \* the checkout, at the provider
          handed,    \* the payer has been sent to it
          news,      \* notices the provider has sent and nobody received
          pc,        \* pc[w]: what worker w does next
          took,      \* took[w]: the session id in the row the poller took
          heard,     \* heard[w]: what the provider answered w
          brings,    \* brings[w]: w's notice carries the provider's reference
          delivered, \* times the thing paid for was delivered
          left       \* what remains of the bounds

vars == <<rail, row, aged, charge, handed, news, pc, took, heard, brings, delivered, left>>

Worker == Caller \cup Poller

PaymentsAssumption == /\ Rails \subseteq {"stripe", "fedapay"}
                      /\ Caller \cap Poller = {}
                      /\ {MaxStarts, MaxDeclines, MaxLost, MaxStops} \subseteq Nat

ASSUME PaymentsAssumption

Notice   == {"paid", "declined", "closed"}
Starting == {"insert", "name", "ask", "record", "refuse"}
Settling == {"claim", "deliver", "unstamp"}

TypeOK ==
  /\ rail \in Rails
  /\ row \in [status : {"none", "pending", "succeeded", "failed"},
              merchant : BOOLEAN,   \* merchant_reference is set
              session : BOOLEAN,    \* provider_session_id is set
              reference : BOOLEAN,  \* provider_reference is set
              stamped : BOOLEAN]    \* fulfilled_at is set
  /\ charge \in {"none", "open", "paid", "closed"}
  /\ {aged, handed} \subseteq BOOLEAN
  /\ news \subseteq Notice
  /\ pc \in [Worker -> {"idle", "page", "lookup", "learn", "mark", "decline"} \cup Starting \cup Settling]
  /\ took \in [Worker -> BOOLEAN]
  /\ heard \in [Worker -> {"none", "open", "paid", "closed"}]
  /\ brings \in [Worker -> BOOLEAN]
  /\ delivered \in Nat
  /\ left \in [starts : 0..MaxStarts, declines : 0..MaxDeclines, lost : 0..MaxLost, stops : 0..MaxStops]

Init ==
  /\ rail \in Rails
  /\ row = [status |-> "none", merchant |-> FALSE, session |-> FALSE, reference |-> FALSE, stamped |-> FALSE]
  /\ aged = FALSE
  /\ charge = "none"
  /\ handed = FALSE
  /\ news = {}
  /\ pc     = [w \in Worker |-> "idle"]
  /\ took   = [w \in Worker |-> FALSE]
  /\ heard  = [w \in Worker |-> "none"]
  /\ brings = [w \in Worker |-> FALSE]
  /\ delivered = 0
  /\ left = [starts |-> MaxStarts, declines |-> MaxDeclines, lost |-> MaxLost, stops |-> MaxStops]

-----------------------------------------------------------------------------
At(w, label)   == pc[w] = label
Goto(w, label) == pc' = [pc EXCEPT ![w] = label]
Spend(what)    == left[what] > 0 /\ left' = [left EXCEPT ![what] = @ - 1]

Outside == UNCHANGED <<rail, charge, handed, news>>   \* nothing at the provider
Known   == UNCHANGED <<took, heard, brings>>          \* nothing a worker remembers
OnlyRow == Outside /\ Known /\ UNCHANGED <<aged, delivered, left>>

(* The provider keeps one checkout per idempotency key. *)
Opened == IF charge = "none" THEN "open" ELSE charge

-----------------------------------------------------------------------------
(* collect::start                                                          *)

(* The route has checked that the subject is still unpaid for. *)
Press(w) ==
  /\ w \in Caller /\ At(w, "idle")
  /\ delivered = 0
  /\ Spend("starts")
  /\ Goto(w, "insert")
  /\ Outside /\ Known /\ UNCHANGED <<row, aged, delivered>>

(* ON CONFLICT (idempotency_key): a second press gets the first one's row. *)
InsertRow(w) ==
  /\ At(w, "insert")
  /\ row' = [row EXCEPT !.status = IF @ = "none" THEN "pending" ELSE @]
  /\ Goto(w, "name")
  /\ OnlyRow

NameIt(w) ==
  /\ At(w, "name")
  /\ row' = [row EXCEPT !.merchant = TRUE]
  /\ Goto(w, "ask")
  /\ OnlyRow

(* Mutant: the payer sent to a checkout whose id is not kept. *)
ProviderOpens_HandsAtOnce(w) ==
  /\ At(w, "ask")
  /\ charge' = Opened
  /\ handed' = TRUE
  /\ Goto(w, "record")
  /\ Known /\ UNCHANGED <<rail, row, aged, news, delivered, left>>

ProviderOpens(w) ==
  /\ At(w, "ask")
  /\ charge' = Opened
  /\ Goto(w, "record")
  /\ Known /\ UNCHANGED <<rail, row, aged, handed, news, delivered, left>>

(* An error, whether or not the provider did open the checkout. *)
StartFails(w) ==
  /\ At(w, "ask")
  /\ charge' \in {charge, Opened}
  /\ Goto(w, "refuse")
  /\ Known /\ UNCHANGED <<rail, row, aged, handed, news, delivered, left>>

RecordSession(w) ==
  /\ At(w, "record")
  /\ row' = [row EXCEPT !.session = TRUE]
  /\ handed' = TRUE
  /\ Goto(w, "idle")
  /\ Known /\ UNCHANGED <<rail, aged, charge, news, delivered, left>>

(* Whatever the row says by now. *)
RecordRefusal(w) ==
  /\ At(w, "refuse")
  /\ row' = [row EXCEPT !.status = "failed"]
  /\ Goto(w, "idle")
  /\ OnlyRow

-----------------------------------------------------------------------------
(* The payer and the provider.                                             *)

AtProvider == Known /\ UNCHANGED <<rail, row, aged, handed, pc, delivered>>

Pays ==
  /\ handed /\ charge = "open"
  /\ charge' = "paid"
  /\ news' = news \cup {"paid"}
  /\ UNCHANGED left /\ AtProvider

(* A declined card leaves Stripe's session open for another; FedaPay's     *)
(* transaction ends there.                                                 *)
Declines ==
  /\ handed /\ charge = "open"
  /\ Spend("declines")
  /\ charge' = IF rail = "stripe" THEN "open" ELSE "closed"
  /\ news' = news \cup {"declined"}
  /\ AtProvider

Expires ==
  /\ charge = "open"
  /\ charge' = "closed"
  /\ news' = news \cup {"closed"}
  /\ UNCHANGED left /\ AtProvider

Loses(n) ==
  /\ n \in news
  /\ Spend("lost")
  /\ news' = news \ {n}
  /\ UNCHANGED charge /\ AtProvider

-----------------------------------------------------------------------------
(* The webhook.                                                            *)

(* find_payment: by our reference where the notice carries it, or by theirs *)
(* - a declined attempt at Stripe is a payment intent, the rest the session. *)
(* FedaPay was never sent our reference and cannot echo it.                 *)
Finds(n) ==
  \/ rail = "stripe" /\ n = "paid" /\ row.merchant
  \/ rail = "stripe" /\ n = "declined" /\ row.reference
  \/ row.session /\ ~(rail = "stripe" /\ n = "declined")

Receive(w, n) ==
  /\ w \in Caller /\ At(w, "idle")
  /\ n \in news
  /\ news' = news \ {n}
  /\ Goto(w, IF ~Finds(n) THEN "idle" ELSE IF n = "paid" THEN "claim" ELSE "decline")
  /\ brings' = [brings EXCEPT ![w] = n = "paid"]
  /\ UNCHANGED <<rail, row, aged, charge, handed, took, heard, delivered, left>>

ApplyDecline(w) ==
  /\ At(w, "decline")
  /\ row' = [row EXCEPT !.status = IF @ = "pending" THEN "failed" ELSE @]
  /\ Goto(w, "idle")
  /\ OnlyRow

-----------------------------------------------------------------------------
(* The return page: it asks about a checkout whose id it has, and delivers *)
(* by the shared path if the provider says paid.  It cannot ask FedaPay,    *)
(* which does not know the merchant reference the page asks by.             *)

OpenPage(w) ==
  /\ w \in Caller /\ At(w, "idle")
  /\ row.status = "pending" /\ row.session
  /\ Goto(w, "page")
  /\ OnlyRow /\ UNCHANGED row

AskFromPage(w) ==
  /\ At(w, "page")
  /\ brings' = [brings EXCEPT ![w] = FALSE]
  /\ Goto(w, IF rail = "stripe" /\ charge = "paid" THEN "claim" ELSE "idle")
  /\ Outside /\ UNCHANGED <<row, aged, took, heard, delivered, left>>

-----------------------------------------------------------------------------
(* The poller.                                                             *)

(* FIRST_CHECK_SECONDS after its creation; the call that made it is over. *)
Age ==
  /\ ~aged /\ row.status # "none"
  /\ \A w \in Worker : pc[w] \notin Starting
  /\ aged' = TRUE
  /\ Outside /\ Known /\ UNCHANGED <<row, pc, delivered, left>>

(* `undelivered`: money that arrived and bought nothing. *)
Rescue(w) ==
  /\ w \in Poller /\ At(w, "idle")
  /\ row.status = "succeeded" /\ ~row.stamped
  /\ Goto(w, "claim")
  /\ brings' = [brings EXCEPT ![w] = FALSE]
  /\ Outside /\ UNCHANGED <<row, aged, took, heard, delivered, left>>

TakeOpen(w) ==
  /\ w \in Poller /\ At(w, "idle")
  /\ row.status = "pending" /\ aged
  /\ took' = [took EXCEPT ![w] = row.session]
  /\ Goto(w, "lookup")
  /\ Outside /\ UNCHANGED <<row, aged, heard, brings, delivered, left>>

Hears(w, answer, then) ==
  /\ heard' = [heard EXCEPT ![w] = answer]
  /\ Goto(w, then)
  /\ UNCHANGED <<rail, row, aged, handed, news, took, brings, delivered, left>>

AskStripe(w) ==
  /\ At(w, "lookup") /\ rail = "stripe" /\ took[w]
  /\ Hears(w, charge, "learn") /\ UNCHANGED charge

(* recover_stripe_session replays the create call under its key ... *)
Recover(w) ==
  /\ At(w, "lookup") /\ rail = "stripe" /\ ~took[w]
  /\ row.merchant
  /\ charge' = Opened
  /\ Hears(w, Opened, "learn")

(* ... and any error of it is taken for an expired checkout. *)
RecoverFails(w) ==
  /\ At(w, "lookup") /\ rail = "stripe" /\ ~took[w]
  /\ Hears(w, "closed", "mark") /\ UNCHANGED charge

(* FedaPay is asked by the merchant reference, which every row with a       *)
(* session has and FedaPay was never sent: it knows no such transaction.    *)
NoAnswer(w) ==
  /\ At(w, "lookup")
  /\ rail = "stripe" => took[w]
  /\ Hears(w, "none", "idle") /\ UNCHANGED charge

(* stripe_outcome keeps what it learnt; a session not yet paid may or may  *)
(* not name its payment intent.                                            *)
Learn(w) ==
  /\ At(w, "learn")
  /\ \E intent \in {heard[w] = "paid", TRUE} :
       row' = [row EXCEPT !.session = TRUE, !.reference = @ \/ intent]
  /\ Goto(w, CASE heard[w] = "paid" -> "claim" [] heard[w] = "closed" -> "mark" [] OTHER -> "idle")
  /\ brings' = [brings EXCEPT ![w] = FALSE]
  /\ Outside /\ UNCHANGED <<aged, took, heard, delivered, left>>

(* Whatever the row says by now. *)
MarkFailed(w) ==
  /\ At(w, "mark")
  /\ row' = [row EXCEPT !.status = "failed"]
  /\ Goto(w, "idle")
  /\ OnlyRow

-----------------------------------------------------------------------------
(* fulfilment::settle_and_deliver                                          *)

(* Mutant: the claim made on the status, which two roads can both find. *)
Claimable_ByStatus == row.status # "failed"

Claimable == ~row.stamped

Claim(w) ==
  /\ At(w, "claim")
  /\ IF Claimable
     THEN /\ row' = [row EXCEPT !.status = "succeeded", !.stamped = TRUE,
                                !.reference = @ \/ brings[w]]
          /\ Goto(w, "deliver")
     ELSE Goto(w, "idle") /\ UNCHANGED row
  /\ OnlyRow

DeliverOk(w) ==
  /\ At(w, "deliver")
  /\ delivered' = delivered + 1
  /\ Goto(w, "idle")
  /\ Outside /\ Known /\ UNCHANGED <<row, aged, left>>

(* Mutant: a failed delivery that keeps its stamp. *)
DeliverFails_StaysStamped(w) ==
  /\ At(w, "deliver")
  /\ Goto(w, "idle")
  /\ OnlyRow /\ UNCHANGED row

DeliverFails(w) ==
  /\ At(w, "deliver")
  /\ Goto(w, "unstamp")
  /\ OnlyRow /\ UNCHANGED row

Unstamp(w) ==
  /\ At(w, "unstamp")
  /\ row' = [row EXCEPT !.stamped = FALSE]
  /\ Goto(w, "idle")
  /\ OnlyRow

(* The process dies, the request is dropped, or a statement of ours fails. *)
Stop(w) ==
  /\ ~At(w, "idle")
  /\ Spend("stops")
  /\ Goto(w, "idle")
  /\ Outside /\ Known /\ UNCHANGED <<row, aged, delivered>>

-----------------------------------------------------------------------------
Start(w)  == Press(w) \/ InsertRow(w) \/ NameIt(w) \/ ProviderOpens(w) \/ StartFails(w)
             \/ RecordSession(w) \/ RecordRefusal(w)
Hook(w)   == (\E n \in Notice : Receive(w, n)) \/ ApplyDecline(w)
Page(w)   == OpenPage(w) \/ AskFromPage(w)
Answer(w) == AskStripe(w) \/ Recover(w)
Poll(w)   == Rescue(w) \/ TakeOpen(w) \/ Answer(w) \/ RecoverFails(w) \/ NoAnswer(w)
             \/ Learn(w) \/ MarkFailed(w)
Settle(w) == Claim(w) \/ DeliverOk(w) \/ DeliverFails(w) \/ Unstamp(w)

Provider == Pays \/ Declines \/ Expires \/ \E n \in Notice : Loses(n)

(* Nothing is in flight, and nobody need ever ask again. *)
Quiet == (\A w \in Worker : At(w, "idle")) /\ UNCHANGED vars

Next == \/ \E w \in Worker : Start(w) \/ Hook(w) \/ Page(w) \/ Poll(w) \/ Settle(w) \/ Stop(w)
        \/ Provider \/ Age \/ Quiet

Spec == Init /\ [][Next]_vars

(* A worker is driven to its end and the poller ticks every minute.  The   *)
(* provider answers, and a delivery succeeds, if tried again and again.    *)
(* Nobody has to pay, no page is opened, no notice has to arrive.          *)
Fairness ==
  /\ WF_vars(Age)
  /\ \A w \in Worker : /\ WF_vars(~At(w, "idle") /\ (Start(w) \/ Hook(w) \/ Page(w) \/ Poll(w) \/ Settle(w)))
                       /\ SF_vars(DeliverOk(w))
  /\ \A w \in Poller : WF_vars(Rescue(w)) /\ WF_vars(TakeOpen(w)) /\ SF_vars(Answer(w))

FairSpec == Spec /\ Fairness

-----------------------------------------------------------------------------
(* Properties                                                              *)

(* However many roads bring the news, and wherever each is cut off, the    *)
(* thing paid for is delivered once (settle_and_deliver).                  *)
OneDelivery == delivered <= 1

(* Nothing is delivered that the provider has not said is paid: a visit to *)
(* the return page buys nothing.                                           *)
DeliveredWasPaid == delivered > 0 => charge = "paid"

(* Both: what is delivered is delivered once, and was paid for.            *)
PaidIsDeliveredOnce == OneDelivery /\ DeliveredWasPaid

(* The money of a payer is never news about a payment nobody can find:     *)
(* find_payment knows the row of every payment that was made.              *)
PaidIsFound == "paid" \in news => Finds("paid")

(* A payer who paid by card gets what was paid for, though the browser tab  *)
(* is closed, the webhook lost and workers cut off: unless the row was      *)
(* marked failed, or one was cut off between the claim and the delivery,    *)
(* the poller sees to it.                                                   *)
CardPaymentArrives ==
  rail = "stripe" /\ charge = "paid" ~>
    delivered > 0 \/ row.status = "failed" \/ (row.stamped /\ left.stops < MaxStops)
=============================================================================
