---------------------------- MODULE PaymentsProofs ----------------------------
(***************************************************************************)
(* Part 1: what holds of a payment for any number of handlers and pollers, *)
(* at either provider, with any number of notices lost and workers cut     *)
(* off.  Three things make the properties inductive: the stamp is held by  *)
(* one worker at a time, every road to the claim has heard "paid" from the *)
(* provider, and the payer was sent to a checkout whose id was kept.       *)
(*                                                                         *)
(* Part 2: what holds of an enterprise's credits for any number of         *)
(* requests, contacts, periods and interruptions.  Each grant of Stripe's  *)
(* is owed to one marked event; and while nobody met anybody, whoever is   *)
(* at work is alone and still finds what it read.                          *)
(***************************************************************************)
EXTENDS Payments, Credits, FiniteSetTheorems, TLAPS

Holding == {"deliver", "unstamp"}

(* The stamp is a lock: who took it and has not delivered is alone. *)
Claims ==
  /\ \A w \in Worker : pc[w] \in Holding => row.stamped /\ delivered = 0
  /\ \A v, w \in Worker : pc[v] \in Holding /\ pc[w] \in Holding => v = w
  /\ delivered > 0 => row.stamped

(* Each piece of news that leads to a claim is true, and stays true. *)
PaidFacts ==
  /\ \A w \in Worker : pc[w] \in Settling => charge = "paid"
  /\ \A w \in Worker : pc[w] = "learn" /\ heard[w] = "paid" => charge = "paid"
  /\ row.status = "succeeded" \/ "paid" \in news => charge = "paid"

(* Nobody pays at a checkout the row does not name. *)
Sessions == handed \/ "paid" \in news => row.session

Inv == TypeOK /\ Claims /\ OneDelivery /\ PaidFacts /\ DeliveredWasPaid /\ Sessions

USE DEF Notice, Starting, Settling, Holding, At, Goto

-----------------------------------------------------------------------------
LEMMA InitInv == Init => Inv
<1> SUFFICES ASSUME Init PROVE Inv
  OBVIOUS
<1>1. TypeOK
  <2>1. row \in [status : {"none", "pending", "succeeded", "failed"}, merchant : BOOLEAN,
                 session : BOOLEAN, reference : BOOLEAN, stamped : BOOLEAN]
    BY DEF Init
  <2>2. left \in [starts : 0..MaxStarts, declines : 0..MaxDeclines, lost : 0..MaxLost, stops : 0..MaxStops]
    BY PaymentsAssumption DEF Init, PaymentsAssumption
  <2>3. /\ pc \in [Worker -> {"idle", "page", "lookup", "learn", "mark", "decline"} \cup Starting \cup Settling]
        /\ took \in [Worker -> BOOLEAN]
        /\ heard \in [Worker -> {"none", "open", "paid", "closed"}]
        /\ brings \in [Worker -> BOOLEAN]
    BY DEF Init
  <2> QED BY <2>1, <2>2, <2>3 DEF Init, TypeOK
<1>2. Claims /\ OneDelivery /\ DeliveredWasPaid
  BY DEF Init, Claims, OneDelivery, DeliveredWasPaid
<1>3. PaidFacts /\ Sessions
  BY DEF Init, PaidFacts, Sessions
<1> QED BY <1>1, <1>2, <1>3 DEF Inv

(* A bound is spent one unit at a time and stays a bound. *)
LEMMA SpendType ==
  ASSUME TypeOK, NEW what \in {"starts", "declines", "lost", "stops"}, Spend(what)
  PROVE  left' \in [starts : 0..MaxStarts, declines : 0..MaxDeclines, lost : 0..MaxLost, stops : 0..MaxStops]
BY PaymentsAssumption DEF TypeOK, Spend, PaymentsAssumption

(* Starting a payment: rows and checkouts grow, and nothing is settled. *)
LEMMA StartInv == ASSUME Inv, NEW w \in Worker, Start(w) PROVE Inv'
<1> USE DEF Outside, Known, OnlyRow, Opened
<1>1. CASE Press(w)
  <2>1. TypeOK'
    BY <1>1, SpendType DEF Inv, TypeOK, Press
  <2> QED BY <1>1, <2>1 DEF Inv, TypeOK, Claims, OneDelivery, PaidFacts, DeliveredWasPaid, Sessions, Press
<1>2. CASE InsertRow(w)
  <2>1. TypeOK'
    BY <1>2 DEF Inv, TypeOK, InsertRow
  <2>2. Claims' /\ OneDelivery' /\ DeliveredWasPaid'
    BY <1>2 DEF Inv, TypeOK, Claims, OneDelivery, DeliveredWasPaid, PaidFacts, InsertRow
  <2>3. PaidFacts' /\ Sessions'
    BY <1>2 DEF Inv, TypeOK, PaidFacts, Sessions, InsertRow
  <2> QED BY <2>1, <2>2, <2>3 DEF Inv
<1>3. CASE NameIt(w)
  <2>1. TypeOK'
    BY <1>3 DEF Inv, TypeOK, NameIt
  <2>2. Claims' /\ OneDelivery' /\ DeliveredWasPaid'
    BY <1>3 DEF Inv, TypeOK, Claims, OneDelivery, DeliveredWasPaid, PaidFacts, NameIt
  <2>3. PaidFacts' /\ Sessions'
    BY <1>3 DEF Inv, TypeOK, PaidFacts, Sessions, NameIt
  <2> QED BY <2>1, <2>2, <2>3 DEF Inv
<1>4. CASE ProviderOpens(w)
  BY <1>4 DEF Inv, TypeOK, Claims, OneDelivery, PaidFacts, DeliveredWasPaid, Sessions, ProviderOpens
<1>5. CASE StartFails(w)
  BY <1>5 DEF Inv, TypeOK, Claims, OneDelivery, PaidFacts, DeliveredWasPaid, Sessions, StartFails
<1>6. CASE RecordSession(w)
  <2>1. TypeOK'
    BY <1>6 DEF Inv, TypeOK, RecordSession
  <2>2. Claims' /\ OneDelivery' /\ DeliveredWasPaid'
    BY <1>6 DEF Inv, TypeOK, Claims, OneDelivery, DeliveredWasPaid, PaidFacts, RecordSession
  <2>3. PaidFacts' /\ Sessions'
    BY <1>6 DEF Inv, TypeOK, PaidFacts, Sessions, RecordSession
  <2> QED BY <2>1, <2>2, <2>3 DEF Inv
<1>7. CASE RecordRefusal(w)
  <2>1. TypeOK'
    BY <1>7 DEF Inv, TypeOK, RecordRefusal
  <2>2. Claims' /\ OneDelivery' /\ DeliveredWasPaid'
    BY <1>7 DEF Inv, TypeOK, Claims, OneDelivery, DeliveredWasPaid, PaidFacts, RecordRefusal
  <2>3. PaidFacts' /\ Sessions'
    BY <1>7 DEF Inv, TypeOK, PaidFacts, Sessions, RecordRefusal
  <2> QED BY <2>1, <2>2, <2>3 DEF Inv
<1> QED BY <1>1, <1>2, <1>3, <1>4, <1>5, <1>6, <1>7 DEF Start

(* The provider: what is paid stays paid, and only the payer makes it so. *)
LEMMA ProviderInv == ASSUME Inv, Provider PROVE Inv'
<1> USE DEF AtProvider, Known
<1>1. CASE Pays
  BY <1>1 DEF Inv, TypeOK, Claims, OneDelivery, PaidFacts, DeliveredWasPaid, Sessions, Pays
<1>2. CASE Declines
  <2>1. TypeOK'
    BY <1>2, SpendType DEF Inv, TypeOK, Declines
  <2> QED BY <1>2, <2>1 DEF Inv, Claims, OneDelivery, PaidFacts, DeliveredWasPaid, Sessions, Declines
<1>3. CASE Expires
  BY <1>3 DEF Inv, TypeOK, Claims, OneDelivery, PaidFacts, DeliveredWasPaid, Sessions, Expires
<1>4. ASSUME NEW n \in Notice, Loses(n) PROVE Inv'
  <2>1. TypeOK'
    BY <1>4, SpendType DEF Inv, TypeOK, Loses
  <2> QED BY <1>4, <2>1 DEF Inv, Claims, OneDelivery, PaidFacts, DeliveredWasPaid, Sessions, Loses
<1> QED BY <1>1, <1>2, <1>3, <1>4 DEF Provider

(* The webhook: a notice of payment leads to a claim, a decline never does. *)
LEMMA HookInv == ASSUME Inv, NEW w \in Worker, Hook(w) PROVE Inv'
<1>1. ASSUME NEW n \in Notice, Receive(w, n) PROVE Inv'
  BY <1>1 DEF Inv, TypeOK, Claims, OneDelivery, PaidFacts, DeliveredWasPaid, Sessions, Receive
<1>2. CASE ApplyDecline(w)
  <2>1. TypeOK'
    BY <1>2 DEF Inv, TypeOK, ApplyDecline, OnlyRow, Outside, Known
  <2>2. Claims' /\ OneDelivery' /\ DeliveredWasPaid'
    BY <1>2 DEF Inv, TypeOK, Claims, OneDelivery, DeliveredWasPaid, PaidFacts, ApplyDecline, OnlyRow, Outside, Known
  <2>3. PaidFacts' /\ Sessions'
    BY <1>2 DEF Inv, TypeOK, PaidFacts, Sessions, ApplyDecline, OnlyRow, Outside, Known
  <2> QED BY <2>1, <2>2, <2>3 DEF Inv
<1> QED BY <1>1, <1>2 DEF Hook

(* The return page claims on the provider's answer alone. *)
LEMMA PageInv == ASSUME Inv, NEW w \in Worker, Page(w) PROVE Inv'
<1> USE DEF Outside, Known, OnlyRow
<1>1. CASE OpenPage(w)
  BY <1>1 DEF Inv, TypeOK, Claims, OneDelivery, PaidFacts, DeliveredWasPaid, Sessions, OpenPage
<1>2. CASE AskFromPage(w)
  BY <1>2 DEF Inv, TypeOK, Claims, OneDelivery, PaidFacts, DeliveredWasPaid, Sessions, AskFromPage
<1> QED BY <1>1, <1>2 DEF Page

(* The poller claims on a row that says paid, or on what it was answered. *)
LEMMA PollInv == ASSUME Inv, NEW w \in Worker, Poll(w) PROVE Inv'
<1> USE DEF Outside, Known, OnlyRow, Opened
<1>1. CASE Rescue(w)
  BY <1>1 DEF Inv, TypeOK, Claims, OneDelivery, PaidFacts, DeliveredWasPaid, Sessions, Rescue
<1>2. CASE TakeOpen(w)
  BY <1>2 DEF Inv, TypeOK, Claims, OneDelivery, PaidFacts, DeliveredWasPaid, Sessions, TakeOpen
<1>3. CASE AskStripe(w)
  BY <1>3 DEF Inv, TypeOK, Claims, OneDelivery, PaidFacts, DeliveredWasPaid, Sessions, AskStripe, Hears
<1>4. CASE Recover(w)
  BY <1>4 DEF Inv, TypeOK, Claims, OneDelivery, PaidFacts, DeliveredWasPaid, Sessions, Recover, Hears
<1>5. CASE RecoverFails(w)
  BY <1>5 DEF Inv, TypeOK, Claims, OneDelivery, PaidFacts, DeliveredWasPaid, Sessions, RecoverFails, Hears
<1>6. CASE NoAnswer(w)
  BY <1>6 DEF Inv, TypeOK, Claims, OneDelivery, PaidFacts, DeliveredWasPaid, Sessions, NoAnswer, Hears
<1>7. CASE Learn(w)
  <2>1. TypeOK'
    BY <1>7 DEF Inv, TypeOK, Learn
  <2>2. Claims' /\ OneDelivery' /\ DeliveredWasPaid'
    BY <1>7 DEF Inv, TypeOK, Claims, OneDelivery, DeliveredWasPaid, PaidFacts, Learn
  <2>3. PaidFacts' /\ Sessions'
    BY <1>7 DEF Inv, TypeOK, PaidFacts, Sessions, Learn
  <2> QED BY <2>1, <2>2, <2>3 DEF Inv
<1>8. CASE MarkFailed(w)
  <2>1. TypeOK'
    BY <1>8 DEF Inv, TypeOK, MarkFailed
  <2>2. Claims' /\ OneDelivery' /\ DeliveredWasPaid'
    BY <1>8 DEF Inv, TypeOK, Claims, OneDelivery, DeliveredWasPaid, PaidFacts, MarkFailed
  <2>3. PaidFacts' /\ Sessions'
    BY <1>8 DEF Inv, TypeOK, PaidFacts, Sessions, MarkFailed
  <2> QED BY <2>1, <2>2, <2>3 DEF Inv
<1> QED BY <1>1, <1>2, <1>3, <1>4, <1>5, <1>6, <1>7, <1>8 DEF Poll, Answer

(* The claim is taken only when nobody holds it and nothing was delivered. *)
LEMMA SettleInv == ASSUME Inv, NEW w \in Worker, Settle(w) PROVE Inv'
<1> USE DEF Outside, Known, OnlyRow
<1>1. CASE Claim(w) /\ Claimable
  <2>1. /\ charge = "paid" /\ charge' = "paid"
        /\ row'.stamped /\ row'.session = row.session
        /\ delivered = 0 /\ delivered' = 0
    <3>1. charge = "paid" /\ charge' = "paid"
      BY <1>1 DEF Inv, PaidFacts, Claim
    <3>2. row'.stamped /\ row'.session = row.session
      BY <1>1 DEF Inv, TypeOK, Claim
    <3>3. delivered = 0 /\ delivered' = 0
      BY <1>1 DEF Inv, TypeOK, Claims, Claim, Claimable
    <3> QED BY <3>1, <3>2, <3>3
  <2>2. TypeOK'
    <3>1. PICK found \in BOOLEAN :
            row' = [row EXCEPT !.status = "succeeded", !.stamped = TRUE, !.reference = found]
      <4>1. (row.reference \/ brings[w]) \in BOOLEAN
        OBVIOUS
      <4> QED BY <1>1, <4>1, Zenon DEF Claim
    <3>2. row' \in [status : {"none", "pending", "succeeded", "failed"}, merchant : BOOLEAN,
                    session : BOOLEAN, reference : BOOLEAN, stamped : BOOLEAN]
      <4>1. row \in [status : {"none", "pending", "succeeded", "failed"}, merchant : BOOLEAN,
                     session : BOOLEAN, reference : BOOLEAN, stamped : BOOLEAN]
        BY DEF Inv, TypeOK
      <4> QED BY <3>1, <4>1
    <3>3. pc' \in [Worker -> {"idle", "page", "lookup", "learn", "mark", "decline"} \cup Starting \cup Settling]
      BY <1>1 DEF Inv, TypeOK, Claim
    <3>4. UNCHANGED <<rail, charge, handed, news, took, heard, brings, aged, delivered, left>>
      BY <1>1 DEF Claim
    <3> QED BY <3>2, <3>3, <3>4 DEF Inv, TypeOK
  <2>3. Claims'
    <3>1. \A v \in Worker : pc[v] \notin Holding
      BY <1>1 DEF Inv, Claims, Claimable
    <3>2. \A v \in Worker : pc'[v] \in Holding => v = w
      BY <1>1, <3>1 DEF Inv, TypeOK, Claim
    <3> QED BY <2>1, <3>2 DEF Claims
  <2>4. OneDelivery' /\ DeliveredWasPaid' /\ PaidFacts'
    BY <2>1 DEF OneDelivery, DeliveredWasPaid, PaidFacts
  <2>5. Sessions'
    BY <1>1, <2>1 DEF Inv, Sessions, Claim
  <2> QED BY <2>2, <2>3, <2>4, <2>5 DEF Inv
<1>5. CASE Claim(w) /\ ~Claimable
  BY <1>5 DEF Inv, TypeOK, Claims, OneDelivery, PaidFacts, DeliveredWasPaid, Sessions, Claim
<1>2. CASE DeliverOk(w)
  BY <1>2 DEF Inv, TypeOK, Claims, OneDelivery, PaidFacts, DeliveredWasPaid, Sessions, DeliverOk
<1>3. CASE DeliverFails(w)
  BY <1>3 DEF Inv, TypeOK, Claims, OneDelivery, PaidFacts, DeliveredWasPaid, Sessions, DeliverFails
<1>4. CASE Unstamp(w)
  <2>1. TypeOK'
    BY <1>4 DEF Inv, TypeOK, Unstamp
  <2>2. Claims' /\ OneDelivery' /\ DeliveredWasPaid'
    BY <1>4 DEF Inv, TypeOK, Claims, OneDelivery, DeliveredWasPaid, PaidFacts, Unstamp
  <2>3. PaidFacts' /\ Sessions'
    BY <1>4 DEF Inv, TypeOK, PaidFacts, Sessions, Unstamp
  <2> QED BY <2>1, <2>2, <2>3 DEF Inv
<1> QED BY <1>1, <1>2, <1>3, <1>4, <1>5 DEF Settle

(* A worker cut off anywhere leaves nothing behind that a later one trusts *)
(* wrongly: at worst the stamp, which keeps everybody out.                 *)
LEMMA StopInv == ASSUME Inv, NEW w \in Worker, Stop(w) PROVE Inv'
<1>1. TypeOK'
  BY SpendType DEF Inv, TypeOK, Stop, Outside, Known
<1> QED BY <1>1 DEF Inv, TypeOK, Claims, OneDelivery, PaidFacts, DeliveredWasPaid, Sessions, Stop, Outside, Known

LEMMA NextInv == Inv /\ [Next]_vars => Inv'
<1> SUFFICES ASSUME Inv, [Next]_vars PROVE Inv'
  OBVIOUS
<1>1. CASE \E w \in Worker : Start(w) \/ Hook(w) \/ Page(w) \/ Poll(w) \/ Settle(w) \/ Stop(w)
  BY <1>1, StartInv, HookInv, PageInv, PollInv, SettleInv, StopInv
<1>2. CASE Provider
  BY <1>2, ProviderInv
<1>3. CASE Age
  BY <1>3 DEF Inv, TypeOK, Claims, OneDelivery, PaidFacts, DeliveredWasPaid, Sessions, Age, Outside, Known
<1>4. CASE UNCHANGED vars
  BY <1>4 DEF Inv, TypeOK, Claims, OneDelivery, PaidFacts, DeliveredWasPaid, Sessions, vars
<1> QED BY <1>1, <1>2, <1>3, <1>4 DEF Next, Quiet

LEMMA Invariance == Spec => []Inv
<1>1. Init => Inv
  BY InitInv
<1>2. Inv /\ [Next]_vars => Inv'
  BY NextInv
<1> QED BY <1>1, <1>2, PTL DEF Spec

-----------------------------------------------------------------------------
(* The row, the workers and the provider keep to their types. *)
THEOREM TypeCorrect == Spec => []TypeOK
<1>1. Inv => TypeOK
  BY DEF Inv
<1> QED BY <1>1, Invariance, PTL

(* Webhook, return page and any number of pollers deliver at most once,  *)
(* and only what has been paid for, whoever settles it.                  *)
THEOREM DeliversThePaidOnce == Spec => []PaidIsDeliveredOnce
<1>1. Inv => PaidIsDeliveredOnce
  BY DEF Inv, PaidIsDeliveredOnce
<1> QED BY <1>1, Invariance, PTL

(* A notice of payment finds its row, whenever it arrives. *)
THEOREM FindsThePaid == Spec => []PaidIsFound
<1>1. Inv => PaidIsFound
  BY DEF Inv, Sessions, PaidIsFound, Finds
<1> QED BY <1>1, Invariance, PTL

-----------------------------------------------------------------------------
(* Part 2: the credits of an enterprise. *)

(* What each step of a process remembers. *)
Noted(w) ==
  /\ doing[w] \in {"accept", "open", "decline", "refund_refused", "refund_timeout"} => job[w].request \in Request
  /\ doing[w] \in {"handle", "grant_month"} => job[w].event \in marked
  /\ doing[w] = "handle" => job[w].event.period <= period
  /\ doing[w] \in {"grant_month", "stamp"} => job[w].start \in Starts
  /\ doing[w] = "grant_month" => job[w].event.kind \in {"started", "paid"}

(* The events taken in hand that have granted nothing yet, and all of them. *)
Owes(kinds)  == {w \in Process : doing[w] \in {"handle", "grant_month"} /\ job[w].event.kind \in kinds}
Taken(kinds) == {e \in marked : e.kind \in kinds}

Accounted(reason, kinds) == journal[reason] + Cardinality(Owes(kinds)) <= Cardinality(Taken(kinds))

(* Undisturbed, one process works at a time, and finds what it read. *)
Returning(w, r) == doing[w] \in {"refund_refused", "refund_timeout"} /\ job[w].request = r

StillPending(w) ==
  /\ doing[w] \in {"accept", "decline"} => Pending(job[w].request)
  /\ doing[w] = "open" => status[job[w].request] = "accepted"
  /\ doing[w] \in {"refund_refused", "refund_timeout"} =>
       status[job[w].request] = "declined" /\ refunds[job[w].request] = 0
  /\ doing[w] = "close" => \A r \in job[w].todo : Pending(r)
  /\ doing[w] = "refund_timeout" => \A r \in Rest(w) : Pending(r)

EndsOnce(r) ==
  /\ refunds[r] # 0 => refunds[r] = 1 /\ status[r] = "declined"
  /\ r \in talking => status[r] = "accepted"
  /\ status[r] = "declined" => refunds[r] = 1 \/ \E w \in Process : Returning(w, r)
  /\ status[r] = "accepted" => r \in talking \/ \E w \in Process : doing[w] = "open" /\ job[w].request = r

ContactsOnce == (\A w \in Process : StillPending(w)) /\ \A r \in Request : EndsOnce(r)

PromoOnce ==
  /\ redeemed => journal["promo_code"] = 1
  /\ ~redeemed /\ (\A w \in Process : doing[w] # "redeem") => journal["promo_code"] = 0
  /\ \A w \in Process : /\ doing[w] = "redeem" => journal["promo_code"] = 1
                        /\ doing[w] \in {"grant_promo", "redeem"} => ~redeemed

(* The period last granted is the latest that was, and Stripe's goes on. *)
Began == [kind |-> "started", period |-> 0]

MonthsOnce ==
  /\ sub.current # None => sub.current <= period /\ Began \in marked
  /\ sub.granted # None => sub.current # None /\ sub.granted <= sub.current
  /\ \A p \in Starts :
       /\ monthly[p] <= 1
       /\ monthly[p] # 0 => \/ sub.granted # None /\ p <= sub.granted
                            \/ \E w \in Process : doing[w] = "stamp" /\ job[w].start = p
  /\ \A w \in Process :
       /\ doing[w] \in {"grant_month", "stamp"} => sub.current # None /\ job[w].start = sub.current
       /\ doing[w] = "grant_month" => sub.granted # sub.current
       /\ doing[w] = "handle" /\ job[w].event.kind = "started" => sub.current = None /\ job[w].event = Began

Undisturbed ==
  /\ \A w, x \in Busy : w = x
  /\ ContactsOnce /\ PromoOnce /\ MonthsOnce

CreditsInv ==
  /\ CreditsTypeOK /\ IsFiniteSet(marked)
  /\ \A w \in Process : Noted(w)
  /\ Accounted("purchase", {"pack"}) /\ Accounted("subscription_grant", {"started", "paid"})
  /\ ~disturbed => Undisturbed

-----------------------------------------------------------------------------
ContactSteps == {"accept", "open", "decline", "refund_refused", "close", "refund_timeout"}
PromoSteps   == {"grant_promo", "redeem"}
MonthSteps   == {"handle", "grant_month", "stamp"}

(* Of a step: w makes it, and nobody else is at work. *)
Only(w) == \A x \in Process \ {w} : doing[x] = "idle" /\ doing'[x] = "idle"

(* Of a step: w is moved on, and remembers next unless it is over. *)
Moved(w, to, next) ==
  /\ doing' \in [Process -> Steps] /\ job' \in [Process -> Jobs]
  /\ doing'[w] = to /\ job'[w] = IF to = "idle" THEN NoJob ELSE next
  /\ \A x \in Process \ {w} : doing'[x] = doing[x] /\ job'[x] = job[x]

LEMMA NoJobType == NoJob \in Jobs
BY DEF NoJob, Jobs

LEMMA MoveMoves ==
  ASSUME CreditsTypeOK, NEW w \in Process, NEW from, NEW to \in Steps, NEW next \in Jobs, Move(w, from, to, next)
  PROVE  Moved(w, to, next)
<1>1. (IF to = "idle" THEN NoJob ELSE next) \in Jobs
  BY NoJobType
<1> HIDE DEF NoJob
<1>2. doing \in [Process -> Steps] /\ job \in [Process -> Jobs]
  BY DEF CreditsTypeOK
<1> QED BY <1>1, <1>2 DEF Move, Moved

(* A process that does not move still knows what it knew. *)
LEMMA NotedStill ==
  ASSUME CreditsTypeOK, period' \in Nat, period <= period', marked \subseteq marked', NEW x \in Process, Noted(x),
         doing'[x] = doing[x], job'[x] = job[x]
  PROVE  Noted(x)'
<1>1. doing[x] = "handle" => job[x].event.period \in Nat
  BY CreditsAssumption DEF Noted, CreditsTypeOK, Event, Starts
<1>2. period \in Nat
  BY CreditsAssumption DEF CreditsTypeOK, Starts
<1> QED BY <1>1, <1>2 DEF Noted

(* What was granted stays within what was taken in hand. *)
LEMMA CountsAreNat ==
  ASSUME CreditsInv, NEW kinds
  PROVE  /\ IsFiniteSet(Owes(kinds)) /\ Cardinality(Owes(kinds)) \in Nat
         /\ IsFiniteSet(Taken(kinds)) /\ Cardinality(Taken(kinds)) \in Nat
<1>1. IsFiniteSet(Process)
  BY CreditsAssumption, FS_Union DEF Process
<1>2. IsFiniteSet(marked) /\ Owes(kinds) \subseteq Process /\ Taken(kinds) \subseteq marked
  BY DEF CreditsInv, Owes, Taken
<1> QED BY <1>1, <1>2, FS_Subset, FS_CardinalityType

LEMMA AccountStays ==
  ASSUME CreditsInv, NEW reason \in Reason, NEW kinds, Accounted(reason, kinds),
         journal'[reason] = journal[reason], Owes(kinds)' \subseteq Owes(kinds), marked' = marked
  PROVE  Accounted(reason, kinds)'
<1>1. Taken(kinds)' = Taken(kinds)
  BY DEF Taken
<1>2. Cardinality(Owes(kinds)') \in Nat /\ Cardinality(Owes(kinds)') <= Cardinality(Owes(kinds))
  BY CountsAreNat, FS_Subset, FS_CardinalityType
<1>3. Cardinality(Owes(kinds)) \in Nat /\ Cardinality(Taken(kinds)) \in Nat /\ journal[reason] \in Nat
  BY CountsAreNat DEF CreditsInv, CreditsTypeOK
<1> QED BY <1>1, <1>2, <1>3 DEF Accounted

LEMMA AccountGrants ==
  ASSUME CreditsInv, NEW reason \in Reason, NEW kinds, Accounted(reason, kinds),
         NEW w \in Process, w \in Owes(kinds), Owes(kinds)' \subseteq Owes(kinds) \ {w},
         journal'[reason] = journal[reason] + 1, marked' = marked
  PROVE  Accounted(reason, kinds)'
<1>1. Taken(kinds)' = Taken(kinds)
  BY DEF Taken
<1>2. Cardinality(Owes(kinds) \ {w}) = Cardinality(Owes(kinds)) - 1 /\ IsFiniteSet(Owes(kinds) \ {w})
  BY CountsAreNat, FS_RemoveElement
<1>3. Cardinality(Owes(kinds)') \in Nat /\ Cardinality(Owes(kinds)') <= Cardinality(Owes(kinds) \ {w})
  BY <1>2, FS_Subset, FS_CardinalityType
<1>4. Cardinality(Owes(kinds)) \in Nat /\ Cardinality(Taken(kinds)) \in Nat /\ journal[reason] \in Nat
  BY CountsAreNat DEF CreditsInv, CreditsTypeOK
<1> QED BY <1>1, <1>2, <1>3, <1>4 DEF Accounted

LEMMA OneMore ==
  ASSUME NEW A, IsFiniteSet(A), NEW w
  PROVE  IsFiniteSet(A \cup {w}) /\ Cardinality(A \cup {w}) \in Nat /\ Cardinality(A \cup {w}) <= Cardinality(A) + 1
<1>1. Cardinality(A) \in Nat
  BY FS_CardinalityType
<1>2. CASE w \in A
  <2>1. A \cup {w} = A
    BY <1>2
  <2>2. Cardinality(A) <= Cardinality(A) + 1
    BY <1>1
  <2> QED BY <1>1, <2>1, <2>2
<1>3. CASE w \notin A
  <2>1. IsFiniteSet(A \cup {w}) /\ Cardinality(A \cup {w}) = Cardinality(A) + 1
    BY <1>3, FS_AddElement
  <2> QED BY <1>1, <2>1
<1> QED BY <1>2, <1>3

LEMMA AccountTakes ==
  ASSUME CreditsInv, NEW reason \in Reason, NEW kinds, Accounted(reason, kinds),
         journal'[reason] = journal[reason], NEW e, e \notin marked, marked' = marked \cup {e},
         NEW w \in Process, e.kind \notin kinds => Owes(kinds)' \subseteq Owes(kinds),
         Owes(kinds)' \subseteq Owes(kinds) \cup {w}
  PROVE  Accounted(reason, kinds)'
<1> DEFINE A == Owes(kinds)
           B == Taken(kinds)
           A1 == Owes(kinds)'
           B1 == Taken(kinds)'
<1>1. /\ IsFiniteSet(A) /\ IsFiniteSet(B) /\ Cardinality(A) \in Nat /\ Cardinality(B) \in Nat
      /\ journal[reason] \in Nat /\ journal[reason] + Cardinality(A) <= Cardinality(B)
  BY CountsAreNat DEF CreditsInv, CreditsTypeOK, Accounted
<1>2. CASE e.kind \notin kinds
  <2>1. B1 = B /\ A1 \subseteq A
    BY <1>2 DEF Taken
  <2>2. Cardinality(A1) \in Nat /\ Cardinality(A1) <= Cardinality(A)
    BY <1>1, <2>1, FS_Subset, FS_CardinalityType
  <2>3. journal'[reason] + Cardinality(A1) <= Cardinality(B1)
    <3> HIDE DEF A, B, A1, B1
    <3> QED BY <1>1, <2>1, <2>2
  <2> QED BY <2>3 DEF Accounted
<1>3. CASE e.kind \in kinds
  <2>1. B1 = B \cup {e} /\ e \notin B /\ A1 \subseteq A \cup {w}
    BY <1>3 DEF Taken
  <2>2. Cardinality(B1) = Cardinality(B) + 1
    BY <1>1, <2>1, FS_AddElement
  <2>3. IsFiniteSet(A \cup {w}) /\ Cardinality(A \cup {w}) \in Nat /\ Cardinality(A \cup {w}) <= Cardinality(A) + 1
    BY <1>1, OneMore
  <2>4. Cardinality(A1) \in Nat /\ Cardinality(A1) <= Cardinality(A \cup {w})
    BY <2>1, <2>3, FS_Subset, FS_CardinalityType
  <2>5. journal'[reason] + Cardinality(A1) <= Cardinality(B1)
    <3> HIDE DEF A, B, A1, B1
    <3> QED BY <1>1, <2>2, <2>3, <2>4
  <2> QED BY <2>5 DEF Accounted
<1> QED BY <1>2, <1>3

-----------------------------------------------------------------------------
(* What the tables hold, whoever is at work. *)
TablesType ==
  /\ balance \in Nat /\ journal \in [Reason -> Nat]
  /\ status \in [Request -> {"none", "pending", "accepted", "declined"}]
  /\ stale \subseteq Request /\ refunds \in [Request -> Nat] /\ talking \subseteq Request
  /\ redeemed \in BOOLEAN
  /\ period \in Starts
  /\ sub \in [current : Starts \cup {None}, granted : Starts \cup {None}]
  /\ dawn \in Starts /\ monthly \in [Starts -> Nat]
  /\ marked \subseteq Event /\ IsFiniteSet(marked)

LEMMA StepFacts ==
  ASSUME CreditsInv, NEW w \in Process, NEW from, NEW to \in Steps, NEW next \in Jobs, StepWith(w, from, to, next)
  PROVE  /\ Moved(w, to, next) /\ doing[w] = from
         /\ disturbed' \in BOOLEAN /\ stops' \in 0 .. MaxCuts
         /\ ~disturbed' => ~disturbed /\ Undisturbed /\ Only(w)
<1>1. Moved(w, to, next) /\ doing[w] = from
  BY MoveMoves DEF StepWith, Move, CreditsInv
<1>2. disturbed' \in BOOLEAN /\ stops' \in 0 .. MaxCuts
  BY DEF StepWith, CreditsInv, CreditsTypeOK
<1>3. ASSUME ~disturbed' PROVE ~disturbed /\ Undisturbed /\ Only(w)
  <2>1. ~disturbed /\ Busy \ {w} = {}
    BY <1>3 DEF StepWith
  <2> QED BY <1>1, <2>1 DEF CreditsInv, Only, Moved, Busy
<1> QED BY <1>1, <1>2, <1>3

LEMMA StepKeepsCredits ==
  ASSUME CreditsInv, NEW w \in Process, NEW to, NEW next, Moved(w, to, next),
         disturbed' \in BOOLEAN, stops' \in 0 .. MaxCuts, TablesType', period' = period, marked \subseteq marked',
         Noted(w)', Accounted("purchase", {"pack"})', Accounted("subscription_grant", {"started", "paid"})',
         ~disturbed' => Only(w) /\ ContactsOnce' /\ PromoOnce' /\ MonthsOnce'
  PROVE  CreditsInv'
<1>1. CreditsTypeOK' /\ IsFiniteSet(marked)'
  BY DEF CreditsTypeOK, TablesType, Moved
<1>2. ASSUME NEW x \in Process PROVE Noted(x)'
  <2>1. CASE x = w
    BY <2>1
  <2>2. CASE x # w
    <3>1. period' \in Nat /\ period <= period'
      BY CreditsAssumption DEF TablesType, Starts
    <3>2. doing'[x] = doing[x] /\ job'[x] = job[x] /\ Noted(x) /\ CreditsTypeOK
      BY <2>2 DEF Moved, CreditsInv
    <3> QED BY <3>1, <3>2, NotedStill
  <2> QED BY <2>1, <2>2
<1>3. ~disturbed' => \A x, y \in Busy' : x = y
  BY DEF Only, Busy
<1> QED BY <1>1, <1>2, <1>3 DEF CreditsInv, Undisturbed

LEMMA OwesStay ==
  ASSUME NEW w \in Process, NEW to, NEW next, Moved(w, to, next), to \notin {"handle", "grant_month"}, NEW kinds
  PROVE  Owes(kinds)' \subseteq Owes(kinds) \ {w}
BY DEF Owes, Moved

LEMMA AccountsStay ==
  ASSUME CreditsInv, NEW w \in Process, NEW to, NEW next, Moved(w, to, next), to \notin {"handle", "grant_month"},
         marked' = marked, \A reason \in {"purchase", "subscription_grant"} : journal'[reason] = journal[reason]
  PROVE  Accounted("purchase", {"pack"})' /\ Accounted("subscription_grant", {"started", "paid"})'
<1>1. \A kinds : Owes(kinds)' \subseteq Owes(kinds)
  BY OwesStay
<1>2. {"purchase", "subscription_grant"} \subseteq Reason
  BY DEF Reason
<1>3. Accounted("purchase", {"pack"}) /\ Accounted("subscription_grant", {"started", "paid"})
  BY DEF CreditsInv
<1> QED BY <1>1, <1>2, <1>3, AccountStays

-----------------------------------------------------------------------------
(* What a step of w leaves alone stays as it was. *)
LEMMA ContactsStill ==
  ASSUME ContactsOnce, NEW w \in Process, Only(w), UNCHANGED <<status, refunds, talking>>,
         doing[w] \notin ContactSteps, doing'[w] \notin ContactSteps
  PROVE  ContactsOnce'
<1>1. \A x \in Process : doing[x] \notin ContactSteps /\ doing'[x] \notin ContactSteps
  BY DEF Only, ContactSteps
<1>2. \A x \in Process : StillPending(x)'
  BY <1>1 DEF StillPending, ContactSteps
<1>3. ASSUME NEW r \in Request PROVE EndsOnce(r)'
  BY <1>1 DEF ContactsOnce, EndsOnce, Returning, ContactSteps
<1> QED BY <1>2, <1>3 DEF ContactsOnce

LEMMA PromoStill ==
  ASSUME PromoOnce, NEW w \in Process, Only(w), redeemed' = redeemed,
         journal'["promo_code"] = journal["promo_code"],
         doing[w] \notin PromoSteps, doing'[w] \notin PromoSteps
  PROVE  PromoOnce'
<1>1. \A x \in Process : doing[x] \notin PromoSteps /\ doing'[x] \notin PromoSteps
  BY DEF Only, PromoSteps
<1> QED BY <1>1 DEF PromoOnce, PromoSteps

LEMMA MonthsStill ==
  ASSUME MonthsOnce, NEW w \in Process, Only(w), UNCHANGED <<sub, monthly, period>>, marked \subseteq marked',
         doing[w] \notin {"grant_month", "stamp"}, doing'[w] \notin MonthSteps
  PROVE  MonthsOnce'
<1>1. \A x \in Process : doing[x] \notin {"grant_month", "stamp"} /\ doing'[x] \notin MonthSteps
  BY DEF Only, MonthSteps
<1> QED BY <1>1 DEF MonthsOnce, MonthSteps

-----------------------------------------------------------------------------
LEMMA NextJobTypes ==
  ASSUME CreditsTypeOK, NEW w \in Process
  PROVE  /\ job[w] \in Jobs
         /\ \A r \in Request : [NoJob EXCEPT !.request = r] \in Jobs /\ [job[w] EXCEPT !.request = r] \in Jobs
         /\ \A todo \in SUBSET Request : [NoJob EXCEPT !.todo = todo] \in Jobs
         /\ \A e \in Event : [NoJob EXCEPT !.event = e] \in Jobs
         /\ \A p \in Starts \cup {None} : [job[w] EXCEPT !.start = p] \in Jobs
         /\ NextLapsed(w) \in Jobs
<1>1. job[w] \in Jobs
  BY DEF CreditsTypeOK
<1>2. NextLapsed(w) \in Jobs
  BY <1>1 DEF NextLapsed, Rest, NoJob, Jobs
<1> QED BY <1>1, <1>2 DEF NoJob, Jobs

LEMMA TablesNow == CreditsInv => TablesType
BY DEF CreditsInv, CreditsTypeOK, TablesType

(* Steps that only read, and go on where nothing but the contact is.       *)
LEMMA CreditReadsInv ==
  ASSUME CreditsInv, NEW w \in Process,
         \/ AskContact(w) \/ SendRefused(w) \/ AskPromo(w) \/ Sweep(w)
         \/ \E r \in Request, to \in {"accept", "decline"} : FindPending(w, r, to)
  PROVE  CreditsInv'
<1>1. UNCHANGED <<balance, journal, status, stale, refunds, talking, redeemed, period, sub, dawn, monthly, marked>>
  BY DEF AskContact, SendRefused, AskPromo, Sweep, FindPending, accountVars, contactVars, stripeVars
<1>2. TablesType'
  BY <1>1, TablesNow DEF TablesType
<1>3. PICK from \in {"idle", "send"}, to \in {"send", "idle", "grant_promo", "close", "accept", "decline"}, next \in Jobs :
        /\ StepWith(w, from, to, next)
        /\ to = "grant_promo" => ~redeemed
        /\ to \in {"accept", "decline"} => next.request \in Request /\ Pending(next.request)
        /\ to = "close" => \A r \in next.todo : Pending(r)
  <2> DEFINE Goes(from, to, next) ==
        /\ StepWith(w, from, to, next)
        /\ to = "grant_promo" => ~redeemed
        /\ to \in {"accept", "decline"} => next.request \in Request /\ Pending(next.request)
        /\ to = "close" => \A r \in next.todo : Pending(r)
  <2>1. CreditsTypeOK /\ job[w] \in Jobs
    BY NextJobTypes DEF CreditsInv
  <2>2. CASE AskContact(w)
    <3>1. Goes("idle", "send", job[w])
      BY <2>2 DEF AskContact, Step
    <3> QED BY <2>1, <3>1
  <2>3. CASE SendRefused(w)
    <3>1. Goes("send", "idle", job[w])
      BY <2>3 DEF SendRefused, Step
    <3> QED BY <2>1, <3>1
  <2>4. CASE AskPromo(w)
    <3>1. Goes("idle", "grant_promo", job[w])
      BY <2>4 DEF AskPromo, Step
    <3> QED BY <2>1, <3>1
  <2>5. CASE Sweep(w)
    <3>1. [NoJob EXCEPT !.todo = Lapsed] \in Jobs
      BY <2>1, NextJobTypes DEF Lapsed
    <3>2. Goes("idle", "close", [NoJob EXCEPT !.todo = Lapsed])
      BY <2>5 DEF Sweep, Lapsed, NoJob
    <3> QED BY <3>1, <3>2
  <2>6. CASE \E r \in Request, to \in {"accept", "decline"} : FindPending(w, r, to)
    <3>1. PICK r \in Request, to \in {"accept", "decline"} : FindPending(w, r, to)
      BY <2>6
    <3>2. [NoJob EXCEPT !.request = r] \in Jobs
      BY <2>1, NextJobTypes
    <3>3. Goes("idle", to, [NoJob EXCEPT !.request = r])
      BY <3>1 DEF FindPending, NoJob
    <3> QED BY <3>2, <3>3
  <2> QED BY <2>2, <2>3, <2>4, <2>5, <2>6
<1>4. /\ Moved(w, to, next) /\ doing[w] = from
      /\ disturbed' \in BOOLEAN /\ stops' \in 0 .. MaxCuts
      /\ ~disturbed' => ~disturbed /\ Undisturbed /\ Only(w)
  <2>1. to \in Steps
    BY DEF Steps
  <2> QED BY <1>3, <2>1, StepFacts
<1>5. Noted(w)'
  BY <1>3, <1>4 DEF Noted, Moved
<1>6. Accounted("purchase", {"pack"})' /\ Accounted("subscription_grant", {"started", "paid"})'
  BY <1>1, <1>4, AccountsStay
<1>7. ASSUME ~disturbed' PROVE Only(w) /\ ContactsOnce' /\ PromoOnce' /\ MonthsOnce'
  <2>1. Only(w) /\ ContactsOnce /\ PromoOnce /\ MonthsOnce
    BY <1>4, <1>7 DEF Undisturbed
  <2>2. MonthsOnce'
    BY <1>1, <1>4, <2>1, MonthsStill DEF MonthSteps, Moved
  <2>3. PromoOnce'
    <3>1. CASE to # "grant_promo"
      BY <1>1, <1>4, <2>1, <3>1, PromoStill DEF PromoSteps, Moved
    <3>2. CASE to = "grant_promo"
      BY <1>1, <1>3, <1>4, <2>1, <3>2 DEF PromoOnce, Only, Moved
    <3> QED BY <3>1, <3>2
  <2>4. ContactsOnce'
    <3>1. \A x \in Process : x # w => doing'[x] = "idle" /\ doing[x] = "idle"
      BY <2>1 DEF Only
    <3>2. \A x \in Process : doing[x] \notin ContactSteps
      BY <1>4, <3>1 DEF ContactSteps
    <3>3. \A x \in Process : StillPending(x)'
      BY <1>1, <1>3, <1>4, <3>1 DEF StillPending, Moved, Pending
    <3>4. ASSUME NEW r \in Request PROVE EndsOnce(r)'
      BY <1>1, <2>1, <3>2 DEF ContactsOnce, EndsOnce, Returning, ContactSteps
    <3> QED BY <3>3, <3>4 DEF ContactsOnce
  <2> QED BY <2>1, <2>2, <2>3, <2>4
<1> QED BY <1>1, <1>2, <1>4, <1>5, <1>6, <1>7, StepKeepsCredits

-----------------------------------------------------------------------------
(* The steps that write to a contact, and to what it cost.                 *)
LEMMA ContactStepInv ==
  ASSUME CreditsInv, NEW w \in Process, NEW from \in {"send"} \cup ContactSteps, NEW to \in {"idle"} \cup ContactSteps,
         NEW next \in Jobs, StepWith(w, from, to, next),
         UNCHANGED <<redeemed, period, sub, dawn, monthly, marked>>,
         balance' \in Nat, journal' \in [Reason -> Nat],
         \A reason \in {"purchase", "subscription_grant", "promo_code"} : journal'[reason] = journal[reason],
         status' \in [Request -> {"none", "pending", "accepted", "declined"}], stale' \subseteq Request,
         refunds' \in [Request -> Nat], talking' \subseteq Request,
         to \in {"open", "refund_refused", "refund_timeout"} => next.request \in Request,
         to \notin {"accept", "decline"},
         Undisturbed /\ Only(w) => ContactsOnce'
  PROVE  CreditsInv'
<1>1. /\ Moved(w, to, next) /\ doing[w] = from
      /\ disturbed' \in BOOLEAN /\ stops' \in 0 .. MaxCuts
      /\ ~disturbed' => ~disturbed /\ Undisturbed /\ Only(w)
  <2>1. to \in Steps
    BY DEF Steps, ContactSteps
  <2> QED BY <2>1, StepFacts
<1>2. TablesType'
  BY TablesNow DEF TablesType
<1>3. Noted(w)'
  BY <1>1 DEF Noted, Moved, ContactSteps
<1>4. Accounted("purchase", {"pack"})' /\ Accounted("subscription_grant", {"started", "paid"})'
  BY <1>1, AccountsStay DEF ContactSteps
<1>5. ASSUME ~disturbed' PROVE Only(w) /\ ContactsOnce' /\ PromoOnce' /\ MonthsOnce'
  <2>1. Only(w) /\ Undisturbed /\ PromoOnce /\ MonthsOnce
    BY <1>1, <1>5 DEF Undisturbed
  <2>2. MonthsOnce'
    BY <1>1, <2>1, MonthsStill DEF MonthSteps, Moved, ContactSteps
  <2>3. PromoOnce'
    BY <1>1, <2>1, PromoStill DEF PromoSteps, Moved, ContactSteps
  <2> QED BY <2>1, <2>2, <2>3
<1> QED BY <1>1, <1>2, <1>3, <1>4, <1>5, StepKeepsCredits

LEMMA SendContactInv ==
  ASSUME CreditsInv, NEW w \in Process, NEW r \in Request, SendContact(w, r) PROVE CreditsInv'
<1>1. /\ StepWith(w, "send", "idle", job[w]) /\ status[r] = "none" /\ balance >= Contact
      /\ balance' = balance - Contact
      /\ journal' = [journal EXCEPT !["spend_interest_request"] = @ + 1]
      /\ status'  = [status EXCEPT ![r] = "pending"]
      /\ UNCHANGED <<stale, refunds, talking, redeemed, period, sub, dawn, monthly, marked>>
  BY DEF SendContact, Insertable, Step, stripeVars
<1>2. /\ job[w] \in Jobs /\ balance \in Nat /\ journal \in [Reason -> Nat]
      /\ status \in [Request -> {"none", "pending", "accepted", "declined"}] /\ stale \subseteq Request
      /\ refunds \in [Request -> Nat] /\ talking \subseteq Request
  BY NextJobTypes DEF CreditsInv, CreditsTypeOK
<1>3. balance' \in Nat
  BY <1>1, <1>2 DEF Contact
<1>4. /\ journal' \in [Reason -> Nat]
      /\ \A reason \in {"purchase", "subscription_grant", "promo_code"} : journal'[reason] = journal[reason]
  BY <1>1, <1>2 DEF Reason
<1>5. /\ status' \in [Request -> {"none", "pending", "accepted", "declined"}]
      /\ status'[r] = "pending" /\ \A q \in Request \ {r} : status'[q] = status[q]
  BY <1>1, <1>2
<1>6. ASSUME Undisturbed, Only(w) PROVE ContactsOnce'
  <2>1. Moved(w, "idle", job[w])
    BY <1>1, <1>2, StepFacts DEF Steps
  <2>2. \A x \in Process : doing'[x] = "idle" /\ doing[x] \notin ContactSteps
    BY <1>1, <1>6, <2>1 DEF Only, Moved, StepWith, Move, ContactSteps
  <2>3. \A x \in Process : StillPending(x)'
    BY <2>2 DEF StillPending
  <2>4. \A q \in Request : EndsOnce(q)
    BY <1>6 DEF Undisturbed, ContactsOnce
  <2>5. ASSUME NEW q \in Request PROVE EndsOnce(q)'
    BY <1>1, <1>5, <2>2, <2>4 DEF EndsOnce, Returning, ContactSteps
  <2> QED BY <2>3, <2>5 DEF ContactsOnce
<1> QED BY <1>1, <1>2, <1>3, <1>4, <1>5, <1>6, ContactStepInv

LEMMA AcceptInv == ASSUME CreditsInv, NEW w \in Process, Accept(w) PROVE CreditsInv'
<1> PICK q : q = job[w].request
  OBVIOUS
<1>1. /\ StepWith(w, "accept", "open", job[w]) /\ doing[w] = "accept"
      /\ status' = [status EXCEPT ![q] = "accepted"] /\ stale' = stale \ {q}
      /\ UNCHANGED <<balance, journal, refunds, talking, redeemed, period, sub, dawn, monthly, marked>>
  BY DEF Accept, Reply, Step, StepWith, Move, stripeVars, accountVars
<1>2. /\ job[w] \in Jobs /\ q \in Request /\ balance \in Nat /\ journal \in [Reason -> Nat]
      /\ status \in [Request -> {"none", "pending", "accepted", "declined"}] /\ stale \subseteq Request
      /\ refunds \in [Request -> Nat] /\ talking \subseteq Request
  BY <1>1, NextJobTypes DEF CreditsInv, CreditsTypeOK, Noted
<1>3. /\ status' \in [Request -> {"none", "pending", "accepted", "declined"}]
      /\ status'[q] = "accepted" /\ \A r \in Request \ {q} : status'[r] = status[r]
  BY <1>1, <1>2
<1>4. ASSUME Undisturbed, Only(w) PROVE ContactsOnce'
  <2>1. Moved(w, "open", job[w])
    BY <1>1, <1>2, StepFacts DEF Steps
  <2>2. /\ doing'[w] = "open" /\ job'[w].request = q
        /\ \A x \in Process \ {w} : doing'[x] = "idle" /\ doing[x] = "idle"
    BY <1>4, <2>1 DEF Only, Moved
  <2>3. status[q] = "pending"
    BY <1>1, <1>4 DEF Undisturbed, ContactsOnce, StillPending, Pending
  <2>4. \A x \in Process : StillPending(x)'
    BY <1>3, <2>2 DEF StillPending
  <2>5. \A r \in Request : EndsOnce(r)
    BY <1>4 DEF Undisturbed, ContactsOnce
  <2>6. \A x \in Process : doing[x] \in {"idle", "accept"}
    BY <1>1, <2>2
  <2>7. ASSUME NEW r \in Request PROVE EndsOnce(r)'
    BY <1>1, <1>3, <2>2, <2>3, <2>5, <2>6 DEF EndsOnce, Returning
  <2> QED BY <2>4, <2>7 DEF ContactsOnce
<1> QED BY <1>1, <1>2, <1>3, <1>4, ContactStepInv DEF ContactSteps

LEMMA OpenInv == ASSUME CreditsInv, NEW w \in Process, Open(w) PROVE CreditsInv'
<1> PICK q : q = job[w].request
  OBVIOUS
<1>1. /\ StepWith(w, "open", "idle", job[w]) /\ doing[w] = "open" /\ talking' = talking \cup {q}
      /\ UNCHANGED <<balance, journal, status, stale, refunds, redeemed, period, sub, dawn, monthly, marked>>
  BY DEF Open, Step, StepWith, Move, stripeVars, accountVars
<1>2. /\ job[w] \in Jobs /\ q \in Request /\ balance \in Nat /\ journal \in [Reason -> Nat]
      /\ status \in [Request -> {"none", "pending", "accepted", "declined"}] /\ stale \subseteq Request
      /\ refunds \in [Request -> Nat] /\ talking \subseteq Request
  BY <1>1, NextJobTypes DEF CreditsInv, CreditsTypeOK, Noted
<1>3. ASSUME Undisturbed, Only(w) PROVE ContactsOnce'
  <2>1. Moved(w, "idle", job[w])
    BY <1>1, <1>2, StepFacts DEF Steps
  <2>2. doing'[w] = "idle" /\ \A x \in Process \ {w} : doing'[x] = "idle" /\ doing[x] = "idle"
    BY <1>3, <2>1 DEF Only, Moved
  <2>3. status[q] = "accepted"
    BY <1>1, <1>3 DEF Undisturbed, ContactsOnce, StillPending
  <2>4. \A x \in Process : StillPending(x)'
    BY <2>2 DEF StillPending
  <2>5. \A r \in Request : EndsOnce(r)
    BY <1>3 DEF Undisturbed, ContactsOnce
  <2>6. \A x \in Process : doing[x] \in {"idle", "open"} /\ (doing[x] = "open" => x = w)
    BY <1>1, <2>2
  <2>7. ASSUME NEW r \in Request PROVE EndsOnce(r)'
    BY <1>1, <2>2, <2>3, <2>5, <2>6 DEF EndsOnce, Returning
  <2> QED BY <2>4, <2>7 DEF ContactsOnce
<1> QED BY <1>1, <1>2, <1>3, ContactStepInv DEF ContactSteps

LEMMA DeclineInv == ASSUME CreditsInv, NEW w \in Process, Decline(w) PROVE CreditsInv'
<1> PICK q : q = job[w].request
  OBVIOUS
<1>1. /\ StepWith(w, "decline", "refund_refused", job[w]) /\ doing[w] = "decline"
      /\ status' = [status EXCEPT ![q] = "declined"] /\ stale' = stale \ {q}
      /\ UNCHANGED <<balance, journal, refunds, talking, redeemed, period, sub, dawn, monthly, marked>>
  BY DEF Decline, Reply, Step, StepWith, Move, stripeVars, accountVars
<1>2. /\ job[w] \in Jobs /\ q \in Request /\ balance \in Nat /\ journal \in [Reason -> Nat]
      /\ status \in [Request -> {"none", "pending", "accepted", "declined"}] /\ stale \subseteq Request
      /\ refunds \in [Request -> Nat] /\ talking \subseteq Request
  BY <1>1, NextJobTypes DEF CreditsInv, CreditsTypeOK, Noted
<1>3. /\ status' \in [Request -> {"none", "pending", "accepted", "declined"}]
      /\ status'[q] = "declined" /\ \A r \in Request \ {q} : status'[r] = status[r]
  BY <1>1, <1>2
<1>4. ASSUME Undisturbed, Only(w) PROVE ContactsOnce'
  <2>1. Moved(w, "refund_refused", job[w])
    BY <1>1, <1>2, StepFacts DEF Steps
  <2>2. /\ doing'[w] = "refund_refused" /\ job'[w].request = q
        /\ \A x \in Process \ {w} : doing'[x] = "idle" /\ doing[x] = "idle"
    BY <1>4, <2>1 DEF Only, Moved
  <2>3. status[q] = "pending"
    BY <1>1, <1>4 DEF Undisturbed, ContactsOnce, StillPending, Pending
  <2>4. \A r \in Request : EndsOnce(r)
    BY <1>4 DEF Undisturbed, ContactsOnce
  <2>5. refunds[q] = 0 /\ q \notin talking
    BY <1>2, <2>3, <2>4 DEF EndsOnce
  <2>6. \A x \in Process : StillPending(x)'
    BY <1>1, <1>3, <2>2, <2>5 DEF StillPending
  <2>7. \A x \in Process : doing[x] \in {"idle", "decline"}
    BY <1>1, <2>2
  <2>8. ASSUME NEW r \in Request PROVE EndsOnce(r)'
    BY <1>1, <1>3, <2>2, <2>3, <2>4, <2>5, <2>7 DEF EndsOnce, Returning
  <2> QED BY <2>6, <2>8 DEF ContactsOnce
<1> QED BY <1>1, <1>2, <1>3, <1>4, ContactStepInv DEF ContactSteps

(* The sweep declines one request, or finds it answered. *)
LEMMA CloseInv == ASSUME CreditsInv, NEW w \in Process, NEW q \in Request, Close(w, q) PROVE CreditsInv'
<1> PICK next : next = [job[w] EXCEPT !.request = q]
  OBVIOUS
<1>1. /\ StepWith(w, "close", "refund_timeout", next) /\ doing[w] = "close" /\ q \in job[w].todo
      /\ \/ Pending(q) /\ status' = [status EXCEPT ![q] = "declined"] /\ stale' = stale \ {q}
         \/ ~Pending(q) /\ UNCHANGED <<status, stale>>
      /\ UNCHANGED <<balance, journal, refunds, talking, redeemed, period, sub, dawn, monthly, marked>>
  BY DEF Close, Reply, StepWith, Move, stripeVars, accountVars
<1>2. /\ next \in Jobs /\ next.request = q /\ next.todo = job[w].todo
      /\ balance \in Nat /\ journal \in [Reason -> Nat]
      /\ status \in [Request -> {"none", "pending", "accepted", "declined"}] /\ stale \subseteq Request
      /\ refunds \in [Request -> Nat] /\ talking \subseteq Request
  <2>1. CreditsTypeOK /\ job[w] \in Jobs /\ next \in Jobs
    BY NextJobTypes DEF CreditsInv
  <2>2. next.request = q /\ next.todo = job[w].todo
    BY <2>1 DEF Jobs
  <2> QED BY <2>1, <2>2 DEF CreditsTypeOK
<1>3. status' \in [Request -> {"none", "pending", "accepted", "declined"}] /\ stale' \subseteq Request
  BY <1>1, <1>2
<1>4. ASSUME Undisturbed, Only(w) PROVE ContactsOnce'
  <2>1. Moved(w, "refund_timeout", next)
    BY <1>1, <1>2, StepFacts DEF Steps
  <2>2. /\ doing'[w] = "refund_timeout" /\ job'[w] = next
        /\ \A x \in Process \ {w} : doing'[x] = "idle" /\ doing[x] = "idle"
    BY <1>4, <2>1 DEF Only, Moved
  <2>3. \A r \in job[w].todo : status[r] = "pending"
    BY <1>1, <1>4 DEF Undisturbed, ContactsOnce, StillPending, Pending
  <2>4. status'[q] = "declined" /\ \A r \in Request \ {q} : status'[r] = status[r]
    BY <1>1, <1>2, <2>3 DEF Pending
  <2>5. \A r \in Request : EndsOnce(r)
    BY <1>4 DEF Undisturbed, ContactsOnce
  <2>6. status[q] = "pending" /\ refunds[q] = 0 /\ q \notin talking
    BY <1>1, <1>2, <2>3, <2>5 DEF EndsOnce
  <2>7. \A r \in Rest(w)' : r \in job[w].todo /\ r # q /\ r \in Request
    BY <1>1, <1>2, <2>2 DEF Rest, Jobs
  <2>8. \A r \in Rest(w)' : Pending(r)'
    BY <2>3, <2>4, <2>7 DEF Pending
  <2>9. ASSUME NEW x \in Process PROVE StillPending(x)'
    <3>1. CASE x = w
      BY <1>1, <1>2, <2>2, <2>4, <2>6, <2>8, <3>1 DEF StillPending
    <3>2. CASE x # w
      BY <2>2, <3>2 DEF StillPending
    <3> QED BY <3>1, <3>2
  <2>10. \A x \in Process : doing[x] \in {"idle", "close"}
    BY <1>1, <2>2
  <2>11. ASSUME NEW r \in Request PROVE EndsOnce(r)'
    <3>1. refunds'[r] = refunds[r] /\ talking' = talking
      BY <1>1
    <3>2. CASE r = q
      <4>1. Returning(w, q)'
        BY <1>2, <2>2 DEF Returning
      <4> QED BY <2>4, <2>6, <3>1, <3>2, <4>1 DEF EndsOnce
    <3>3. CASE r # q
      <4>1. \A x \in Process : ~Returning(x, r) /\ doing[x] # "open"
        BY <2>10 DEF Returning
      <4> QED BY <2>4, <2>5, <3>1, <3>3, <4>1 DEF EndsOnce
    <3> QED BY <3>2, <3>3
  <2> QED BY <2>9, <2>11 DEF ContactsOnce
<1>5. /\ UNCHANGED <<redeemed, period, sub, dawn, monthly, marked>>
      /\ balance' \in Nat /\ journal' \in [Reason -> Nat] /\ refunds' \in [Request -> Nat] /\ talking' \subseteq Request
      /\ \A reason \in {"purchase", "subscription_grant", "promo_code"} : journal'[reason] = journal[reason]
  BY <1>1, <1>2
<1>6. StepWith(w, "close", "refund_timeout", next) /\ next \in Jobs /\ next.request \in Request
  BY <1>1, <1>2
<1>7. /\ "close" \in {"send"} \cup ContactSteps /\ "refund_timeout" \in {"idle"} \cup ContactSteps
      /\ "refund_timeout" \notin {"accept", "decline"}
  BY DEF ContactSteps
<1> QED BY <1>3, <1>4, <1>5, <1>6, <1>7, ContactStepInv

(* Half a credit is given back, whatever the request goes on to. *)
LEMMA GiveBackInv ==
  ASSUME CreditsInv, NEW w \in Process, NEW from \in {"refund_refused", "refund_timeout"}, NEW to \in {"idle", "close"},
         NEW next \in Jobs, NEW reason \in {"refund_refused", "refund_timeout"},
         StepWith(w, from, to, next), GiveBack(job[w].request, reason),
         UNCHANGED <<status, stale, talking, redeemed, period, sub, dawn, monthly, marked>>,
         to = "close" => from = "refund_timeout" /\ next.todo = Rest(w)
  PROVE  CreditsInv'
<1> PICK q : q = job[w].request
  OBVIOUS
<1>1. /\ doing[w] = from /\ balance' = balance + Refund
      /\ journal' = [journal EXCEPT ![reason] = @ + 1] /\ refunds' = [refunds EXCEPT ![q] = @ + 1]
  BY DEF GiveBack, Grant, StepWith, Move
<1>2. /\ q \in Request /\ balance \in Nat /\ journal \in [Reason -> Nat]
      /\ status \in [Request -> {"none", "pending", "accepted", "declined"}] /\ stale \subseteq Request
      /\ refunds \in [Request -> Nat] /\ talking \subseteq Request
  BY <1>1 DEF CreditsInv, CreditsTypeOK, Noted
<1>3. balance' \in Nat
  BY <1>1, <1>2 DEF Refund
<1>4. /\ journal' \in [Reason -> Nat]
      /\ \A other \in {"purchase", "subscription_grant", "promo_code"} : journal'[other] = journal[other]
  BY <1>1, <1>2 DEF Reason
<1>5. refunds' \in [Request -> Nat] /\ refunds'[q] = refunds[q] + 1 /\ \A r \in Request \ {q} : refunds'[r] = refunds[r]
  BY <1>1, <1>2
<1>6. ASSUME Undisturbed, Only(w) PROVE ContactsOnce'
  <2>1. Moved(w, to, next)
    BY StepFacts DEF Steps
  <2>2. /\ doing'[w] = to /\ (to = "close" => job'[w] = next)
        /\ \A x \in Process \ {w} : doing'[x] = "idle" /\ doing[x] = "idle"
    BY <1>6, <2>1 DEF Only, Moved
  <2>3. /\ status[q] = "declined" /\ refunds[q] = 0
        /\ from = "refund_timeout" => \A r \in Rest(w) : Pending(r)
    BY <1>1, <1>6 DEF Undisturbed, ContactsOnce, StillPending
  <2>4. \A r \in Request : EndsOnce(r)
    BY <1>6 DEF Undisturbed, ContactsOnce
  <2>5. ASSUME NEW x \in Process PROVE StillPending(x)'
    <3>1. CASE x = w
      BY <2>2, <2>3, <3>1 DEF StillPending, Pending
    <3>2. CASE x # w
      BY <2>2, <3>2 DEF StillPending
    <3> QED BY <3>1, <3>2
  <2>6. \A x \in Process : doing[x] \notin {"idle", "refund_refused", "refund_timeout"} => FALSE
    BY <1>1, <2>2
  <2>7. refunds'[q] = 1
    BY <1>5, <2>3
  <2>8. ASSUME NEW r \in Request PROVE EndsOnce(r)'
    <3>1. CASE r = q
      BY <2>3, <2>4, <2>7, <3>1 DEF EndsOnce
    <3>2. CASE r # q
      <4>1. refunds'[r] = refunds[r] /\ \A x \in Process : ~Returning(x, r) /\ doing[x] # "open"
        BY <1>1, <1>5, <2>2, <2>6, <3>2 DEF Returning
      <4> QED BY <2>4, <4>1 DEF EndsOnce
    <3> QED BY <3>1, <3>2
  <2> QED BY <2>5, <2>8 DEF ContactsOnce
<1> QED BY <1>2, <1>3, <1>4, <1>5, <1>6, ContactStepInv DEF ContactSteps

LEMMA RefundsInv ==
  ASSUME CreditsInv, NEW w \in Process, RefundRefused(w) \/ RefundTimeout(w) PROVE CreditsInv'
<1>1. job[w] \in Jobs /\ NextLapsed(w) \in Jobs /\ NextLapsed(w).todo = Rest(w)
  BY NextJobTypes DEF CreditsInv, NextLapsed, NoJob
<1>2. AfterRefund(w) \in {"idle", "close"}
  BY DEF AfterRefund
<1>3. CASE RefundRefused(w)
  BY <1>1, <1>3, GiveBackInv DEF RefundRefused, Step, stripeVars
<1>4. CASE RefundTimeout(w)
  BY <1>1, <1>2, <1>4, GiveBackInv DEF RefundTimeout, stripeVars
<1> QED BY <1>3, <1>4

(* A refund that fails, and whoever is cut off. *)
LEMMA CutOffsInv ==
  ASSUME CreditsInv, NEW w \in Process, RefundFails(w) \/ Halt(w) PROVE CreditsInv'
<1>1. /\ UNCHANGED <<balance, journal, status, stale, refunds, talking, redeemed, period, sub, dawn, monthly, marked>>
      /\ stops' = stops + 1 /\ stops < MaxCuts /\ disturbed' = TRUE
  BY DEF RefundFails, Halt, CutOff, accountVars, contactVars, stripeVars
<1>2. CreditsTypeOK /\ NoJob \in Jobs /\ NextLapsed(w) \in Jobs
  BY NoJobType, NextJobTypes DEF CreditsInv
<1>3. PICK from \in Steps, to \in {"idle", "close"}, next \in Jobs : Move(w, from, to, next)
  BY <1>2 DEF RefundFails, Halt, AfterRefund, CreditsTypeOK, Steps
<1>4. Moved(w, to, next)
  BY <1>2, <1>3, MoveMoves DEF Steps
<1>5. TablesType'
  BY <1>1, TablesNow DEF TablesType
<1>6. stops' \in 0 .. MaxCuts
  BY <1>1, <1>2, CreditsAssumption DEF CreditsTypeOK
<1>7. Noted(w)'
  BY <1>4 DEF Noted, Moved
<1>8. Accounted("purchase", {"pack"})' /\ Accounted("subscription_grant", {"started", "paid"})'
  BY <1>1, <1>4, AccountsStay
<1> QED BY <1>1, <1>4, <1>5, <1>6, <1>7, <1>8, StepKeepsCredits

-----------------------------------------------------------------------------
(* A code is granted, then recorded. *)
LEMMA PromoInv == ASSUME CreditsInv, NEW w \in Process, GrantPromo(w) \/ RecordPromo(w) PROVE CreditsInv'
<1>1. PICK from \in PromoSteps, to \in {"redeem", "idle"} :
        /\ StepWith(w, from, to, job[w])
        /\ from = "grant_promo" =>
             to = "redeem" /\ journal' = [journal EXCEPT !["promo_code"] = @ + 1] /\ balance' = balance + Bundle /\ redeemed' = redeemed
        /\ from = "redeem" => to = "idle" /\ journal' = journal /\ balance' = balance /\ redeemed' = TRUE
  <2>1. CASE GrantPromo(w)
    <3>1. /\ StepWith(w, "grant_promo", "redeem", job[w]) /\ redeemed' = redeemed
          /\ journal' = [journal EXCEPT !["promo_code"] = @ + 1] /\ balance' = balance + Bundle
      BY <2>1 DEF GrantPromo, Step, Grant
    <3> QED BY <3>1 DEF PromoSteps
  <2>2. CASE RecordPromo(w)
    <3>1. StepWith(w, "redeem", "idle", job[w]) /\ redeemed' = TRUE /\ journal' = journal /\ balance' = balance
      BY <2>2 DEF RecordPromo, Step, accountVars
    <3> QED BY <3>1 DEF PromoSteps
  <2> QED BY <2>1, <2>2
<1>2. UNCHANGED <<status, stale, refunds, talking, period, sub, dawn, monthly, marked>>
  BY DEF GrantPromo, RecordPromo, contactVars, stripeVars
<1>3. job[w] \in Jobs /\ balance \in Nat /\ journal \in [Reason -> Nat] /\ redeemed \in BOOLEAN
  BY NextJobTypes DEF CreditsInv, CreditsTypeOK
<1>4. /\ Moved(w, to, job[w]) /\ doing[w] = from
      /\ disturbed' \in BOOLEAN /\ stops' \in 0 .. MaxCuts
      /\ ~disturbed' => ~disturbed /\ Undisturbed /\ Only(w)
  <2>1. to \in Steps
    BY DEF Steps
  <2> QED BY <1>1, <1>3, <2>1, StepFacts
<1>5. /\ balance' \in Nat /\ journal' \in [Reason -> Nat] /\ redeemed' \in BOOLEAN
      /\ \A reason \in {"purchase", "subscription_grant"} : journal'[reason] = journal[reason]
      /\ from = "grant_promo" => journal'["promo_code"] = journal["promo_code"] + 1
  <2>1. CASE from = "grant_promo"
    BY <1>1, <1>3, <2>1 DEF Reason, Bundle
  <2>2. CASE from = "redeem"
    BY <1>1, <1>3, <2>2
  <2> QED BY <2>1, <2>2 DEF PromoSteps
<1>6. TablesType'
  BY <1>2, <1>5, TablesNow DEF TablesType
<1>7. Noted(w)'
  BY <1>4 DEF Noted, Moved
<1>8. Accounted("purchase", {"pack"})' /\ Accounted("subscription_grant", {"started", "paid"})'
  BY <1>2, <1>4, <1>5, AccountsStay
<1>9. ASSUME ~disturbed' PROVE Only(w) /\ ContactsOnce' /\ PromoOnce' /\ MonthsOnce'
  <2>1. Only(w) /\ ContactsOnce /\ PromoOnce /\ MonthsOnce
    BY <1>4, <1>9 DEF Undisturbed
  <2>2. MonthsOnce'
    BY <1>2, <1>4, <2>1, MonthsStill DEF MonthSteps, PromoSteps, Moved
  <2>3. ContactsOnce'
    BY <1>2, <1>4, <2>1, ContactsStill DEF ContactSteps, PromoSteps, Moved
  <2>4. /\ doing'[w] = to
        /\ \A x \in Process \ {w} : doing'[x] = "idle" /\ doing[x] = "idle"
    BY <1>4, <2>1 DEF Only, Moved
  <2>5. PromoOnce'
    <3>1. CASE from = "grant_promo"
      <4>1. ~redeemed /\ journal["promo_code"] = 0
        BY <1>4, <2>1, <2>4, <3>1 DEF PromoOnce
      <4>2. journal'["promo_code"] = 1 /\ ~redeemed' /\ doing'[w] = "redeem"
        BY <1>1, <1>5, <2>4, <3>1, <4>1
      <4> QED BY <4>2 DEF PromoOnce
    <3>2. CASE from = "redeem"
      <4>1. journal["promo_code"] = 1
        BY <1>4, <2>1, <3>2 DEF PromoOnce
      <4>2. journal'["promo_code"] = 1 /\ redeemed' /\ doing'[w] = "idle"
        BY <1>1, <2>4, <3>2, <4>1
      <4> QED BY <2>4, <4>2 DEF PromoOnce
    <3> QED BY <3>1, <3>2 DEF PromoSteps
  <2> QED BY <2>1, <2>2, <2>3, <2>5
<1> QED BY <1>2, <1>4, <1>6, <1>7, <1>8, <1>9, StepKeepsCredits

-----------------------------------------------------------------------------
(* An event is marked, and taken in hand. *)
LEMMA DeliverInv == ASSUME CreditsInv, NEW w \in Process, NEW e \in Unmarked, Deliver(w, e) PROVE CreditsInv'
<1> PICK next : next = [NoJob EXCEPT !.event = e]
  OBVIOUS
<1>1. /\ StepWith(w, "idle", "handle", next) /\ e \in Sent /\ e \notin marked /\ marked' = marked \cup {e}
      /\ UNCHANGED <<balance, journal, status, stale, refunds, talking, redeemed, period, sub, dawn, monthly>>
  BY DEF Deliver, Unmarked, accountVars, contactVars
<1> e \in Event
  <2>1. period \in 0 .. MaxPeriods /\ MaxPeriods \in Nat
    BY CreditsAssumption DEF CreditsInv, CreditsTypeOK, Starts
  <2>2. 0 \in Starts /\ 1 .. period \subseteq Starts
    BY <2>1 DEF Starts
  <2> QED BY <1>1, <2>2 DEF Sent, Event
<1>2. next \in Jobs /\ next.event = e
  BY NextJobTypes DEF CreditsInv, NoJob
<1>3. /\ Moved(w, "handle", next) /\ doing[w] = "idle"
      /\ disturbed' \in BOOLEAN /\ stops' \in 0 .. MaxCuts
      /\ ~disturbed' => ~disturbed /\ Undisturbed /\ Only(w)
  BY <1>1, <1>2, StepFacts DEF Steps
<1>4. TablesType'
  <2>1. IsFiniteSet(marked')
    BY <1>1, FS_AddElement DEF CreditsInv
  <2> QED BY <1>1, <2>1, TablesNow DEF TablesType
<1>5. e.period <= period /\ (e.kind = "started" => e = Began)
  <2>1. period \in 0 .. MaxPeriods /\ MaxPeriods \in Nat
    BY CreditsAssumption DEF CreditsInv, CreditsTypeOK, Starts
  <2>2. CASE e \in [kind : {"pack"}, period : {0}]
    BY <2>1, <2>2
  <2>3. CASE e \in [kind : {"started"}, period : {0} \cap 0 .. period - 1]
    BY <2>1, <2>3 DEF Began
  <2>4. CASE e \in [kind : {"updated", "paid"}, period : 1 .. period]
    BY <2>1, <2>4
  <2> QED BY <1>1, <2>2, <2>3, <2>4 DEF Sent
<1>6. doing'[w] = "handle" /\ job'[w] = next /\ \A x \in Process \ {w} : doing'[x] = doing[x] /\ job'[x] = job[x]
  BY <1>3 DEF Moved
<1>7. Noted(w)'
  BY <1>1, <1>2, <1>5, <1>6 DEF Noted
<1>8. ASSUME NEW kinds
      PROVE  Owes(kinds)' \subseteq Owes(kinds) \cup {w} /\ (e.kind \notin kinds => Owes(kinds)' \subseteq Owes(kinds))
  BY <1>2, <1>6 DEF Owes
<1>9. Accounted("purchase", {"pack"})' /\ Accounted("subscription_grant", {"started", "paid"})'
  <2>1. Accounted("purchase", {"pack"}) /\ Accounted("subscription_grant", {"started", "paid"})
    BY DEF CreditsInv
  <2>2. "purchase" \in Reason /\ "subscription_grant" \in Reason
    BY DEF Reason
  <2>3. Accounted("purchase", {"pack"})'
    BY <1>1, <1>8, <2>1, <2>2, AccountTakes
  <2>4. Accounted("subscription_grant", {"started", "paid"})'
    BY <1>1, <1>8, <2>1, <2>2, AccountTakes
  <2> QED BY <2>3, <2>4
<1>10. ASSUME ~disturbed' PROVE Only(w) /\ ContactsOnce' /\ PromoOnce' /\ MonthsOnce'
  <2>1. Only(w) /\ ContactsOnce /\ PromoOnce /\ MonthsOnce
    BY <1>3, <1>10 DEF Undisturbed
  <2>2. ContactsOnce'
    BY <1>1, <1>3, <1>6, <2>1, ContactsStill DEF ContactSteps
  <2>3. PromoOnce'
    BY <1>1, <1>3, <1>6, <2>1, PromoStill DEF PromoSteps
  <2>4. e.kind = "started" => sub.current = None
    BY <1>1, <1>5, <2>1 DEF MonthsOnce
  <2>5. \A x \in Process : doing[x] = "idle" /\ (x # w => doing'[x] = "idle")
    BY <1>3, <2>1 DEF Only
  <2>6. MonthsOnce'
    <3>1. \A x \in Process : doing[x] \notin {"grant_month", "stamp"} /\ doing'[x] \notin {"grant_month", "stamp"}
      BY <1>6, <2>5
    <3>2. \A x \in Process : doing'[x] = "handle" => x = w /\ job'[x].event = e
      BY <1>2, <1>6, <2>5
    <3>3. /\ sub'.current # None => sub'.current <= period' /\ Began \in marked'
          /\ sub'.granted # None => sub'.current # None /\ sub'.granted <= sub'.current
      BY <1>1, <2>1 DEF MonthsOnce
    <3>4. ASSUME NEW p \in Starts
          PROVE  monthly'[p] <= 1 /\ (monthly'[p] # 0 => sub'.granted # None /\ p <= sub'.granted)
      BY <1>1, <2>1, <3>1 DEF MonthsOnce
    <3>5. ASSUME NEW x \in Process, doing'[x] = "handle", job'[x].event.kind = "started"
          PROVE  sub'.current = None /\ job'[x].event = Began
      BY <1>1, <1>5, <2>4, <3>2, <3>5
    <3> QED BY <3>1, <3>3, <3>4, <3>5 DEF MonthsOnce
  <2> QED BY <2>1, <2>2, <2>3, <2>6
<1> QED BY <1>1, <1>3, <1>4, <1>7, <1>9, <1>10, StepKeepsCredits

LEMMA HandlePackInv == ASSUME CreditsInv, NEW w \in Process, HandlePack(w) PROVE CreditsInv'
<1>1. /\ StepWith(w, "handle", "idle", job[w]) /\ doing[w] = "handle" /\ job[w].event.kind = "pack"
      /\ journal' = [journal EXCEPT !["purchase"] = @ + 1] /\ balance' = balance + Bundle
      /\ UNCHANGED <<status, stale, refunds, talking, redeemed, period, sub, dawn, monthly, marked>>
  BY DEF HandlePack, Handles, Step, Grant, contactVars, stripeVars
<1>2. job[w] \in Jobs /\ balance \in Nat /\ journal \in [Reason -> Nat]
  BY NextJobTypes DEF CreditsInv, CreditsTypeOK
<1>3. /\ Moved(w, "idle", job[w])
      /\ disturbed' \in BOOLEAN /\ stops' \in 0 .. MaxCuts
      /\ ~disturbed' => ~disturbed /\ Undisturbed /\ Only(w)
  BY <1>1, <1>2, StepFacts DEF Steps
<1>4. /\ balance' \in Nat /\ journal' \in [Reason -> Nat] /\ journal'["purchase"] = journal["purchase"] + 1
      /\ \A reason \in Reason \ {"purchase"} : journal'[reason] = journal[reason]
  BY <1>1, <1>2 DEF Reason, Bundle
<1>5. TablesType'
  BY <1>1, <1>4, TablesNow DEF TablesType
<1>6. doing'[w] = "idle"
  BY <1>3 DEF Moved
<1>7. Noted(w)'
  BY <1>6 DEF Noted
<1>8. Accounted("purchase", {"pack"})' /\ Accounted("subscription_grant", {"started", "paid"})'
  <2>1. Accounted("purchase", {"pack"}) /\ Accounted("subscription_grant", {"started", "paid"})
    BY DEF CreditsInv
  <2>2. "purchase" \in Reason /\ "subscription_grant" \in Reason \ {"purchase"}
    BY DEF Reason
  <2>3. \A kinds : Owes(kinds)' \subseteq Owes(kinds) \ {w}
    BY <1>3, OwesStay
  <2>4. w \in Owes({"pack"})
    BY <1>1 DEF Owes
  <2>5. Accounted("purchase", {"pack"})'
    BY <1>1, <1>4, <2>1, <2>2, <2>3, <2>4, AccountGrants
  <2>6. Accounted("subscription_grant", {"started", "paid"})'
    BY <1>1, <1>4, <2>1, <2>2, <2>3, AccountStays
  <2> QED BY <2>5, <2>6
<1>9. ASSUME ~disturbed' PROVE Only(w) /\ ContactsOnce' /\ PromoOnce' /\ MonthsOnce'
  <2>1. Only(w) /\ ContactsOnce /\ PromoOnce /\ MonthsOnce
    BY <1>3, <1>9 DEF Undisturbed
  <2>2. MonthsOnce'
    BY <1>1, <1>6, <2>1, MonthsStill DEF MonthSteps
  <2>3. ContactsOnce'
    BY <1>1, <1>6, <2>1, ContactsStill DEF ContactSteps
  <2>4. journal'["promo_code"] = journal["promo_code"]
    BY <1>4 DEF Reason
  <2>5. PromoOnce'
    BY <1>1, <1>6, <2>1, <2>4, PromoStill DEF PromoSteps
  <2> QED BY <2>1, <2>2, <2>3, <2>5
<1> QED BY <1>1, <1>3, <1>5, <1>7, <1>8, <1>9, StepKeepsCredits

-----------------------------------------------------------------------------
(* The steps of an event of the subscription. *)
LEMMA MonthStepInv ==
  ASSUME CreditsInv, NEW w \in Process, NEW to \in {"idle", "grant_month", "stamp"}, NEW next, Moved(w, to, next),
         doing[w] \in MonthSteps, disturbed' \in BOOLEAN, stops' \in 0 .. MaxCuts,
         UNCHANGED <<status, stale, refunds, talking, redeemed, period, marked>>,
         balance' \in Nat, journal' \in [Reason -> Nat], journal'["promo_code"] = journal["promo_code"],
         sub' \in [current : Starts \cup {None}, granted : Starts \cup {None}], monthly' \in [Starts -> Nat],
         dawn' \in Starts,
         Noted(w)', Accounted("purchase", {"pack"})', Accounted("subscription_grant", {"started", "paid"})',
         ~disturbed' => Undisturbed /\ Only(w) /\ MonthsOnce'
  PROVE  CreditsInv'
<1>1. TablesType'
  BY TablesNow DEF TablesType
<1>2. doing'[w] = to
  BY DEF Moved
<1>3. ASSUME ~disturbed' PROVE Only(w) /\ ContactsOnce' /\ PromoOnce' /\ MonthsOnce'
  <2>1. Only(w) /\ ContactsOnce /\ PromoOnce /\ MonthsOnce'
    BY <1>3 DEF Undisturbed
  <2>2. ContactsOnce'
    BY <1>2, <2>1, ContactsStill DEF ContactSteps, MonthSteps
  <2>3. PromoOnce'
    BY <1>2, <2>1, PromoStill DEF PromoSteps, MonthSteps
  <2> QED BY <2>1, <2>2, <2>3
<1> QED BY <1>1, <1>3, StepKeepsCredits

LEMMA SubTypes ==
  ASSUME CreditsInv
  PROVE  /\ sub \in [current : Starts \cup {None}, granted : Starts \cup {None}] /\ monthly \in [Starts -> Nat]
         /\ period \in Starts /\ dawn \in Starts /\ Starts \subseteq Nat /\ 0 \in Starts /\ None \notin Starts
         /\ balance \in Nat /\ journal \in [Reason -> Nat]
BY CreditsAssumption DEF CreditsInv, CreditsTypeOK, Starts

(* The month is due, or is not. *)
LEMMA HandleDueInv ==
  ASSUME CreditsInv, NEW w \in Process, NEW kind \in {"started", "paid"}, Handles(w, kind), IfDue(w, sub'),
         UNCHANGED <<balance, journal, status, stale, refunds, talking, redeemed, period, monthly, marked>>,
         sub' \in [current : Starts \cup {None}, granted : Starts \cup {None}],
         dawn' \in Starts,
         kind = "started" => sub'.current = 0 /\ sub'.granted = sub.granted,
         kind = "paid" => sub' = sub
  PROVE  CreditsInv'
<1> PICK next : next = [job[w] EXCEPT !.start = sub'.current]
  OBVIOUS
<1> PICK to : to = IF sub'.current # None /\ sub'.granted # sub'.current THEN "grant_month" ELSE "idle"
  OBVIOUS
<1>1. /\ StepWith(w, "handle", to, next) /\ doing[w] = "handle" /\ job[w].event.kind = kind
      /\ to \in {"grant_month", "idle"}
      /\ to = "grant_month" => sub'.current # None /\ sub'.granted # sub'.current
      /\ sub'.current # None /\ sub'.granted # sub'.current => to = "grant_month"
  BY DEF IfDue, Handles
<1>2. next \in Jobs /\ next.start = sub'.current /\ next.event = job[w].event
  <2>1. job[w] \in Jobs /\ next \in Jobs
    BY NextJobTypes DEF CreditsInv
  <2> QED BY <2>1 DEF Jobs
<1>3. /\ Moved(w, to, next)
      /\ disturbed' \in BOOLEAN /\ stops' \in 0 .. MaxCuts
      /\ ~disturbed' => ~disturbed /\ Undisturbed /\ Only(w)
  BY <1>1, <1>2, StepFacts DEF Steps
<1>4. /\ doing'[w] = to /\ (to # "idle" => job'[w] = next)
      /\ \A x \in Process \ {w} : doing'[x] = doing[x] /\ job'[x] = job[x]
  BY <1>3 DEF Moved
<1>5. Noted(w) /\ Noted(w)'
  <2>1. Noted(w)
    BY DEF CreditsInv
  <2> QED BY <1>1, <1>2, <1>4, <2>1 DEF Noted
<1>6. Accounted("purchase", {"pack"})' /\ Accounted("subscription_grant", {"started", "paid"})'
  <2>1. \A kinds : Owes(kinds)' \subseteq Owes(kinds)
    BY <1>1, <1>2, <1>4 DEF Owes
  <2>2. "purchase" \in Reason /\ "subscription_grant" \in Reason
    BY DEF Reason
  <2>3. Accounted("purchase", {"pack"}) /\ Accounted("subscription_grant", {"started", "paid"})
    BY DEF CreditsInv
  <2> QED BY <2>1, <2>2, <2>3, AccountStays
<1>7. ASSUME ~disturbed' PROVE Undisturbed /\ Only(w) /\ MonthsOnce'
  <2>1. Undisturbed /\ Only(w) /\ MonthsOnce
    BY <1>3, <1>7 DEF Undisturbed
  <2>2. \A x \in Process \ {w} : doing'[x] = "idle" /\ doing[x] = "idle"
    BY <2>1 DEF Only
  <2>3. \A x \in Process : doing[x] # "stamp" /\ doing'[x] # "stamp"
    BY <1>1, <1>4, <2>2
  <2>4. kind = "started" => sub.current = None /\ sub.granted = None /\ job[w].event = Began
    BY <1>1, <2>1 DEF MonthsOnce
  <2>5. kind = "started" => Began \in marked
    BY <1>1, <1>5, <2>4 DEF Noted
  <2>6. /\ sub'.current # None => sub'.current <= period /\ Began \in marked
        /\ sub'.granted # None => sub'.current # None /\ sub'.granted <= sub'.current
    <3>1. CASE kind = "started"
      BY <2>4, <2>5, <3>1, SubTypes
    <3>2. CASE kind = "paid"
      BY <2>1, <3>2 DEF MonthsOnce
    <3> QED BY <3>1, <3>2
  <2>7. ASSUME NEW p \in Starts
        PROVE  monthly[p] <= 1 /\ (monthly[p] # 0 => sub'.granted # None /\ p <= sub'.granted)
    <3>1. monthly[p] <= 1 /\ (monthly[p] # 0 => sub.granted # None /\ p <= sub.granted)
      BY <2>1, <2>3 DEF MonthsOnce
    <3> QED BY <3>1
  <2>8. \A x \in Process : doing'[x] = "grant_month" => x = w
    BY <2>2
  <2>9. \A x \in Process : doing'[x] # "handle"
    BY <1>1, <1>4, <2>2
  <2>10. MonthsOnce'
    BY <1>1, <1>2, <1>4, <2>3, <2>6, <2>7, <2>8, <2>9 DEF MonthsOnce
  <2> QED BY <2>1, <2>10
<1>8. doing[w] \in MonthSteps
  BY <1>1 DEF MonthSteps
<1> QED BY <1>1, <1>3, <1>5, <1>6, <1>7, <1>8, SubTypes, MonthStepInv

LEMMA HandlesInv == ASSUME CreditsInv, NEW w \in Process, HandleStarted(w) \/ HandlePaid(w) PROVE CreditsInv'
<1>1. CASE HandleStarted(w)
  <2>1. sub' \in [current : Starts \cup {None}, granted : Starts \cup {None}] /\ sub'.current = 0 /\ sub'.granted = sub.granted
    BY <1>1, SubTypes DEF HandleStarted
  <2>2. /\ Handles(w, "started") /\ IfDue(w, sub')
        /\ dawn' = period
        /\ UNCHANGED <<balance, journal, status, stale, refunds, talking, redeemed, period, monthly, marked>>
    BY <1>1 DEF HandleStarted, accountVars, contactVars
  <2> QED BY <2>1, <2>2, SubTypes, HandleDueInv
<1>2. CASE HandlePaid(w)
  <2>1. /\ Handles(w, "paid") /\ IfDue(w, sub) /\ sub' = sub /\ dawn' = dawn
        /\ UNCHANGED <<balance, journal, status, stale, refunds, talking, redeemed, period, monthly, marked>>
    BY <1>2 DEF HandlePaid, accountVars, contactVars, stripeVars
  <2>2. IfDue(w, sub')
    BY <2>1
  <2> QED BY <2>1, <2>2, SubTypes, HandleDueInv
<1> QED BY <1>1, <1>2

LEMMA HandleUpdatedInv == ASSUME CreditsInv, NEW w \in Process, HandleUpdated(w) PROVE CreditsInv'
<1> PICK to : to = job[w].event.period
  OBVIOUS
<1>1. /\ Move(w, "handle", "idle", NoJob) /\ doing[w] = "handle" /\ job[w].event.kind = "updated"
      /\ sub' = IF sub.current = None THEN sub ELSE [sub EXCEPT !.current = to]
      /\ disturbed' = (disturbed \/ Busy \ {w} # {} \/ to < period)
      /\ UNCHANGED <<balance, journal, status, stale, refunds, talking, redeemed, period, dawn, monthly, marked, stops>>
  BY DEF HandleUpdated, Handles, accountVars, contactVars
<1>2. Moved(w, "idle", NoJob)
  BY <1>1, NoJobType, MoveMoves DEF CreditsInv, Steps
<1>3. doing'[w] = "idle"
  BY <1>2 DEF Moved
<1>4. to \in Starts /\ to <= period
  <2>1. Noted(w) /\ marked \subseteq Event
    BY DEF CreditsInv, CreditsTypeOK
  <2> QED BY <1>1, <2>1 DEF Noted, Event
<1>5. /\ sub.current = None => sub' = sub
      /\ sub.current # None => sub'.current = to /\ sub'.granted = sub.granted
      /\ sub' \in [current : Starts \cup {None}, granted : Starts \cup {None}]
  BY <1>1, <1>4, SubTypes
<1>6. Noted(w)'
  BY <1>3 DEF Noted
<1>7. Accounted("purchase", {"pack"})' /\ Accounted("subscription_grant", {"started", "paid"})'
  BY <1>1, <1>2, AccountsStay
<1>8. ASSUME ~disturbed' PROVE Undisturbed /\ Only(w) /\ MonthsOnce'
  <2>1. ~disturbed /\ Busy \ {w} = {} /\ ~(to < period)
    BY <1>1, <1>8
  <2>2. Undisturbed /\ Only(w) /\ MonthsOnce
    BY <1>2, <2>1 DEF CreditsInv, Undisturbed, Only, Moved, Busy
  <2>3. to = period
    BY <1>4, <2>1, SubTypes
  <2>4. \A x \in Process : doing'[x] = "idle" /\ doing[x] # "stamp"
    BY <1>1, <1>3, <2>2 DEF Only
  <2>5. /\ sub'.current # None => sub'.current <= period /\ Began \in marked
        /\ sub'.granted # None => sub'.current # None /\ sub'.granted <= sub'.current
    <3>1. CASE sub.current = None
      BY <1>5, <2>2, <3>1 DEF MonthsOnce
    <3>2. CASE sub.current # None
      <4>1. /\ Began \in marked /\ sub.current <= period /\ sub.current \in Nat
            /\ sub.granted # None => sub.granted <= sub.current /\ sub.granted \in Nat
        BY <2>2, <3>2, SubTypes DEF MonthsOnce
      <4>2. sub'.current = period /\ sub'.granted = sub.granted /\ period \in Nat /\ period # None
        BY <1>5, <2>3, <3>2, SubTypes
      <4> QED BY <4>1, <4>2
    <3> QED BY <3>1, <3>2
  <2>6. sub'.granted = sub.granted
    BY <1>5
  <2>7. ASSUME NEW p \in Starts
        PROVE  monthly[p] <= 1 /\ (monthly[p] # 0 => sub'.granted # None /\ p <= sub'.granted)
    <3>1. monthly[p] <= 1 /\ (monthly[p] # 0 => sub.granted # None /\ p <= sub.granted)
      BY <2>2, <2>4 DEF MonthsOnce
    <3> QED BY <2>6, <3>1
  <2>8. MonthsOnce'
    BY <1>1, <2>4, <2>5, <2>7 DEF MonthsOnce
  <2> QED BY <2>2, <2>8
<1>9. disturbed' \in BOOLEAN /\ stops' \in 0 .. MaxCuts /\ doing[w] \in MonthSteps
  BY <1>1 DEF CreditsInv, CreditsTypeOK, MonthSteps
<1> QED BY <1>1, <1>2, <1>5, <1>6, <1>7, <1>8, <1>9, SubTypes, MonthStepInv

LEMMA GrantMonthInv == ASSUME CreditsInv, NEW w \in Process, GrantMonth(w) PROVE CreditsInv'
<1> PICK q : q = job[w].start
  OBVIOUS
<1>1. /\ StepWith(w, "grant_month", "stamp", job[w]) /\ doing[w] = "grant_month"
      /\ journal' = [journal EXCEPT !["subscription_grant"] = @ + 1] /\ balance' = balance + Bundle
      /\ monthly' = [monthly EXCEPT ![q] = @ + 1]
      /\ UNCHANGED <<status, stale, refunds, talking, redeemed, period, sub, dawn, marked>>
  BY DEF GrantMonth, Step, StepWith, Move, Grant, contactVars
<1>2. job[w] \in Jobs
  BY NextJobTypes DEF CreditsInv
<1>3. q \in Starts /\ job[w].event.kind \in {"started", "paid"}
  <2>1. Noted(w)
    BY DEF CreditsInv
  <2> QED BY <1>1, <2>1 DEF Noted
<1>4. /\ Moved(w, "stamp", job[w])
      /\ disturbed' \in BOOLEAN /\ stops' \in 0 .. MaxCuts
      /\ ~disturbed' => ~disturbed /\ Undisturbed /\ Only(w)
  BY <1>1, <1>2, StepFacts DEF Steps
<1>5. doing'[w] = "stamp" /\ job'[w] = job[w] /\ \A x \in Process \ {w} : doing'[x] = doing[x] /\ job'[x] = job[x]
  BY <1>4 DEF Moved
<1>6. /\ balance' \in Nat /\ journal' \in [Reason -> Nat]
      /\ journal'["subscription_grant"] = journal["subscription_grant"] + 1
      /\ \A reason \in Reason \ {"subscription_grant"} : journal'[reason] = journal[reason]
  BY <1>1, SubTypes DEF Reason, Bundle
<1>7. /\ monthly' \in [Starts -> Nat] /\ monthly'[q] = monthly[q] + 1
      /\ \A p \in Starts \ {q} : monthly'[p] = monthly[p]
  BY <1>1, <1>3, SubTypes
<1>8. Noted(w)'
  BY <1>3, <1>5 DEF Noted
<1>9. Accounted("purchase", {"pack"})' /\ Accounted("subscription_grant", {"started", "paid"})'
  <2>1. Accounted("purchase", {"pack"}) /\ Accounted("subscription_grant", {"started", "paid"})
    BY DEF CreditsInv
  <2>2. "subscription_grant" \in Reason /\ "purchase" \in Reason \ {"subscription_grant"}
    BY DEF Reason
  <2>3. \A kinds : Owes(kinds)' \subseteq Owes(kinds) \ {w}
    BY <1>4, OwesStay
  <2>4. w \in Owes({"started", "paid"})
    BY <1>1, <1>3 DEF Owes
  <2>5. Accounted("purchase", {"pack"})'
    BY <1>1, <1>6, <2>1, <2>2, <2>3, AccountStays
  <2>6. Accounted("subscription_grant", {"started", "paid"})'
    BY <1>1, <1>6, <2>1, <2>2, <2>3, <2>4, AccountGrants
  <2> QED BY <2>5, <2>6
<1>10. ASSUME ~disturbed' PROVE Undisturbed /\ Only(w) /\ MonthsOnce'
  <2>1. Undisturbed /\ Only(w) /\ MonthsOnce
    BY <1>4, <1>10 DEF Undisturbed
  <2>2. \A x \in Process \ {w} : doing'[x] = "idle" /\ doing[x] = "idle"
    BY <2>1 DEF Only
  <2>3. \A x \in Process : doing[x] # "stamp"
    BY <1>1, <2>2
  <2>4. /\ q = sub.current /\ sub.current # None /\ sub.granted # sub.current
        /\ sub.granted # None => sub.granted <= sub.current
        /\ sub.current <= period /\ Began \in marked
    BY <1>1, <2>1 DEF MonthsOnce
  <2>5. ASSUME NEW p \in Starts PROVE monthly[p] <= 1 /\ (monthly[p] # 0 => sub.granted # None /\ p <= sub.granted)
    BY <2>1, <2>3 DEF MonthsOnce
  <2>6. monthly[q] = 0
    <3>1. sub.granted # None => sub.granted \in Nat /\ q \in Nat
      BY <1>3, SubTypes
    <3>2. monthly[q] # 0 => sub.granted # None /\ q <= sub.granted
      BY <1>3, <2>5
    <3> QED BY <2>4, <3>1, <3>2
  <2>7. ASSUME NEW p \in Starts
        PROVE  /\ monthly'[p] <= 1
               /\ monthly'[p] # 0 => (sub'.granted # None /\ p <= sub'.granted) \/ p = q
    <3>1. CASE p = q
      BY <1>7, <2>6, <3>1
    <3>2. CASE p # q
      BY <1>1, <1>7, <2>5, <3>2
    <3> QED BY <3>1, <3>2
  <2>8. /\ sub'.current # None => sub'.current <= period' /\ Began \in marked'
        /\ sub'.granted # None => sub'.current # None /\ sub'.granted <= sub'.current
    BY <1>1, <2>4
  <2>9. ASSUME NEW x \in Process
        PROVE  /\ doing'[x] \in {"grant_month", "stamp"} => sub'.current # None /\ job'[x].start = sub'.current
               /\ doing'[x] \notin {"grant_month", "handle"}
    BY <1>1, <1>5, <2>2, <2>4
  <2>10. doing'[w] = "stamp" /\ job'[w].start = q
    BY <1>5
  <2>11. MonthsOnce'
    BY <2>7, <2>8, <2>9, <2>10 DEF MonthsOnce
  <2> QED BY <2>1, <2>11
<1>11. doing[w] \in MonthSteps /\ journal'["promo_code"] = journal["promo_code"]
  BY <1>1, <1>6 DEF MonthSteps, Reason
<1> QED BY <1>1, <1>4, <1>6, <1>7, <1>8, <1>9, <1>10, <1>11, SubTypes, MonthStepInv

LEMMA StampMonthInv == ASSUME CreditsInv, NEW w \in Process, StampMonth(w) PROVE CreditsInv'
<1> PICK q : q = job[w].start
  OBVIOUS
<1>1. /\ StepWith(w, "stamp", "idle", job[w]) /\ doing[w] = "stamp" /\ sub' = [sub EXCEPT !.granted = q]
      /\ UNCHANGED <<balance, journal, status, stale, refunds, talking, redeemed, period, dawn, monthly, marked>>
  BY DEF StampMonth, Step, StepWith, Move, accountVars, contactVars
<1>2. job[w] \in Jobs
  BY NextJobTypes DEF CreditsInv
<1>3. q \in Starts
  <2>1. Noted(w)
    BY DEF CreditsInv
  <2> QED BY <1>1, <2>1 DEF Noted
<1>4. /\ Moved(w, "idle", job[w])
      /\ disturbed' \in BOOLEAN /\ stops' \in 0 .. MaxCuts
      /\ ~disturbed' => ~disturbed /\ Undisturbed /\ Only(w)
  BY <1>1, <1>2, StepFacts DEF Steps
<1>5. doing'[w] = "idle"
  BY <1>4 DEF Moved
<1>6. /\ sub' \in [current : Starts \cup {None}, granted : Starts \cup {None}]
      /\ sub'.granted = q /\ sub'.current = sub.current
  BY <1>1, <1>3, SubTypes
<1>7. Noted(w)'
  BY <1>5 DEF Noted
<1>8. Accounted("purchase", {"pack"})' /\ Accounted("subscription_grant", {"started", "paid"})'
  BY <1>1, <1>4, AccountsStay
<1>9. ASSUME ~disturbed' PROVE Undisturbed /\ Only(w) /\ MonthsOnce'
  <2>1. Undisturbed /\ Only(w) /\ MonthsOnce
    BY <1>4, <1>9 DEF Undisturbed
  <2>2. \A x \in Process : doing'[x] = "idle" /\ (doing[x] = "stamp" => x = w)
    BY <1>1, <1>5, <2>1 DEF Only
  <2>3. q = sub.current /\ sub.current # None /\ sub.current <= period /\ Began \in marked
    BY <1>1, <2>1 DEF MonthsOnce
  <2>4. /\ sub.granted # None => sub.granted <= sub.current /\ sub.granted \in Nat
        /\ q \in Nat /\ q # None
    BY <1>3, <2>1, SubTypes DEF MonthsOnce
  <2>5. ASSUME NEW p \in Starts PROVE monthly[p] <= 1 /\ (monthly[p] # 0 => p <= q)
    <3>1. monthly[p] <= 1 /\ (monthly[p] # 0 => (sub.granted # None /\ p <= sub.granted) \/ p = q)
      BY <2>1, <2>2 DEF MonthsOnce
    <3>2. p \in Nat
      BY SubTypes
    <3> QED BY <2>3, <2>4, <3>1, <3>2
  <2>6. MonthsOnce'
    BY <1>1, <1>6, <2>2, <2>3, <2>4, <2>5 DEF MonthsOnce
  <2> QED BY <2>1, <2>6
<1>10. doing[w] \in MonthSteps
  BY <1>1 DEF MonthSteps
<1> QED BY <1>1, <1>4, <1>6, <1>7, <1>8, <1>9, <1>10, SubTypes, MonthStepInv

-----------------------------------------------------------------------------
(* Time passes: nobody moves. *)
LEMMA TimeInv ==
  ASSUME CreditsInv, Renew \/ (\E r \in Request : GrowStale(r)) \/ UNCHANGED creditVars PROVE CreditsInv'
<1>1. /\ UNCHANGED <<balance, journal, status, refunds, talking, redeemed, sub, dawn, monthly, marked, doing, job, disturbed, stops>>
      /\ stale' \subseteq Request /\ period' \in Starts /\ period <= period'
  <2>1. period \in 0 .. MaxPeriods /\ MaxPeriods \in Nat /\ stale \subseteq Request
    BY CreditsAssumption DEF CreditsInv, CreditsTypeOK, Starts
  <2> QED BY <2>1 DEF Renew, GrowStale, creditVars, accountVars, contactVars, stripeVars, Starts
<1>2. CreditsTypeOK' /\ IsFiniteSet(marked)'
  BY <1>1 DEF CreditsInv, CreditsTypeOK
<1>3. ASSUME NEW x \in Process PROVE Noted(x)'
  <2>1. Noted(x) /\ CreditsTypeOK /\ period' \in Nat /\ marked \subseteq marked'
    BY <1>1, SubTypes DEF CreditsInv
  <2> QED BY <1>1, <2>1, NotedStill
<1>4. Accounted("purchase", {"pack"})' /\ Accounted("subscription_grant", {"started", "paid"})'
  <2>1. Accounted("purchase", {"pack"}) /\ Accounted("subscription_grant", {"started", "paid"})
    BY DEF CreditsInv
  <2>2. \A kinds : Owes(kinds)' \subseteq Owes(kinds)
    BY <1>1 DEF Owes
  <2> QED BY <1>1, <2>1, <2>2, AccountStays DEF Reason
<1>5. ASSUME ~disturbed' PROVE Undisturbed'
  <2>1. Undisturbed
    BY <1>1, <1>5 DEF CreditsInv
  <2>2. ContactsOnce'
    BY <1>1, <2>1 DEF Undisturbed, ContactsOnce, StillPending, EndsOnce, Returning, Pending, Rest
  <2>3. PromoOnce'
    BY <1>1, <2>1 DEF Undisturbed, PromoOnce
  <2>4. MonthsOnce'
    <3>1. sub.current # None => sub.current <= period' /\ Began \in marked
      <4>1. period \in Nat /\ period' \in Nat /\ (sub.current # None => sub.current \in Nat)
        BY <1>1, SubTypes
      <4>2. sub.current # None => sub.current <= period /\ Began \in marked
        BY <2>1 DEF Undisturbed, MonthsOnce
      <4> QED BY <1>1, <4>1, <4>2
    <3> QED BY <1>1, <2>1, <3>1 DEF Undisturbed, MonthsOnce
  <2> QED BY <1>1, <2>1, <2>2, <2>3, <2>4 DEF Undisturbed, Busy
<1> QED BY <1>2, <1>3, <1>4, <1>5 DEF CreditsInv

LEMMA CreditsInitInv == CreditsInit => CreditsInv
<1> SUFFICES ASSUME CreditsInit PROVE CreditsInv
  OBVIOUS
<1>1. \A x \in Process : doing[x] = "idle" /\ job[x] = NoJob
  BY DEF CreditsInit
<1>2. CreditsTypeOK /\ IsFiniteSet(marked)
  <2>1. IsFiniteSet({})
    BY FS_EmptySet
  <2>2. doing \in [Process -> Steps] /\ job \in [Process -> Jobs]
    <3> HIDE DEF NoJob
    <3> QED BY NoJobType DEF CreditsInit, Steps
  <2>3. 0 \in Starts /\ 0 \in 0 .. MaxCuts
    BY CreditsAssumption DEF Starts
  <2> QED BY <2>1, <2>2, <2>3 DEF CreditsInit, CreditsTypeOK
<1>3. \A x \in Process : Noted(x)
  BY <1>1 DEF Noted
<1>4. Accounted("purchase", {"pack"}) /\ Accounted("subscription_grant", {"started", "paid"})
  <2>1. \A kinds : Owes(kinds) = {} /\ Taken(kinds) = {}
    BY <1>1 DEF CreditsInit, Owes, Taken
  <2>2. journal["purchase"] = 0 /\ journal["subscription_grant"] = 0 /\ Cardinality({}) = 0
    BY FS_EmptySet DEF CreditsInit, Reason
  <2> QED BY <2>1, <2>2 DEF Accounted
<1>5. Undisturbed
  <2>1. ContactsOnce
    BY <1>1 DEF CreditsInit, ContactsOnce, StillPending, EndsOnce
  <2>2. PromoOnce
    BY <1>1 DEF CreditsInit, PromoOnce, Reason
  <2>3. MonthsOnce
    BY <1>1 DEF CreditsInit, MonthsOnce
  <2> QED BY <1>1, <2>1, <2>2, <2>3 DEF Undisturbed, Busy
<1> QED BY <1>2, <1>3, <1>4, <1>5 DEF CreditsInv

LEMMA CreditsNextInv == CreditsInv /\ [CreditsNext]_creditVars => CreditsInv'
<1> SUFFICES ASSUME CreditsInv, [CreditsNext]_creditVars PROVE CreditsInv'
  OBVIOUS
<1>1. CASE Renew \/ (\E r \in Request : GrowStale(r)) \/ UNCHANGED creditVars
  BY <1>1, TimeInv
<1>2. CASE \E w \in Process : Begin(w) \/ Sweep(w)
  <2>1. PICK w \in Process : Begin(w) \/ Sweep(w)
    BY <1>2
  <2>2. CASE \E e \in Unmarked : Deliver(w, e)
    BY <2>2, DeliverInv
  <2>3. CASE Sweep(w) \/ AskContact(w) \/ AskPromo(w) \/ \E r \in Request, to \in {"accept", "decline"} : FindPending(w, r, to)
    BY <2>3, CreditReadsInv
  <2> QED BY <2>1, <2>2, <2>3 DEF Begin
<1>3. CASE \E w \in Process : Continue(w)
  <2>1. PICK w \in Process : Continue(w)
    BY <1>3
  <2>2. CASE SendRefused(w)
    BY <2>2, CreditReadsInv
  <2>3. CASE Accept(w) \/ Open(w) \/ Decline(w)
    BY <2>3, AcceptInv, OpenInv, DeclineInv
  <2>4. CASE RefundRefused(w) \/ RefundTimeout(w)
    BY <2>4, RefundsInv
  <2>5. CASE GrantPromo(w) \/ RecordPromo(w)
    BY <2>5, PromoInv
  <2>6. CASE HandlePack(w) \/ HandleStarted(w) \/ HandlePaid(w) \/ HandleUpdated(w)
    BY <2>6, HandlePackInv, HandlesInv, HandleUpdatedInv
  <2>7. CASE GrantMonth(w) \/ StampMonth(w)
    BY <2>7, GrantMonthInv, StampMonthInv
  <2>8. CASE \E r \in Request : SendContact(w, r) \/ Close(w, r)
    BY <2>8, SendContactInv, CloseInv
  <2> QED BY <2>1, <2>2, <2>3, <2>4, <2>5, <2>6, <2>7, <2>8 DEF Continue
<1>4. CASE \E w \in Process : RefundFails(w) \/ Halt(w)
  BY <1>4, CutOffsInv
<1> QED BY <1>1, <1>2, <1>3, <1>4 DEF CreditsNext

LEMMA CreditsInductive == CreditsSpec => []CreditsInv
BY CreditsInitInv, CreditsNextInv, PTL DEF CreditsSpec

(* Whatever Stripe repeats or reorders and whoever is cut off, no pack and  *)
(* no month is granted without an event of its own; and unless processes    *)
(* met, a contact that was paid ends one way, refunded once or accepted     *)
(* (refund_spend and sweep_expired_interest_requests, credits.rs).          *)
THEOREM CreditsEndOnce == CreditsSpec => []OneEndOneGrant
<1>1. ASSUME CreditsInv PROVE OneEndOneGrant
  <2>1. CreditsTypeOK
    BY <1>1 DEF CreditsInv
  <2>2. ContactEndsOneWay
    <3> SUFFICES ASSUME ~disturbed, NEW r \in Request
                 PROVE  /\ refunds[r] # 0 => refunds[r] = 1 /\ status[r] = "declined"
                        /\ r \in talking => status[r] = "accepted"
                        /\ Busy = {} => /\ status[r] = "declined" => refunds[r] = 1
                                        /\ status[r] = "accepted" => r \in talking
      BY DEF ContactEndsOneWay
    <3>1. EndsOnce(r)
      BY <1>1 DEF CreditsInv, Undisturbed, ContactsOnce
    <3> QED BY <3>1 DEF EndsOnce, Returning, Busy
  <2>3. ASSUME NEW reason \in Reason, NEW kinds, Accounted(reason, kinds)
        PROVE  journal[reason] <= Cardinality(Taken(kinds))
    <3>1. Cardinality(Owes(kinds)) \in Nat /\ Cardinality(Taken(kinds)) \in Nat /\ journal[reason] \in Nat
      BY <1>1, CountsAreNat, SubTypes
    <3> QED BY <2>3, <3>1 DEF Accounted
  <2>4. Accounted("purchase", {"pack"}) /\ Accounted("subscription_grant", {"started", "paid"})
    BY <1>1 DEF CreditsInv
  <2>5. {e \in marked : e.kind = "pack"} = Taken({"pack"})
    BY DEF Taken
  <2>6. "purchase" \in Reason /\ "subscription_grant" \in Reason
    BY DEF Reason
  <2>7. journal["purchase"] <= Cardinality(Taken({"pack"}))
    BY <2>3, <2>4, <2>6
  <2>8. journal["subscription_grant"] <= Cardinality(Taken({"started", "paid"}))
    BY <2>3, <2>4, <2>6
  <2>9. OneGrantPerEvent
    BY <2>5, <2>7, <2>8 DEF OneGrantPerEvent, Taken
  <2> QED BY <2>1, <2>2, <2>9 DEF OneEndOneGrant
<1> QED BY <1>1, CreditsInductive, PTL

(* Unless processes met, one was cut off or Stripe's period went back, a    *)
(* promotional code is granted once, and each month of a subscription once, *)
(* but for the month of the checkout, granted twice at most (redeem_promo   *)
(* and grant_monthly_credits_if_due).                                       *)
THEOREM NothingGrantedTwice == CreditsSpec => []GrantedOnce
<1>1. ASSUME CreditsInv, ~disturbed
      PROVE  /\ journal["promo_code"] <= 1
             /\ Busy = {} => (redeemed <=> journal["promo_code"] = 1)
             /\ \A m \in Months : Credited(m) <= IF m = dawn THEN 2 ELSE 1
  <2>1. PromoOnce /\ MonthsOnce /\ redeemed \in BOOLEAN
    BY <1>1 DEF CreditsInv, Undisturbed, CreditsTypeOK
  <2>2. journal["promo_code"] <= 1
    BY <2>1 DEF PromoOnce
  <2>3. ASSUME Busy = {} PROVE redeemed <=> journal["promo_code"] = 1
    <3>1. \A w \in Process : doing[w] # "redeem"
      BY <2>3 DEF Busy
    <3> QED BY <2>1, <3>1 DEF PromoOnce
  <2>4. ASSUME NEW m \in Months PROVE Credited(m) <= IF m = dawn THEN 2 ELSE 1
    <3>1. m \in Starts /\ 0 \in Starts
      BY CreditsAssumption DEF Months, Starts
    <3>2. monthly[m] \in Nat /\ monthly[0] \in Nat /\ monthly[m] <= 1 /\ monthly[0] <= 1
      BY <1>1, <2>1, <3>1, SubTypes DEF MonthsOnce
    <3> QED BY <3>2 DEF Credited
  <2> QED BY <2>2, <2>3, <2>4
<1>2. CreditsInv => GrantedOnce
  BY <1>1 DEF GrantedOnce
<1> QED BY <1>2, CreditsInductive, PTL
=============================================================================
