-------------------------------- MODULE Outbox --------------------------------
(***************************************************************************)
(* One notification to one person (services/notify.rs, deliver_to), and    *)
(* the queue its failed e-mails wait in (services/outbox.rs).              *)
(*                                                                         *)
(* The sender tries each channel in turn, in the request; a channel that   *)
(* fails is put in notification_outbox, which every instance of the        *)
(* program drains once a minute.  A drain lists what is due, then tries    *)
(* and marks row after row, without claiming them.                         *)
(***************************************************************************)
EXTENDS Naturals, FiniteSets, Sequences

CONSTANTS Drain,       \* instances running start_outbox_worker
          MaxAttempts, \* MAX_ATTEMPTS
          MaxStops     \* how often somebody is cut off, or an answer is lost

ASSUME OutboxAssumption == MaxAttempts \in Nat \ {0} /\ MaxStops \in Nat

VARIABLES transactional, \* the kind is an obligation
          enabled,   \* the address is not email_disabled
          sender,    \* what deliver_to does next
          heard,     \* of the in-app record and the push: the best that became of them
          counted,   \* some counter of Delivery is positive
          alert,     \* "transactional notification reached nobody"
          queue,     \* the rows of notification_outbox
          mails,     \* mails[r]: e-mails that left for r
          failed,    \* failed[r]: attempts of drains on r that failed
          pc,        \* what a drain does next
          list,      \* list[d]: the rows drain d listed and is not done with
          saw,       \* saw[d][r]: the attempts it read
          disturbed, \* history: two drains met, or somebody was cut off
          stops

messageVars == <<transactional, enabled>>
senderVars  == <<sender, heard, counted, alert>>
drainVars   == <<pc, list, saw>>
vars == <<messageVars, senderVars, queue, mails, failed, drainVars, disturbed, stops>>

(* The e-mail a failed push falls back to, and the e-mail that failed. *)
Mail == {"fallback", "email"}

TypeOK ==
  /\ {transactional, enabled} \subseteq BOOLEAN
  /\ sender   \in {"in_app", "push", "fall_back", "email", "queue", "end", "done"}
  /\ heard    \in {"nothing", "missed", "heard"}
  /\ {counted, alert, disturbed} \subseteq BOOLEAN
  /\ queue    \in [Mail -> [status : {"none", "pending", "sent", "abandoned"}, attempts : Nat, due : BOOLEAN]]
  /\ mails    \in [Mail -> Nat]
  /\ failed   \in [Mail -> Nat]
  /\ pc       \in [Drain -> {"idle", "try", "mark_sent", "mark_failed"}]
  /\ list     \in [Drain -> Seq(Mail)]
  /\ saw      \in [Drain -> [Mail -> Nat]]
  /\ stops    \in 0 .. MaxStops

Unseen == [r \in Mail |-> 0]

Init ==
  /\ transactional \in BOOLEAN /\ enabled \in BOOLEAN
  /\ sender = "in_app" /\ heard = "nothing"
  /\ counted = FALSE /\ alert = FALSE
  /\ queue  = [r \in Mail |-> [status |-> "none", attempts |-> 0, due |-> FALSE]]
  /\ mails  = [r \in Mail |-> 0]
  /\ failed = [r \in Mail |-> 0]
  /\ pc     = [d \in Drain |-> "idle"]
  /\ list   = [d \in Drain |-> <<>>]
  /\ saw    = [d \in Drain |-> Unseen]
  /\ disturbed = FALSE
  /\ stops = 0

Disturb == stops < MaxStops /\ stops' = stops + 1 /\ disturbed' = TRUE

-----------------------------------------------------------------------------
(* deliver_to.  Nothing here touches what the drains remember.             *)

Sender(from, to) ==
  /\ sender = from /\ sender' = to
  /\ UNCHANGED <<messageVars, alert, failed, drainVars>>

Quietly == UNCHANGED <<disturbed, stops>>

(* A channel the kind does not have or the person does not want, quiet      *)
(* hours, nobody to write to; or one that fails and leaves it at that.      *)
Skip(from, to) ==
  /\ Sender(from, to) /\ Quietly
  /\ UNCHANGED <<heard, counted, queue, mails>>

NoInApp == Skip("in_app", "push")
NoPush  == Skip("push", "email")
NoEmail == Skip("email", "end")

(* write_in_app: a line of its own, or folded into one that is still unread, *)
(* which has buzzed and mailed already.                                      *)
WriteInApp(absorbed) ==
  /\ Sender("in_app", IF absorbed THEN "end" ELSE "push") /\ Quietly
  /\ heard' = "heard" /\ counted' = TRUE
  /\ UNCHANGED <<queue, mails>>

(* push_to_user_mobile is Ok whatever became of each device, and if there is *)
(* none.                                                                     *)
Push(outcome) ==
  /\ Sender("push", "email") /\ Quietly
  /\ heard' = IF heard = "heard" THEN heard ELSE outcome
  /\ counted' = TRUE
  /\ UNCHANGED <<queue, mails>>

(* Its error is the database's, or a device of no platform it knows.        *)
PushFails ==
  /\ transactional
  /\ Sender("push", "fall_back") /\ Quietly
  /\ UNCHANGED <<heard, counted, queue, mails>>

Written(r) == queue' = [queue EXCEPT ![r].status = "pending"]

(* enqueue: counted as queued whether or not the row was written.           *)
Enqueue(r, from, to) ==
  /\ Sender(from, to)
  /\ counted' = TRUE
  /\ \/ Written(r) /\ Quietly
     \/ Disturb /\ UNCHANGED queue
  /\ UNCHANGED <<heard, mails>>

FallBack   == Enqueue("fallback", "fall_back", "email")
QueueEmail == Enqueue("email", "queue", "end")

Mailed(r) == mails' = [mails EXCEPT ![r] = @ + 1]

(* send_email: sent, or an error - after which the mail may have left all   *)
(* the same.                                                                *)
SendEmail ==
  /\ Sender("email", "end") /\ Quietly
  /\ enabled
  /\ Mailed("email") /\ counted' = TRUE
  /\ UNCHANGED <<heard, queue>>

EmailFails ==
  /\ Sender("email", "queue")
  /\ \/ Quietly /\ UNCHANGED mails
     \/ enabled /\ Disturb /\ Mailed("email")
  /\ UNCHANGED <<heard, counted, queue>>

(* Mutant: the alert kept for what is no obligation. *)
Unreached_NotOwed == ~transactional /\ ~counted

(* execute: nobody reached, and the kind is an obligation. *)
Unreached == transactional /\ ~counted

Report ==
  /\ sender = "end" /\ sender' = "done"
  /\ alert' = Unreached
  /\ Quietly
  /\ UNCHANGED <<messageVars, heard, counted, queue, mails, failed, drainVars>>

SenderStops ==
  /\ sender # "done" /\ sender' = "done"
  /\ Disturb
  /\ UNCHANGED <<messageVars, heard, counted, alert, queue, mails, failed, drainVars>>

Deliver == \/ NoInApp \/ NoPush \/ NoEmail \/ PushFails
           \/ \E absorbed \in BOOLEAN : WriteInApp(absorbed)
           \/ \E outcome \in {"heard", "missed"} : Push(outcome)
           \/ FallBack \/ SendEmail \/ EmailFails \/ QueueEmail \/ Report

-----------------------------------------------------------------------------
(* Time, and the person. *)

(* next_attempt_at has come. *)
FallsDue(r) ==
  /\ queue[r].status = "pending" /\ ~queue[r].due
  /\ queue' = [queue EXCEPT ![r].due = TRUE]
  /\ UNCHANGED <<messageVars, senderVars, mails, failed, drainVars, disturbed, stops>>

(* A hard bounce, or the account asks for no more mail. *)
AddressIsDisabled ==
  /\ enabled /\ enabled' = FALSE
  /\ UNCHANGED <<transactional, senderVars, queue, mails, failed, drainVars, disturbed, stops>>

-----------------------------------------------------------------------------
(* drain *)

(* Mutant: whatever the row says by now. *)
Due_AnyStatus == {r \in Mail : queue[r].status # "none" /\ queue[r].due}

Due == {r \in Mail : queue[r].status = "pending" /\ queue[r].due}

Orders(S) == {q \in [1 .. Cardinality(S) -> S] : \A r \in S : \E k \in DOMAIN q : q[k] = r}

ListDue(d) ==
  /\ pc[d] = "idle" /\ Due # {}
  /\ pc'   = [pc EXCEPT ![d] = "try"]
  /\ \E order \in Orders(Due) : list' = [list EXCEPT ![d] = order]
  /\ saw'  = [saw EXCEPT ![d] = [r \in Mail |-> IF r \in Due THEN queue[r].attempts ELSE 0]]
  /\ disturbed' = (disturbed \/ \E e \in Drain \ {d} : pc[e] # "idle")
  /\ UNCHANGED <<messageVars, senderVars, queue, mails, failed, stops>>

(* Row by row, by next_attempt_at. *)
Current(d, r) == list[d] # <<>> /\ r = Head(list[d])

(* attempt: sent, to an address verified or not, or disabled, which is as   *)
(* good.                                                                    *)
TrySucceeds(d, r) ==
  /\ pc[d] = "try" /\ Current(d, r)
  /\ pc' = [pc EXCEPT ![d] = "mark_sent"]
  /\ IF enabled THEN Mailed(r) ELSE UNCHANGED mails
  /\ UNCHANGED <<messageVars, senderVars, queue, failed, list, saw, disturbed, stops>>

TryFails(d, r) ==
  /\ pc[d] = "try" /\ Current(d, r)
  /\ pc' = [pc EXCEPT ![d] = "mark_failed"]
  /\ failed' = [failed EXCEPT ![r] = @ + 1]
  /\ \/ Quietly /\ UNCHANGED mails
     \/ enabled /\ Disturb /\ Mailed(r)
  /\ UNCHANGED <<messageVars, senderVars, queue, list, saw>>

MoveOn(d, r) ==
  LET rest == Tail(list[d])
  IN  /\ list' = [list EXCEPT ![d] = rest]
      /\ pc'   = [pc EXCEPT ![d] = IF rest = <<>> THEN "idle" ELSE "try"]
      /\ saw'  = [saw EXCEPT ![d][r] = 0]

(* UPDATE ... WHERE id, whatever the row says by now. *)
MarkSent(d, r) ==
  /\ pc[d] = "mark_sent" /\ Current(d, r)
  /\ queue' = [queue EXCEPT ![r].status = "sent", ![r].attempts = @ + 1]
  /\ MoveOn(d, r)
  /\ UNCHANGED <<messageVars, senderVars, mails, failed, disturbed, stops>>

(* Mutant: one attempt short. *)
GivesUp_OneEarly(attempts) == attempts + 1 >= MaxAttempts

GivesUp(attempts) == attempts >= MaxAttempts

MarkFailed(d, r) ==
  LET attempts == saw[d][r] + 1
  IN  /\ pc[d] = "mark_failed" /\ Current(d, r)
      /\ queue' = [queue EXCEPT ![r].attempts = attempts,
                                ![r].status   = IF GivesUp(attempts) THEN "abandoned" ELSE @,
                                ![r].due      = GivesUp(attempts) /\ @]
      /\ MoveOn(d, r)
      /\ UNCHANGED <<messageVars, senderVars, mails, failed, disturbed, stops>>

(* The instance goes away, or a statement fails and the pass ends there. *)
DrainStops(d) ==
  /\ pc[d] # "idle"
  /\ Disturb
  /\ pc'   = [pc EXCEPT ![d] = "idle"]
  /\ list' = [list EXCEPT ![d] = <<>>]
  /\ saw'  = [saw EXCEPT ![d] = Unseen]
  /\ UNCHANGED <<messageVars, senderVars, queue, mails, failed>>

Attempt(d) == \E r \in Mail : TrySucceeds(d, r) \/ TryFails(d, r) \/ MarkSent(d, r) \/ MarkFailed(d, r)

-----------------------------------------------------------------------------
Next ==
  \/ Deliver \/ SenderStops \/ AddressIsDisabled
  \/ \E r \in Mail : FallsDue(r)
  \/ \E d \in Drain : ListDue(d) \/ Attempt(d) \/ DrainStops(d)

Spec == Init /\ [][Next]_vars

(* The runtime drives what it has begun, time passes, and timers come back. *)
(* No attempt is assumed to succeed.                                        *)
Fairness == /\ WF_vars(Deliver)
            /\ \A r \in Mail : WF_vars(FallsDue(r))
            /\ \A d \in Drain : WF_vars(ListDue(d)) /\ WF_vars(Attempt(d))

FairSpec == Spec /\ Fairness

-----------------------------------------------------------------------------
(* A message is given up only after MAX_ATTEMPTS attempts that failed,      *)
(* whatever the drains read before they wrote (drain's `row.attempts`).     *)
NeverGivesUpEarly == \A r \in Mail : queue[r].status = "abandoned" => failed[r] >= MaxAttempts

(* Unless two drains met or somebody was cut off, nothing is mailed twice,   *)
(* and the row says what became of it: what is abandoned never left.         *)
SentOnce ==
  ~disturbed => \A r \in Mail : /\ mails[r] <= 1
                                /\ queue[r].status = "abandoned" => mails[r] = 0
                                /\ queue[r].status = "sent" /\ enabled => mails[r] = 1

(* A notification that is an obligation is heard, or an operator is told     *)
(* (notify.rs:31) - but for what the code takes for heard and is not: a push *)
(* no device took, an address disabled by then, a row that was not written.  *)
Heard == heard = "heard" \/ \E r \in Mail : mails[r] > 0
Told  == alert \/ \E r \in Mail : queue[r].status = "abandoned"

ObligationIsMet == transactional ~> Heard \/ Told \/ heard = "missed" \/ ~enabled \/ disturbed
=============================================================================
