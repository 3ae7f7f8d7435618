------------------------------ MODULE OutboxProofs ------------------------------
(***************************************************************************)
(* What holds of the queue for any number of draining instances, any       *)
(* MAX_ATTEMPTS and any number of cuts: the attempts written down never    *)
(* exceed those that failed, and while nobody is disturbed a message is    *)
(* with one drain at most, once.                                           *)
(***************************************************************************)
EXTENDS Outbox, FiniteSetTheorems, TLAPS

Listed(d, r) == \E k \in DOMAIN list[d] : list[d][k] = r

Distinct(q) == \A j, k \in DOMAIN q : q[j] = q[k] => j = k

(* The sender has not come to the place where it writes row r. *)
Ahead(r) == \/ sender \in {"in_app", "push", "fall_back"}
            \/ r = "email" /\ sender \in {"email", "queue"}

(* The attempts a row shows, and those a drain read, have failed; a drain   *)
(* that will mark a failure has one more to show.                           *)
Counted ==
  /\ \A d \in Drain : pc[d] = "idle" <=> list[d] = <<>>
  /\ \A r \in Mail :
       /\ Ahead(r) => queue[r].status = "none"
       /\ queue[r].status \in {"none", "pending"} => queue[r].attempts <= failed[r]
       /\ queue[r].status = "abandoned" => MaxAttempts <= failed[r]
  /\ \A d \in Drain, r \in Mail :
       /\ saw[d][r] <= failed[r]
       /\ Listed(d, r) => queue[r].status # "none"
       /\ pc[d] = "mark_failed" /\ Current(d, r) => saw[d][r] + 1 <= failed[r]

(* One drain at a time, and what left the queue's rows know. *)
Settled(r) ==
  /\ mails[r] <= 1
  /\ Ahead(r) \/ queue[r].status = "abandoned" => mails[r] = 0
  /\ queue[r].status = "sent" /\ enabled => mails[r] = 1
  /\ queue[r].status = "pending" /\ (\A d \in Drain : pc[d] = "mark_sent" => ~Current(d, r)) => mails[r] = 0
  /\ \A d \in Drain : pc[d] = "mark_sent" /\ Current(d, r) /\ enabled => mails[r] = 1

Alone ==
  /\ \A d, e \in Drain : pc[d] # "idle" /\ pc[e] # "idle" => d = e
  /\ \A d \in Drain : Distinct(list[d])
  /\ \A d \in Drain, r \in Mail : Listed(d, r) => queue[r].status = "pending"

Undisturbed == ~disturbed => Alone /\ \A r \in Mail : Settled(r)

Inv == TypeOK /\ Counted /\ Undisturbed

-----------------------------------------------------------------------------
USE DEF messageVars, senderVars, drainVars, Quietly, Disturb, Mail, Ahead

(* Both rows are due, one of them, or none: finitely many.                  *)
LEMMA DueIsFinite == IsFiniteSet(Due) /\ Cardinality(Due) \in Nat
<1>1. IsFiniteSet({"fallback"})
  BY FS_Singleton
<1>2. IsFiniteSet({"fallback"} \cup {"email"})
  BY <1>1, FS_AddElement
<1>3. IsFiniteSet(Mail) /\ Due \in SUBSET Mail
  BY <1>2 DEF Due
<1>4. IsFiniteSet(Due)
  BY <1>3, FS_Subset
<1> QED BY <1>4, FS_CardinalityType

(* A drain lists each due row once. *)
LEMMA OrderFacts ==
  ASSUME NEW q \in Orders(Due)
  PROVE  /\ q \in Seq(Mail) /\ Distinct(q)
         /\ Due # {} => q # <<>>
         /\ \A k \in DOMAIN q : q[k] \in Due
<1> DEFINE n == Cardinality(Due)
<1>1. n \in Nat /\ q \in [1 .. n -> Due] /\ \A r \in Due : \E k \in DOMAIN q : q[k] = r
  BY DueIsFinite DEF Orders
<1>2. q \in Surjection(1 .. n, Due)
  BY <1>1 DEF Surjection
<1>3. IsFiniteSet(1 .. n) /\ Cardinality(1 .. n) = n
  <2>1. 1 \in Int /\ n \in Int
    BY <1>1
  <2> HIDE DEF n
  <2> QED BY <1>1, <2>1, FS_Interval
<1>4. q \in Injection(1 .. n, Due)
  <2> HIDE DEF n
  <2>1. n = Cardinality(Due)
    BY DEF n
  <2> QED BY <1>2, <1>3, <2>1, FS_Surjection
<1>5. Distinct(q)
  BY <1>1, <1>4 DEF Injection, IsInjective, Distinct
<1>6. q \in Seq(Mail)
  <2> HIDE DEF n
  <2> QED BY <1>1 DEF Due
<1>7. Due # {} => q # <<>>
  BY <1>1
<1> QED BY <1>1, <1>5, <1>6, <1>7

(* The rest of a list, once its first row is done with. *)
LEMMA TailFacts ==
  ASSUME NEW q \in Seq(Mail), q # <<>>
  PROVE  /\ Tail(q) \in Seq(Mail)
         /\ 1 \in DOMAIN q /\ Head(q) = q[1]
         /\ \A k \in DOMAIN Tail(q) : k + 1 \in DOMAIN q /\ k + 1 # 1 /\ Tail(q)[k] = q[k + 1]
         /\ Distinct(q) => Distinct(Tail(q)) /\ \A k \in DOMAIN Tail(q) : Tail(q)[k] # Head(q)
<1>1. /\ Tail(q) \in Seq(Mail) /\ 1 \in DOMAIN q /\ Head(q) = q[1]
      /\ \A k \in DOMAIN Tail(q) : k \in Nat /\ k + 1 \in DOMAIN q /\ k + 1 # 1 /\ Tail(q)[k] = q[k + 1]
  OBVIOUS
<1>2. ASSUME Distinct(q) PROVE Distinct(Tail(q)) /\ \A k \in DOMAIN Tail(q) : Tail(q)[k] # Head(q)
  BY <1>1, <1>2 DEF Distinct
<1> QED BY <1>1, <1>2

(* A drain that is done with a row. *)
LEMMA Moved ==
  ASSUME TypeOK, NEW d \in Drain, NEW r \in Mail, Current(d, r), MoveOn(d, r)
  PROVE  /\ list' \in [Drain -> Seq(Mail)]
         /\ pc' \in [Drain -> {"idle", "try", "mark_sent", "mark_failed"}]
         /\ saw' \in [Drain -> [Mail -> Nat]]
         /\ \A e \in Drain \ {d} : list'[e] = list[e] /\ pc'[e] = pc[e] /\ saw'[e] = saw[e]
         /\ pc'[d] \in {"idle", "try"} /\ (pc'[d] = "idle" <=> list'[d] = <<>>)
         /\ \A x \in Mail : Listed(d, x)' => Listed(d, x)
         /\ \A e \in Drain, x \in Mail : saw'[e][x] \in {0, saw[e][x]}
         /\ Distinct(list[d]) => Distinct(list'[d]) /\ ~Listed(d, r)'
<1>1. /\ list \in [Drain -> Seq(Mail)] /\ list[d] \in Seq(Mail) /\ list[d] # <<>> /\ r = Head(list[d])
      /\ pc \in [Drain -> {"idle", "try", "mark_sent", "mark_failed"}]
      /\ saw \in [Drain -> [Mail -> Nat]]
  BY DEF TypeOK, Current
<1>2. PICK rest : rest = Tail(list[d])
  OBVIOUS
<1>3. /\ list' = [list EXCEPT ![d] = rest]
      /\ pc' = [pc EXCEPT ![d] = IF rest = <<>> THEN "idle" ELSE "try"]
      /\ saw' = [saw EXCEPT ![d][r] = 0]
  BY <1>2 DEF MoveOn
<1>4. /\ rest \in Seq(Mail) /\ \A k \in DOMAIN rest : k + 1 \in DOMAIN list[d] /\ rest[k] = list[d][k + 1]
      /\ Distinct(list[d]) => Distinct(rest) /\ \A k \in DOMAIN rest : rest[k] # r
  BY <1>1, <1>2, TailFacts
<1>5. list'[d] = rest /\ \A e \in Drain \ {d} : list'[e] = list[e] /\ pc'[e] = pc[e]
  BY <1>1, <1>3
<1>6. pc'[d] = IF rest = <<>> THEN "idle" ELSE "try"
  BY <1>1, <1>3
<1>7. list' \in [Drain -> Seq(Mail)] /\ pc' \in [Drain -> {"idle", "try", "mark_sent", "mark_failed"}]
  BY <1>1, <1>3, <1>4
<1>8. /\ saw' \in [Drain -> [Mail -> Nat]] /\ \A e \in Drain \ {d} : saw'[e] = saw[e]
      /\ \A e \in Drain, x \in Mail : saw'[e][x] \in {0, saw[e][x]}
  BY <1>1, <1>3
<1>9. \A x \in Mail : Listed(d, x)' => Listed(d, x)
  BY <1>4, <1>5 DEF Listed
<1>10. Distinct(list[d]) => Distinct(list'[d]) /\ ~Listed(d, r)'
  BY <1>4, <1>5 DEF Listed
<1> QED BY <1>5, <1>6, <1>7, <1>8, <1>9, <1>10

(* The row a drain is at is one it listed. *)
LEMMA CurrentIsListed ==
  ASSUME TypeOK, NEW d \in Drain, NEW r \in Mail, Current(d, r)
  PROVE  Listed(d, r)
<1>1. list[d] \in Seq(Mail) /\ list[d] # <<>> /\ r = Head(list[d])
  BY DEF TypeOK, Current
<1> QED BY <1>1, TailFacts DEF Listed

(* At first there is no row and no drain. *)
LEMMA InitInv == Init => Inv
<1> SUFFICES ASSUME Init PROVE Inv
  OBVIOUS
<1>1. TypeOK
  <2>1. <<>> \in Seq(Mail) /\ Unseen \in [Mail -> Nat]
    BY DEF Unseen
  <2>2. stops \in 0 .. MaxStops
    BY OutboxAssumption DEF Init, OutboxAssumption
  <2> QED BY <2>1, <2>2 DEF Init, TypeOK
<1>2. Counted
  BY DEF Init, Counted, Unseen, Listed, Current
<1>3. Undisturbed
  BY DEF Init, Undisturbed, Alone, Settled, Listed, Distinct, Current
<1> QED BY <1>1, <1>2, <1>3 DEF Inv

-----------------------------------------------------------------------------
(* The sender writes rows no drain knows yet, and mails what it has not     *)
(* written.                                                                 *)
LEMMA SenderStep ==
  ASSUME Inv, TypeOK',
         UNCHANGED <<messageVars, failed, drainVars>>,
         ~disturbed' => ~disturbed,
         \A r \in Mail : Ahead(r)' => Ahead(r),
         \A r \in Mail : \/ queue'[r] = queue[r]
                         \/ /\ Ahead(r) /\ ~Ahead(r)' /\ mails'[r] = mails[r]
                            /\ queue'[r] = [queue[r] EXCEPT !.status = "pending"],
         \A r \in Mail : \/ mails'[r] = mails[r] \/ disturbed'
                         \/ Ahead(r) /\ ~Ahead(r)' /\ mails'[r] = mails[r] + 1 /\ queue'[r] = queue[r]
  PROVE  Inv'
<1>1. \A d \in Drain, r \in Mail : (Listed(d, r)' <=> Listed(d, r)) /\ (Current(d, r)' <=> Current(d, r))
  BY DEF Listed, Current
<1>2. \A r \in Mail : queue'[r].attempts = queue[r].attempts
  BY DEF Inv, TypeOK
<1>3. \A r \in Mail : \/ queue'[r].status = queue[r].status
                      \/ /\ Ahead(r) /\ ~Ahead(r)' /\ mails'[r] = mails[r]
                         /\ queue'[r].status = "pending"
  BY DEF Inv, TypeOK
<1>4. Counted'
  BY <1>1, <1>2, <1>3 DEF Inv, Counted
<1>5. ASSUME ~disturbed' PROVE Alone' /\ \A r \in Mail : Settled(r)'
  <2>1. Alone /\ \A r \in Mail : Settled(r) /\ (Ahead(r) => queue[r].status = "none")
    BY <1>5 DEF Inv, Undisturbed, Counted
  <2>2. Alone'
    BY <1>1, <1>3, <2>1 DEF Alone, Distinct
  <2>3. ASSUME NEW r \in Mail PROVE Settled(r)'
    <3>1. mails[r] \in Nat /\ enabled' = enabled
      BY DEF Inv, TypeOK
    <3>2. \/ mails'[r] = mails[r]
          \/ Ahead(r) /\ ~Ahead(r)' /\ mails'[r] = mails[r] + 1 /\ queue'[r].status = queue[r].status
      BY <1>5
    <3>3. \A d \in Drain : Current(d, r) => ~Ahead(r)
      BY <2>1, CurrentIsListed DEF Inv, Alone
    <3> QED BY <1>1, <1>3, <2>1, <3>1, <3>2, <3>3 DEF Settled
  <2> QED BY <2>2, <2>3
<1> QED BY <1>4, <1>5 DEF Inv, Undisturbed

(* What deliver_to does, one channel after the other. *)
LEMMA SenderInv == Inv /\ (Deliver \/ SenderStops) => Inv'
<1> SUFFICES ASSUME Inv, Deliver \/ SenderStops PROVE Inv'
  OBVIOUS
<1>1. /\ queue \in [Mail -> [status : {"none", "pending", "sent", "abandoned"}, attempts : Nat, due : BOOLEAN]]
      /\ mails \in [Mail -> Nat] /\ stops \in 0 .. MaxStops /\ disturbed \in BOOLEAN
      /\ heard \in {"nothing", "missed", "heard"} /\ {counted, alert} \subseteq BOOLEAN
  BY DEF Inv, TypeOK
<1>2. Disturb => stops' \in 0 .. MaxStops
  BY <1>1, OutboxAssumption DEF OutboxAssumption
<1>3. ASSUME NEW r \in Mail, Written(r)
      PROVE  /\ queue' \in [Mail -> [status : {"none", "pending", "sent", "abandoned"},
                                     attempts : Nat, due : BOOLEAN]]
             /\ queue'[r] = [queue[r] EXCEPT !.status = "pending"]
             /\ \A x \in Mail \ {r} : queue'[x] = queue[x]
  BY <1>1, <1>3 DEF Written
<1>4. ASSUME NEW r \in Mail, Mailed(r)
      PROVE  /\ mails' \in [Mail -> Nat] /\ mails'[r] = mails[r] + 1
             /\ \A x \in Mail \ {r} : mails'[x] = mails[x]
  BY <1>1, <1>4 DEF Mailed
<1>5. CASE NoInApp \/ NoPush \/ NoEmail \/ PushFails
  <2>1. /\ UNCHANGED <<messageVars, heard, counted, alert, queue, mails, failed, drainVars, disturbed, stops>>
        /\ sender' \in {"push", "email", "end", "fall_back"}
        /\ \A r \in Mail : Ahead(r)' => Ahead(r)
    BY <1>5 DEF NoInApp, NoPush, NoEmail, PushFails, Skip, Sender
  <2>2. TypeOK'
    BY <2>1 DEF Inv, TypeOK
  <2> QED BY <2>1, <2>2, SenderStep
<1>6. CASE (\E absorbed \in BOOLEAN : WriteInApp(absorbed)) \/ (\E outcome \in {"heard", "missed"} : Push(outcome))
  <2>1. /\ UNCHANGED <<messageVars, alert, queue, mails, failed, drainVars, disturbed, stops>>
        /\ sender' \in {"push", "email", "end"} /\ heard' \in {"heard", "missed"} /\ counted' \in BOOLEAN
        /\ \A r \in Mail : Ahead(r)' => Ahead(r)
    BY <1>6 DEF WriteInApp, Push, Sender
  <2>2. TypeOK'
    BY <2>1 DEF Inv, TypeOK
  <2> QED BY <2>1, <2>2, SenderStep
<1>7. CASE FallBack \/ QueueEmail
  <2>1. PICK r \in Mail : /\ Ahead(r) /\ ~Ahead(r)' /\ \A x \in Mail : Ahead(x)' => Ahead(x)
                          /\ sender' \in {"email", "end"} /\ counted' = TRUE
                          /\ UNCHANGED <<messageVars, heard, alert, mails, failed, drainVars>>
                          /\ \/ Written(r) /\ Quietly
                             \/ Disturb /\ UNCHANGED queue
    BY <1>7 DEF FallBack, QueueEmail, Enqueue, Sender
  <2>2. TypeOK'
    <3>1. queue' \in [Mail -> [status : {"none", "pending", "sent", "abandoned"}, attempts : Nat, due : BOOLEAN]]
      BY <1>1, <1>3, <2>1
    <3> QED BY <1>2, <2>1, <3>1 DEF Inv, TypeOK
  <2> QED BY <1>3, <2>1, <2>2, SenderStep
<1>8. CASE SendEmail \/ EmailFails
  <2>1. /\ Ahead("email") /\ \A x \in Mail : Ahead(x)' => Ahead(x)
        /\ sender' \in {"queue", "end"} /\ counted' \in {counted, TRUE}
        /\ UNCHANGED <<messageVars, heard, alert, queue, failed, drainVars>>
        /\ \/ Quietly /\ UNCHANGED mails
           \/ Quietly /\ Mailed("email") /\ ~Ahead("email")'
           \/ Disturb /\ Mailed("email")
    BY <1>8 DEF SendEmail, EmailFails, Sender
  <2>2. TypeOK'
    <3>1. mails' \in [Mail -> Nat]
      BY <1>1, <1>4, <2>1
    <3> QED BY <1>2, <2>1, <3>1 DEF Inv, TypeOK
  <2> QED BY <1>4, <2>1, <2>2, SenderStep
<1>9. CASE Report \/ SenderStops
  <2>1. /\ UNCHANGED <<messageVars, heard, counted, queue, mails, failed, drainVars>>
        /\ sender' = "done" /\ alert' \in BOOLEAN
        /\ Quietly \/ Disturb
    BY <1>1, <1>9 DEF Report, SenderStops, Unreached
  <2>2. TypeOK'
    BY <1>2, <2>1 DEF Inv, TypeOK
  <2> QED BY <2>1, <2>2, SenderStep
<1> QED BY <1>5, <1>6, <1>7, <1>8, <1>9 DEF Deliver

(* Time passes, and the address is given up. *)
LEMMA WorldInv == Inv /\ (AddressIsDisabled \/ \E r \in Mail : FallsDue(r)) => Inv'
<1> SUFFICES ASSUME Inv, AddressIsDisabled \/ \E r \in Mail : FallsDue(r) PROVE Inv'
  OBVIOUS
<1>1. /\ UNCHANGED <<transactional, senderVars, mails, failed, drainVars, disturbed, stops>>
      /\ enabled' \in BOOLEAN /\ (enabled' => enabled)
      /\ queue' \in [Mail -> [status : {"none", "pending", "sent", "abandoned"}, attempts : Nat, due : BOOLEAN]]
      /\ \A r \in Mail : queue'[r].status = queue[r].status /\ queue'[r].attempts = queue[r].attempts
  <2>1. queue \in [Mail -> [status : {"none", "pending", "sent", "abandoned"}, attempts : Nat, due : BOOLEAN]]
    BY DEF Inv, TypeOK
  <2>2. CASE AddressIsDisabled
    BY <2>1, <2>2 DEF AddressIsDisabled
  <2>3. CASE \E r \in Mail : FallsDue(r)
    <3>1. enabled \in BOOLEAN
      BY DEF Inv, TypeOK
    <3>2. PICK r \in Mail : FallsDue(r)
      BY <2>3
    <3>3. /\ queue' = [queue EXCEPT ![r].due = TRUE]
          /\ UNCHANGED <<messageVars, senderVars, mails, failed, drainVars, disturbed, stops>>
      BY <3>2 DEF FallsDue
    <3> QED BY <2>1, <3>1, <3>3
  <2> QED BY <2>2, <2>3
<1>2. TypeOK'
  BY <1>1 DEF Inv, TypeOK
<1>3. \A d \in Drain, r \in Mail : (Listed(d, r)' <=> Listed(d, r)) /\ (Current(d, r)' <=> Current(d, r))
  BY <1>1 DEF Listed, Current
<1>4. Counted'
  BY <1>1, <1>3 DEF Inv, Counted
<1>5. Undisturbed'
  BY <1>1, <1>3 DEF Inv, Undisturbed, Alone, Settled, Distinct
<1> QED BY <1>2, <1>4, <1>5 DEF Inv

-----------------------------------------------------------------------------
(* What a drain lists is pending, and nobody is at it yet. *)
LEMMA ListInv == ASSUME Inv, NEW d \in Drain, ListDue(d) PROVE Inv'
<1>1. PICK order \in Orders(Due) : list' = [list EXCEPT ![d] = order]
  BY DEF ListDue
<1>2. /\ pc[d] = "idle" /\ pc' = [pc EXCEPT ![d] = "try"]
      /\ saw' = [saw EXCEPT ![d] = [r \in Mail |-> IF r \in Due THEN queue[r].attempts ELSE 0]]
      /\ disturbed' = (disturbed \/ \E e \in Drain \ {d} : pc[e] # "idle")
      /\ UNCHANGED <<messageVars, senderVars, queue, mails, failed, stops>>
      /\ Due # {}
  BY DEF ListDue
<1>3. /\ queue \in [Mail -> [status : {"none", "pending", "sent", "abandoned"}, attempts : Nat, due : BOOLEAN]]
      /\ failed \in [Mail -> Nat] /\ list \in [Drain -> Seq(Mail)] /\ saw \in [Drain -> [Mail -> Nat]]
      /\ pc \in [Drain -> {"idle", "try", "mark_sent", "mark_failed"}]
  BY DEF Inv, TypeOK
<1>4. /\ order \in Seq(Mail) /\ Distinct(order) /\ order # <<>>
      /\ \A k \in DOMAIN order : order[k] \in Due
  BY <1>2, OrderFacts
<1>5. /\ list'[d] = order /\ pc'[d] = "try"
      /\ \A r \in Mail : saw'[d][r] = IF r \in Due THEN queue[r].attempts ELSE 0
      /\ \A e \in Drain \ {d} : list'[e] = list[e] /\ pc'[e] = pc[e] /\ saw'[e] = saw[e]
  BY <1>1, <1>2, <1>3
<1>6. TypeOK'
  <2>1. list' \in [Drain -> Seq(Mail)]
    BY <1>1, <1>3, <1>4
  <2>2. saw' \in [Drain -> [Mail -> Nat]]
    BY <1>2, <1>3
  <2>3. disturbed' \in BOOLEAN
    BY <1>2 DEF Inv, TypeOK
  <2> QED BY <1>2, <2>1, <2>2, <2>3 DEF Inv, TypeOK
<1>7. /\ \A r \in Mail : Listed(d, r)' => queue[r].status = "pending"
      /\ \A e \in Drain \ {d}, r \in Mail :
           (Listed(e, r)' <=> Listed(e, r)) /\ (Current(e, r)' <=> Current(e, r))
  BY <1>4, <1>5 DEF Listed, Due, Current
<1>8. Counted'
  <2>1. \A e \in Drain : pc'[e] = "idle" <=> list'[e] = <<>>
    BY <1>4, <1>5 DEF Inv, Counted
  <2>2. ASSUME NEW r \in Mail PROVE saw'[d][r] <= failed[r]
    BY <1>3, <1>5 DEF Inv, Counted, Due
  <2> QED BY <1>2, <1>5, <1>7, <2>1, <2>2 DEF Inv, Counted
<1>9. ASSUME ~disturbed' PROVE Alone' /\ \A r \in Mail : Settled(r)'
  <2>1. /\ Alone /\ \A r \in Mail : Settled(r)
        /\ \A e \in Drain \ {d} : pc[e] = "idle"
    BY <1>2, <1>9 DEF Inv, Undisturbed
  <2>2. Alone'
    BY <1>2, <1>4, <1>5, <1>7, <2>1 DEF Alone
  <2>3. ASSUME NEW r \in Mail PROVE Settled(r)'
    <3>1. \A e \in Drain : pc[e] # "mark_sent" /\ pc'[e] # "mark_sent"
      BY <1>2, <1>5, <2>1
    <3> QED BY <1>2, <2>1, <3>1 DEF Settled
  <2> QED BY <2>2, <2>3
<1> QED BY <1>6, <1>8, <1>9 DEF Inv, Undisturbed

(* An attempt: it is mailed, or it has failed once more. *)
LEMMA TryInv ==
  ASSUME Inv, NEW d \in Drain, NEW r \in Mail, TrySucceeds(d, r) \/ TryFails(d, r)
  PROVE  Inv'
<1>1. PICK to \in {"mark_sent", "mark_failed"} :
        /\ pc[d] = "try" /\ Current(d, r) /\ pc' = [pc EXCEPT ![d] = to]
        /\ failed' = [failed EXCEPT ![r] = IF to = "mark_failed" THEN @ + 1 ELSE @]
        /\ mails' = mails \/ Mailed(r)
        /\ \/ UNCHANGED <<disturbed, stops>> /\ (to = "mark_failed" => mails' = mails)
           \/ Disturb
        /\ to = "mark_sent" /\ enabled => Mailed(r)
        /\ UNCHANGED <<messageVars, senderVars, queue, list, saw>>
  <2>1. CASE TrySucceeds(d, r)
    <3>1. failed' = [failed EXCEPT ![r] = @]
      BY <2>1 DEF TrySucceeds, Inv, TypeOK
    <3> QED BY <2>1, <3>1 DEF TrySucceeds
  <2>2. CASE TryFails(d, r)
    BY <2>2 DEF TryFails
  <2> QED BY <2>1, <2>2
<1>2. /\ failed \in [Mail -> Nat] /\ mails \in [Mail -> Nat] /\ saw \in [Drain -> [Mail -> Nat]]
      /\ pc \in [Drain -> {"idle", "try", "mark_sent", "mark_failed"}]
  BY DEF Inv, TypeOK
<1>3. /\ pc'[d] = to /\ \A e \in Drain \ {d} : pc'[e] = pc[e]
      /\ \A x \in Mail \ {r} : failed'[x] = failed[x] /\ mails'[x] = mails[x]
      /\ failed'[r] = failed[r] + (IF to = "mark_failed" THEN 1 ELSE 0)
      /\ failed' \in [Mail -> Nat] /\ mails' \in [Mail -> Nat]
  BY <1>1, <1>2 DEF Mailed
<1>4. TypeOK'
  <2>1. stops' \in 0 .. MaxStops /\ disturbed' \in BOOLEAN
    <3>1. stops \in 0 .. MaxStops /\ disturbed \in BOOLEAN /\ MaxStops \in Nat
      BY OutboxAssumption DEF Inv, TypeOK, OutboxAssumption
    <3>2. CASE UNCHANGED <<disturbed, stops>>
      BY <3>1, <3>2
    <3>3. CASE Disturb
      BY <3>1, <3>3
    <3> QED BY <1>1, <3>2, <3>3
  <2>2. pc' \in [Drain -> {"idle", "try", "mark_sent", "mark_failed"}]
    BY <1>1, <1>2
  <2> QED BY <1>1, <1>3, <2>1, <2>2 DEF Inv, TypeOK
<1>5. \A e \in Drain, x \in Mail : (Listed(e, x)' <=> Listed(e, x)) /\ (Current(e, x)' <=> Current(e, x))
  BY <1>1 DEF Listed, Current
<1>6. \A x \in Mail : Current(d, x) => x = r
  BY <1>1 DEF Current
<1>7. Counted'
  <2>1. \A x \in Mail : failed[x] <= failed'[x] /\ failed[x] \in Nat
    BY <1>2, <1>3
  <2>2. ASSUME NEW e \in Drain, NEW x \in Mail PROVE saw[e][x] <= failed'[x]
    <3>1. saw[e][x] <= failed[x] /\ saw[e][x] \in Nat /\ failed'[x] \in Nat
      BY <1>2, <1>3 DEF Inv, Counted
    <3> QED BY <2>1, <3>1
  <2>3. ASSUME NEW e \in Drain, NEW x \in Mail, pc'[e] = "mark_failed", Current(e, x)
        PROVE  saw[e][x] + 1 <= failed'[x]
    <3>1. CASE e = d
      BY <1>2, <1>3, <1>6, <2>3, <3>1 DEF Inv, Counted
    <3>2. CASE e # d
      BY <1>2, <1>3, <2>1, <2>3, <3>2 DEF Inv, Counted
    <3> QED BY <3>1, <3>2
  <2>4. ASSUME NEW x \in Mail
        PROVE  /\ Ahead(x)' => queue'[x].status = "none"
               /\ queue'[x].status \in {"none", "pending"} => queue'[x].attempts <= failed'[x]
               /\ queue'[x].status = "abandoned" => MaxAttempts <= failed'[x]
    <3>1. queue[x].attempts \in Nat /\ MaxAttempts \in Nat
      BY OutboxAssumption DEF Inv, TypeOK, OutboxAssumption
    <3> QED BY <1>1, <2>1, <3>1 DEF Inv, Counted
  <2>5. \A e \in Drain : pc'[e] = "idle" <=> list'[e] = <<>>
    BY <1>1, <1>3 DEF Inv, Counted
  <2>6. \A e \in Drain, x \in Mail : Listed(e, x)' => queue'[x].status # "none"
    BY <1>1, <1>5 DEF Inv, Counted
  <2> QED BY <1>1, <1>5, <2>2, <2>3, <2>4, <2>5, <2>6 DEF Counted
<1>8. ASSUME ~disturbed' PROVE Alone' /\ \A x \in Mail : Settled(x)'
  <2>1. /\ Alone /\ \A x \in Mail : Settled(x)
        /\ to = "mark_failed" => mails' = mails
    BY <1>1, <1>8 DEF Inv, Undisturbed
  <2>2. Alone'
    BY <1>1, <1>3, <1>5, <2>1 DEF Alone
  <2>3. queue[r].status = "pending" /\ mails[r] = 0 /\ ~Ahead(r)
    <3>1. queue[r].status = "pending"
      BY <1>1, <2>1, CurrentIsListed DEF Inv, Alone
    <3>2. \A e \in Drain : pc[e] # "mark_sent"
      BY <1>1, <2>1 DEF Alone
    <3> QED BY <2>1, <3>1, <3>2 DEF Inv, Counted, Settled
  <2>4. /\ mails'[r] \in {0, 1} /\ (mails'[r] = 1 => to = "mark_sent")
        /\ to = "mark_sent" /\ enabled => mails'[r] = 1
    BY <1>1, <1>2, <2>1, <2>3 DEF Mailed
  <2>5. ASSUME NEW x \in Mail, x # r PROVE Settled(x)'
    <3>1. \A e \in Drain : pc'[e] = "mark_sent" /\ Current(e, x) <=> pc[e] = "mark_sent" /\ Current(e, x)
      BY <1>1, <1>3, <1>6, <2>5
    <3> QED BY <1>1, <1>3, <1>5, <2>1, <2>5, <3>1 DEF Settled
  <2>6. Settled(r)'
    <3>1. \A e \in Drain : pc'[e] = "mark_sent" => e = d /\ to = "mark_sent"
      BY <1>1, <1>3, <2>1 DEF Alone
    <3> QED BY <1>1, <1>3, <1>5, <2>3, <2>4, <3>1 DEF Settled
  <2> QED BY <2>2, <2>5, <2>6
<1> QED BY <1>4, <1>7, <1>8 DEF Inv, Undisturbed

(* A row is marked: no attempt is written down that has not failed. *)
LEMMA MarkInv ==
  ASSUME Inv, NEW d \in Drain, NEW r \in Mail, MarkSent(d, r) \/ MarkFailed(d, r)
  PROVE  Inv'
<1>1. /\ pc[d] \in {"mark_sent", "mark_failed"} /\ Current(d, r) /\ MoveOn(d, r)
      /\ queue' \in [Mail -> [status : {"none", "pending", "sent", "abandoned"}, attempts : Nat, due : BOOLEAN]]
      /\ \A x \in Mail \ {r} : queue'[x] = queue[x]
      /\ pc[d] = "mark_sent" => queue'[r].status = "sent"
      /\ pc[d] = "mark_failed" =>
           /\ queue'[r].attempts = saw[d][r] + 1
           /\ \/ queue'[r].status = queue[r].status
              \/ queue'[r].status = "abandoned" /\ MaxAttempts <= saw[d][r] + 1
      /\ UNCHANGED <<messageVars, senderVars, mails, failed, disturbed, stops>>
  <2>1. queue \in [Mail -> [status : {"none", "pending", "sent", "abandoned"}, attempts : Nat, due : BOOLEAN]]
    BY DEF Inv, TypeOK
  <2>2. CASE MarkSent(d, r)
    BY <2>1, <2>2 DEF MarkSent
  <2>3. CASE MarkFailed(d, r)
    <3>1. PICK attempts : attempts = saw[d][r] + 1
      OBVIOUS
    <3>2. /\ queue' = [queue EXCEPT ![r].attempts = attempts,
                                    ![r].status   = IF GivesUp(attempts) THEN "abandoned" ELSE queue[r].status,
                                    ![r].due      = GivesUp(attempts) /\ queue[r].due]
          /\ pc[d] = "mark_failed" /\ Current(d, r) /\ MoveOn(d, r)
          /\ UNCHANGED <<messageVars, senderVars, mails, failed, disturbed, stops>>
      BY <2>1, <2>3, <3>1 DEF MarkFailed
    <3>3. attempts \in Nat /\ (GivesUp(attempts) => MaxAttempts <= attempts)
      BY <3>1, OutboxAssumption DEF Inv, TypeOK, GivesUp, OutboxAssumption
    <3>4. CASE GivesUp(attempts)
      <4>1. queue' = [queue EXCEPT ![r].attempts = attempts, ![r].status = "abandoned", ![r].due = queue[r].due]
        BY <2>1, <3>2, <3>4
      <4> QED BY <2>1, <3>1, <3>2, <3>3, <3>4, <4>1
    <3>5. CASE ~GivesUp(attempts)
      <4>1. queue' = [queue EXCEPT ![r].attempts = attempts, ![r].status = queue[r].status, ![r].due = FALSE]
        BY <2>1, <3>2, <3>5
      <4> QED BY <2>1, <3>1, <3>2, <3>3, <4>1
    <3> QED BY <3>4, <3>5
  <2> QED BY <2>2, <2>3
<1>2. /\ queue \in [Mail -> [status : {"none", "pending", "sent", "abandoned"}, attempts : Nat, due : BOOLEAN]]
      /\ failed \in [Mail -> Nat] /\ saw \in [Drain -> [Mail -> Nat]]
  BY DEF Inv, TypeOK
<1>3. /\ list' \in [Drain -> Seq(Mail)]
      /\ pc' \in [Drain -> {"idle", "try", "mark_sent", "mark_failed"}]
      /\ saw' \in [Drain -> [Mail -> Nat]]
      /\ \A e \in Drain \ {d} : list'[e] = list[e] /\ pc'[e] = pc[e] /\ saw'[e] = saw[e]
      /\ pc'[d] \in {"idle", "try"} /\ (pc'[d] = "idle" <=> list'[d] = <<>>)
      /\ \A x \in Mail : Listed(d, x)' => Listed(d, x)
      /\ \A e \in Drain, x \in Mail : saw'[e][x] \in {0, saw[e][x]}
      /\ Distinct(list[d]) => Distinct(list'[d]) /\ ~Listed(d, r)'
  BY <1>1, Moved DEF Inv
<1>5. TypeOK'
  BY <1>1, <1>3 DEF Inv, TypeOK
<1>6. \A e \in Drain \ {d}, x \in Mail : (Listed(e, x)' <=> Listed(e, x)) /\ (Current(e, x)' <=> Current(e, x))
  BY <1>3 DEF Listed, Current
<1>7. Listed(d, r) /\ queue[r].status # "none" /\ ~Ahead(r) /\ queue'[r].status # "none"
  BY <1>1, CurrentIsListed DEF Inv, Counted
<1>8. Counted'
  <2>1. ASSUME NEW x \in Mail
        PROVE  /\ Ahead(x)' => queue'[x].status = "none"
               /\ queue'[x].status \in {"none", "pending"} => queue'[x].attempts <= failed'[x]
               /\ queue'[x].status = "abandoned" => MaxAttempts <= failed'[x]
    <3>1. CASE x = r
      <4>1. pc[d] = "mark_failed" => queue'[r].attempts <= failed[r]
        BY <1>1 DEF Inv, Counted
      <4>2. failed[r] \in Nat /\ MaxAttempts \in Nat
        BY <1>2, OutboxAssumption DEF OutboxAssumption
      <4> QED BY <1>1, <1>2, <1>7, <3>1, <4>1, <4>2 DEF Inv, Counted
    <3>2. CASE x # r
      BY <1>1, <3>2 DEF Inv, Counted
    <3> QED BY <3>1, <3>2
  <2>2. ASSUME NEW e \in Drain, NEW x \in Mail
        PROVE  /\ saw'[e][x] <= failed'[x]
               /\ Listed(e, x)' => queue'[x].status # "none"
               /\ pc'[e] = "mark_failed" /\ Current(e, x)' => saw'[e][x] + 1 <= failed'[x]
    <3>1. saw'[e][x] <= failed'[x]
      <4>1. saw[e][x] <= failed[x] /\ failed[x] \in Nat /\ failed' = failed /\ saw'[e][x] \in {0, saw[e][x]}
        BY <1>1, <1>2, <1>3 DEF Inv, Counted
      <4> QED BY <4>1
    <3>2. Listed(e, x) => queue'[x].status # "none"
      BY <1>1, <1>7 DEF Inv, Counted
    <3>3. CASE e = d
      BY <1>3, <3>1, <3>2, <3>3
    <3>4. CASE e # d
      <4>1. pc[e] = "mark_failed" /\ Current(e, x) => saw[e][x] + 1 <= failed[x]
        BY DEF Inv, Counted
      <4>2. /\ pc'[e] = pc[e] /\ saw'[e] = saw[e] /\ failed' = failed
            /\ (Listed(e, x)' <=> Listed(e, x)) /\ (Current(e, x)' <=> Current(e, x))
        BY <1>1, <1>3, <1>6, <3>4
      <4> QED BY <3>1, <3>2, <4>1, <4>2
    <3> QED BY <3>3, <3>4
  <2>3. \A e \in Drain : pc'[e] = "idle" <=> list'[e] = <<>>
    BY <1>3 DEF Inv, Counted
  <2> QED BY <2>1, <2>2, <2>3 DEF Counted
<1>9. ASSUME ~disturbed' PROVE Alone' /\ \A x \in Mail : Settled(x)'
  <2>1. Alone /\ \A x \in Mail : Settled(x)
    BY <1>1, <1>9 DEF Inv, Undisturbed
  <2>2. \A e \in Drain \ {d} : pc[e] = "idle" /\ pc'[e] = "idle"
    BY <1>1, <1>3, <2>1 DEF Alone
  <2>3. Alone'
    <3>1. \A e \in Drain, x \in Mail : Listed(e, x)' => x # r /\ queue[x].status = "pending"
      <4>1. \A e \in Drain, x \in Mail : Listed(e, x)' => Listed(e, x)
        BY <1>3, <1>6
      <4>2. \A e \in Drain \ {d}, x \in Mail : ~Listed(e, x)
        BY <2>2 DEF Inv, Counted, Listed
      <4>3. ~Listed(d, r)'
        BY <1>3, <2>1 DEF Alone
      <4> QED BY <1>6, <2>1, <4>1, <4>2, <4>3 DEF Alone
    <3>2. \A e \in Drain : Distinct(list'[e])
      BY <1>3, <2>1 DEF Alone
    <3>3. \A e \in Drain, x \in Mail : Listed(e, x)' => queue'[x].status = "pending"
      BY <1>1, <3>1
    <3>4. \A e, f \in Drain : pc'[e] # "idle" /\ pc'[f] # "idle" => e = f
      BY <2>2
    <3> QED BY <3>2, <3>3, <3>4 DEF Alone, Distinct
  <2>4. \A e \in Drain : pc'[e] # "mark_sent"
    BY <1>3, <2>2
  <2>5. queue[r].status = "pending" /\ (pc[d] = "mark_failed" => mails[r] = 0)
    <3>1. queue[r].status = "pending"
      BY <1>7, <2>1 DEF Alone
    <3>2. pc[d] = "mark_failed" => \A e \in Drain : pc[e] # "mark_sent"
      BY <2>2
    <3> QED BY <2>1, <3>1, <3>2 DEF Settled
  <2>6. Settled(r)'
    <3>1. pc[d] = "mark_sent" /\ enabled => mails[r] = 1
      BY <1>1, <2>1 DEF Settled
    <3> QED BY <1>1, <1>7, <2>1, <2>4, <2>5, <3>1 DEF Settled
  <2>7. ASSUME NEW x \in Mail, x # r PROVE Settled(x)'
    <3>1. \A e \in Drain : pc[e] = "mark_sent" => ~Current(e, x)
      BY <1>1, <2>2, <2>7 DEF Current
    <3> QED BY <1>1, <2>1, <2>4, <2>7, <3>1 DEF Settled
  <2> QED BY <2>3, <2>6, <2>7
<1> QED BY <1>5, <1>8, <1>9 DEF Inv, Undisturbed

(* A drain that stops forgets its list. *)
LEMMA StopInv == ASSUME Inv, NEW d \in Drain, DrainStops(d) PROVE Inv'
<1>1. /\ Disturb /\ pc' = [pc EXCEPT ![d] = "idle"] /\ list' = [list EXCEPT ![d] = <<>>]
      /\ saw' = [saw EXCEPT ![d] = Unseen]
      /\ UNCHANGED <<messageVars, senderVars, queue, mails, failed>>
  BY DEF DrainStops
<1>2. /\ list \in [Drain -> Seq(Mail)] /\ saw \in [Drain -> [Mail -> Nat]] /\ failed \in [Mail -> Nat]
      /\ pc \in [Drain -> {"idle", "try", "mark_sent", "mark_failed"}]
      /\ stops \in 0 .. MaxStops /\ MaxStops \in Nat
  BY OutboxAssumption DEF Inv, TypeOK, OutboxAssumption
<1>3. <<>> \in Seq(Mail) /\ Unseen \in [Mail -> Nat] /\ \A x \in Mail : Unseen[x] = 0
  BY DEF Unseen
<1>4. TypeOK'
  <2>1. /\ list' \in [Drain -> Seq(Mail)] /\ saw' \in [Drain -> [Mail -> Nat]]
        /\ pc' \in [Drain -> {"idle", "try", "mark_sent", "mark_failed"}]
    BY <1>1, <1>2, <1>3
  <2>2. stops' \in 0 .. MaxStops
    BY <1>1, <1>2
  <2> QED BY <1>1, <2>1, <2>2 DEF Inv, TypeOK
<1>5. /\ list'[d] = <<>> /\ pc'[d] = "idle" /\ saw'[d] = Unseen
      /\ \A e \in Drain \ {d} : list'[e] = list[e] /\ pc'[e] = pc[e] /\ saw'[e] = saw[e]
  BY <1>1, <1>2
<1>6. /\ \A x \in Mail : ~Listed(d, x)'
      /\ \A e \in Drain \ {d}, x \in Mail :
           (Listed(e, x)' <=> Listed(e, x)) /\ (Current(e, x)' <=> Current(e, x))
  BY <1>5 DEF Listed, Current
<1>7. Counted'
  BY <1>1, <1>2, <1>3, <1>5, <1>6 DEF Inv, Counted
<1>8. Undisturbed'
  BY <1>1 DEF Undisturbed
<1> QED BY <1>4, <1>7, <1>8 DEF Inv

(* Every step keeps the invariant. *)
LEMMA NextInv == Inv /\ [Next]_vars => Inv'
<1> SUFFICES ASSUME Inv, [Next]_vars PROVE Inv'
  OBVIOUS
<1>1. CASE Next
  <2>1. ASSUME NEW d \in Drain, ListDue(d) \/ Attempt(d) \/ DrainStops(d) PROVE Inv'
    BY <2>1, ListInv, TryInv, MarkInv, StopInv DEF Attempt
  <2> QED BY <1>1, <2>1, SenderInv, WorldInv DEF Next
<1>2. CASE UNCHANGED vars
  <2>1. TypeOK'
    BY <1>2 DEF Inv, TypeOK, vars
  <2>2. Counted'
    BY <1>2 DEF Inv, Counted, Listed, Current, vars
  <2>3. Undisturbed'
    BY <1>2 DEF Inv, Undisturbed, Alone, Settled, Listed, Distinct, Current, vars
  <2> QED BY <2>1, <2>2, <2>3 DEF Inv
<1> QED BY <1>1, <1>2

(* The invariant holds throughout. *)
LEMMA Invariance == Spec => []Inv
<1>1. Init => Inv
  BY InitInv
<1>2. Inv /\ [Next]_vars => Inv'
  BY NextInv
<1> QED BY <1>1, <1>2, PTL DEF Spec

-----------------------------------------------------------------------------
(* The rows, the lists and the counts keep to their types. *)
THEOREM TypeCorrect == Spec => []TypeOK
<1>1. Inv => TypeOK
  BY DEF Inv
<1> QED BY <1>1, Invariance, PTL

(* However many instances drain the queue, a message is given up only after *)
(* MAX_ATTEMPTS attempts that failed.                                       *)
THEOREM AbandonedAfterEnough == Spec => []NeverGivesUpEarly
<1>1. Inv => NeverGivesUpEarly
  <2> SUFFICES ASSUME Inv, NEW r \in Mail, queue[r].status = "abandoned" PROVE failed[r] >= MaxAttempts
    BY DEF NeverGivesUpEarly
  <2>1. failed[r] \in Nat /\ MaxAttempts \in Nat /\ MaxAttempts <= failed[r]
    BY OutboxAssumption DEF Inv, TypeOK, Counted, OutboxAssumption
  <2> QED BY <2>1
<1> QED BY <1>1, Invariance, PTL

(* While no two drains meet and nobody is cut off, nothing is mailed twice  *)
(* and the row tells what became of it.                                     *)
THEOREM MailedOnce == Spec => []SentOnce
<1>1. Inv => SentOnce
  BY DEF Inv, Undisturbed, Settled, SentOnce
<1> QED BY <1>1, Invariance, PTL
=============================================================================
