----------------------------- MODULE PayoutsProofs -----------------------------
(***************************************************************************)
(* What holds of every payout, for any number of requests, keys and        *)
(* callbacks, whoever stops and however many answers are lost.             *)
(*                                                                         *)
(* The key of a withdrawal is posted once, so one request owns the payout  *)
(* until it has a reference; from then on events own it.  What each has    *)
(* done before its next statement is the inductive part.                   *)
(***************************************************************************)
EXTENDS Payouts, TLAPS

Begun     == {"insert", "ask"}
Recording == {"record_pending", "record_sent"}
Going     == Begun \cup Recording \cup {"reverse", "fail"}

Reference(k) == payout[k].reference

(* What a request has done, by the step it stands at. *)
SenderInv ==
  \A r \in Req :
    /\ step[r] # "idle" => keyOf[r] \in Key
    /\ step[r] \in Going => keyOf[r] \in withdrawn /\ ~Reference(keyOf[r])
    /\ step[r] \in Going \ {"insert"} => Status(keyOf[r]) # "none"
    /\ step[r] \in Begun => asked[keyOf[r]] = 0 /\ prov[keyOf[r]] = "none"
    /\ step[r] \in Begun \cup Recording => keyOf[r] \notin returned
    /\ step[r] = "record_sent" => prov[keyOf[r]] \in {"paid", "bounced"}
    /\ step[r] = "record_pending" => rail[keyOf[r]] # "transfer"
    /\ step[r] = "reverse" /\ lost = 0 => prov[keyOf[r]] = "refused"
    /\ step[r] = "fail" => keyOf[r] \in returned

(* A posting is recorded once: no two requests go on under one key. *)
Alone ==
  \A r, s \in Req : step[r] \in Going /\ step[s] \in Going /\ keyOf[r] = keyOf[s] => r = s

(* What a row and the ledger say of what the provider did. *)
RowInv ==
  \A k \in Key :
    /\ k \notin withdrawn => asked[k] = 0 /\ prov[k] = "none" /\ ~Reference(k) /\ k \notin returned
    /\ asked[k] <= 1
    /\ prov[k] # "none" => k \in withdrawn /\ Status(k) # "none"
    /\ prov[k] = "bounced" => rail[k] = "transfer"
    /\ Reference(k) /\ Status(k) = "pending" => rail[k] # "transfer"
    /\ Reference(k) /\ k \in returned => prov[k] = "refused"
    /\ lost = 0 /\ k \in returned => prov[k] = "refused"
    /\ Status(k) = "sent" => Reference(k) /\ prov[k] \in {"paid", "bounced"} /\ k \notin returned
    /\ Status(k) = "failed" => k \in returned

(* An event tells what happened, and a reversal begun is one of a refusal. *)
EventInv ==
  /\ \A e \in Event : inbox[e] # "new" \/ at[e] # "idle" => Happened(e)
  /\ at[Sweep] # "idle" => doing \in Event /\ Happened(doing)
  /\ \A a \in Applier :
       /\ at[a] = "reverse" => Reference(Subject(a)) /\ prov[Subject(a)] = "refused"
       /\ at[a] = "fail" => Subject(a) \in returned

Inv == TypeOK /\ SenderInv /\ Alone /\ RowInv /\ EventInv

USE PayoutsAssumption
USE DEF PayoutsAssumption, Begun, Recording, Going, Reference, Status, Event, Applier, SenderSteps, ApplierSteps,
        sendVars, bookVars, provVars, sweepVars, PayoutRow

-----------------------------------------------------------------------------
(* Writing a status, a reference or a check leaves a row of the table. *)
LEMMA StatusType ==
  ASSUME payout \in [Key -> PayoutRow], NEW k \in Key, NEW s \in {"none", "pending", "sent", "failed"}
  PROVE  [payout EXCEPT ![k].status = s] \in [Key -> PayoutRow]
OBVIOUS

LEMMA RecordType ==
  ASSUME payout \in [Key -> PayoutRow], NEW k \in Key, NEW s \in {"none", "pending", "sent", "failed"}
  PROVE  [payout EXCEPT ![k].reference = TRUE, ![k].status = s] \in [Key -> PayoutRow]
OBVIOUS

LEMMA CheckType ==
  ASSUME payout \in [Key -> PayoutRow], NEW k \in Key, NEW known, Examine(k, known)
  PROVE  /\ payout' \in [Key -> PayoutRow]
         /\ \A j \in Key : /\ payout'[j].status = payout[j].status
                           /\ payout'[j].reference = payout[j].reference
BY DEF Examine

LEMMA InitInv == Init => Inv
<1> SUFFICES ASSUME Init PROVE Inv
  OBVIOUS
<1>1. TypeOK
  <2>1. payout \in [Key -> PayoutRow]
    BY DEF Init, NoRow
  <2>2. asked \in [Key -> Nat] /\ stops \in 0 .. MaxStops /\ lost \in 0 .. MaxLost
    BY DEF Init
  <2>3. at \in [Applier -> ApplierSteps] /\ inbox \in [Event -> {"new", "unverified", "stored", "processed"}]
    BY DEF Init
  <2>4. step \in [Req -> SenderSteps] /\ keyOf \in [Req -> Key \cup {None}]
    BY DEF Init
  <2> QED BY <2>1, <2>2, <2>3, <2>4 DEF Init, TypeOK
<1>2. SenderInv /\ Alone
  BY DEF Init, SenderInv, Alone
<1>3. RowInv
  BY DEF Init, RowInv, NoRow
<1>4. EventInv
  BY DEF Init, EventInv
<1> QED BY <1>1, <1>2, <1>3, <1>4 DEF Inv

(* What a request does, and where it may stop. *)
LEMMA SendInv == ASSUME Inv, NEW r \in Req, Send(r) \/ StopSend(r) PROVE Inv'
<1>1. CASE Post(r)
  <2>1. TypeOK'
    BY <1>1 DEF Inv, TypeOK, SenderInv, Post, AfterPosting, SenderGoto
  <2>2. SenderInv'
    BY <1>1 DEF Inv, SenderInv, RowInv, Post, AfterPosting, SenderGoto
  <2>3. Alone'
    BY <1>1 DEF Inv, SenderInv, Alone, Post, AfterPosting, SenderGoto
  <2>4. RowInv'
    BY <1>1 DEF Inv, RowInv, Post
  <2>5. EventInv'
    BY <1>1 DEF Inv, EventInv, Post, Happened, Doing, Subject
  <2> QED BY <2>1, <2>2, <2>3, <2>4, <2>5 DEF Inv
<1>2. CASE InsertRow(r)
  <2>1. TypeOK'
    <3>1. step' \in [Req -> SenderSteps] /\ keyOf[r] \in Key
      BY <1>2 DEF Inv, TypeOK, SenderInv, InsertRow, SenderGoto
    <3>2. payout' \in [Key -> PayoutRow]
      BY <1>2, <3>1, StatusType DEF Inv, TypeOK, InsertRow, SetStatus
    <3> QED BY <1>2, <3>1, <3>2 DEF Inv, TypeOK, InsertRow, SenderGoto
  <2>2. SenderInv'
    BY <1>2 DEF Inv, TypeOK, SenderInv, InsertRow, SetStatus, SenderGoto
  <2>3. Alone'
    BY <1>2 DEF Inv, Alone, InsertRow, SenderGoto
  <2>4. RowInv'
    BY <1>2 DEF Inv, SenderInv, RowInv, InsertRow, SetStatus
  <2>5. EventInv'
    BY <1>2 DEF Inv, EventInv, InsertRow, SetStatus, Happened, Doing, Subject
  <2> QED BY <2>1, <2>2, <2>3, <2>4, <2>5 DEF Inv
<1>3. CASE PayAccepted(r)
  <2>1. TypeOK'
    BY <1>3 DEF Inv, TypeOK, SenderInv, PayAccepted, Ask, SenderGoto
  <2>2. SenderInv'
    BY <1>3 DEF Inv, TypeOK, SenderInv, Alone, PayAccepted, Ask, Deferred, SenderGoto
  <2>3. Alone'
    BY <1>3 DEF Inv, Alone, PayAccepted, Ask, SenderGoto
  <2>4. RowInv'
    BY <1>3 DEF Inv, SenderInv, RowInv, PayAccepted, Ask
  <2>5. EventInv'
    BY <1>3 DEF Inv, SenderInv, RowInv, EventInv, PayAccepted, Ask, Happened, Doing, Subject
  <2> QED BY <2>1, <2>2, <2>3, <2>4, <2>5 DEF Inv
<1>4. CASE PayCompleted(r)
  <2>1. TypeOK'
    BY <1>4 DEF Inv, TypeOK, SenderInv, PayCompleted, Ask, SenderGoto
  <2>2. SenderInv'
    BY <1>4 DEF Inv, TypeOK, SenderInv, Alone, PayCompleted, Ask, SenderGoto
  <2>3. Alone'
    BY <1>4 DEF Inv, Alone, PayCompleted, Ask, SenderGoto
  <2>4. RowInv'
    BY <1>4 DEF Inv, SenderInv, RowInv, PayCompleted, Ask
  <2>5. EventInv'
    BY <1>4 DEF Inv, SenderInv, EventInv, PayCompleted, Ask, Happened, Doing, Subject
  <2> QED BY <2>1, <2>2, <2>3, <2>4, <2>5 DEF Inv
<1>5. CASE PayRefused(r)
  <2>1. TypeOK'
    BY <1>5 DEF Inv, TypeOK, SenderInv, PayRefused, Ask, SenderGoto
  <2>2. SenderInv'
    BY <1>5 DEF Inv, TypeOK, SenderInv, Alone, PayRefused, Ask, SenderGoto
  <2>3. Alone'
    BY <1>5 DEF Inv, Alone, PayRefused, Ask, SenderGoto
  <2>4. RowInv'
    BY <1>5 DEF Inv, SenderInv, RowInv, PayRefused, Ask
  <2>5. EventInv'
    BY <1>5 DEF Inv, SenderInv, RowInv, EventInv, PayRefused, Ask, Happened, Doing, Subject
  <2> QED BY <2>1, <2>2, <2>3, <2>4, <2>5 DEF Inv
<1>6. CASE PayAnswerLost(r)
  <2>1. TypeOK'
    BY <1>6 DEF Inv, TypeOK, SenderInv, PayAnswerLost, Ask, SenderGoto
  <2>2. SenderInv'
    BY <1>6 DEF Inv, TypeOK, SenderInv, Alone, PayAnswerLost, Ask, SenderGoto
  <2>3. Alone'
    BY <1>6 DEF Inv, Alone, PayAnswerLost, Ask, SenderGoto
  <2>4. RowInv'
    BY <1>6 DEF Inv, TypeOK, SenderInv, RowInv, PayAnswerLost, Ask
  <2>5. EventInv'
    BY <1>6 DEF Inv, SenderInv, RowInv, EventInv, PayAnswerLost, Ask, Happened, Doing, Subject
  <2> QED BY <2>1, <2>2, <2>3, <2>4, <2>5 DEF Inv
<1>7. CASE Record(r)
  <2>1. TypeOK'
    <3>1. step' \in [Req -> SenderSteps] /\ keyOf[r] \in Key
      BY <1>7 DEF Inv, TypeOK, SenderInv, Record, SenderGoto
    <3>2. payout' \in [Key -> PayoutRow]
      BY <1>7, <3>1, RecordType DEF Inv, TypeOK, Record, RecordedStatus
    <3> QED BY <1>7, <3>1, <3>2 DEF Inv, TypeOK, Record, SenderGoto
  <2>2. SenderInv'
    BY <1>7 DEF Inv, TypeOK, SenderInv, Alone, Record, SenderGoto
  <2>3. Alone'
    BY <1>7 DEF Inv, Alone, Record, SenderGoto
  <2>4. RowInv'
    BY <1>7 DEF Inv, TypeOK, SenderInv, RowInv, Record, RecordedStatus
  <2>5. EventInv'
    BY <1>7 DEF Inv, TypeOK, EventInv, Record, Happened, Doing, Subject
  <2> QED BY <2>1, <2>2, <2>3, <2>4, <2>5 DEF Inv
<1>8. CASE Reverse(r)
  <2>1. TypeOK'
    BY <1>8 DEF Inv, TypeOK, SenderInv, Reverse, SenderGoto
  <2>2. SenderInv'
    BY <1>8 DEF Inv, SenderInv, Alone, Reverse, SenderGoto
  <2>3. Alone'
    BY <1>8 DEF Inv, Alone, Reverse, SenderGoto
  <2>4. RowInv'
    BY <1>8 DEF Inv, SenderInv, RowInv, Reverse
  <2>5. EventInv'
    BY <1>8 DEF Inv, EventInv, Reverse, Happened, Doing, Subject
  <2> QED BY <2>1, <2>2, <2>3, <2>4, <2>5 DEF Inv
<1>9. CASE FailPayout(r)
  <2>1. TypeOK'
    <3>1. step' \in [Req -> SenderSteps] /\ keyOf[r] \in Key
      BY <1>9 DEF Inv, TypeOK, SenderInv, FailPayout, SenderGoto
    <3>2. payout' \in [Key -> PayoutRow]
      BY <1>9, <3>1, StatusType DEF Inv, TypeOK, FailPayout, SetStatus
    <3> QED BY <1>9, <3>1, <3>2 DEF Inv, TypeOK, FailPayout, SenderGoto
  <2>2. SenderInv'
    BY <1>9 DEF Inv, SenderInv, FailPayout, SetStatus, SenderGoto
  <2>3. Alone'
    BY <1>9 DEF Inv, Alone, FailPayout, SenderGoto
  <2>4. RowInv'
    BY <1>9 DEF Inv, SenderInv, RowInv, FailPayout, SetStatus
  <2>5. EventInv'
    BY <1>9 DEF Inv, EventInv, FailPayout, SetStatus, Happened, Doing, Subject
  <2> QED BY <2>1, <2>2, <2>3, <2>4, <2>5 DEF Inv
<1>10. CASE StopSend(r)
  <2>1. TypeOK'
    BY <1>10 DEF Inv, TypeOK, StopSend, SenderGoto
  <2>2. SenderInv'
    BY <1>10 DEF Inv, SenderInv, StopSend, SenderGoto
  <2>3. Alone'
    BY <1>10 DEF Inv, Alone, StopSend, SenderGoto
  <2>4. RowInv'
    BY <1>10 DEF Inv, RowInv, StopSend
  <2>5. EventInv'
    BY <1>10 DEF Inv, EventInv, StopSend, Happened, Doing, Subject
  <2> QED BY <2>1, <2>2, <2>3, <2>4, <2>5 DEF Inv
<1> QED BY <1>1, <1>2, <1>3, <1>4, <1>5, <1>6, <1>7, <1>8, <1>9, <1>10 DEF Send

(* A request takes its key and has done nothing yet. *)
LEMMA RequestInv == ASSUME Inv, NEW r \in Req, NEW k \in Key, Request(r, k) PROVE Inv'
<1>1. TypeOK'
  BY DEF Inv, TypeOK, Request
<1>2. SenderInv'
  BY DEF Inv, TypeOK, SenderInv, Request
<1>3. Alone'
  BY DEF Inv, Alone, Request
<1>4. RowInv'
  BY DEF Inv, RowInv, Request
<1>5. EventInv'
  BY DEF Inv, EventInv, Request, Happened, Doing, Subject
<1> QED BY <1>1, <1>2, <1>3, <1>4, <1>5 DEF Inv

(* The provider only goes on: what was refused or paid stays so. *)
LEMMA ProviderInv == ASSUME Inv, NEW k \in Key, Pays(k) \/ Refuses(k) \/ Bounces(k) PROVE Inv'
<1> DEFINE Moves(from, to) == prov[k] = from /\ prov' = [prov EXCEPT ![k] = to]
<1>1. /\ \/ Moves("processing", "paid") \/ Moves("processing", "refused")
         \/ rail[k] = "transfer" /\ Moves("paid", "bounced")
      /\ UNCHANGED <<rail, bookVars, payout, escalated, age, sendVars, asked, inbox, at, sweepVars, stops, lost>>
  BY DEF Pays, Refuses, Bounces, Provider
<1>2. PICK to \in {"paid", "refused", "bounced"} :
        /\ prov[k] \in {"processing", "paid"} /\ prov' = [prov EXCEPT ![k] = to]
        /\ to = "bounced" => rail[k] = "transfer"
        /\ to = "refused" => prov[k] = "processing"
        /\ prov[k] = "paid" => to = "bounced"
  BY <1>1
<1>3. TypeOK'
  <2>1. prov' \in [Key -> {"none", "processing", "paid", "refused", "bounced"}]
    BY <1>2 DEF Inv, TypeOK
  <2> QED BY <1>1, <2>1 DEF Inv, TypeOK
<1>4. SenderInv' /\ Alone'
  BY <1>1, <1>2 DEF Inv, SenderInv, Alone
<1>5. RowInv'
  BY <1>1, <1>2 DEF Inv, RowInv
<1>6. EventInv'
  <2>1. \A e \in Event : Happened(e) => Happened(e)'
    BY <1>1, <1>2 DEF Happened
  <2>2. \A a \in Applier : at[a] = "reverse" => prov'[Subject(a)] = "refused"
    BY <1>1, <1>2 DEF Inv, EventInv
  <2> QED BY <1>1, <2>1, <2>2 DEF Inv, EventInv, Doing, Subject
<1> QED BY <1>3, <1>4, <1>5, <1>6 DEF Inv

(* A callback, stored once, is about something that happened. *)
LEMMA CallbackInv == ASSUME Inv, NEW e \in Event, Receive(e) \/ RejectSignature(e) PROVE Inv'
<1>1. TypeOK'
  <2>1. inbox' \in [Event -> {"new", "unverified", "stored", "processed"}]
    BY DEF Inv, TypeOK, Receive, RejectSignature
  <2>2. at' \in [Applier -> ApplierSteps]
    BY DEF Inv, TypeOK, Receive, RejectSignature
  <2> QED BY <2>1, <2>2 DEF Inv, TypeOK, Receive, RejectSignature
<1>2. SenderInv'
  BY DEF Inv, SenderInv, Receive, RejectSignature
<1>3. Alone'
  BY DEF Inv, Alone, Receive, RejectSignature
<1>4. RowInv'
  BY DEF Inv, RowInv, Receive, RejectSignature
<1>5. EventInv'
  BY DEF Inv, TypeOK, SenderInv, EventInv, Receive, RejectSignature, Happened, Doing, Subject
<1> QED BY <1>1, <1>2, <1>3, <1>4, <1>5 DEF Inv

(* One event applied, by its handler or by the sweep. *)
LEMMA ApplyInv == ASSUME Inv, NEW a \in Applier, ApplyEvent(a) \/ StopApply(a) PROVE Inv'
<1>1. CASE ApplySettled(a)
  <2>1. Subject(a) \in Key /\ Doing(a) \in Event /\ Happened(Doing(a)) /\ Doing(a)[2] = "settled"
    BY <1>1 DEF Inv, EventInv, ApplySettled, Doing, Subject
  <2>2. at' \in [Applier -> ApplierSteps] /\ doing' \in Event \cup {None}
    BY <1>1 DEF Inv, TypeOK, ApplySettled, Finish, Goto
  <2>3. /\ payout' \in [Key -> PayoutRow]
        /\ \A k \in Key : Reference(k)' = Reference(k) /\ (Status(k)' = Status(k) \/ Status(k)' = "sent")
    <3>1. CASE FindPending(Subject(a))
      <4>1. payout' = [payout EXCEPT ![Subject(a)].status = "sent"]
        BY <1>1, <3>1 DEF ApplySettled, SetStatus
      <4>2. payout \in [Key -> PayoutRow]
        BY DEF Inv, TypeOK
      <4>3. payout' \in [Key -> PayoutRow]
        BY <2>1, <4>1, <4>2, StatusType, Zenon
      <4> QED BY <2>1, <4>1, <4>2, <4>3
    <3>2. CASE ~FindPending(Subject(a))
      BY <1>1, <3>2 DEF Inv, TypeOK, ApplySettled
    <3> QED BY <3>1, <3>2
  <2>4. TypeOK'
    BY <1>1, <2>2, <2>3 DEF Inv, TypeOK, ApplySettled
  <2>5. SenderInv' /\ Alone'
    <3>1. UNCHANGED <<rail, bookVars, sendVars, provVars, lost>>
      BY <1>1 DEF ApplySettled
    <3>2. Alone'
      BY <3>1 DEF Inv, Alone
    <3>3. SenderInv'
      BY <2>3, <3>1 DEF Inv, SenderInv
    <3> QED BY <3>2, <3>3
  <2>6. RowInv'
    <3>1. prov[Subject(a)] \in {"paid", "bounced"}
      BY <2>1 DEF Happened, Subject
    <3>2. CASE FindPending(Subject(a))
      <4>1. Subject(a) \notin returned
        BY <2>1, <3>1, <3>2 DEF Inv, RowInv, FindPending
      <4> QED BY <1>1, <2>1, <3>1, <3>2, <4>1 DEF Inv, TypeOK, RowInv, ApplySettled, FindPending, SetStatus
    <3>3. CASE ~FindPending(Subject(a))
      BY <1>1, <3>3 DEF Inv, RowInv, ApplySettled
    <3> QED BY <3>2, <3>3
  <2>7. EventInv'
    <3>1. UNCHANGED <<prov, inbox, returned>>
      BY <1>1 DEF ApplySettled
    <3>2. at'[a] \in {"idle", "mark"} /\ \A b \in Applier \ {a} : at'[b] = at[b]
      BY <1>1 DEF Inv, TypeOK, ApplySettled, Finish, Goto
    <3>3. at'[Sweep] # "idle" => at[Sweep] # "idle" /\ UNCHANGED doing
      <4>1. CASE a = Sweep /\ ~stored
        BY <1>1, <4>1 DEF Inv, TypeOK, ApplySettled, Finish, Goto
      <4>2. CASE ~(a = Sweep /\ ~stored)
        BY <1>1, <3>2, <4>2 DEF ApplySettled, Finish
      <4> QED BY <4>1, <4>2
    <3>4. \A e \in Event : inbox'[e] # "new" \/ at'[e] # "idle" => Happened(e)'
      BY <1>1, <3>1, <3>2 DEF Inv, EventInv, ApplySettled, Happened
    <3>5. at'[Sweep] # "idle" => doing' \in Event /\ Happened(doing)'
      BY <3>1, <3>3 DEF Inv, EventInv, Happened
    <3>6. ASSUME NEW b \in Applier, at'[b] \in {"reverse", "fail"}
          PROVE  at[b] = at'[b] /\ Subject(b)' = Subject(b) /\ Subject(b) \in Key
      BY <3>2, <3>3, <3>6 DEF Inv, EventInv, Doing, Subject
    <3>7. \A b \in Applier : /\ at'[b] = "reverse" => Reference(Subject(b))' /\ prov'[Subject(b)'] = "refused"
                             /\ at'[b] = "fail" => Subject(b)' \in returned'
      BY <2>3, <3>1, <3>6 DEF Inv, EventInv
    <3> QED BY <3>4, <3>5, <3>7 DEF EventInv
  <2> QED BY <2>4, <2>5, <2>6, <2>7 DEF Inv
<1>2. CASE ApplyFailed(a)
  <2>1. TypeOK'
    <3>1. \E s \in {"idle", "mark", "reverse"} : at' = [at EXCEPT ![a] = s]
      BY <1>2 DEF ApplyFailed, Finish, Goto
    <3>2. at' \in [Applier -> ApplierSteps]
      BY <3>1 DEF Inv, TypeOK
    <3>3. doing' \in Event \cup {None}
      BY <1>2 DEF Inv, TypeOK, ApplyFailed, Finish
    <3> QED BY <1>2, <3>2, <3>3 DEF Inv, TypeOK, ApplyFailed
  <2>2. SenderInv'
    BY <1>2 DEF Inv, SenderInv, ApplyFailed
  <2>3. Alone'
    BY <1>2 DEF Inv, Alone, ApplyFailed
  <2>4. RowInv'
    BY <1>2 DEF Inv, RowInv, ApplyFailed
  <2>5. EventInv'
    BY <1>2 DEF Inv, TypeOK, RowInv, EventInv, ApplyFailed, FindPending, Finish, Goto, Happened, Doing, Subject
  <2> QED BY <2>1, <2>2, <2>3, <2>4, <2>5 DEF Inv
<1>3. CASE ReverseFailed(a)
  <2>1. TypeOK'
    BY <1>3 DEF Inv, TypeOK, EventInv, ReverseFailed, Goto, Doing, Subject
  <2>2. SenderInv'
    BY <1>3 DEF Inv, SenderInv, EventInv, ReverseFailed
  <2>3. Alone'
    BY <1>3 DEF Inv, Alone, ReverseFailed
  <2>4. RowInv'
    BY <1>3 DEF Inv, RowInv, EventInv, ReverseFailed
  <2>5. EventInv'
    BY <1>3 DEF Inv, EventInv, ReverseFailed, Goto, Happened, Doing, Subject
  <2> QED BY <2>1, <2>2, <2>3, <2>4, <2>5 DEF Inv
<1>4. CASE FailFound(a)
  <2>1. TypeOK'
    <3>1. at' \in [Applier -> ApplierSteps] /\ doing' \in Event \cup {None} /\ Subject(a) \in Key
      BY <1>4 DEF Inv, TypeOK, EventInv, FailFound, Finish, Goto, Doing, Subject
    <3>2. payout' \in [Key -> PayoutRow]
      BY <1>4, <3>1, StatusType DEF Inv, TypeOK, FailFound, SetStatus
    <3> QED BY <1>4, <3>1, <3>2 DEF Inv, TypeOK, FailFound
  <2>2. SenderInv'
    BY <1>4 DEF Inv, SenderInv, FailFound, SetStatus
  <2>3. Alone'
    BY <1>4 DEF Inv, Alone, FailFound
  <2>4. RowInv'
    BY <1>4 DEF Inv, RowInv, EventInv, FailFound, SetStatus
  <2>5. EventInv'
    BY <1>4 DEF Inv, TypeOK, EventInv, FailFound, SetStatus, Finish, Goto, Happened, Doing, Subject
  <2> QED BY <2>1, <2>2, <2>3, <2>4, <2>5 DEF Inv
<1>5. CASE MarkProcessed(a)
  <2>1. TypeOK'
    BY <1>5 DEF Inv, TypeOK, MarkProcessed, Goto, Doing
  <2>2. SenderInv'
    BY <1>5 DEF Inv, SenderInv, MarkProcessed
  <2>3. Alone'
    BY <1>5 DEF Inv, Alone, MarkProcessed
  <2>4. RowInv'
    BY <1>5 DEF Inv, RowInv, MarkProcessed
  <2>5. EventInv'
    BY <1>5 DEF Inv, TypeOK, EventInv, MarkProcessed, Goto, Happened, Doing, Subject
  <2> QED BY <2>1, <2>2, <2>3, <2>4, <2>5 DEF Inv
<1>6. CASE StopApply(a)
  <2>1. TypeOK'
    BY <1>6 DEF Inv, TypeOK, StopApply, Goto
  <2>2. SenderInv'
    BY <1>6 DEF Inv, SenderInv, StopApply
  <2>3. Alone'
    BY <1>6 DEF Inv, Alone, StopApply
  <2>4. RowInv'
    BY <1>6 DEF Inv, RowInv, StopApply
  <2>5. EventInv'
    BY <1>6 DEF Inv, TypeOK, EventInv, StopApply, Goto, Happened, Doing, Subject
  <2> QED BY <2>1, <2>2, <2>3, <2>4, <2>5 DEF Inv
<1> QED BY <1>1, <1>2, <1>3, <1>4, <1>5, <1>6 DEF ApplyEvent

(* The sweep takes a stored event or lists rows; a row grows old. *)
LEMMA SweepInv == ASSUME Inv, (\E e \in Event : Replay(e)) \/ List \/ (\E k \in Key : GrowOld(k)) PROVE Inv'
<1>1. ASSUME NEW e \in Event, Replay(e) PROVE Inv'
  <2>1. Sweep \in Applier /\ at' \in [Applier -> ApplierSteps]
    BY <1>1 DEF Inv, TypeOK, Replay, Goto
  <2>2. TypeOK'
    BY <1>1, <2>1 DEF Inv, TypeOK, Replay
  <2>3. SenderInv' /\ Alone' /\ RowInv'
    BY <1>1 DEF Inv, SenderInv, Alone, RowInv, Replay
  <2>4. EventInv'
    BY <1>1 DEF Inv, TypeOK, EventInv, Replay, Goto, Happened, Doing, Subject
  <2> QED BY <2>2, <2>3, <2>4 DEF Inv
<1>2. CASE List
  <2>1. page' \subseteq Key \X BOOLEAN
    BY <1>2 DEF Inv, TypeOK, List, Stale
  <2>2. TypeOK'
    BY <1>2, <2>1 DEF Inv, TypeOK, List
  <2> QED BY <1>2, <2>2 DEF Inv, SenderInv, Alone, RowInv, EventInv, List, Happened, Doing, Subject
<1>3. ASSUME NEW k \in Key, GrowOld(k) PROVE Inv'
  <2>1. TypeOK'
    BY <1>3 DEF Inv, TypeOK, GrowOld
  <2> QED BY <1>3, <2>1 DEF Inv, SenderInv, Alone, RowInv, EventInv, GrowOld, Happened, Doing, Subject
<1> QED BY <1>1, <1>2, <1>3

(* One row of the page: counted, then asked about or escalated. *)
LEMMA ReconcileInv == ASSUME Inv, NEW k \in Key, ReconcileOne(k) PROVE Inv'
<1>1. CASE NoReference(k)
  <2>1. TypeOK'
    <3>1. payout' \in [Key -> PayoutRow]
      BY <1>1, CheckType DEF Inv, TypeOK, NoReference
    <3>2. page' \subseteq Key \X BOOLEAN
      BY <1>1 DEF Inv, TypeOK, NoReference, Examine
    <3> QED BY <1>1, <3>1, <3>2 DEF Inv, TypeOK, NoReference, Escalate, LeaveIt, Examine
  <2>2. SenderInv'
    BY <1>1 DEF Inv, SenderInv, NoReference, Examine
  <2>3. Alone'
    BY <1>1 DEF Inv, Alone, NoReference, Examine
  <2>4. RowInv'
    BY <1>1 DEF Inv, RowInv, NoReference, Examine
  <2>5. EventInv'
    BY <1>1 DEF Inv, EventInv, NoReference, Escalate, Examine, Happened, Doing, Subject
  <2> QED BY <2>1, <2>2, <2>3, <2>4, <2>5 DEF Inv
<1>2. CASE PollAnswered(k)
  <2>1. TypeOK'
    <3>1. payout' \in [Key -> PayoutRow]
      BY <1>2, CheckType DEF Inv, TypeOK, PollAnswered
    <3>2. page' \subseteq Key \X BOOLEAN
      BY <1>2 DEF Inv, TypeOK, PollAnswered, Examine
    <3>3. at' \in [Applier -> ApplierSteps] /\ doing' \in Event
      BY <1>2 DEF Inv, TypeOK, PollAnswered, Verdicts, Goto
    <3> QED BY <1>2, <3>1, <3>2, <3>3 DEF Inv, TypeOK, PollAnswered, Examine
  <2>2. SenderInv'
    BY <1>2 DEF Inv, SenderInv, PollAnswered, Examine
  <2>3. Alone'
    BY <1>2 DEF Inv, Alone, PollAnswered, Examine
  <2>4. RowInv'
    BY <1>2 DEF Inv, RowInv, PollAnswered, Examine
  <2>5. EventInv'
    BY <1>2 DEF Inv, TypeOK, EventInv, PollAnswered, Verdicts, Goto, Examine, Happened, Doing, Subject
  <2> QED BY <2>1, <2>2, <2>3, <2>4, <2>5 DEF Inv
<1>3. CASE PollUndecided(k)
  <2>1. TypeOK'
    <3>1. payout' \in [Key -> PayoutRow]
      BY <1>3, CheckType DEF Inv, TypeOK, PollUndecided
    <3>2. page' \subseteq Key \X BOOLEAN
      BY <1>3 DEF Inv, TypeOK, PollUndecided, Examine
    <3> QED BY <1>3, <3>1, <3>2 DEF Inv, TypeOK, PollUndecided, LeaveIt, Examine
  <2>2. SenderInv'
    BY <1>3 DEF Inv, SenderInv, PollUndecided, Examine
  <2>3. Alone'
    BY <1>3 DEF Inv, Alone, PollUndecided, Examine
  <2>4. RowInv'
    BY <1>3 DEF Inv, RowInv, PollUndecided, Examine
  <2>5. EventInv'
    BY <1>3 DEF Inv, EventInv, PollUndecided, LeaveIt, Examine, Happened, Doing, Subject
  <2> QED BY <2>1, <2>2, <2>3, <2>4, <2>5 DEF Inv
<1>4. CASE PollError(k)
  <2>1. TypeOK'
    <3>1. payout' \in [Key -> PayoutRow]
      BY <1>4, CheckType DEF Inv, TypeOK, PollError
    <3>2. page' \subseteq Key \X BOOLEAN
      BY <1>4 DEF Inv, TypeOK, PollError, Examine
    <3>3. escalated' \subseteq Key /\ UNCHANGED <<at, doing, stored>>
      BY <1>4 DEF Inv, TypeOK, PollError, Escalate, LeaveIt
    <3> QED BY <1>4, <3>1, <3>2, <3>3 DEF Inv, TypeOK, PollError, Examine
  <2>2. SenderInv'
    BY <1>4 DEF Inv, SenderInv, PollError, Examine
  <2>3. Alone'
    BY <1>4 DEF Inv, Alone, PollError, Examine
  <2>4. RowInv'
    BY <1>4 DEF Inv, RowInv, PollError, Examine
  <2>5. EventInv'
    BY <1>4 DEF Inv, EventInv, PollError, Escalate, LeaveIt, Examine, Happened, Doing, Subject
  <2> QED BY <2>1, <2>2, <2>3, <2>4, <2>5 DEF Inv
<1>5. CASE OnlyPushes(k)
  <2>1. TypeOK'
    <3>1. payout' \in [Key -> PayoutRow]
      BY <1>5, CheckType DEF Inv, TypeOK, OnlyPushes
    <3>2. page' \subseteq Key \X BOOLEAN
      BY <1>5 DEF Inv, TypeOK, OnlyPushes, Examine
    <3>3. escalated' \subseteq Key /\ UNCHANGED <<at, doing, stored>>
      BY <1>5 DEF Inv, TypeOK, OnlyPushes, Escalate, LeaveIt
    <3> QED BY <1>5, <3>1, <3>2, <3>3 DEF Inv, TypeOK, OnlyPushes, Examine
  <2>2. SenderInv'
    BY <1>5 DEF Inv, SenderInv, OnlyPushes, Examine
  <2>3. Alone'
    BY <1>5 DEF Inv, Alone, OnlyPushes, Examine
  <2>4. RowInv'
    BY <1>5 DEF Inv, RowInv, OnlyPushes, Examine
  <2>5. EventInv'
    BY <1>5 DEF Inv, EventInv, OnlyPushes, Escalate, LeaveIt, Examine, Happened, Doing, Subject
  <2> QED BY <2>1, <2>2, <2>3, <2>4, <2>5 DEF Inv
<1> QED BY <1>1, <1>2, <1>3, <1>4, <1>5 DEF ReconcileOne

LEMMA NextInv == Inv /\ [Next]_vars => Inv'
<1> SUFFICES ASSUME Inv, [Next]_vars PROVE Inv'
  OBVIOUS
<1>1. CASE UNCHANGED vars
  BY <1>1 DEF Inv, TypeOK, SenderInv, Alone, RowInv, EventInv, vars, Happened, Doing, Subject
<1>2. CASE Next
  BY <1>2, SendInv, RequestInv, ProviderInv, CallbackInv, ApplyInv, SweepInv, ReconcileInv DEF Next
<1> QED BY <1>1, <1>2

LEMMA Invariance == Spec => []Inv
<1>1. Init => Inv
  BY InitInv
<1>2. Inv /\ [Next]_vars => Inv'
  BY NextInv
<1> QED BY <1>1, <1>2, PTL DEF Spec

-----------------------------------------------------------------------------
(* The tables, the requests and the sweep keep to their types. *)
THEOREM TypeCorrect == Spec => []TypeOK
<1>1. Inv => TypeOK
  BY DEF Inv
<1> QED BY <1>1, Invariance, PTL

(* A provider is asked at most once per key, whoever replays and stops, *)
(* and the ledger and the table know of all money it was asked to move. *)
THEOREM AsksOnceOnRecord == Spec => []AskedOnceOnRecord
<1>1. Inv => AskedOnceOnRecord
  BY DEF Inv, RowInv, AskedOnceOnRecord, AskedOnce, RecordedBeforeAsked
<1> QED BY <1>1, Invariance, PTL

(* No payout is called failed while its owner is still debited, and one *)
(* called sent was paid and is not handed back.                         *)
THEOREM EndsTruly == Spec => []EndedRowsAreTrue
<1>1. Inv => EndedRowsAreTrue
  BY DEF Inv, RowInv, EndedRowsAreTrue, FailedIsReturned, SentIsPaid
<1> QED BY <1>1, Invariance, PTL

(* With no answer lost, what is handed back was refused by the provider. *)
THEOREM ReturnsTheUnpaid == Spec => []ReturnedIsUnpaid
<1>1. Inv => ReturnedIsUnpaid
  BY DEF Inv, TypeOK, RowInv, ReturnedIsUnpaid
<1> QED BY <1>1, Invariance, PTL
=============================================================================
