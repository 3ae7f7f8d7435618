---------------------------- MODULE MissionsProofs ----------------------------
(***************************************************************************)
(* What holds of a paid mission for any number of requests at once, of     *)
(* invoices and of rounds, whoever is cut off and whenever.                *)
(*                                                                         *)
(* A request that moves money carries its reasons: those that release go   *)
(* through invoices somebody earned, those that refund through invoices    *)
(* that were paid on a mission that ended, and each movement is posted     *)
(* before the row says so.  When nothing overlapped, the one request at    *)
(* work accounts for every difference between the rows and the books.      *)
(***************************************************************************)
EXTENDS Missions, TLAPS

Releasing == {"release", "post_release", "stamp_release"}
Refunding == {"refund", "refund_books"}

(* What a request is about to write is a status, or an outcome. *)
Goals ==
  \A w \in Worker : /\ pc[w] \in {"write", "rule", "rule_check"} => job[w].goal \in Status
                    /\ pc[w] = "arbitrate" => job[w].goal \in Outcome

Due(i) == ended \/ (milestones /\ i \in Rounds /\ round[i] = "accepted")

(* Whoever releases, has a reason for each invoice. *)
Earned ==
  \A w \in Worker : /\ pc[w] = "list_releases" => ended
                    /\ pc[w] \in Releasing => \A i \in job[w].todo : Due(i)

(* Whoever gives back, does so on a mission that ended, from what was paid. *)
Owed ==
  \A w \in Worker : /\ pc[w] = "list_refunds" => ended
                    /\ pc[w] \in Refunding => ended /\ \A i \in job[w].todo : "capture" \in book[i]

(* What has been done for the invoice a request is at. *)
StepByStep ==
  \A w \in Worker, i \in Invoice :
    Current(w, i) => /\ pc[w] = "post_release"  => "capture" \in book[i]
                     /\ pc[w] = "stamp_release" => "release" \in book[i]
                     /\ pc[w] = "refund_books"  => i \in returned

(* Without an overlap rows and books differ only by the step in between.    *)
InTurn ==
  ~overlapped =>
    /\ \A v, w \in Worker : pc[v] # "idle" /\ pc[w] # "idle" => v = w
    /\ \A i \in Invoice :
         /\ "refund" \in book[i] <=> bill[i] = "refunded"
         /\ "release" \in book[i] <=> \/ bill[i] = "released"
                                      \/ \E w \in Worker : pc[w] = "stamp_release" /\ Current(w, i)
    /\ \A w \in Worker, i \in Invoice :
         /\ pc[w] \in {"post_release", "stamp_release"} /\ Current(w, i) => bill[i] = "paid"
         /\ pc[w] \in Refunding /\ i \in job[w].todo => bill[i] = "paid"

Safe == TypeOK /\ Goals /\ Earned /\ Owed /\ StepByStep /\ PostedFirst /\ OnlyAcceptedIsPaidEarly /\ RefundedAtProviderFirst
Inv  == Safe /\ InTurn

USE DEF Invoice, Rounds, Releasing, Refunding, Outcome, Status, Steps, Jobs, Due,
        Advance, StepWith, Step, Done, Goal, ToDo, NoJob, Current, Post, Stamp, missionVars, moneyVars

-----------------------------------------------------------------------------
LEMMA InitInv == Init => Inv
<1> SUFFICES ASSUME Init PROVE Inv
  OBVIOUS
<1>1. TypeOK
  <2>1. NoJob \in Jobs
    OBVIOUS
  <2>2. stops \in 0 .. MaxStops
    BY MissionsAssumption DEF Init, MissionsAssumption
  <2>3. job \in [Worker -> Jobs]
    BY <2>1, Zenon DEF Init
  <2> QED BY <2>2, <2>3 DEF Init, TypeOK
<1>2. Goals /\ Earned /\ Owed /\ StepByStep /\ InTurn
  BY DEF Init, Goals, Earned, Owed, StepByStep, InTurn
<1>3. PostedFirst /\ OnlyAcceptedIsPaidEarly /\ RefundedAtProviderFirst
  BY DEF Init, PostedFirst, OnlyAcceptedIsPaidEarly, RefundedAtProviderFirst
<1> QED BY <1>1, <1>2, <1>3 DEF Inv, Safe

(* A step that neither moves money nor begins to leaves rows and books as     *)
(* they were to each other.                                                   *)
LEMMA QuietTurn ==
  ASSUME Inv, NEW w \in Worker, NEW next,
         NEW from \in Steps \ {"stamp_release"},
         NEW to \in Steps \ ({"post_release", "stamp_release"} \cup Refunding),
         Advance(w, from, to, next), UNCHANGED moneyVars
  PROVE  InTurn'
<1>1. /\ pc[w] = from /\ pc' = [pc EXCEPT ![w] = to]
      /\ \A v \in Worker \ {w} : pc'[v] = pc[v] /\ job'[v] = job[v]
      /\ pc'[w] = to
  BY DEF Inv, Safe, TypeOK
<1>2. \A v \in Worker, i \in Invoice :
        pc'[v] \in {"post_release", "stamp_release"} \cup Refunding => pc'[v] = pc[v] /\ job'[v] = job[v]
  BY <1>1
<1>3. \A v \in Worker : pc[v] = "stamp_release" => pc'[v] = "stamp_release" /\ job'[v] = job[v]
  BY <1>1
<1>4. ~overlapped' => ~overlapped /\ Busy \subseteq {w}
  OBVIOUS
<1>5. ~overlapped' => \A u, v \in Worker : pc'[u] # "idle" /\ pc'[v] # "idle" => u = v
  BY <1>1, <1>4 DEF Busy
<1> QED BY <1>1, <1>2, <1>3, <1>4, <1>5 DEF Inv, InTurn

(* The status is written before anything is listed, so that the mission has   *)
(* ended for all that follows.                                                *)
LEMMA WriteInv ==
  ASSUME Inv, NEW w \in Worker, NEW from \in {"write", "rule"}, NEW to \in {"idle", "rule_check"},
         NEW next \in {NoJob, Goal("closed")}, to = "rule_check" => next = Goal("closed"),
         Write(w, from, to, next)
  PROVE  Inv'
<1>1. job[w].goal \in Status
  BY DEF Inv, Safe, Goals, Write
<1>2. PICK target \in {"list_refunds", "list_releases", to} : Advance(w, from, target, next)
  BY DEF Write
<1>3. target \in {"list_refunds", "list_releases"} => ended'
  <2>1. ended' = (ended \/ job[w].goal \in {"closed", "cancelled"})
    BY DEF Write
  <2>2. pc'[w] = target
    BY <1>2 DEF Inv, Safe, TypeOK
  <2>3. job[w].goal \notin {"closed", "cancelled"} => pc'[w] = to
    BY DEF Inv, Safe, TypeOK, Write
  <2> QED BY <2>1, <2>2, <2>3
<1>4. /\ state' = job[w].goal /\ ended' \in BOOLEAN /\ (ended => ended')
      /\ UNCHANGED <<assigned, milestones, round, arbitration, moneyVars, stops>>
  BY DEF Inv, Safe, TypeOK, Write
<1>5. TypeOK'
  BY <1>1, <1>2, <1>4 DEF Inv, Safe, TypeOK
<1>6. Goals' /\ Earned' /\ Owed' /\ StepByStep'
  BY <1>2, <1>3, <1>4 DEF Inv, Safe, TypeOK, Goals, Earned, Owed, StepByStep
<1>7. PostedFirst' /\ OnlyAcceptedIsPaidEarly' /\ RefundedAtProviderFirst'
  BY <1>4 DEF Inv, Safe, PostedFirst, OnlyAcceptedIsPaidEarly, RefundedAtProviderFirst
<1>8. InTurn'
  BY <1>2, <1>4, QuietTurn
<1> QED BY <1>5, <1>6, <1>7, <1>8 DEF Inv, Safe

(* Invoices are issued and paid by others than the requests at work. *)
LEMMA BillingInv == ASSUME Inv, NEW i \in Invoice, Issue(i) \/ Capture(i) \/ CaptureStops(i) PROVE Inv'
<1>1. CASE Issue(i)
  <2>1. TypeOK'
    BY <1>1, MissionsAssumption DEF Inv, Safe, TypeOK, Goals, MissionsAssumption, Issue
  <2>2. Goals' /\ Earned' /\ Owed' /\ StepByStep'
    BY <1>1 DEF Inv, Safe, TypeOK, Goals, Earned, Owed, StepByStep, PostedFirst, OnlyAcceptedIsPaidEarly,
                RefundedAtProviderFirst, Issue
  <2>3. PostedFirst' /\ OnlyAcceptedIsPaidEarly' /\ RefundedAtProviderFirst'
    BY <1>1 DEF Inv, Safe, TypeOK, Goals, Earned, Owed, StepByStep, PostedFirst, OnlyAcceptedIsPaidEarly,
                RefundedAtProviderFirst, Issue
  <2>4. InTurn'
    BY <1>1 DEF Inv, Safe, TypeOK, InTurn, Busy, Issue
  <2> QED BY <2>1, <2>2, <2>3, <2>4 DEF Inv, Safe
<1>2. CASE Capture(i)
  <2>1. TypeOK'
    BY <1>2, MissionsAssumption DEF Inv, Safe, TypeOK, Goals, MissionsAssumption, Capture
  <2>2. Goals' /\ Earned' /\ Owed' /\ StepByStep'
    BY <1>2 DEF Inv, Safe, TypeOK, Goals, Earned, Owed, StepByStep, PostedFirst, OnlyAcceptedIsPaidEarly,
                RefundedAtProviderFirst, Capture
  <2>3. PostedFirst' /\ OnlyAcceptedIsPaidEarly' /\ RefundedAtProviderFirst'
    BY <1>2 DEF Inv, Safe, TypeOK, Goals, Earned, Owed, StepByStep, PostedFirst, OnlyAcceptedIsPaidEarly,
                RefundedAtProviderFirst, Capture
  <2>4. InTurn'
    BY <1>2 DEF Inv, Safe, TypeOK, InTurn, Busy, Capture
  <2> QED BY <2>1, <2>2, <2>3, <2>4 DEF Inv, Safe
<1>3. CASE CaptureStops(i)
  <2>1. TypeOK'
    BY <1>3, MissionsAssumption DEF Inv, Safe, TypeOK, Goals, MissionsAssumption, CaptureStops
  <2>2. Goals' /\ Earned' /\ Owed' /\ StepByStep'
    BY <1>3 DEF Inv, Safe, TypeOK, Goals, Earned, Owed, StepByStep, PostedFirst, OnlyAcceptedIsPaidEarly,
                RefundedAtProviderFirst, CaptureStops
  <2>3. PostedFirst' /\ OnlyAcceptedIsPaidEarly' /\ RefundedAtProviderFirst'
    BY <1>3 DEF Inv, Safe, TypeOK, Goals, Earned, Owed, StepByStep, PostedFirst, OnlyAcceptedIsPaidEarly,
                RefundedAtProviderFirst, CaptureStops
  <2>4. InTurn'
    BY <1>3 DEF Inv, Safe, TypeOK, InTurn, Busy, CaptureStops
  <2> QED BY <2>1, <2>2, <2>3, <2>4 DEF Inv, Safe
<1> QED BY <1>1, <1>2, <1>3

(* A selection, a delivery and its answers move no money. *)
LEMMA RoundsInv ==
  ASSUME Inv, NEW w \in Worker, \/ DecideSelected(w) \/ Select(w) \/ SelectRefused(w)
                                \/ Schedule(w) \/ Deliver(w) \/ InsertRound(w)
  PROVE  Inv'
<1>1. CASE DecideSelected(w)
  <2>1. TypeOK'
    BY <1>1, MissionsAssumption DEF Inv, Safe, TypeOK, Goals, MissionsAssumption, DecideSelected
  <2>2. Goals' /\ Earned' /\ Owed' /\ StepByStep'
    BY <1>1 DEF Inv, Safe, TypeOK, Goals, Earned, Owed, StepByStep, PostedFirst, OnlyAcceptedIsPaidEarly,
                RefundedAtProviderFirst, DecideSelected
  <2>3. PostedFirst' /\ OnlyAcceptedIsPaidEarly' /\ RefundedAtProviderFirst'
    BY <1>1 DEF Inv, Safe, TypeOK, Goals, Earned, Owed, StepByStep, PostedFirst, OnlyAcceptedIsPaidEarly,
                RefundedAtProviderFirst, DecideSelected
  <2>4. InTurn'
    BY <1>1, QuietTurn DEF DecideSelected
  <2> QED BY <2>1, <2>2, <2>3, <2>4 DEF Inv, Safe
<1>2. CASE Select(w)
  <2>1. TypeOK'
    BY <1>2, MissionsAssumption DEF Inv, Safe, TypeOK, Goals, MissionsAssumption, Select
  <2>2. Goals' /\ Earned' /\ Owed' /\ StepByStep'
    BY <1>2 DEF Inv, Safe, TypeOK, Goals, Earned, Owed, StepByStep, PostedFirst, OnlyAcceptedIsPaidEarly,
                RefundedAtProviderFirst, Select
  <2>3. PostedFirst' /\ OnlyAcceptedIsPaidEarly' /\ RefundedAtProviderFirst'
    BY <1>2 DEF Inv, Safe, TypeOK, Goals, Earned, Owed, StepByStep, PostedFirst, OnlyAcceptedIsPaidEarly,
                RefundedAtProviderFirst, Select
  <2>4. InTurn'
    BY <1>2 DEF Inv, Safe, TypeOK, InTurn, Busy, Select
  <2> QED BY <2>1, <2>2, <2>3, <2>4 DEF Inv, Safe
<1>3. CASE SelectRefused(w)
  <2>1. TypeOK'
    BY <1>3, MissionsAssumption DEF Inv, Safe, TypeOK, Goals, MissionsAssumption, SelectRefused
  <2>2. Goals' /\ Earned' /\ Owed' /\ StepByStep'
    BY <1>3 DEF Inv, Safe, TypeOK, Goals, Earned, Owed, StepByStep, PostedFirst, OnlyAcceptedIsPaidEarly,
                RefundedAtProviderFirst, SelectRefused
  <2>3. PostedFirst' /\ OnlyAcceptedIsPaidEarly' /\ RefundedAtProviderFirst'
    BY <1>3 DEF Inv, Safe, TypeOK, Goals, Earned, Owed, StepByStep, PostedFirst, OnlyAcceptedIsPaidEarly,
                RefundedAtProviderFirst, SelectRefused
  <2>4. InTurn'
    BY <1>3 DEF Inv, Safe, TypeOK, InTurn, Busy, SelectRefused
  <2> QED BY <2>1, <2>2, <2>3, <2>4 DEF Inv, Safe
<1>4. CASE Schedule(w)
  <2>1. TypeOK'
    BY <1>4 DEF Inv, Safe, TypeOK, Schedule
  <2>2. Goals' /\ Earned' /\ Owed' /\ StepByStep'
    BY <1>4 DEF Inv, Safe, TypeOK, Goals, Earned, Owed, StepByStep, Schedule
  <2>3. PostedFirst' /\ OnlyAcceptedIsPaidEarly' /\ RefundedAtProviderFirst'
    BY <1>4 DEF Inv, Safe, TypeOK, PostedFirst, OnlyAcceptedIsPaidEarly, RefundedAtProviderFirst, Schedule
  <2>4. InTurn'
    <3>1. ~overlapped' => ~overlapped /\ \A v \in Worker : pc'[v] = "idle"
      <4>1. ~overlapped' => ~overlapped /\ Busy \subseteq {w}
        BY <1>4 DEF Schedule
      <4>2. pc' = [pc EXCEPT ![w] = "idle"]
        BY <1>4 DEF Schedule
      <4> QED BY <4>1, <4>2 DEF Inv, Safe, TypeOK, Busy
    <3>2. \A i \in Invoice : /\ bill[i] \in {"released", "refunded"} => bill'[i] = bill[i]
                            /\ bill'[i] \in {"released", "refunded"} => bill'[i] = bill[i]
      BY <1>4 DEF Schedule
    <3>3. ~overlapped' => \A v \in Worker : pc[v] # "stamp_release"
      BY <1>4, <3>1 DEF Inv, Safe, TypeOK, Busy, Schedule
    <3> QED BY <1>4, <3>1, <3>2, <3>3 DEF Inv, Safe, TypeOK, InTurn, Schedule
  <2> QED BY <2>1, <2>2, <2>3, <2>4 DEF Inv, Safe
<1>5. CASE Deliver(w)
  <2>1. TypeOK'
    BY <1>5, MissionsAssumption DEF Inv, Safe, TypeOK, Goals, MissionsAssumption, Deliver
  <2>2. Goals' /\ Earned' /\ Owed' /\ StepByStep'
    BY <1>5 DEF Inv, Safe, TypeOK, Goals, Earned, Owed, StepByStep, PostedFirst, OnlyAcceptedIsPaidEarly,
                RefundedAtProviderFirst, Deliver
  <2>3. PostedFirst' /\ OnlyAcceptedIsPaidEarly' /\ RefundedAtProviderFirst'
    BY <1>5 DEF Inv, Safe, TypeOK, Goals, Earned, Owed, StepByStep, PostedFirst, OnlyAcceptedIsPaidEarly,
                RefundedAtProviderFirst, Deliver
  <2>4. InTurn'
    BY <1>5, QuietTurn DEF Deliver
  <2> QED BY <2>1, <2>2, <2>3, <2>4 DEF Inv, Safe
<1>6. CASE InsertRound(w)
  <2>1. TypeOK'
    BY <1>6 DEF Inv, Safe, TypeOK, InsertRound
  <2>2. \A n \in Rounds : round[n] = "accepted" => round'[n] = "accepted"
    BY <1>6 DEF InsertRound, Handed
  <2>3. Goals' /\ Earned' /\ Owed' /\ StepByStep'
    BY <1>6, <2>2 DEF Inv, Safe, TypeOK, Goals, Earned, Owed, StepByStep, InsertRound
  <2>4. PostedFirst' /\ OnlyAcceptedIsPaidEarly' /\ RefundedAtProviderFirst'
    BY <1>6, <2>2 DEF Inv, Safe, PostedFirst, OnlyAcceptedIsPaidEarly, RefundedAtProviderFirst, InsertRound
  <2>5. InTurn'
    BY <1>6, QuietTurn DEF InsertRound
  <2> QED BY <2>1, <2>3, <2>4, <2>5 DEF Inv, Safe
<1> QED BY <1>1, <1>2, <1>3, <1>4, <1>5, <1>6

(* A round once accepted stays accepted, and earns its instalment. *)
LEMMA AnswerInv == ASSUME Inv, NEW w \in Worker, NEW n \in Rounds, Accept(w, n) PROVE Inv'
<1>1. CASE Accept(w, n)
  <2>1. TypeOK'
    BY <1>1, MissionsAssumption DEF Inv, Safe, TypeOK, Goals, MissionsAssumption, Accept, LastWaiting, Waiting
  <2>2. Goals' /\ Earned' /\ Owed' /\ StepByStep'
    BY <1>1 DEF Inv, Safe, TypeOK, Goals, Earned, Owed, StepByStep, PostedFirst, OnlyAcceptedIsPaidEarly,
                RefundedAtProviderFirst, Accept, LastWaiting, Waiting
  <2>3. PostedFirst' /\ OnlyAcceptedIsPaidEarly' /\ RefundedAtProviderFirst'
    BY <1>1 DEF Inv, Safe, TypeOK, Goals, Earned, Owed, StepByStep, PostedFirst, OnlyAcceptedIsPaidEarly,
                RefundedAtProviderFirst, Accept, LastWaiting, Waiting
  <2>4. InTurn'
    BY <1>1 DEF Inv, Safe, TypeOK, InTurn, Busy, Accept, LastWaiting, Waiting
  <2> QED BY <2>1, <2>2, <2>3, <2>4 DEF Inv, Safe
<1> QED BY <1>1

(* To ask for changes takes back nothing that was accepted. *)
LEMMA AnswersInv == ASSUME Inv, NEW n \in Rounds, RequestChanges(n) PROVE Inv'
<1>1. CASE RequestChanges(n)
  <2>1. TypeOK'
    BY <1>1, MissionsAssumption DEF Inv, Safe, TypeOK, Goals, MissionsAssumption, RequestChanges, LastWaiting,
                                    Waiting
  <2>2. Goals' /\ Earned' /\ Owed' /\ StepByStep'
    BY <1>1 DEF Inv, Safe, TypeOK, Goals, Earned, Owed, StepByStep, PostedFirst, OnlyAcceptedIsPaidEarly,
                RefundedAtProviderFirst, RequestChanges, LastWaiting, Waiting
  <2>3. PostedFirst' /\ OnlyAcceptedIsPaidEarly' /\ RefundedAtProviderFirst'
    BY <1>1 DEF Inv, Safe, TypeOK, Goals, Earned, Owed, StepByStep, PostedFirst, OnlyAcceptedIsPaidEarly,
                RefundedAtProviderFirst, RequestChanges, LastWaiting, Waiting
  <2>4. InTurn'
    BY <1>1 DEF Inv, Safe, TypeOK, InTurn, Busy, RequestChanges, LastWaiting, Waiting
  <2> QED BY <2>1, <2>2, <2>3, <2>4 DEF Inv, Safe
<1> QED BY <1>1

(* A status is written whatever it is by then; the end comes before the money. *)
LEMMA StatusInv ==
  ASSUME Inv, NEW w \in Worker, \/ \E to \in Status : SetState(w, to)
                                \/ \E outcome \in Outcome : Arbitrate(w, outcome)
                                \/ WriteStatus(w) \/ Rule(w) \/ RuleCheck(w) \/ DecideArbitration(w)
  PROVE  Inv'
<1>1. ASSUME NEW to \in Status, SetState(w, to) PROVE Inv'
  <2>1. TypeOK'
    BY <1>1, MissionsAssumption DEF Inv, Safe, TypeOK, Goals, MissionsAssumption, SetState
  <2>2. Goals' /\ Earned' /\ Owed' /\ StepByStep'
    BY <1>1 DEF Inv, Safe, TypeOK, Goals, Earned, Owed, StepByStep, PostedFirst, OnlyAcceptedIsPaidEarly,
                RefundedAtProviderFirst, SetState
  <2>3. PostedFirst' /\ OnlyAcceptedIsPaidEarly' /\ RefundedAtProviderFirst'
    BY <1>1 DEF Inv, Safe, TypeOK, Goals, Earned, Owed, StepByStep, PostedFirst, OnlyAcceptedIsPaidEarly,
                RefundedAtProviderFirst, SetState
  <2>4. InTurn'
    BY <1>1, QuietTurn DEF SetState
  <2> QED BY <2>1, <2>2, <2>3, <2>4 DEF Inv, Safe
<1>2. ASSUME NEW outcome \in Outcome, Arbitrate(w, outcome) PROVE Inv'
  <2>1. TypeOK'
    BY <1>2, MissionsAssumption DEF Inv, Safe, TypeOK, Goals, MissionsAssumption, Arbitrate
  <2>2. Goals' /\ Earned' /\ Owed' /\ StepByStep'
    BY <1>2 DEF Inv, Safe, TypeOK, Goals, Earned, Owed, StepByStep, PostedFirst, OnlyAcceptedIsPaidEarly,
                RefundedAtProviderFirst, Arbitrate
  <2>3. PostedFirst' /\ OnlyAcceptedIsPaidEarly' /\ RefundedAtProviderFirst'
    BY <1>2 DEF Inv, Safe, TypeOK, Goals, Earned, Owed, StepByStep, PostedFirst, OnlyAcceptedIsPaidEarly,
                RefundedAtProviderFirst, Arbitrate
  <2>4. InTurn'
    BY <1>2, QuietTurn DEF Arbitrate
  <2> QED BY <2>1, <2>2, <2>3, <2>4 DEF Inv, Safe
<1>3. CASE WriteStatus(w)
  BY <1>3, WriteInv DEF WriteStatus
<1>4. CASE Rule(w)
  BY <1>4, WriteInv DEF Rule
<1>5. CASE RuleCheck(w)
  <2>1. PICK to \in {"idle", "rule", "rule_check"}, next \in {job[w], Goal("closed")} : Advance(w, "rule_check", to, next)
    BY <1>5 DEF RuleCheck
  <2>2. job[w] \in Jobs /\ job[w].goal \in Status
    BY <1>5 DEF Inv, Safe, TypeOK, Goals, RuleCheck
  <2>3. next \in Jobs /\ next.goal \in Status
    BY <2>1, <2>2
  <2>4. UNCHANGED <<missionVars, milestones, round, arbitration, moneyVars, stops>>
    BY <1>5 DEF RuleCheck
  <2>5. TypeOK'
    BY <2>1, <2>3, <2>4 DEF Inv, Safe, TypeOK
  <2>6. Goals' /\ Earned' /\ Owed' /\ StepByStep'
    BY <2>1, <2>3, <2>4 DEF Inv, Safe, TypeOK, Goals, Earned, Owed, StepByStep
  <2>7. PostedFirst' /\ OnlyAcceptedIsPaidEarly' /\ RefundedAtProviderFirst'
    BY <2>4 DEF Inv, Safe, PostedFirst, OnlyAcceptedIsPaidEarly, RefundedAtProviderFirst
  <2>8. InTurn'
    BY <2>1, <2>4, QuietTurn
  <2> QED BY <2>5, <2>6, <2>7, <2>8 DEF Inv, Safe
<1>6. CASE DecideArbitration(w)
  <2>1. TypeOK'
    BY <1>6, MissionsAssumption DEF Inv, Safe, TypeOK, Goals, MissionsAssumption, DecideArbitration,
                                    LastWaiting, Waiting, AnswerTo
  <2>2. Goals' /\ Earned' /\ Owed' /\ StepByStep'
    BY <1>6 DEF Inv, Safe, TypeOK, Goals, Earned, Owed, StepByStep, PostedFirst, OnlyAcceptedIsPaidEarly,
                RefundedAtProviderFirst, DecideArbitration, LastWaiting, Waiting, AnswerTo
  <2>3. PostedFirst' /\ OnlyAcceptedIsPaidEarly' /\ RefundedAtProviderFirst'
    BY <1>6 DEF Inv, Safe, TypeOK, Goals, Earned, Owed, StepByStep, PostedFirst, OnlyAcceptedIsPaidEarly,
                RefundedAtProviderFirst, DecideArbitration, LastWaiting, Waiting, AnswerTo
  <2>4. InTurn'
    BY <1>6 DEF Inv, Safe, TypeOK, InTurn, Busy, DecideArbitration, LastWaiting, Waiting, AnswerTo
  <2> QED BY <2>1, <2>2, <2>3, <2>4 DEF Inv, Safe
<1> QED BY <1>1, <1>2, <1>3, <1>4, <1>5, <1>6

(* What is paid is listed, and each step leaves what the next relies on. *)
LEMMA MoneyInv ==
  ASSUME Inv, NEW w \in Worker, \/ ListReleases(w) \/ ListRefunds(w)
                                \/ \E i \in Invoice : Settle(w, i) \/ ProviderCannot(w, i)
  PROVE  Inv'
<1>1. CASE ListReleases(w)
  <2>1. TypeOK'
    BY <1>1, MissionsAssumption DEF Inv, Safe, TypeOK, Goals, MissionsAssumption, ListReleases, List, PaidInvoices
  <2>2. Goals' /\ Earned' /\ Owed' /\ StepByStep'
    BY <1>1 DEF Inv, Safe, TypeOK, Goals, Earned, Owed, StepByStep, PostedFirst, OnlyAcceptedIsPaidEarly,
                RefundedAtProviderFirst, ListReleases, List, PaidInvoices
  <2>3. PostedFirst' /\ OnlyAcceptedIsPaidEarly' /\ RefundedAtProviderFirst'
    BY <1>1 DEF Inv, Safe, TypeOK, Goals, Earned, Owed, StepByStep, PostedFirst, OnlyAcceptedIsPaidEarly,
                RefundedAtProviderFirst, ListReleases, List, PaidInvoices
  <2>4. InTurn'
    BY <1>1 DEF Inv, Safe, TypeOK, InTurn, Busy, ListReleases, List, PaidInvoices
  <2> QED BY <2>1, <2>2, <2>3, <2>4 DEF Inv, Safe
<1>2. CASE ListRefunds(w)
  <2>1. TypeOK'
    BY <1>2, MissionsAssumption DEF Inv, Safe, TypeOK, Goals, MissionsAssumption, ListRefunds, List, PaidInvoices
  <2>2. Goals' /\ Earned' /\ Owed' /\ StepByStep'
    BY <1>2 DEF Inv, Safe, TypeOK, Goals, Earned, Owed, StepByStep, PostedFirst, OnlyAcceptedIsPaidEarly,
                RefundedAtProviderFirst, ListRefunds, List, PaidInvoices
  <2>3. PostedFirst' /\ OnlyAcceptedIsPaidEarly' /\ RefundedAtProviderFirst'
    BY <1>2 DEF Inv, Safe, TypeOK, Goals, Earned, Owed, StepByStep, PostedFirst, OnlyAcceptedIsPaidEarly,
                RefundedAtProviderFirst, ListRefunds, List, PaidInvoices
  <2>4. InTurn'
    BY <1>2 DEF Inv, Safe, TypeOK, InTurn, Busy, ListRefunds, List, PaidInvoices
  <2> QED BY <2>1, <2>2, <2>3, <2>4 DEF Inv, Safe
<1>3. ASSUME NEW i \in Invoice, FindPaid(w, i) PROVE Inv'
  <2>1. CASE bill[i] = "paid"
    <3>1. TypeOK'
      BY <1>3, <2>1 DEF Inv, Safe, TypeOK, FindPaid
    <3>2. Goals' /\ Earned' /\ Owed' /\ StepByStep'
      BY <1>3, <2>1 DEF Inv, Safe, TypeOK, Goals, Earned, Owed, StepByStep, PostedFirst, FindPaid
    <3>3. PostedFirst' /\ OnlyAcceptedIsPaidEarly' /\ RefundedAtProviderFirst'
      BY <1>3 DEF Inv, Safe, PostedFirst, OnlyAcceptedIsPaidEarly, RefundedAtProviderFirst, FindPaid
    <3>4. InTurn'
      BY <1>3, <2>1 DEF Inv, Safe, TypeOK, InTurn, Busy, FindPaid
    <3> QED BY <3>1, <3>2, <3>3, <3>4 DEF Inv, Safe
  <2>2. CASE bill[i] # "paid"
    <3>1. TypeOK'
      <4>1. PICK to \in {"idle", "release"} :
              /\ pc'  = [pc EXCEPT ![w] = to]
              /\ job' = [job EXCEPT ![w] = IF to = "idle" THEN NoJob ELSE ToDo(job[w].todo \ {i})]
              /\ overlapped' = (overlapped \/ Busy \ {w} # {})
              /\ UNCHANGED <<missionVars, milestones, round, arbitration, moneyVars, stops>>
        BY <1>3, <2>2 DEF FindPaid
      <4>2. pc' \in [Worker -> Steps]
        BY <4>1 DEF Inv, Safe, TypeOK
      <4>3. job' \in [Worker -> Jobs]
        <5>1. job[w].todo \ {i} \in SUBSET Invoice
          BY DEF Inv, Safe, TypeOK
        <5>2. ToDo(job[w].todo \ {i}) \in Jobs /\ NoJob \in Jobs
          BY <5>1
        <5> QED BY <4>1, <5>2 DEF Inv, Safe, TypeOK
      <4>4. overlapped' \in BOOLEAN
        BY <4>1 DEF Inv, Safe, TypeOK
      <4> QED BY <4>1, <4>2, <4>3, <4>4 DEF Inv, Safe, TypeOK
    <3>2. Goals' /\ Earned' /\ Owed' /\ StepByStep'
      BY <1>3, <2>2 DEF Inv, Safe, TypeOK, Goals, Earned, Owed, StepByStep, PostedFirst, FindPaid
    <3>3. PostedFirst' /\ OnlyAcceptedIsPaidEarly' /\ RefundedAtProviderFirst'
      BY <1>3 DEF Inv, Safe, PostedFirst, OnlyAcceptedIsPaidEarly, RefundedAtProviderFirst, FindPaid
    <3>4. InTurn'
      <4>1. PICK to, next : to \in {"idle", "release"} /\ Advance(w, "release", to, next)
        BY <1>3, <2>2 DEF FindPaid
      <4> QED BY <1>3, <4>1, QuietTurn DEF FindPaid
    <3> QED BY <3>1, <3>2, <3>3, <3>4 DEF Inv, Safe
  <2> QED BY <2>1, <2>2
<1>4. ASSUME NEW i \in Invoice, PostRelease(w, i) PROVE Inv'
  <2>1. TypeOK'
    BY <1>4, MissionsAssumption DEF Inv, Safe, TypeOK, Goals, MissionsAssumption, PostRelease
  <2>2. Goals' /\ Earned' /\ Owed' /\ StepByStep'
    BY <1>4 DEF Inv, Safe, TypeOK, Goals, Earned, Owed, StepByStep, PostedFirst, OnlyAcceptedIsPaidEarly,
                RefundedAtProviderFirst, PostRelease
  <2>3. PostedFirst' /\ OnlyAcceptedIsPaidEarly' /\ RefundedAtProviderFirst'
    BY <1>4 DEF Inv, Safe, TypeOK, Goals, Earned, Owed, StepByStep, PostedFirst, OnlyAcceptedIsPaidEarly,
                RefundedAtProviderFirst, PostRelease
  <2>4. InTurn'
    BY <1>4 DEF Inv, Safe, TypeOK, InTurn, Busy, PostRelease
  <2> QED BY <2>1, <2>2, <2>3, <2>4 DEF Inv, Safe
<1>5. ASSUME NEW i \in Invoice, StampRelease(w, i) PROVE Inv'
  <2>1. TypeOK'
    BY <1>5 DEF Inv, Safe, TypeOK, StampRelease
  <2>2. Goals' /\ Earned' /\ Owed' /\ StepByStep'
    BY <1>5 DEF Inv, Safe, TypeOK, Goals, Earned, Owed, StepByStep, StampRelease
  <2>3. PostedFirst' /\ OnlyAcceptedIsPaidEarly' /\ RefundedAtProviderFirst'
    BY <1>5 DEF Inv, Safe, TypeOK, Owed, StepByStep, PostedFirst, OnlyAcceptedIsPaidEarly,
                RefundedAtProviderFirst, StampRelease
  <2>4. InTurn'
    <3>1. ~overlapped' => ~overlapped /\ \A v \in Worker \ {w} : pc[v] = "idle" /\ pc'[v] = "idle"
      BY <1>5 DEF Inv, Safe, TypeOK, Busy, StampRelease
    <3>2. ~overlapped' => bill[i] = "paid" /\ bill'[i] = "released"
      BY <1>5, <3>1 DEF Inv, Safe, TypeOK, InTurn, StampRelease
    <3>3. /\ \A j \in Invoice \ {i} : bill'[j] = bill[j] /\ book'[j] = book[j] /\ ~Current(w, j)
          /\ pc'[w] \in {"idle", "release"} /\ (pc'[w] # "idle" => job'[w].todo = job[w].todo \ {i})
      BY <1>5 DEF Inv, Safe, TypeOK, StampRelease
    <3>4. ~overlapped' => \A j \in Invoice : /\ "refund" \in book'[j] <=> bill'[j] = "refunded"
                                             /\ "release" \in book'[j] <=> bill'[j] = "released"
      BY <1>5, <3>1, <3>2, <3>3 DEF Inv, Safe, TypeOK, InTurn, StampRelease
    <3>5. ~overlapped' => \A j \in Invoice : pc'[w] \in Refunding /\ j \in job'[w].todo => bill'[j] = "paid"
      BY <1>5, <3>1, <3>2, <3>3 DEF Inv, InTurn, StampRelease
    <3> QED BY <3>1, <3>3, <3>4, <3>5 DEF InTurn
  <2> QED BY <2>1, <2>2, <2>3, <2>4 DEF Inv, Safe
<1>6. ASSUME NEW i \in Invoice, RefundInvoice(w, i) PROVE Inv'
  <2>1. TypeOK'
    BY <1>6, MissionsAssumption DEF Inv, Safe, TypeOK, Goals, MissionsAssumption, RefundInvoice
  <2>2. Goals' /\ Earned' /\ Owed' /\ StepByStep'
    BY <1>6 DEF Inv, Safe, TypeOK, Goals, Earned, Owed, StepByStep, PostedFirst, OnlyAcceptedIsPaidEarly,
                RefundedAtProviderFirst, RefundInvoice
  <2>3. PostedFirst' /\ OnlyAcceptedIsPaidEarly' /\ RefundedAtProviderFirst'
    BY <1>6 DEF Inv, Safe, TypeOK, Goals, Earned, Owed, StepByStep, PostedFirst, OnlyAcceptedIsPaidEarly,
                RefundedAtProviderFirst, RefundInvoice
  <2>4. InTurn'
    BY <1>6 DEF Inv, Safe, TypeOK, InTurn, Busy, RefundInvoice
  <2> QED BY <2>1, <2>2, <2>3, <2>4 DEF Inv, Safe
<1>7. ASSUME NEW i \in Invoice, RefundBooks(w, i) PROVE Inv'
  <2>1. TypeOK'
    BY <1>7 DEF Inv, Safe, TypeOK, RefundBooks
  <2>2. Goals' /\ Earned' /\ Owed' /\ StepByStep'
    BY <1>7 DEF Inv, Safe, TypeOK, Goals, Earned, Owed, StepByStep, RefundBooks
  <2>3. PostedFirst' /\ OnlyAcceptedIsPaidEarly' /\ RefundedAtProviderFirst'
    BY <1>7 DEF Inv, Safe, TypeOK, Owed, StepByStep, PostedFirst, OnlyAcceptedIsPaidEarly,
                RefundedAtProviderFirst, RefundBooks
  <2>4. InTurn'
    <3>1. ~overlapped' => ~overlapped /\ \A v \in Worker \ {w} : pc[v] = "idle" /\ pc'[v] = "idle"
      BY <1>7 DEF Inv, Safe, TypeOK, Busy, RefundBooks
    <3>2. ~overlapped' => bill[i] = "paid" /\ bill'[i] = "refunded"
      BY <1>7, <3>1 DEF Inv, Safe, TypeOK, InTurn, RefundBooks
    <3>3. /\ \A j \in Invoice \ {i} : bill'[j] = bill[j] /\ book'[j] = book[j] /\ ~Current(w, j)
          /\ pc'[w] \in {"idle", "refund"} /\ (pc'[w] # "idle" => job'[w].todo = job[w].todo \ {i})
      BY <1>7 DEF Inv, Safe, TypeOK, RefundBooks
    <3>4. ~overlapped' => \A j \in Invoice : /\ "refund" \in book'[j] <=> bill'[j] = "refunded"
                                             /\ "release" \in book'[j] <=> bill'[j] = "released"
      BY <1>7, <3>1, <3>2, <3>3 DEF Inv, Safe, TypeOK, InTurn, RefundBooks
    <3>5. ~overlapped' => \A j \in Invoice : pc'[w] \in Refunding /\ j \in job'[w].todo => bill'[j] = "paid"
      BY <1>7, <3>1, <3>2, <3>3 DEF Inv, InTurn, RefundBooks
    <3> QED BY <3>1, <3>3, <3>4, <3>5 DEF InTurn
  <2> QED BY <2>1, <2>2, <2>3, <2>4 DEF Inv, Safe
<1>8. ASSUME NEW i \in Invoice, ProviderCannot(w, i) PROVE Inv'
  <2>1. TypeOK'
    BY <1>8, MissionsAssumption DEF Inv, Safe, TypeOK, Goals, MissionsAssumption, ProviderCannot
  <2>2. Goals' /\ Earned' /\ Owed' /\ StepByStep'
    BY <1>8 DEF Inv, Safe, TypeOK, Goals, Earned, Owed, StepByStep, PostedFirst, OnlyAcceptedIsPaidEarly,
                RefundedAtProviderFirst, ProviderCannot
  <2>3. PostedFirst' /\ OnlyAcceptedIsPaidEarly' /\ RefundedAtProviderFirst'
    BY <1>8 DEF Inv, Safe, TypeOK, Goals, Earned, Owed, StepByStep, PostedFirst, OnlyAcceptedIsPaidEarly,
                RefundedAtProviderFirst, ProviderCannot
  <2>4. InTurn'
    BY <1>8 DEF Inv, Safe, TypeOK, InTurn, Busy, ProviderCannot
  <2> QED BY <2>1, <2>2, <2>3, <2>4 DEF Inv, Safe
<1> QED BY <1>1, <1>2, <1>3, <1>4, <1>5, <1>6, <1>7, <1>8 DEF Settle

(* Whoever is cut off leaves the rows and the books as they are. *)
LEMMA StopInv == ASSUME Inv, NEW w \in Worker, Stop(w) PROVE Inv'
<1>1. CASE Stop(w)
  <2>1. TypeOK'
    BY <1>1, MissionsAssumption DEF Inv, Safe, TypeOK, Goals, MissionsAssumption, Stop, CutOff
  <2>2. Goals' /\ Earned' /\ Owed' /\ StepByStep'
    BY <1>1 DEF Inv, Safe, TypeOK, Goals, Earned, Owed, StepByStep, PostedFirst, OnlyAcceptedIsPaidEarly,
                RefundedAtProviderFirst, Stop, CutOff
  <2>3. PostedFirst' /\ OnlyAcceptedIsPaidEarly' /\ RefundedAtProviderFirst'
    BY <1>1 DEF Inv, Safe, TypeOK, Goals, Earned, Owed, StepByStep, PostedFirst, OnlyAcceptedIsPaidEarly,
                RefundedAtProviderFirst, Stop, CutOff
  <2>4. InTurn'
    BY <1>1 DEF Inv, Safe, TypeOK, InTurn, Busy, Stop, CutOff
  <2> QED BY <2>1, <2>2, <2>3, <2>4 DEF Inv, Safe
<1> QED BY <1>1

LEMMA NextInv == Inv /\ [Next]_vars => Inv'
<1> SUFFICES ASSUME Inv, [Next]_vars PROVE Inv'
  OBVIOUS
<1>1. CASE Next
  <2>1. ASSUME NEW i \in Invoice, Issue(i) \/ Capture(i) \/ CaptureStops(i) PROVE Inv'
    BY <2>1, BillingInv
  <2>2. ASSUME NEW w \in Worker, NEW n \in Rounds, Accept(w, n) PROVE Inv'
    BY <2>2, AnswerInv
  <2>3. ASSUME NEW n \in Rounds, RequestChanges(n) PROVE Inv'
    BY <2>3, AnswersInv
  <2>4. ASSUME NEW w \in Worker, \/ \E to \in Status : SetState(w, to)
                                 \/ \E outcome \in Outcome : Arbitrate(w, outcome) PROVE Inv'
    BY <2>4, StatusInv
  <2>5. ASSUME NEW w \in Worker, DecideSelected(w) \/ Deliver(w) PROVE Inv'
    BY <2>5, RoundsInv
  <2>6. ASSUME NEW w \in Worker, Continue(w) PROVE Inv'
    BY <2>6, RoundsInv, StatusInv, MoneyInv DEF Continue
  <2>7. ASSUME NEW w \in Worker, NEW i \in Invoice, ProviderCannot(w, i) PROVE Inv'
    BY <2>7, MoneyInv
  <2>8. ASSUME NEW w \in Worker, Stop(w) PROVE Inv'
    BY <2>8, StopInv
  <2> QED BY <1>1, <2>1, <2>2, <2>3, <2>4, <2>5, <2>6, <2>7, <2>8 DEF Next
<1>2. CASE UNCHANGED vars
  BY <1>2 DEF Inv, Safe, TypeOK, Goals, Earned, Owed, StepByStep, PostedFirst, OnlyAcceptedIsPaidEarly,
              RefundedAtProviderFirst, InTurn, vars
<1> QED BY <1>1, <1>2

LEMMA Invariance == Spec => []Inv
<1>1. Init => Inv
  BY InitInv
<1>2. Inv /\ [Next]_vars => Inv'
  BY NextInv
<1> QED BY <1>1, <1>2, PTL DEF Spec

-----------------------------------------------------------------------------
(* The mission, its rounds, its invoices and the requests keep to their types. *)
THEOREM TypeCorrect == Spec => []TypeOK
<1>1. Inv => TypeOK
  BY DEF Inv, Safe
<1> QED BY <1>1, Invariance, PTL

(* No row is ahead of the books, and only what was put up leaves escrow. *)
THEOREM RowsFollowBooks == Spec => []PostedFirst
<1>1. Inv => PostedFirst
  BY DEF Inv, Safe
<1> QED BY <1>1, Invariance, PTL

(* Whoever overtakes whom, money leaves escrow early only for accepted work. *)
THEOREM EarlyPayIsEarned == Spec => []OnlyAcceptedIsPaidEarly
<1>1. Inv => OnlyAcceptedIsPaidEarly
  BY DEF Inv, Safe
<1> QED BY <1>1, Invariance, PTL

(* The books give back on ended missions only, after the provider. *)
THEOREM RefundsAreOwed == Spec => []RefundedAtProviderFirst
<1>1. Inv => RefundedAtProviderFirst
  BY DEF Inv, Safe
<1> QED BY <1>1, Invariance, PTL

(* With nothing overlapping and nobody cut off, every invoice settles once. *)
THEOREM SettlesOnce == Spec => []SettledOnce
<1>1. Inv => SettledOnce
  BY DEF Inv, Safe, TypeOK, InTurn, SettledOnce, Busy
<1> QED BY <1>1, Invariance, PTL
=============================================================================
