-------------------------------- MODULE Holds --------------------------------
(***************************************************************************)
(* One mentorship session's money, from capture to its end:                *)
(* routes/mentorship.rs (mark_completed, confirm_session),                 *)
(* services/release.rs and services/disputes.rs.                           *)
(*                                                                         *)
(* A worker is a request or the release sweep; it runs one operation at a  *)
(* time, one statement or provider call per step, and may stop between two *)
(* of them.  The sessions of a platform share nothing but the accounts'    *)
(* running totals, so one session, with any number of workers, is enough.  *)
(* The ledger posts a movement at most once per key (module Book): `book`  *)
(* is the set of this session's keys.                                      *)
(***************************************************************************)
EXTENDS Movements

CONSTANTS Worker,     \* requests and sweeps that may run at the same time
          None,       \* no ending chosen
          Share, Fee, \* what the mentor and the platform get
          MaxStops    \* how many times somebody stops half-way

ASSUME MaxStopsIsNat == MaxStops \in Nat

(* The row takes no hold of nothing (CHECK (amount > 0), migration 0156). *)
ASSUME SharesAreAmounts == Share \in Nat \ {0} /\ Fee \in Nat

VARIABLES session,    \* mentorship_sessions.status
          confirmed,  \* confirmed_by_mentee_at is set
          book,       \* the kinds of movement posted for the session
          hold,       \* its row in pending_releases
          due,        \* release_at has passed
          dispute,    \* the status of its row in disputes
          charge,     \* the payment the mentee made, in `payments`
          returned,   \* the provider gave the mentee's money back
          byHand,     \* an operator was told to refund by hand
          pc,         \* pc[w]: the next statement of worker w
          ending,     \* ending[w]: the status w will close the dispute with
          overlapped, \* history: two operations ran at once, or one was cut off
          stops

rowVars == <<session, confirmed, hold, dispute, charge>>
vars == <<rowVars, book, due, returned, byHand, pc, ending, overlapped, stops>>

Closed == {"refunded", "released", "withdrawn"}
Kinds  == {"capture", "release", "dispute", "dispute_resolved", "refund"}
Steps  == {"idle", "capture", "hold", "complete", "find", "post_release", "stamp_release",
           "freeze", "post_freeze", "stamp_freeze", "insert", "contest", "resolve",
           "refund_find", "refund_provider", "mark_refunded", "post_refund",
           "close_dispute", "close_hold"}

TypeOK ==
  /\ session   \in {"paid", "completed"}
  /\ confirmed \in BOOLEAN
  /\ book      \subseteq Kinds
  /\ hold      \in [exists : BOOLEAN, released : BOOLEAN, disputed : BOOLEAN]
  /\ due       \in BOOLEAN
  /\ dispute   \in {"none", "open", "contested"} \cup Closed
  /\ charge    \in {"unrecorded", "succeeded", "refunded"}
  /\ returned  \in BOOLEAN
  /\ byHand    \in BOOLEAN
  /\ pc        \in [Worker -> Steps]
  /\ ending    \in [Worker -> Closed \cup {None}]
  /\ overlapped \in BOOLEAN
  /\ stops     \in 0 .. MaxStops

Init ==
  /\ session   = "paid"
  /\ confirmed = FALSE
  /\ book      = {}
  /\ hold      = [exists |-> FALSE, released |-> FALSE, disputed |-> FALSE]
  /\ due       = FALSE
  /\ dispute   = "none"
  /\ charge    \in {"unrecorded", "succeeded"}
  /\ returned  = FALSE
  /\ byHand    = FALSE
  /\ pc        = [w \in Worker |-> "idle"]
  /\ ending    = [w \in Worker |-> None]
  /\ overlapped = FALSE
  /\ stops     = 0

-----------------------------------------------------------------------------
Step(w, from, to) == pc[w] = from /\ pc' = [pc EXCEPT ![w] = to]

(* A statement that only reads, or only decides what comes next. *)
Decide(w, from, to) == Step(w, from, to) /\ UNCHANGED <<rowVars, book, due, returned, byHand, ending, stops>>

(* ledger::post under the key <<kind, session>>: the second time, a replay. *)
Post(w, from, kind, to) ==
  /\ Step(w, from, to)
  /\ book' = book \cup {kind}
  /\ UNCHANGED <<rowVars, due, returned, byHand, ending, stops>>

(* UPDATE pending_releases: the columns named, whatever they hold by now. *)
Stamp(w, from, row, to) ==
  /\ Step(w, from, to)
  /\ hold' = row
  /\ UNCHANGED <<session, confirmed, dispute, charge, book, due, returned, byHand, ending, stops>>

-----------------------------------------------------------------------------
(* mark_completed: the capture in one transaction, the hold in the next,   *)
(* and the session is completed whatever becomes of the two.               *)

Complete(w) == session = "paid" /\ Decide(w, "idle", "capture")

Capture(w)    == Post(w, "capture", "capture", IF "capture" \in book THEN "complete" ELSE "hold")
CreateHold(w) == Stamp(w, "hold", [hold EXCEPT !.exists = TRUE], "complete")

(* An error in either is kept in payout_error, and the session completes. *)
CaptureFails(w) ==
  /\ pc[w] \in {"capture", "hold"}
  /\ stops < MaxStops /\ stops' = stops + 1
  /\ pc' = [pc EXCEPT ![w] = "complete"]
  /\ UNCHANGED <<rowVars, book, due, returned, byHand, ending>>

SetCompleted(w) ==
  /\ Step(w, "complete", "idle")
  /\ session' = "completed"
  /\ UNCHANGED <<confirmed, hold, dispute, charge, book, due, returned, byHand, ending, stops>>

-----------------------------------------------------------------------------
(* Release: the sweep once the window has closed, or the mentee's own word. *)

WindowCloses ==
  /\ hold.exists /\ ~due
  /\ due' = TRUE
  /\ UNCHANGED <<rowVars, book, returned, byHand, pc, ending, stops>>

SweepPicks_ConfirmedOnly(w) ==
  due /\ confirmed /\ ~hold.released /\ ~hold.disputed /\ Decide(w, "idle", "find")

SweepPicks(w) == due /\ ~hold.released /\ ~hold.disputed /\ Decide(w, "idle", "find")

Confirm(w) ==
  /\ session = "completed" /\ ~confirmed
  /\ Step(w, "idle", "find")
  /\ confirmed' = TRUE
  /\ UNCHANGED <<session, hold, dispute, charge, book, due, returned, byHand, ending, stops>>

(* release_now *)
Releasable_IgnoresDispute == hold.exists /\ ~hold.released
Releasable == hold.exists /\ ~hold.released /\ ~hold.disputed

AfterFinding_StampFirst == IF Releasable THEN "stamp_release" ELSE "idle"
AfterFinding == IF Releasable THEN "post_release" ELSE "idle"

FindHold(w)     == Decide(w, "find", AfterFinding)
PostRelease(w)  == Post(w, "post_release", "release", "stamp_release")
StampRelease(w) == Stamp(w, "stamp_release", [hold EXCEPT !.released = TRUE], "idle")

-----------------------------------------------------------------------------
(* raise: the hold is read, then release::dispute reads it again, freezes  *)
(* the money and stamps the row; the dispute's own row comes last.         *)

Raise(w)          == Releasable /\ Decide(w, "idle", "freeze")

Freeze(w) == Decide(w, "freeze", IF hold.released THEN "idle"
                                 ELSE IF hold.disputed THEN "insert" ELSE "post_freeze")

PostFreeze(w)  == Post(w, "post_freeze", "dispute", "stamp_freeze")
StampFreeze(w) == Stamp(w, "stamp_freeze", [hold EXCEPT !.disputed = TRUE], "insert")

SetDispute(w, from, status, to) ==
  /\ Step(w, from, to)
  /\ dispute' = status
  /\ UNCHANGED <<session, confirmed, hold, charge, book, due, returned, byHand, ending, stops>>

(* UNIQUE (pending_release_id): a second row is refused. *)
InsertDispute(w) == SetDispute(w, "insert", IF dispute = "none" THEN "open" ELSE dispute, "idle")

-----------------------------------------------------------------------------
(* The answers: each loads the dispute, checks its status, and acts.       *)

Answer(w, from, to, status) ==
  /\ dispute \in from
  /\ Step(w, "idle", to)
  /\ ending' = [ending EXCEPT ![w] = status]
  /\ UNCHANGED <<rowVars, book, due, returned, byHand, stops>>

Concede(w)            == Answer(w, {"open"}, "refund_find", "refunded")
Contest(w)            == Answer(w, {"open"}, "contest", None)
WithdrawDispute(w)    == Answer(w, {"open", "contested"}, "resolve", "withdrawn")
DecideForPayer(w)     == Answer(w, {"contested"}, "refund_find", "refunded")
DecideForRecipient(w) == Answer(w, {"contested"}, "resolve", "released")

(* disputes_resolution_consistent refuses `contested` on a resolved row. *)
WriteContest(w) == SetDispute(w, "contest", IF dispute \in Closed THEN dispute ELSE "contested", "idle")

-----------------------------------------------------------------------------
(* settle *)

Resolve(w) == Post(w, "resolve", "dispute_resolved", "close_dispute")

(* collect::refund: no succeeded charge, or one without a reference, means *)
(* an operator is asked to refund by hand.                                 *)
FindCharge(w) ==
  /\ Step(w, "refund_find", IF charge = "succeeded" THEN "refund_provider" ELSE "post_refund")
  /\ byHand' = (byHand \/ charge # "succeeded")
  /\ UNCHANGED <<rowVars, book, due, returned, ending, stops>>

(* Idempotent at the provider: it gives the charge back once. *)
RefundAtProvider(w) ==
  /\ Step(w, "refund_provider", "mark_refunded")
  /\ returned' = TRUE
  /\ UNCHANGED <<rowVars, book, due, byHand, ending, stops>>

(* The provider refuses, or cannot refund at all: settle stops here. *)
ProviderCannot_GoesOn(w) == Decide(w, "refund_provider", "post_refund")
ProviderCannot(w)        == Decide(w, "refund_provider", "idle")

MarkRefunded(w) ==
  /\ Step(w, "mark_refunded", "post_refund")
  /\ charge' = "refunded"
  /\ UNCHANGED <<session, confirmed, hold, dispute, book, due, returned, byHand, ending, stops>>

PostRefund(w)   == Post(w, "post_refund", "refund", "close_dispute")
CloseDispute(w) == SetDispute(w, "close_dispute", ending[w], "close_hold")

CloseHold_Unstamped(w) == Stamp(w, "close_hold", [hold EXCEPT !.disputed = FALSE], "idle")
CloseHold(w) == Stamp(w, "close_hold", [hold EXCEPT !.released = TRUE, !.disputed = FALSE], "idle")

-----------------------------------------------------------------------------
(* A request dropped, a statement that fails, a process that dies. *)
Stop(w) ==
  /\ pc[w] # "idle"
  /\ stops < MaxStops /\ stops' = stops + 1
  /\ pc' = [pc EXCEPT ![w] = "idle"]
  /\ UNCHANGED <<rowVars, book, due, returned, byHand, ending>>

(* The history, kept by every step of a worker. *)
Watch == overlapped' = (overlapped \/ stops' # stops
                          \/ \E v, w \in Worker : v # w /\ pc'[v] # "idle" /\ pc'[w] # "idle")

Begin(w) == /\ \/ Complete(w) \/ Confirm(w) \/ Raise(w)
               \/ Concede(w) \/ Contest(w) \/ WithdrawDispute(w)
               \/ DecideForPayer(w) \/ DecideForRecipient(w)
            /\ Watch

Continue(w) == /\ \/ Capture(w) \/ CreateHold(w) \/ CaptureFails(w) \/ SetCompleted(w)
                  \/ FindHold(w) \/ PostRelease(w) \/ StampRelease(w)
                  \/ Freeze(w) \/ PostFreeze(w) \/ StampFreeze(w) \/ InsertDispute(w)
                  \/ WriteContest(w) \/ Resolve(w)
                  \/ FindCharge(w) \/ RefundAtProvider(w) \/ ProviderCannot(w) \/ MarkRefunded(w)
                  \/ PostRefund(w) \/ CloseDispute(w) \/ CloseHold(w)
               /\ Watch

Sweep(w)  == SweepPicks(w) /\ Watch
CutOff(w) == Stop(w) /\ Watch

Next == \/ WindowCloses /\ UNCHANGED overlapped
        \/ \E w \in Worker : Begin(w) \/ Continue(w) \/ Sweep(w) \/ CutOff(w)

(* The runtime drives an operation it has begun; the sweep's timer comes   *)
(* back every ten minutes, whatever else is running; nobody has to call.   *)
Fairness == /\ \A w \in Worker : WF_vars(Continue(w))
            /\ SF_vars(\E w \in Worker : Sweep(w))

Spec     == Init /\ [][Next]_vars
FairSpec == Spec /\ Fairness

-----------------------------------------------------------------------------
(* What the postings amount to, in the mentor's accounts and the platform's. *)

Written(kind) ==
  CASE kind = "capture"          -> CaptureForRecipient("s", "stripe", "mentor", Share + Fee, Fee, "EUR")
    [] kind = "release"          -> Release("s", "mentor", Share, "EUR")
    [] kind = "dispute"          -> HoldDispute("s", "mentor", Share, "EUR")
    [] kind = "dispute_resolved" -> ResolveForRecipient("s", "mentor", Share, "EUR")
    [] kind = "refund"           -> RefundFromDispute("s", "stripe", "mentor", Share, 0, "EUR")

(* What an account is owed: the ledger's credits are negative. *)
Owing(account) == -SumFunction([kind \in book |-> Net(Written(kind).legs, account)])

Mentor(state) == Owing(Owed("mentor", state, "EUR"))

Idle == \A w \in Worker : pc[w] = "idle"

-----------------------------------------------------------------------------
(* What holds however operations interleave and wherever they stop.         *)

(* A hold stamped finished has had its money moved, by a release or by an   *)
(* ending of a dispute, and a dispute closed for one side has that side's   *)
(* movement in the ledger (release_now and settle post first).              *)
RowsAreBacked ==
  /\ hold.released => book \cap {"release", "dispute_resolved", "refund"} # {}
  /\ dispute = "refunded" => "refund" \in book
  /\ dispute \in {"released", "withdrawn"} => "dispute_resolved" \in book

(* An ending only ever takes money a dispute froze ("Freeze first"), so the *)
(* `disputed` account never pays out what never entered it.                 *)
EndedWasFrozen == book \cap {"dispute_resolved", "refund"} # {} => "dispute" \in book

(* The books say refunded only after the provider gave the money back or an *)
(* operator was told to ("At the provider first").                          *)
RefundedAtProviderFirst == "refund" \in book => returned \/ byHand

(* A settled dispute is never open or contested again, whoever answers late. *)
ClosedStaysClosed == [][(dispute \in Closed) => (dispute' \in Closed)]_vars

(* Money whose window has closed is released, unless it is disputed: no     *)
(* beneficiary is "owed money and cannot reach it" (release::sweep).        *)
DueIsReleased == due /\ ~hold.disputed ~> hold.released \/ hold.disputed

-----------------------------------------------------------------------------
(* What holds while operations on one session do not overlap or stop.       *)

(* Between operations the row says where the money is: held, it is pending; *)
(* disputed, it is frozen; finished, it is in neither; and there is a row   *)
(* for money that was captured.                                             *)
RowMatchesBooks ==
  ~overlapped /\ Idle =>
    /\ hold.exists <=> "capture" \in book
    /\ hold.exists => /\ Mentor("pending")  = IF hold.released \/ hold.disputed THEN 0 ELSE Share
                      /\ Mentor("disputed") = IF hold.disputed THEN Share ELSE 0

(* The share is whole and in one place, and moves once: Custody. *)
InOnePlace(amounts) == \E i \in DOMAIN amounts : amounts[i] = Share /\ \A j \in DOMAIN amounts \ {i} : amounts[j] = 0

Place == LET amounts == << Mentor("pending"), Mentor("disputed"), Mentor("available") >>
         IN  IF book = {} THEN "nowhere"
             ELSE IF amounts = <<0, 0, 0>> THEN "returned"
             ELSE IF ~InOnePlace(amounts) THEN "split"
             ELSE << "pending", "disputed", "available" >>[CHOOSE i \in 1 .. 3 : amounts[i] = Share]

OnePlace == INSTANCE Custody WITH place <- Place

CustodySpec == OnePlace!Init /\ [][~overlapped' => OnePlace!Next \/ UNCHANGED Place]_vars

-----------------------------------------------------------------------------
(* What the code says of itself and does not do; refuted by a run.          *)

(* "Money moves once" (disputes.rs:27).                                     *)
MoneyMovesOnce == Mentor("pending") >= 0
=============================================================================
