-------------------------------- MODULE Ledger --------------------------------
(***************************************************************************)
(* The double-entry ledger (services/ledger.rs over migrations 0153 and    *)
(* 0171): concurrent calls of `post`, statement by statement, on a         *)
(* READ COMMITTED database.                                                *)
(*                                                                         *)
(* A transaction sees its own writes and what others have committed.  Its  *)
(* writes to a balance row are a draft nobody else sees, and the row is    *)
(* locked for as long as the draft exists; a rollback drops the draft.     *)
(* Two transactions that take the same rows in opposite orders - a capture *)
(* and a refund do - deadlock, and the database fails one of them.         *)
(***************************************************************************)
EXTENDS Movements

CONSTANTS Call,      \* calls of ledger::post
          Posting,   \* the postings callers ask for
          NoKey,     \* a posting without an idempotency key
          NoCall       \* a call not made yet

VARIABLES asked,     \* asked[c]: what call c wants written
          answer,    \* answer[c]: what the call came to
          at,        \* at[c]: the next statement of call c
          written,   \* written[c]: how many legs it has inserted
          draft,     \* draft[c]: the balance rows it has changed and locked
          balance    \* ledger_account_balances, as committed

ledgerVars == <<asked, answer, at, written, draft, balance>>

Account == UNION { { l.account : l \in ToSet(p.legs) } : p \in Posting }

Leg == [account : Account, amount : Int]

(* A posting has legs; dropping the empty ones leaves legs.  Accounts are   *)
(* rows of a table, opened for the postings that name them.                *)
LedgerAssumption == /\ NoCall \notin Posting
                    /\ \A p \in Posting : Kept(p.legs) \in Seq(Leg)
                    /\ IsFiniteSet(Account)

ASSUME LedgerAssumption

Legs(c)     == Kept(asked[c].legs)
Recorded(c) == answer[c] = "recorded"
Touched(c)  == DOMAIN draft[c]

(* Call c has inserted its ledger_transactions row, committed or not. *)
HasRow(c) == at[c] \in {"legs", "commit"} \/ Recorded(c)

(* Mutant: two postings without a key taken for the same one. *)
SameKey_NullsAreEqual(c, d) == asked[c].key = asked[d].key

SameKey(c, d) == asked[c].key # NoKey /\ asked[c].key = asked[d].key

LedgerTypeOK ==
  /\ asked   \in [Call -> Posting \cup {NoCall}]
  /\ answer  \in [Call -> {"none", "recorded", "already", "failed"}]
  /\ at      \in [Call -> {"idle", "check", "look", "insert", "legs", "commit", "done"}]
  /\ written \in [Call -> Nat]
  /\ balance \in [Account -> Int]
  /\ draft = [c \in Call |-> draft[c]]
  /\ \A c \in Call : Touched(c) \subseteq Account /\ draft[c] \in [Touched(c) -> Int]

LedgerInit ==
  /\ asked   = [c \in Call |-> NoCall]
  /\ answer  = [c \in Call |-> "none"]
  /\ at      = [c \in Call |-> "idle"]
  /\ written = [c \in Call |-> 0]
  /\ draft   = [c \in Call |-> <<>>]
  /\ balance = [a \in Account |-> 0]

-----------------------------------------------------------------------------
Goto(c, label) == at' = [at EXCEPT ![c] = label]

(* Mutant: a transaction left open, its rows still locked. *)
Rollback_KeepsItsRows(c, result) ==
  /\ Goto(c, "done")
  /\ answer'  = [answer EXCEPT ![c] = result]
  /\ written' = [written EXCEPT ![c] = 0]
  /\ UNCHANGED <<asked, draft, balance>>

(* The transaction is over without a trace. *)
Rollback(c, result) ==
  /\ Goto(c, "done")
  /\ answer'  = [answer EXCEPT ![c] = result]
  /\ written' = [written EXCEPT ![c] = 0]
  /\ draft'   = [draft EXCEPT ![c] = <<>>]
  /\ UNCHANGED <<asked, balance>>

BeginPost(c, p) ==
  /\ at[c] = "idle"
  /\ asked' = [asked EXCEPT ![c] = p]
  /\ Goto(c, "check")
  /\ UNCHANGED <<answer, written, draft, balance>>

(* Zero legs dropped, then the arity and the sum of every currency. *)
Check(c) ==
  /\ at[c] = "check"
  /\ IF Sound(Legs(c))
     THEN Goto(c, "look") /\ UNCHANGED <<asked, answer, written, draft, balance>>
     ELSE Rollback(c, "failed")

(* SELECT ... WHERE idempotency_key: it sees committed rows only. *)
Look(c) ==
  /\ at[c] = "look"
  /\ IF \E d \in Call : Recorded(d) /\ SameKey(c, d)
     THEN Rollback(c, "already")
     ELSE Goto(c, "insert") /\ UNCHANGED <<asked, answer, written, draft, balance>>

(* The UNIQUE index: an insert waits for a transaction that holds the same *)
(* key to end, and is refused if that one committed.                       *)
KeyHeldBy(c, d) == d # c /\ HasRow(d) /\ ~Recorded(d) /\ SameKey(c, d)

KeyTaken(c)     == \E d \in Call \ {c} : Recorded(d) /\ SameKey(c, d)

Insert(c) ==
  /\ at[c] = "insert"
  /\ ~ \E d \in Call : KeyHeldBy(c, d)
  /\ IF KeyTaken(c)
     THEN Rollback(c, "failed")
     ELSE Goto(c, "legs") /\ UNCHANGED <<asked, answer, written, draft, balance>>

(* ensure_account, the entry, and the trigger that adds it to the running  *)
(* total: the account's row is locked until the transaction ends.          *)
NextLeg(c) == Legs(c)[written[c] + 1]

(* Mutant: the total read and written back without taking the row. *)
RowHeldBy_NotLocked(c, d) == FALSE

RowHeldBy(c, d)  == d # c /\ NextLeg(c).account \in Touched(d)
CurrentRow(c, a) == IF a \in Touched(c) THEN draft[c][a] ELSE balance[a]

AfterLeg(c, leg) ==
  [ a \in Touched(c) \cup {leg.account} |->
      CurrentRow(c, a) + IF a = leg.account THEN leg.amount ELSE 0 ]

WriteLeg(c) ==
  /\ at[c] = "legs"
  /\ ~ \E d \in Call : RowHeldBy(c, d)
  /\ draft' = [draft EXCEPT ![c] = AfterLeg(c, NextLeg(c))]
  /\ written' = [written EXCEPT ![c] = @ + 1]
  /\ IF written[c] + 1 = Len(Legs(c)) THEN Goto(c, "commit") ELSE UNCHANGED at
  /\ UNCHANGED <<asked, answer, balance>>

(* The deferred trigger checks the balance rule once more. *)
Commit(c) ==
  /\ at[c] = "commit"
  /\ Sound(Legs(c))
  /\ balance' = [a \in Account |-> CurrentRow(c, a)]
  /\ draft'   = [draft EXCEPT ![c] = <<>>]
  /\ answer'  = [answer EXCEPT ![c] = "recorded"]
  /\ Goto(c, "done")
  /\ UNCHANGED <<asked, written>>

InFlight(c) == at[c] \in {"look", "insert", "legs", "commit"}

(* A statement fails, the caller's own transaction fails, the process dies. *)
Abort(c) == InFlight(c) /\ Rollback(c, "failed")

(* A call waits for another that holds the key or the row it needs next. *)
WaitsFor(c, d) == \/ at[c] = "insert" /\ KeyHeldBy(c, d)
                  \/ at[c] = "legs" /\ RowHeldBy(c, d)

Deadlocked(c) ==
  \E ring \in SUBSET Call : c \in ring /\ \A d \in ring : \E e \in ring : WaitsFor(d, e)

(* PostgreSQL's deadlock detector fails one of the waiting transactions. *)
DetectDeadlock(c) == Deadlocked(c) /\ Rollback(c, "failed")

Statement(c) == Check(c) \/ Look(c) \/ Insert(c) \/ WriteLeg(c) \/ Commit(c)

AllAnswered == (\A c \in Call : at[c] = "done") /\ UNCHANGED ledgerVars

LedgerNext ==
  \/ \E c \in Call : \/ \E p \in Posting : BeginPost(c, p)
                     \/ Statement(c)
                     \/ Abort(c)
                     \/ DetectDeadlock(c)
  \/ AllAnswered

(* The runtime drives a call it has begun, and the database detects        *)
(* deadlocks.  Nobody has to call, and nothing has to fail.                *)
LedgerFairness == \A c \in Call : WF_ledgerVars(Statement(c)) /\ WF_ledgerVars(DetectDeadlock(c))

LedgerSpec     == LedgerInit /\ [][LedgerNext]_ledgerVars
FairLedgerSpec == LedgerSpec /\ LedgerFairness

-----------------------------------------------------------------------------
(* Two requests that carry one idempotency key can both find it unused; the *)
(* books still hold that movement once (post_in_tx, `Posting::idempotent`). *)
OnePostingPerKey ==
  \A c, d \in Call : c # d /\ Recorded(c) /\ Recorded(d) => ~SameKey(c, d)

(* Whatever interleaves, fails or deadlocks, a committed running total is   *)
(* the sum of the entries under it: `ledger_verify_balances` returns no row. *)
SnapshotsMatchEntries ==
  \A a \in Account : balance[a] = SumFunction([c \in { d \in Call : Recorded(d) } |-> Net(Legs(c), a)])

(* Money is only moved: the committed accounts of one currency sum to zero. *)
MoneyIsConserved ==
  \A cur \in { CurrencyOf(a) : a \in Account } :
    SumFunctionOnSet(balance, { a \in Account : CurrencyOf(a) = cur }) = 0

(* The books agree with themselves: totals with entries, and with zero.     *)
BooksAgree == SnapshotsMatchEntries /\ MoneyIsConserved

(* A call that has begun is answered, whoever holds what it needs. *)
EveryCallIsAnswered == \A c \in Call : asked[c] # NoCall ~> answer[c] # "none"

(* The statements of `post` implement the one atomic step callers rely on. *)
Entry(c) == [by |-> c, key |-> asked[c].key, legs |-> Legs(c)]

EntriesOnRecord == { Entry(c) : c \in { d \in Call : Recorded(d) } }

AtomicBook == INSTANCE Book WITH book <- EntriesOnRecord

BookSpec == AtomicBook!Spec
=============================================================================
