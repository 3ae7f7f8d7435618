------------------------------ MODULE Movements ------------------------------
(***************************************************************************)
(* The business movements of services/ledger.rs: what each one writes in   *)
(* the double-entry books.  A posting is the idempotency key it travels    *)
(* under and its legs, in the order the code builds them; a leg is an      *)
(* account and a signed amount, a debit positive and a credit negative.    *)
(*                                                                         *)
(* Accounts are 4-tuples that end in their currency, the way               *)
(* `Account::code` spells them.                                            *)
(***************************************************************************)
EXTENDS Integers, Sequences, SequencesExt

Owed(u, state, cur)  == <<"user", u, state, cur>>
Psp(provider, cur)   == <<"psp", provider, "settlement", cur>>
Revenue(cur)         == <<"platform", "platform", "revenue", cur>>
CurrencyOf(account)  == account[4]

Debit(account, amount)  == [account |-> account, amount |-> amount]
Credit(account, amount) == [account |-> account, amount |-> -amount]

-----------------------------------------------------------------------------
(* The movements.  `s` is the subject the money is about, `u` the person   *)
(* owed, `share` the part of `gross` the platform keeps.                   *)

CaptureForRecipient(s, provider, u, gross, share, cur) ==
  [ key  |-> <<"capture", s>>,
    legs |-> << Debit(Psp(provider, cur), gross),
                Credit(Owed(u, "pending", cur), gross - share),
                Credit(Revenue(cur), share) >> ]

CapturePlatformRevenue(key, gross, cur) ==
  [ key  |-> key,
    legs |-> << Debit(Psp("stripe", cur), gross), Credit(Revenue(cur), gross) >> ]

(* Between two of one person's accounts: no asset moves. *)
Transfer(kind, s, u, from, to, amount, cur) ==
  [ key  |-> <<kind, s>>,
    legs |-> << Debit(Owed(u, from, cur), amount), Credit(Owed(u, to, cur), amount) >> ]

Release(s, u, amount, cur) ==
  Transfer("release", s, u, "pending", "available", amount, cur)

HoldDispute(s, u, amount, cur) ==
  Transfer("dispute", s, u, "pending", "disputed", amount, cur)

ResolveForRecipient(s, u, amount, cur) ==
  Transfer("dispute_resolved", s, u, "disputed", "available", amount, cur)

(* The recipient's claim in `state` and the platform's share leave together. *)
RefundFrom(kind, state, s, provider, u, amount, share, cur) ==
  [ key  |-> <<kind, s>>,
    legs |-> << Debit(Owed(u, state, cur), amount),
                Debit(Revenue(cur), share),
                Credit(Psp(provider, cur), amount + share) >> ]

RefundFromPending(s, provider, u, amount, share, cur) ==
  RefundFrom("refund_pending", "pending", s, provider, u, amount, share, cur)

RefundFromDispute(s, provider, u, amount, share, cur) ==
  RefundFrom("refund", "disputed", s, provider, u, amount, share, cur)

Withdraw(key, u, provider, amount, cur) ==
  [ key  |-> key,
    legs |-> << Debit(Owed(u, "available", cur), amount), Credit(Psp(provider, cur), amount) >> ]

ReverseWithdrawal(key, u, provider, amount, cur) ==
  [ key  |-> <<"reverse", key>>,
    legs |-> << Debit(Psp(provider, cur), amount), Credit(Owed(u, "available", cur), amount) >> ]

-----------------------------------------------------------------------------
(* What a posting does to an account, and to a currency as a whole. *)

Amounts(legs)          == [i \in DOMAIN legs |-> legs[i].amount]
Total(amounts)         == SumFunction(amounts)
Net(legs, account)     == SumFunctionOnSet(Amounts(legs), {i \in DOMAIN legs : legs[i].account = account})
NetIn(legs, cur)       == SumFunctionOnSet(Amounts(legs), {i \in DOMAIN legs : CurrencyOf(legs[i].account) = cur})
Kept(legs)             == SelectSeq(legs, LAMBDA l : l.amount # 0)

Balanced(legs)         == \A l \in ToSet(legs) : NetIn(legs, CurrencyOf(l.account)) = 0
Sound(legs)            == Len(legs) >= 2 /\ Balanced(legs)
=============================================================================
