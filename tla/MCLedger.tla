------------------------------- MODULE MCLedger -------------------------------
(* Ledger on the movements of one paid, refunded and released subject, plus *)
(* postings the code refuses.  The capture and the refund lock the same     *)
(* accounts in opposite orders.                                             *)
EXTENDS Ledger

Capture == CaptureForRecipient("s1", "stripe", "ada", 3, 1, "EUR")
Refund  == RefundFromPending("s1", "stripe", "ada", 2, 1, "EUR")
Free    == RefundFromPending("s2", "stripe", "ada", 2, 0, "EUR")
Keyless == [CapturePlatformRevenue(<<"sale", "s3">>, 4, "EUR") EXCEPT !.key = NoKey]

(* Balanced as a whole and unbalanced in each of its two currencies. *)
CrossCurrency == [ key  |-> <<"cross", "s1">>,
                   legs |-> << Debit(Psp("stripe", "EUR"), 5), Credit(Psp("fedapay", "XOF"), 5) >> ]

OneLeg == [key |-> <<"one", "s1">>, legs |-> << Debit(Psp("stripe", "EUR"), 5), Credit(Revenue("EUR"), 0) >>]

MCPosting == { Capture, Refund, Free, Keyless, CrossCurrency, OneLeg }
=============================================================================
