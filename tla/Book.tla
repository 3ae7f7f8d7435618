--------------------------------- MODULE Book ---------------------------------
(***************************************************************************)
(* What `ledger::post` promises the code that calls it: one call, in one   *)
(* step, either writes a whole balanced posting that nobody wrote before   *)
(* under its key, or writes nothing - because its key is already in the    *)
(* book, or because it failed.                                             *)
(*                                                                         *)
(* The components that move money (Holds, Payouts, Payments) post by steps *)
(* of this form; Ledger is shown to implement it.                          *)
(***************************************************************************)
EXTENDS Movements

CONSTANTS Call,      \* calls of ledger::post
          Posting,   \* the postings a caller may ask for
          NoKey,     \* a posting without an idempotency key
          NoCall     \* a call not made yet

VARIABLES asked,     \* asked[c]: what call c wants written
          book,      \* the postings written, each with the call that wrote it
          answer     \* answer[c]: what the call came to

bookVars == <<asked, book, answer>>

Entry(c) == [by |-> c, key |-> asked[c].key, legs |-> Kept(asked[c].legs)]

Init == /\ asked  = [c \in Call |-> NoCall]
        /\ book   = {}
        /\ answer = [c \in Call |-> "none"]

Ask(c, p) == /\ asked[c] = NoCall
             /\ asked' = [asked EXCEPT ![c] = p]
             /\ UNCHANGED <<book, answer>>

Open(c) == asked[c] # NoCall /\ answer[c] = "none"

Record(c) == /\ Open(c)
             /\ Sound(Kept(asked[c].legs))
             /\ asked[c].key # NoKey => \A e \in book : e.key # asked[c].key
             /\ book'   = book \cup {Entry(c)}
             /\ answer' = [answer EXCEPT ![c] = "recorded"]
             /\ UNCHANGED asked

Replay(c) == /\ Open(c)
             /\ asked[c].key # NoKey
             /\ \E e \in book : e.key = asked[c].key
             /\ answer' = [answer EXCEPT ![c] = "already"]
             /\ UNCHANGED <<asked, book>>

Fail(c) == /\ Open(c)
           /\ answer' = [answer EXCEPT ![c] = "failed"]
           /\ UNCHANGED <<asked, book>>

Next == \E c \in Call : \/ \E p \in Posting : Ask(c, p)
                        \/ Record(c)
                        \/ Replay(c)
                        \/ Fail(c)

Spec == Init /\ [][Next]_bookVars
=============================================================================
