------------------------------ MODULE MCSessions ------------------------------
(* Browsers and requests are interchangeable.  No liveness is checked.     *)
EXTENDS Sessions, TLC

Symmetry == Permutations(Browser) \cup Permutations(Req)

(* No step reads a history, and the properties excuse for good who is in   *)
(* one: which one, and whose session it was, says nothing more.            *)
Excused == disturbed \cup mixed

Standing ==
  [s \in Session |->
     [row[s] EXCEPT !.by     = IF s \in abandoned \/ @ \in Excused \cup careless THEN None ELSE @,
                    !.opened = IF raced THEN 0 ELSE @]]

Carries == [r \in Req |-> IF raced THEN [req[r] EXCEPT !.epoch = 0] ELSE req[r]]

Seen == <<Standing, minted, banned, epoch, evicting, jar, pc, Carries,
          alarmed \ Excused, Excused, careless \ Excused, raced, stops>>
=============================================================================
