------------------------------ MODULE WorkProofs ------------------------------
(***************************************************************************)
(* The two lives of a slice, for any number of slices, people, pull        *)
(* requests, checks and validators:                                        *)
(*   1. a challenge (Slices), whichever webhooks arrive, whatever the      *)
(*      pollers remember, and whatever bounties and deliverables write;    *)
(*   2. what a merged pull request earns (Reviews), whatever overlaps.     *)
(***************************************************************************)
EXTENDS Slices, Reviews, FiniteSetTheorems, TLAPS

-----------------------------------------------------------------------------
(* Part 1.  A challenge.  Its row is written from five sides; what makes   *)
(* the properties inductive is what the validators' requests and the two   *)
(* pollers remember of a row that has moved on since they read it.         *)

HasGreen(u) == u \in bare \/ \E c \in Check : hub[u].checks[c] = "ok"
IsMerged(w) == hub[Names[w]].state = "merged"

(* A validated slice has its attestation. *)
Attested == \A s \in Slice : row[s].status = "validated" => hash[s] # None

Rows == ActiveIsOwnWork /\ PickableWasGreen /\ RewardedWasMerged /\ EndsElsewhere /\ Attested

(* What is remembered of a pull request stays true of it, and what was won *)
(* when it was listed is won still, with the same one, unless another      *)
(* workflow wrote over it.                                                 *)
Memories ==
  /\ \A v \in Validator : /\ busy[v].at # "idle" => busy[v].slice \in Slice
                          /\ busy[v].at = "approve" => busy[v].url # None
  /\ \A q \in asked : q.url # None
  /\ green # None => HasGreen(Names[green])
  /\ \A c \in listed : c.status = "validated" /\ made[c.slice] = "nothing" => Won(c.slice) /\ row[c.slice].url = c.url
  /\ todo # None /\ todo.do = "award" =>
       made[todo.slice] # "nothing" \/ (Won(todo.slice) /\ IsMerged(row[todo.slice].url))

Inv == TypeOK /\ Rows /\ Memories

(* What a statement may leave in the row of s. *)
Fits(s, r) ==
  /\ r.status \in Active /\ r.url # None =>
       \A t \in Slice \ {s} : row[t].status \in Active => row[t].url # r.url
  /\ made'[s] = "nothing" =>
       /\ r.status \in Active => r.url # None /\ (s \in vouched' => r.user = Author[Names[r.url]])
       /\ r.status \in Active \ {"submitted"} => HasGreen(Names[r.url])
       /\ r.status = "merged" => IsMerged(r.url)
       /\ r.status \in {"validated", "merged"} => hash'[s] # None
  /\ made'[s] # "nothing" => r.status \in Made
  /\ made'[s] # "late" =>
       /\ Won(s) => /\ r.status \in {"validated", "merged"} /\ hash'[s] = hash[s]
                    /\ r.user = row[s].user /\ r.url = row[s].url /\ r.picker = row[s].picker
       /\ row[s].status \in Active => r.status # "closed"

(* The other slices are left alone. *)
OnlyAt(s) ==
  \A t \in Slice \ {s} : /\ hash'[t] = hash[t] /\ made'[t] = made[t]
                         /\ t \in vouched' <=> t \in vouched

(* A step writes at most one row, and fittingly. *)
Fitting ==
  /\ hub' = hub /\ bare \subseteq bare' /\ hash' \in [Slice -> Url \cup {None}]
  /\ \/ UNCHANGED <<row, hash, made, vouched>>
     \/ \E s \in Slice, r \in Row :
          /\ row' = [row EXCEPT ![s] = r] /\ Fits(s, r) /\ OnlyAt(s)
          /\ made'[s] = "nothing" => made[s] = "nothing"

Untouched == \A s \in Slice : made'[s] = "nothing" => made[s] = "nothing"

USE DEF Active, Won, Update, Made, histories

-----------------------------------------------------------------------------
(* A slice moves to the end of an order. *)
LEMMA LastType ==
  ASSUME NEW order \in [Slice -> Nat], NEW s \in Slice
  PROVE  Last(order, s) \in [Slice -> Nat]
<1>1. Cardinality(Slice) \in Nat
  BY SlicesAssumption, FS_CardinalityType
<1> QED BY <1>1 DEF Last

LEMMA WriteType ==
  ASSUME TypeOK, NEW s \in Slice, NEW r \in Row, Write(s, r)
  PROVE  row' \in [Slice -> Row] /\ touched' \in [Slice -> Nat] /\ row' = [row EXCEPT ![s] = r]
BY LastType DEF TypeOK, Write

(* A row that is given back, closed or not yet handed in fits, unless it   *)
(* was won.                                                                *)
LEMMA LeavingFits ==
  ASSUME Inv, NEW s \in Slice, NEW r \in Row, r.status \notin Active, ~Won(s), made' = made,
         row[s].status \in Active => r.status # "closed",
         row[s].status \in Made => r.status \in Made
  PROVE  Fits(s, r)
BY DEF Fits, Inv, Rows, EndsElsewhere

(* A row that goes on keeps its pull request and its claimer. *)
LEMMA GoingOnFits ==
  ASSUME Inv, NEW s \in Slice, NEW r \in Row,
         row[s].status \in Active, r.status \in Active, made' = made, vouched' = vouched,
         r.url = row[s].url, r.user = row[s].user,
         made[s] = "nothing" =>
           /\ r.status # "submitted" => HasGreen(Names[r.url])
           /\ r.status = "merged" => IsMerged(r.url)
           /\ r.status \in {"validated", "merged"} => hash'[s] # None,
         row[s].status \in Made => r.status \in Made,
         Won(s) => r.status \in {"validated", "merged"} /\ r.picker = row[s].picker /\ hash'[s] = hash[s]
  PROVE  Fits(s, r)
BY DEF Fits, Inv, Rows, ActiveIsOwnWork, EndsElsewhere

(* What a fitting step leaves. *)
LEMMA FittingStep ==
  ASSUME Inv, Fitting
  PROVE  Rows' /\ WonStays /\ Untouched
<1>0. /\ row \in [Slice -> Row] /\ Rows
      /\ hub' = hub /\ bare \subseteq bare' /\ hash' \in [Slice -> Url \cup {None}]
  BY DEF Inv, TypeOK, Fitting
<1>1. CASE UNCHANGED <<row, hash, made, vouched>>
  <2>1. Rows'
    BY <1>0, <1>1 DEF Rows, ActiveIsOwnWork, PickableWasGreen, RewardedWasMerged, EndsElsewhere, Attested
  <2>2. WonStays /\ Untouched
    BY <1>1 DEF WonStays, Untouched
  <2> QED BY <2>1, <2>2
<1>2. ASSUME NEW s \in Slice, NEW r \in Row, row' = [row EXCEPT ![s] = r], Fits(s, r), OnlyAt(s),
             made'[s] = "nothing" => made[s] = "nothing"
      PROVE  Rows' /\ WonStays /\ Untouched
  <2>1. row'[s] = r /\ \A t \in Slice \ {s} : row'[t] = row[t] /\ hash'[t] = hash[t] /\ made'[t] = made[t]
    BY <1>0, <1>2 DEF OnlyAt
  <2>2. ActiveIsOwnWork'
    <3>1. \A t \in Slice : row'[t].status \in Active /\ made'[t] = "nothing" =>
            row'[t].url # None /\ (t \in vouched' => row'[t].user = Author[Names[row'[t].url]])
      BY <1>0, <1>2, <2>1 DEF Rows, ActiveIsOwnWork, Fits, OnlyAt
    <3>2. \A t, q \in Slice :
            row'[t].status \in Active /\ row'[q].status \in Active /\ row'[t].url = row'[q].url =>
              t = q \/ row'[t].url = None
      BY <1>0, <1>2, <2>1 DEF Rows, ActiveIsOwnWork, Fits
    <3> QED BY <3>1, <3>2 DEF ActiveIsOwnWork
  <2>3. PickableWasGreen'
    BY <1>0, <1>2, <2>1 DEF Rows, PickableWasGreen, Fits, HasGreen
  <2>4. RewardedWasMerged' /\ Attested' /\ EndsElsewhere'
    BY <1>0, <1>2, <2>1 DEF Rows, RewardedWasMerged, EndsElsewhere, Attested, Fits, IsMerged
  <2>5. WonStays /\ Untouched
    BY <1>2, <2>1 DEF WonStays, Untouched, Fits
  <2> QED BY <2>2, <2>3, <2>4, <2>5 DEF Rows
<1> QED BY <1>1, <1>2 DEF Fitting

(* Nobody remembers anything new, and what was won is won still. *)
LEMMA MemoriesKept ==
  ASSUME Inv, WonStays, Untouched, hub' = hub, bare \subseteq bare',
         \A v \in Validator : busy'[v] \in {busy[v], Idle},
         asked' \subseteq asked, green' \in {green, None},
         listed' \subseteq listed, todo' \in {todo, None}
  PROVE  Memories'
<1>0. Memories /\ listed \subseteq Snapshot /\ todo \in Todo \cup {None}
  BY DEF Inv, TypeOK
<1>1. \A v \in Validator : /\ busy'[v].at # "idle" => busy'[v].slice \in Slice
                           /\ busy'[v].at = "approve" => busy'[v].url # None
  BY <1>0 DEF Memories, Idle
<1>2. green' # None => Names[green'] \in bare' \/ \E c \in Check : hub'[Names[green']].checks[c] = "ok"
  BY <1>0 DEF Memories, HasGreen
<1>3. \A c \in listed' : c.status = "validated" /\ made'[c.slice] = "nothing" =>
                          Won(c.slice)' /\ row'[c.slice].url = c.url
  <2> SUFFICES ASSUME NEW c \in listed', c.status = "validated", made'[c.slice] = "nothing"
               PROVE  Won(c.slice)' /\ row'[c.slice].url = c.url
    OBVIOUS
  <2>1. c \in listed /\ c.slice \in Slice
    BY <1>0 DEF Snapshot
  <2>2. Won(c.slice) /\ row[c.slice].url = c.url
    BY <1>0, <2>1 DEF Memories, Untouched
  <2> QED BY <2>1, <2>2 DEF WonStays
<1>4. ASSUME todo' # None, todo'.do = "award", made'[todo'.slice] = "nothing"
      PROVE  Won(todo.slice)' /\ hub'[Names[row'[todo'.slice].url]].state = "merged"
  <2>1. todo' = todo /\ todo.slice \in Slice /\ todo.do = "award"
    BY <1>0, <1>4 DEF Todo
  <2>2. Won(todo.slice) /\ IsMerged(row[todo.slice].url)
    BY <1>0, <1>4, <2>1 DEF Memories, Untouched
  <2> QED BY <1>4, <2>1, <2>2 DEF WonStays, IsMerged
<1>5. \A q \in asked' : q.url # None
  BY <1>0 DEF Memories
<1> QED BY <1>1, <1>2, <1>3, <1>4, <1>5 DEF Memories, HasGreen, IsMerged

(* A step that writes fittingly and remembers nothing new. *)
LEMMA QuietStep ==
  ASSUME Inv, TypeOK', Fitting,
         \A v \in Validator : busy'[v] \in {busy[v], Idle},
         asked' \subseteq asked, green' \in {green, None},
         listed' \subseteq listed, todo' \in {todo, None}
  PROVE  Inv' /\ WonStays
<1>1. Rows' /\ WonStays /\ Untouched
  BY FittingStep
<1>2. Memories'
  BY <1>1, MemoriesKept DEF Fitting
<1> QED BY <1>1, <1>2 DEF Inv

(* The same for a statement that may find no row. *)
LEMMA WriteIfAnyFits ==
  ASSUME Inv, UNCHANGED <<hub, bare, made, vouched>>, hash' \in [Slice -> Url \cup {None}],
         NEW s \in Slice, NEW rows, WriteIfAny(s, rows),
         \A r \in rows : r \in Row /\ Fits(s, r),
         \A t \in Slice \ {s} : hash'[t] = hash[t],
         rows = {} => hash' = hash
  PROVE  Fitting /\ row' \in [Slice -> Row] /\ touched' \in [Slice -> Nat]
<1>1. CASE rows = {}
  BY <1>1 DEF WriteIfAny, Fitting, Inv, TypeOK
<1>2. CASE rows # {}
  <2>1. PICK r \in rows : Write(s, r)
    BY <1>2 DEF WriteIfAny
  <2>2. row' \in [Slice -> Row] /\ touched' \in [Slice -> Nat] /\ row' = [row EXCEPT ![s] = r]
    BY <2>1, WriteType DEF Inv
  <2> QED BY <2>1, <2>2 DEF Fitting, OnlyAt
<1> QED BY <1>1, <1>2

-----------------------------------------------------------------------------
(* Stewards, contributors, teams, and the validator who rejects: what a    *)
(* statement leaves that takes no challenge further.                       *)
Leaves(s, r) ==
  /\ r \in Row /\ r.status \notin Active /\ ~Won(s)
  /\ row[s].status \in Active => r.status # "closed"
  /\ row[s].status \in Made => r.status \in Made

LEMMA ByHandInv ==
  ASSUME Inv, NEW s \in Slice, NEW rows, ByHand(s, rows),
         \A r \in rows : Leaves(s, r)
  PROVE  Inv' /\ WonStays
<1> USE DEF Leaves
<1>1. WriteIfAny(s, rows) /\ UNCHANGED <<hub, hash, bare, made, vouched>>
  BY DEF ByHand, WriteIfAny, hubVars
<1>2. \A r \in rows : r \in Row /\ Fits(s, r)
  BY <1>1, LeavingFits
<1>3. Fitting /\ row' \in [Slice -> Row] /\ touched' \in [Slice -> Nat]
  BY <1>1, <1>2, WriteIfAnyFits DEF Inv, TypeOK
<1>4. TypeOK'
  BY <1>3 DEF ByHand, hubVars, pollVars, refreshVars, Inv, TypeOK
<1> QED BY <1>3, <1>4, QuietStep DEF ByHand, pollVars, refreshVars

LEMMA HandsInv ==
  ASSUME Inv, NEW s \in Slice,
         \/ Publish(s) \/ RefuseDraft(s) \/ ExpireClaim(s)
         \/ \E p \in Person : Claim(p, s) \/ Unclaim(p, s)
         \/ \E t \in Team : ClaimAsTeam(t, s) \/ UnclaimByTeam(t, s)
         \/ \E v \in Validator : Reject(v, s)
  PROVE  Inv' /\ WonStays
<1> DEFINE Leave(rows) == \A r \in rows : Leaves(s, r)
<1> USE DEF Leaves
<1>0. row[s] \in Row
  BY DEF Inv, TypeOK
<1>1. Leave(Published(row[s])) /\ Leave(DraftRefused(row[s])) /\ Leave(Expired(row[s]))
  BY <1>0 DEF Published, DraftRefused, Expired, Row, Status
<1>2. \A p \in Person : Leave(Claimed(row[s], p)) /\ Leave(Unclaimed(row[s], p))
  BY <1>0 DEF Claimed, Unclaimed, Row, Status
<1>3. \A t \in Team : Leave(TeamClaimed(row[s], t)) /\ Leave(TeamUnclaimed(row[s], t))
  BY <1>0 DEF TeamClaimed, TeamUnclaimed, Row, Status
<1>4. \A v \in Validator : Leave(Rejected(row[s], v))
  BY <1>0 DEF Rejected, Row, Status
<1>5. PICK rows : ByHand(s, rows) /\ Leave(rows)
  BY <1>1, <1>2, <1>3, <1>4
     DEF Publish, RefuseDraft, ExpireClaim, Claim, Unclaim, ClaimAsTeam, UnclaimByTeam, Reject
<1> QED BY <1>5, ByHandInv

(* Handing in: one's own pull request if it is checked, under a URL that   *)
(* no other slice carries.                                                 *)
LEMMA SubmitInv ==
  ASSUME Inv, NEW s \in Slice, NEW p \in Person, NEW u \in Url, NEW checked \in BOOLEAN,
         Submit(p, s, u, checked)
  PROVE  Inv' /\ WonStays
<1>1. PICK r \in Submitted(row[s], p, u) : Write(s, r)
  BY DEF Submit
<1>2. /\ row[s] \in Row /\ r = [row[s] EXCEPT !.status = "submitted", !.url = u]
      /\ row[s].status = "claimed" /\ row[s].user = p
  BY <1>1 DEF Submitted, Inv, TypeOK
<1>3. r \in Row /\ r.status = "submitted" /\ r.url = u /\ r.user = p
  BY <1>2 DEF Row, Status
<1>4. UNCHANGED <<hub, hash, made, bare>>
  BY DEF Submit, hubVars
<1>5. Fits(s, r)
  <2>1. made[s] = "nothing"
    BY <1>2 DEF Inv, Rows, EndsElsewhere
  <2>2. s \in vouched' => Author[Names[u]] = p
    BY DEF Submit
  <2> QED BY <1>2, <1>3, <1>4, <2>1, <2>2, SlicesAssumption DEF Fits, Submit, Taken
<1>6. row' \in [Slice -> Row] /\ touched' \in [Slice -> Nat] /\ row' = [row EXCEPT ![s] = r]
  BY <1>1, <1>3, WriteType DEF Inv
<1>7. handed' \in [Slice -> Nat]
  BY LastType DEF Submit, Inv, TypeOK
<1>8. TypeOK'
  BY <1>6, <1>7 DEF Submit, hubVars, pollVars, refreshVars, Inv, TypeOK
<1>9. Fitting
  <2>1. OnlyAt(s)
    BY <1>4 DEF OnlyAt, Submit
  <2> QED BY <1>3, <1>4, <1>5, <1>6, <2>1 DEF Fitting, Inv, TypeOK
<1> QED BY <1>8, <1>9, QuietStep DEF Submit, pollVars, refreshVars

LEMMA ClaimAgesInv == ASSUME Inv, NEW s \in Slice, ClaimAges(s) PROVE Inv' /\ WonStays
<1> DEFINE r == [row[s] EXCEPT !.clock = "past"]
<1>1. row[s] \in Row /\ UNCHANGED <<hub, hash, bare, made, vouched>> /\ row' = [row EXCEPT ![s] = r]
  BY DEF ClaimAges, hubVars, Inv, TypeOK
<1>2. /\ r \in Row /\ r.status = row[s].status /\ r.url = row[s].url
      /\ r.user = row[s].user /\ r.picker = row[s].picker
  BY <1>1 DEF Row
<1>3. Fits(s, r)
  <2>1. CASE row[s].status \in Active
    BY <1>1, <1>2, <2>1, GoingOnFits
       DEF Inv, Rows, PickableWasGreen, HasGreen, RewardedWasMerged, IsMerged, Attested
  <2>2. CASE row[s].status \notin Active
    BY <1>1, <1>2, <2>2, LeavingFits
  <2> QED BY <2>1, <2>2
<1>4. Fitting
  BY <1>1, <1>2, <1>3 DEF Fitting, OnlyAt, Inv, TypeOK
<1>5. TypeOK'
  <2> HIDE DEF r
  <2>1. row' \in [Slice -> Row]
    BY <1>1, <1>2 DEF Inv, TypeOK
  <2>2. UNCHANGED <<hash, touched, handed, hub, issue, busy, asked, green, listed, todo, decided, bare, made, vouched>>
    BY DEF ClaimAges, orderVars, hubVars, pollVars, refreshVars
  <2> QED BY <2>1, <2>2 DEF Inv, TypeOK
<1> QED BY <1>4, <1>5, QuietStep DEF ClaimAges, pollVars, refreshVars

-----------------------------------------------------------------------------
(* GitHub: a check that was passed and a merge stay. *)
LEMMA GitHubInv == ASSUME Inv, GitHub PROVE Inv' /\ WonStays
<1> DEFINE Pull == [state : {"open", "closed", "merged"}, checks : [Check -> CheckStates]]
<1>0. /\ TypeOK /\ Rows /\ Memories
      /\ hub \in [PR -> Pull] /\ issue \in [Slice -> {"open", "closed"}] /\ row \in [Slice -> Row]
  BY DEF Inv, TypeOK
<1>1. Upstream /\ hub' \in [PR -> Pull] /\ issue' \in [Slice -> {"open", "closed"}]
  <2>1. ASSUME NEW u \in PR, NEW c \in Check, NEW k \in {"running", "ok", "failed"},
               (CheckStarts(u, c) /\ k = "running") \/ CheckEnds(u, c, k)
        PROVE  hub' \in [PR -> Pull]
    <3>1. k \in CheckStates /\ hub[u].checks \in [Check -> CheckStates]
      BY <1>0 DEF CheckStates
    <3>2. [hub[u] EXCEPT !.checks[c] = k] \in Pull
      BY <1>0, <3>1
    <3>3. hub' = [hub EXCEPT ![u] = [hub[u] EXCEPT !.checks[c] = k]]
      BY <2>1 DEF CheckStarts, CheckEnds
    <3> HIDE DEF Pull
    <3> QED BY <1>0, <3>2, <3>3
  <2>2. ASSUME NEW u \in PR, NEW k \in {"closed", "merged"}, PullRequestEnds(u, k)
        PROVE  hub' \in [PR -> Pull]
    BY <1>0, <2>2 DEF PullRequestEnds
  <2>3. ASSUME NEW s \in Slice, CloseIssue(s)
        PROVE  hub' = hub /\ issue' \in [Slice -> {"open", "closed"}]
    BY <1>0, <2>3 DEF CloseIssue
  <2>4. /\ \A u \in PR, c \in Check : CheckStarts(u, c) => Upstream /\ issue' = issue
        /\ \A u \in PR, c \in Check, k \in {"ok", "failed"} : CheckEnds(u, c, k) => Upstream /\ issue' = issue
        /\ \A u \in PR, k \in {"closed", "merged"} : PullRequestEnds(u, k) => Upstream /\ issue' = issue
        /\ \A s \in Slice : CloseIssue(s) => Upstream
    BY DEF CheckStarts, CheckEnds, PullRequestEnds, CloseIssue
  <2> HIDE DEF Pull
  <2>5. CASE \E u \in PR, c \in Check : CheckStarts(u, c) \/ \E k \in {"ok", "failed"} : CheckEnds(u, c, k)
    BY <1>0, <2>1, <2>4, <2>5
  <2>6. CASE \E u \in PR : \E k \in {"closed", "merged"} : PullRequestEnds(u, k)
    BY <1>0, <2>2, <2>4, <2>6
  <2>7. CASE \E s \in Slice : CloseIssue(s)
    BY <1>0, <2>3, <2>4, <2>7
  <2> QED BY <2>5, <2>6, <2>7 DEF GitHub
<1>2. \A u \in PR : /\ hub[u].state = "merged" => hub'[u].state = "merged"
                    /\ \A c \in Check : hub[u].checks[c] = "ok" => hub'[u].checks[c] = "ok"
  <2>1. ASSUME NEW u \in PR, NEW c \in Check, NEW k, (CheckStarts(u, c) /\ k = "running") \/ CheckEnds(u, c, k)
        PROVE  \A x \in PR : /\ hub[x].state = "merged" => hub'[x].state = "merged"
                             /\ \A d \in Check : hub[x].checks[d] = "ok" => hub'[x].checks[d] = "ok"
    <3>1. /\ hub'[u] = [hub[u] EXCEPT !.checks[c] = k] /\ hub[u].checks[c] \in {"absent", "running"}
          /\ \A x \in PR \ {u} : hub'[x] = hub[x]
      BY <1>0, <2>1 DEF CheckStarts, CheckEnds
    <3>2. hub[u] \in Pull /\ hub[u].checks \in [Check -> CheckStates]
      BY <1>0
    <3>3. hub'[u].state = hub[u].state /\ \A d \in Check \ {c} : hub'[u].checks[d] = hub[u].checks[d]
      BY <3>1, <3>2
    <3> QED BY <3>1, <3>3
  <2>2. ASSUME NEW u \in PR, NEW k, PullRequestEnds(u, k)
        PROVE  \A x \in PR : /\ hub[x].state = "merged" => hub'[x].state = "merged"
                             /\ hub'[x].checks = hub[x].checks
    BY <1>0, <2>2 DEF PullRequestEnds
  <2>3. (\E s \in Slice : CloseIssue(s)) => hub' = hub
    BY DEF CloseIssue
  <2> QED BY <2>1, <2>2, <2>3 DEF GitHub
<1>u. UNCHANGED <<row, hash, touched, handed, busy, asked, green, listed, todo, decided, bare, made, vouched>>
  BY <1>1 DEF Upstream, orderVars, pollVars, refreshVars
<1>3. TypeOK'
  BY <1>0, <1>1, <1>u DEF TypeOK
<1>4. \A s \in Slice : row[s].url # None => Names[row[s].url] \in PR
  BY <1>0, SlicesAssumption DEF Row
<1>5. Rows'
  <2>1. ActiveIsOwnWork'
    BY <1>0, <1>u DEF Rows, ActiveIsOwnWork
  <2>0. Attested' /\ EndsElsewhere'
    BY <1>0, <1>u DEF Rows, Attested, EndsElsewhere
  <2>2. PickableWasGreen'
    <3> SUFFICES ASSUME NEW s \in Slice, row[s].status \in Active \ {"submitted"}, made[s] = "nothing"
                 PROVE  Names[row[s].url] \in bare \/ \E c \in Check : hub'[Names[row[s].url]].checks[c] = "ok"
      BY <1>u DEF PickableWasGreen
    <3>1. Names[row[s].url] \in PR
      BY <1>0, <1>4 DEF Rows, ActiveIsOwnWork
    <3>2. Names[row[s].url] \in bare \/ \E c \in Check : hub[Names[row[s].url]].checks[c] = "ok"
      BY <1>0 DEF Rows, PickableWasGreen
    <3> QED BY <1>2, <3>1, <3>2
  <2>3. RewardedWasMerged'
    BY <1>0, <1>u, <1>2, <1>4 DEF Rows, ActiveIsOwnWork, RewardedWasMerged
  <2> QED BY <2>0, <2>1, <2>2, <2>3 DEF Rows
<1>6. Memories'
  <2>1. green # None => Names[green] \in bare \/ \E c \in Check : hub'[Names[green]].checks[c] = "ok"
    BY <1>0, <1>2, SlicesAssumption DEF Memories, HasGreen, TypeOK
  <2>2. ASSUME todo # None, todo.do = "award", made[todo.slice] = "nothing"
        PROVE  Won(todo.slice) /\ hub'[Names[row[todo.slice].url]].state = "merged"
    <3>1. todo.slice \in Slice /\ Won(todo.slice) /\ hub[Names[row[todo.slice].url]].state = "merged"
      BY <1>0, <2>2 DEF Todo, Memories, IsMerged, TypeOK
    <3>2. row[todo.slice].url # None
      BY <1>0, <2>2, <3>1 DEF Rows, ActiveIsOwnWork
    <3> QED BY <1>2, <1>4, <3>1, <3>2
  <2> QED BY <1>0, <1>u, <2>1, <2>2 DEF Memories, HasGreen, IsMerged
<1>7. WonStays
  BY <1>u DEF WonStays
<1> QED BY <1>3, <1>5, <1>6, <1>7 DEF Inv

(* A row with the pull request turns green. *)
LEMMA TurnGreenFits ==
  ASSUME Inv, NEW u, TurnGreen(u), HasGreen(Names[u]), UNCHANGED <<hub, hash, bare, made, vouched>>
  PROVE  Fitting /\ row' \in [Slice -> Row] /\ touched' \in [Slice -> Nat]
<1>1. CASE UNCHANGED <<row, touched>>
  BY <1>1 DEF Fitting, Inv, TypeOK
<1>2. ASSUME NEW s \in Slice, NEW r \in Green(row[s], u), Write(s, r)
      PROVE  Fitting /\ row' \in [Slice -> Row] /\ touched' \in [Slice -> Nat]
  <2>1. /\ row[s] \in Row /\ row[s].status = "submitted" /\ row[s].url = u
        /\ r = [row[s] EXCEPT !.status = "ci_green"]
    BY <1>2 DEF Green, Inv, TypeOK
  <2>2. r \in Row /\ r.status = "ci_green" /\ r.url = row[s].url /\ r.user = row[s].user
    BY <2>1 DEF Row, Status
  <2>3. Fits(s, r)
    BY <2>1, <2>2, GoingOnFits
  <2>4. row' \in [Slice -> Row] /\ touched' \in [Slice -> Nat] /\ row' = [row EXCEPT ![s] = r]
    BY <1>2, <2>2, WriteType DEF Inv
  <2> QED BY <2>2, <2>3, <2>4 DEF Fitting, OnlyAt, Inv, TypeOK
<1> QED BY <1>1, <1>2 DEF TurnGreen

(* The reward, from a row known to be merged upstream. *)
LEMMA RewardFits ==
  ASSUME Inv, NEW s \in Slice, IsMerged(row[s].url), UNCHANGED <<hash, made, vouched>>
  PROVE  \A r \in Rewarded(row[s]) : r \in Row /\ Fits(s, r)
<1> SUFFICES ASSUME NEW r \in Rewarded(row[s]) PROVE r \in Row /\ Fits(s, r)
  OBVIOUS
<1>1. row[s] \in Row /\ row[s].status = "validated" /\ r = [row[s] EXCEPT !.status = "merged"]
  BY DEF Rewarded, Inv, TypeOK
<1>2. /\ r \in Row /\ r.status = "merged" /\ r.url = row[s].url
      /\ r.user = row[s].user /\ r.picker = row[s].picker
  BY <1>1 DEF Row, Status
<1>3. /\ made[s] = "nothing" => HasGreen(Names[row[s].url])
      /\ hash[s] # None
  BY <1>1 DEF Inv, Rows, PickableWasGreen, Attested, HasGreen
<1> QED BY <1>1, <1>2, <1>3, GoingOnFits

LEMMA WebhookInv ==
  ASSUME Inv, NEW u \in PR, HearCheck(u) \/ HearMerge(u)
  PROVE  Inv' /\ WonStays
<1>1. UNCHANGED <<hub, hash, issue, bare, made, vouched, decided>>
  BY DEF HearCheck, HearMerge, hubVars
<1>0. Canonical[u] \in Url /\ Names[Canonical[u]] = u
  BY SlicesAssumption
<1>2. Fitting /\ row' \in [Slice -> Row] /\ touched' \in [Slice -> Nat]
  <2>1. CASE HearCheck(u)
    BY <1>0, <1>1, <2>1, TurnGreenFits DEF HearCheck, HasGreen
  <2>2. CASE HearMerge(u)
    <3>1. PICK s \in Slice : row[s].url = Canonical[u] /\ \E r \in Rewarded(row[s]) : Write(s, r)
      BY <2>2 DEF HearMerge
    <3>2. \A r \in Rewarded(row[s]) : r \in Row /\ Fits(s, r)
      BY <1>0, <1>1, <2>2, <3>1, RewardFits DEF HearMerge, IsMerged
    <3>3. WriteIfAny(s, Rewarded(row[s]))
      BY <3>1 DEF WriteIfAny
    <3> QED BY <1>1, <3>2, <3>3, WriteIfAnyFits DEF Inv, TypeOK
  <2> QED BY <2>1, <2>2
<1>3. UNCHANGED <<handed, hub, issue, busy, asked, green, listed, todo, hash>>
  BY DEF HearCheck, HearMerge, hubVars, pollVars, refreshVars
<1>4. TypeOK'
  BY <1>1, <1>2, <1>3 DEF Inv, TypeOK
<1> QED BY <1>2, <1>3, <1>4, QuietStep

-----------------------------------------------------------------------------
(* Validators. *)
LEMMA ReadingInv ==
  ASSUME Inv, NEW v \in Validator, NEW s \in Slice, CheckPickup(v, s) \/ ReadForApproval(v, s)
  PROVE  Inv' /\ WonStays
<1> USE DEF Inv, TypeOK
<1>1. /\ UNCHANGED <<row, hash, touched, handed, hub, issue, asked, green, listed, todo, decided, bare, made, vouched>>
      /\ \/ busy' = [busy EXCEPT ![v] = [at |-> "take", slice |-> s, url |-> None]]
         \/ /\ row[s].url # None
            /\ busy' = [busy EXCEPT ![v] = [at |-> "approve", slice |-> s, url |-> row[s].url]]
  BY DEF CheckPickup, ReadForApproval, orderVars, hubVars, pollVars, refreshVars
<1>2. row[s].url \in Url \cup {None}
  BY DEF Row
<1>3. PICK b \in [at : {"take", "approve"}, slice : Slice, url : Url \cup {None}] :
         /\ busy' = [busy EXCEPT ![v] = b]
         /\ b.at = "approve" => b.url # None
  <2>1. CASE busy' = [busy EXCEPT ![v] = [at |-> "take", slice |-> s, url |-> None]]
    <3> WITNESS [at |-> "take", slice |-> s, url |-> None] \in [at : {"take", "approve"}, slice : Slice, url : Url \cup {None}]
    <3> QED BY <2>1
  <2>2. CASE /\ row[s].url # None
             /\ busy' = [busy EXCEPT ![v] = [at |-> "approve", slice |-> s, url |-> row[s].url]]
    <3>1. [at |-> "approve", slice |-> s, url |-> row[s].url] \in [at : {"take", "approve"}, slice : Slice, url : Url \cup {None}]
      BY <1>2
    <3> QED BY <2>2, <3>1
  <2> QED BY <1>1, <2>1, <2>2
<1>4. TypeOK' /\ Rows' /\ WonStays
  <2>1. TypeOK'
    BY <1>1, <1>3
  <2>2. Rows' /\ WonStays
    BY <1>1, FittingStep DEF Fitting
  <2> QED BY <2>1, <2>2
<1>5. ASSUME NEW x \in Validator
      PROVE  /\ busy'[x].at # "idle" => busy'[x].slice \in Slice
             /\ busy'[x].at = "approve" => busy'[x].url # None
  <2>1. v \in DOMAIN busy /\ busy'[x] = IF x = v THEN b ELSE busy[x]
    BY <1>3
  <2>2. b.slice \in Slice
    OBVIOUS
  <2>3. /\ busy[x].at # "idle" => busy[x].slice \in Slice
        /\ busy[x].at = "approve" => busy[x].url # None
    BY DEF Memories
  <2> QED BY <1>3, <2>1, <2>2, <2>3, Zenon
<1>6. Memories'
  BY <1>1, <1>5 DEF Memories, HasGreen, IsMerged
<1> QED BY <1>4, <1>6

LEMMA PickUpInv == ASSUME Inv, NEW v \in Validator, PickUp(v) PROVE Inv' /\ WonStays
<1> DEFINE s == busy[v].slice
           rows == PickedUp(row[s], v)
<1>1. s \in Slice /\ row[s] \in Row /\ v \in Person
  BY SlicesAssumption DEF PickUp, Inv, TypeOK, Memories
<1>2. UNCHANGED <<hub, hash, bare, made, vouched, decided>> /\ WriteIfAny(s, rows)
  BY DEF PickUp, hubVars
<1>3. \A r \in rows : r \in Row /\ Fits(s, r)
  <2> SUFFICES ASSUME NEW r \in rows PROVE r \in Row /\ Fits(s, r)
    OBVIOUS
  <2>1. row[s].status = "ci_green" /\ r = [row[s] EXCEPT !.status = "pending_validation", !.picker = v]
    BY DEF PickedUp
  <2>2. r \in Row /\ r.status = "pending_validation" /\ r.url = row[s].url /\ r.user = row[s].user
    BY <1>1, <2>1 DEF Row, Status
  <2>3. made[s] = "nothing" => HasGreen(Names[row[s].url])
    BY <1>1, <2>1 DEF Inv, Rows, PickableWasGreen, HasGreen
  <2> HIDE DEF s, rows
  <2> QED BY <1>1, <1>2, <2>1, <2>2, <2>3, GoingOnFits
<1>4. Fitting /\ row' \in [Slice -> Row] /\ touched' \in [Slice -> Nat]
  <2> HIDE DEF s, rows
  <2> QED BY <1>1, <1>2, <1>3, WriteIfAnyFits DEF Inv, TypeOK
<1>5. UNCHANGED <<hash, handed, hub, issue, asked, green, listed, todo>> /\ busy' = [busy EXCEPT ![v] = Idle]
  BY DEF PickUp, hubVars, pollVars, refreshVars
<1>6. TypeOK' /\ \A x \in Validator : busy'[x] \in {busy[x], Idle}
  BY <1>2, <1>4, <1>5 DEF Inv, TypeOK, Idle
<1> QED BY <1>4, <1>5, <1>6, QuietStep

LEMMA ApproveInv == ASSUME Inv, NEW v \in Validator, Approve(v) PROVE Inv' /\ WonStays
<1> DEFINE s == busy[v].slice
           rows == Approved(row[s], v)
<1>1. s \in Slice /\ row[s] \in Row /\ busy[v].url \in Url
  BY DEF Approve, Inv, TypeOK, Memories
<1>2. /\ UNCHANGED <<hub, bare, made, vouched, decided>> /\ WriteIfAny(s, rows)
      /\ hash' = IF rows = {} THEN hash ELSE [hash EXCEPT ![s] = busy[v].url]
  BY DEF Approve, hubVars
<1>3. \A r \in rows : r \in Row /\ Fits(s, r)
  <2> SUFFICES ASSUME NEW r \in rows PROVE r \in Row /\ Fits(s, r)
    OBVIOUS
  <2>1. row[s].status = "pending_validation" /\ r = [row[s] EXCEPT !.status = "validated"]
    BY DEF Approved
  <2>2. r \in Row /\ r.status = "validated" /\ r.url = row[s].url /\ r.user = row[s].user
    BY <1>1, <2>1 DEF Row, Status
  <2>3. made[s] = "nothing" => HasGreen(Names[row[s].url])
    BY <1>1, <2>1 DEF Inv, Rows, PickableWasGreen, HasGreen
  <2>4. hash'[s] # None
    BY <1>1, <1>2, SlicesAssumption DEF Inv, TypeOK
  <2> HIDE DEF s, rows
  <2> QED BY <1>1, <1>2, <2>1, <2>2, <2>3, <2>4, GoingOnFits
<1>4. hash' \in [Slice -> Url \cup {None}] /\ \A t \in Slice \ {s} : hash'[t] = hash[t]
  <2> HIDE DEF rows
  <2> QED BY <1>1, <1>2 DEF Inv, TypeOK
<1>5. Fitting /\ row' \in [Slice -> Row] /\ touched' \in [Slice -> Nat]
  <2> HIDE DEF s, rows
  <2> QED BY <1>1, <1>2, <1>3, <1>4, WriteIfAnyFits
<1>6. UNCHANGED <<handed, hub, issue, asked, green, listed, todo>> /\ busy' = [busy EXCEPT ![v] = Idle]
  BY DEF Approve, hubVars, pollVars, refreshVars
<1>7. TypeOK' /\ \A x \in Validator : busy'[x] \in {busy[x], Idle}
  <2> HIDE DEF s, rows
  <2>1. busy' \in [Validator -> [at : {"idle", "take", "approve"}, slice : Slice \cup {None}, url : Url \cup {None}]]
    BY <1>6 DEF Inv, TypeOK, Idle
  <2>2. TypeOK'
    BY <1>2, <1>4, <1>5, <1>6, <2>1 DEF Inv, TypeOK
  <2> QED BY <1>6, <2>2 DEF Inv, TypeOK
<1> QED BY <1>5, <1>6, <1>7, QuietStep

LEMMA AbandonInv == ASSUME Inv, NEW v \in Validator, Abandon(v) PROVE Inv' /\ WonStays
<1>1. /\ UNCHANGED <<row, hash, touched, handed, hub, issue, asked, green, listed, todo, decided, bare, made, vouched>>
      /\ busy' = [busy EXCEPT ![v] = Idle]
  BY DEF Abandon, orderVars, hubVars, pollVars, refreshVars
<1>2. TypeOK' /\ \A x \in Validator : busy'[x] \in {busy[x], Idle}
  BY <1>1 DEF Inv, TypeOK, Idle
<1>3. Fitting
  BY <1>1 DEF Fitting, Inv, TypeOK
<1> QED BY <1>1, <1>2, <1>3, QuietStep

-----------------------------------------------------------------------------
(* poll_once: what it remembers green was found green. *)
LEMMA AskingInv ==
  ASSUME Inv, PollList \/ \E q \in asked : PollAsk(q) \/ PollAskFails(q)
  PROVE  Inv' /\ WonStays
<1> USE DEF Inv, TypeOK
<1>1. UNCHANGED <<row, hash, touched, handed, hub, issue, busy, listed, todo, decided, made, vouched>>
  BY DEF PollList, PollAsk, PollAskFails, Polling, hubVars, refreshVars
<1>2. /\ asked' \subseteq [slice : Slice, url : Url \cup {None}]
      /\ \A q \in asked' : q.url # None
  <2>1. CASE PollList
    <3>1. \A s \in Slice : row[s].url \in Url \cup {None}
      BY DEF Row
    <3>2. \A s \in Slice : row[s].status = "submitted" => row[s].url # None
      BY DEF Rows, ActiveIsOwnWork, EndsElsewhere
    <3>3. \A q \in asked' : \E s \in Slice : row[s].status = "submitted" /\ q = [slice |-> s, url |-> row[s].url]
      BY <2>1 DEF PollList, Oldest
    <3> HIDE DEF Inv, TypeOK
    <3> QED BY <3>1, <3>2, <3>3
  <2>2. CASE asked' \subseteq asked
    BY <2>2 DEF Memories
  <2> QED BY <2>1, <2>2 DEF PollAsk, PollAskFails
<1>3. /\ green' \in Url \cup {None} /\ bare' \subseteq PR /\ bare \subseteq bare'
      /\ green' # None => Names[green'] \in bare' \/ \E c \in Check : hub[Names[green']].checks[c] = "ok"
  <2>1. ASSUME NEW q \in asked, PollAsk(q)
        PROVE  /\ green' \in Url \cup {None} /\ bare' \subseteq PR /\ bare \subseteq bare'
               /\ green' # None => Names[green'] \in bare' \/ \E c \in Check : hub[Names[green']].checks[c] = "ok"
    <3> DEFINE u == Names[q.url]
    <3>1. /\ q.url \in Url /\ u \in PR
          /\ green' = IF AllGreen(u) THEN q.url ELSE None
          /\ bare' = IF Bare(u) THEN bare \cup {u} ELSE bare
      BY <2>1, SlicesAssumption DEF PollAsk, Memories
    <3>2. AllGreen(u) => Bare(u) \/ \E c \in Check : hub[u].checks[c] = "ok"
      BY DEF AllGreen, Bare
    <3> QED BY <3>1, <3>2
  <2>2. CASE UNCHANGED <<green, bare>>
    BY <2>2 DEF Memories, HasGreen
  <2> QED BY <2>1, <2>2 DEF PollList, PollAskFails
<1>4. Rows' /\ WonStays
  BY <1>1, <1>3, FittingStep DEF Fitting
<1>5. TypeOK' /\ Memories'
  BY <1>1, <1>2, <1>3 DEF Memories, HasGreen, IsMerged
<1> QED BY <1>4, <1>5

LEMMA AdvanceInv == ASSUME Inv, PollAdvance PROVE Inv' /\ WonStays
<1>1. UNCHANGED <<hash, handed, hub, issue, busy, asked, listed, todo, decided, bare, made, vouched>> /\ green' = None
  BY DEF PollAdvance, Polling, hubVars, refreshVars
<1>2. Fitting /\ row' \in [Slice -> Row] /\ touched' \in [Slice -> Nat]
  BY <1>1, TurnGreenFits DEF PollAdvance, Inv, Memories
<1>3. TypeOK'
  BY <1>1, <1>2 DEF Inv, TypeOK
<1> QED BY <1>1, <1>2, <1>3, QuietStep

(* refresh_once: a row listed as validated is won still, and it is         *)
(* rewarded only if GitHub says its pull request was merged.               *)
LEMMA LookingInv ==
  ASSUME Inv, RefreshList \/ \E c \in listed : RefreshAsk(c) \/ RefreshAskFails(c)
  PROVE  Inv' /\ WonStays
<1> USE DEF Inv, TypeOK
<1>1. UNCHANGED <<row, hash, touched, handed, hub, issue, busy, asked, green, decided, bare, made, vouched>>
  BY DEF RefreshList, RefreshAsk, RefreshAskFails, Refreshing, hubVars, pollVars
<1>2. /\ listed' \subseteq Snapshot
      /\ \A c \in listed' : c.status = "validated" /\ made[c.slice] = "nothing" =>
                              Won(c.slice) /\ row[c.slice].url = c.url
  <2>1. CASE RefreshList
    <3>1. \A s \in Slice : row[s].url \in Url \cup {None} /\ row[s].status \in Status
      BY DEF Row
    <3>2. \A c \in listed' : \E s \in Slice : c = [slice |-> s, status |-> row[s].status, url |-> row[s].url]
      BY <2>1 DEF RefreshList, Oldest, Unfinished
    <3> HIDE DEF Inv, TypeOK
    <3> QED BY <3>1, <3>2 DEF Snapshot
  <2>2. CASE listed' \subseteq listed
    BY <2>2 DEF Memories
  <2> QED BY <2>1, <2>2 DEF RefreshAsk, RefreshAskFails
<1>3. /\ todo' \in Todo \cup {None}
      /\ todo' # None /\ todo'.do = "award" =>
           made[todo'.slice] # "nothing" \/ (Won(todo'.slice) /\ IsMerged(row[todo'.slice].url))
  <2>1. ASSUME NEW c \in listed, NEW d \in Decisions(c), todo' = [slice |-> c.slice, do |-> d]
        PROVE  /\ todo' \in Todo
               /\ todo'.do = "award" =>
                    made[todo'.slice] # "nothing" \/ (Won(todo'.slice) /\ IsMerged(row[todo'.slice].url))
    <3>1. c \in Snapshot /\ d \in {"close", "award", "rewind"}
      BY DEF Decisions
    <3>2. d = "award" => c.status = "validated" /\ IsMerged(c.url)
      BY DEF Decisions, IsMerged
    <3> QED BY <2>1, <3>1, <3>2 DEF Snapshot, Todo, Memories
  <2>2. CASE todo' = todo
    BY <2>2 DEF Memories
  <2> QED BY <2>1, <2>2 DEF RefreshList, RefreshAsk, RefreshAskFails
<1>4. Rows' /\ WonStays
  BY <1>1, FittingStep DEF Fitting
<1>5. TypeOK'
  BY <1>1, <1>2, <1>3
<1>6. Memories'
  BY <1>1, <1>2, <1>3 DEF Memories, HasGreen, IsMerged
<1> QED BY <1>4, <1>5, <1>6

LEMMA ApplyInv == ASSUME Inv, RefreshApply PROVE Inv' /\ WonStays
<1> DEFINE s == todo.slice
           r == row[s]
           rows == CASE todo.do = "award"  -> Rewarded(r)
                     [] todo.do = "rewind" -> Rewound(r)
                     [] todo.do = "close"  -> IssueClosed(r)
<1>1. todo \in Todo /\ s \in Slice /\ r \in Row
  BY DEF RefreshApply, Inv, TypeOK, Todo
<1>2. UNCHANGED <<hash, handed, hub, issue, busy, asked, green, listed, decided, bare, made, vouched>> /\ todo' = None /\ WriteIfAny(s, rows)
  BY DEF RefreshApply, Refreshing, hubVars, pollVars
<1>3. \A n \in rows : n \in Row /\ Fits(s, n)
  <2>1. CASE todo.do = "award"
    <3>1. r.status = "validated" => IsMerged(r.url)
      BY <1>1, <2>1 DEF RefreshApply, Inv, Memories, Rows, EndsElsewhere
    <3>2. \A n \in Rewarded(r) : n \in Row /\ Fits(s, n)
      <4>1. CASE r.status = "validated"
        <5> HIDE DEF s
        <5> QED BY <1>1, <1>2, <3>1, <4>1, RewardFits
      <4>2. CASE r.status # "validated"
        BY <4>2 DEF Rewarded
      <4> QED BY <4>1, <4>2
    <3> QED BY <2>1, <3>2
  <2>2. CASE todo.do = "rewind"
    <3>1. \A n \in Rewound(r) : n \in Row /\ n.status = "claimed" /\ ~Won(s) /\ r.status \notin Made
      BY <1>1 DEF Rewound, Row, Status
    <3>2. \A n \in Rewound(r) : n \in Row /\ Fits(s, n)
      <4> HIDE DEF s
      <4> QED BY <1>1, <1>2, <3>1, LeavingFits
    <3> QED BY <2>2, <3>2
  <2>3. CASE todo.do = "close"
    <3>1. \A n \in IssueClosed(r) : n \in Row /\ n.status = "closed" /\ r.status \notin Active
      BY <1>1 DEF IssueClosed, Row, Status
    <3>2. \A n \in IssueClosed(r) : n \in Row /\ Fits(s, n)
      <4> HIDE DEF s
      <4> QED BY <1>1, <1>2, <3>1, LeavingFits
    <3> QED BY <2>3, <3>2
  <2> QED BY <1>1, <2>1, <2>2, <2>3 DEF Todo
<1>4. Fitting /\ row' \in [Slice -> Row] /\ touched' \in [Slice -> Nat]
  <2> HIDE DEF s, rows
  <2> QED BY <1>1, <1>2, <1>3, WriteIfAnyFits DEF Inv, TypeOK
<1>5. TypeOK'
  BY <1>2, <1>4 DEF Inv, TypeOK
<1> QED BY <1>2, <1>4, <1>5, QuietStep

LEMMA RestartInv == ASSUME Inv, Restart \/ UNCHANGED vars PROVE Inv' /\ WonStays
<1>1. /\ UNCHANGED <<row, hash, touched, handed, hub, issue, busy, decided, bare, made, vouched>>
      /\ asked' \subseteq asked /\ green' \in {green, None}
      /\ listed' \subseteq listed /\ todo' \in {todo, None}
  BY DEF Restart, vars, orderVars, hubVars, pollVars, refreshVars
<1>2. TypeOK'
  BY <1>1 DEF Inv, TypeOK
<1>3. Fitting
  BY <1>1 DEF Fitting, Inv, TypeOK
<1> QED BY <1>1, <1>2, <1>3, QuietStep

-----------------------------------------------------------------------------
(* Bounties and deliverables. *)
LEMMA BountyInv ==
  ASSUME Inv, NEW s \in Slice, NEW p \in Person, ClaimBounty(p, s) \/ Attach(p, s)
  PROVE  Inv' /\ WonStays
<1>0. row[s] \in Row
  BY DEF Inv, TypeOK
<1>1. UNCHANGED <<hash, touched, handed, hub, issue, busy, asked, green, listed, todo, decided, bare, made, vouched>>
  BY DEF ClaimBounty, Attach, AsBounty, Elsewhere, hubVars, pollVars, refreshVars
<1>2. PICK r \in Row : row' = [row EXCEPT ![s] = r] /\ Leaves(s, r)
  <2>1. /\ \A r \in BountyClaimed(row[s], p) : Leaves(s, r)
        /\ \A r \in Attached(row[s], p) : Leaves(s, r)
    <3>1. ASSUME NEW r \in BountyClaimed(row[s], p) PROVE Leaves(s, r)
      <4>1. /\ r.status = "claimed" /\ row[s].status \in {"open", "claimed"}
            /\ r = [row[s] EXCEPT !.status = "claimed", !.user = p,
                                  !.clock = IF row[s].clock = "unset" THEN "ahead" ELSE row[s].clock]
        BY <1>0 DEF BountyClaimed, Row
      <4>2. (IF row[s].clock = "unset" THEN "ahead" ELSE row[s].clock) \in {"unset", "ahead", "past"}
        BY <1>0 DEF Row
      <4>3. r \in Row
        BY <1>0, <4>1, <4>2 DEF Row, Status
      <4> QED BY <4>1, <4>3 DEF Leaves
    <3>2. ASSUME NEW r \in Attached(row[s], p) PROVE Leaves(s, r)
      BY <1>0 DEF Attached, Leaves, Row, Status
    <3> QED BY <3>1, <3>2
  <2>2. PICK r \in BountyClaimed(row[s], p) \cup Attached(row[s], p) : row' = [row EXCEPT ![s] = r]
    BY DEF ClaimBounty, Attach, AsBounty
  <2> QED BY <2>1, <2>2 DEF Leaves
<1>3. Fits(s, r)
  BY <1>1, <1>2, LeavingFits DEF Leaves
<1>4. Fitting
  BY <1>1, <1>2, <1>3 DEF Fitting, OnlyAt, Inv, TypeOK
<1>5. TypeOK'
  BY <1>1, <1>2 DEF Inv, TypeOK
<1> QED BY <1>1, <1>4, <1>5, QuietStep

(* What they write takes nothing that was won, unless it comes late. *)
LEMMA ElsewhereInv ==
  ASSUME Inv, NEW s \in Slice,
         Decide(s) \/ VerdictMerges(s) \/ \E status \in Made : Overwrite(s, status)
  PROVE  Inv' /\ WonStays
<1>0. row[s] \in Row /\ row[s].status \in Status
  BY DEF Inv, TypeOK, Row
<1>1. UNCHANGED <<hash, handed, hub, issue, busy, asked, green, listed, todo, bare, vouched>>
  BY DEF Decide, VerdictMerges, Overwrite, Elsewhere, hubVars, pollVars, refreshVars
<1>2. CASE Decide(s)
  <2>1. UNCHANGED <<row, touched, made>> /\ decided' \subseteq Slice
    BY <1>2 DEF Decide, Inv, TypeOK
  <2>2. Fitting /\ TypeOK'
    BY <1>1, <2>1 DEF Fitting, Inv, TypeOK
  <2> QED BY <1>1, <2>2, QuietStep
<1>3. CASE VerdictMerges(s)
  <2>1. PICK r \in ReviewMerged(row[s]) : Write(s, r)
    BY <1>3 DEF VerdictMerges
  <2>2. /\ r \in Row /\ r.status = "merged" /\ r.url = row[s].url
        /\ row[s].status \in {"in_review", "claimed"}
    BY <1>0, <2>1 DEF ReviewMerged, Row, Status
  <2>3. made[s] # "nothing" /\ UNCHANGED <<made, decided>>
    BY <1>3 DEF VerdictMerges
  <2>4. Fits(s, r)
    BY <1>3, <2>2, <2>3 DEF Fits, VerdictMerges
  <2>5. row' \in [Slice -> Row] /\ touched' \in [Slice -> Nat] /\ row' = [row EXCEPT ![s] = r]
    BY <2>1, <2>2, WriteType DEF Inv
  <2>6. Fitting
    BY <1>1, <2>2, <2>3, <2>4, <2>5 DEF Fitting, OnlyAt, Inv, TypeOK
  <2>7. TypeOK'
    BY <1>1, <2>3, <2>5 DEF Inv, TypeOK
  <2> QED BY <1>1, <2>6, <2>7, QuietStep
<1>4. ASSUME NEW status \in Made, Overwrite(s, status)
      PROVE  Inv' /\ WonStays
  <2> DEFINE r == Put(row[s], status)
  <2>1. /\ r \in Row /\ r.status = status /\ r.url = row[s].url
        /\ r.user = row[s].user /\ r.picker = row[s].picker
    BY <1>0 DEF Put, Row, Status
  <2>2. /\ row' = [row EXCEPT ![s] = r] /\ UNCHANGED decided
        /\ made' = [made EXCEPT ![s] = IF row[s].status \in Theirs /\ made[s] # "late" THEN "in time" ELSE "late"]
        /\ touched' \in {touched, Last(touched, s)}
        /\ status \in Active => \A t \in Slice \ {s} :
             row[t].status \in Active => row[t].url # row[s].url \/ row[s].url = None
    BY <1>4 DEF Overwrite
  <2>3. /\ made' \in [Slice -> {"nothing", "in time", "late"}]
        /\ made'[s] = IF row[s].status \in Theirs /\ made[s] # "late" THEN "in time" ELSE "late"
        /\ \A t \in Slice \ {s} : made'[t] = made[t]
    BY <2>2 DEF Inv, TypeOK
  <2>4. touched' \in [Slice -> Nat]
    <3>1. touched \in [Slice -> Nat]
      BY DEF Inv, TypeOK
    <3> QED BY <2>2, <3>1, LastType
  <2> HIDE DEF r
  <2>5. Fits(s, r)
    <3>1. made'[s] # "nothing" /\ r.status \in Made
      BY <1>4, <2>1, <2>3
    <3>2. made'[s] # "late" => ~Won(s) /\ row[s].status \notin Active
      BY <2>3 DEF Theirs
    <3> QED BY <2>1, <2>2, <3>1, <3>2 DEF Fits
  <2>6. Fitting
    <3>1. OnlyAt(s) /\ hash' \in [Slice -> Url \cup {None}]
      BY <1>1, <2>3 DEF OnlyAt, Inv, TypeOK
    <3>2. made'[s] = "nothing" => made[s] = "nothing"
      BY <2>3
    <3> QED BY <1>1, <2>1, <2>2, <2>5, <3>1, <3>2 DEF Fitting
  <2>7. TypeOK'
    BY <1>1, <2>1, <2>2, <2>3, <2>4 DEF Inv, TypeOK
  <2> QED BY <1>1, <2>6, <2>7, QuietStep
<1> QED BY <1>2, <1>3, <1>4

-----------------------------------------------------------------------------
LEMMA NextInv == Inv /\ [Next]_vars => Inv' /\ WonStays
<1> SUFFICES ASSUME Inv, [Next]_vars PROVE Inv' /\ WonStays
  OBVIOUS
<1>1. CASE People
  <2>1. PICK s \in Slice :
          \/ Publish(s) \/ RefuseDraft(s)
          \/ \E p \in Person :
               \/ Claim(p, s) \/ Unclaim(p, s) \/ ClaimBounty(p, s) \/ Attach(p, s)
               \/ \E w \in Url, checked \in BOOLEAN : Submit(p, s, w, checked)
          \/ \E t \in Team : ClaimAsTeam(t, s) \/ UnclaimByTeam(t, s)
          \/ ClaimAges(s) \/ ExpireClaim(s)
          \/ \E v \in Validator : CheckPickup(v, s) \/ ReadForApproval(v, s) \/ Reject(v, s)
    BY <1>1 DEF People
  <2> QED BY <2>1, HandsInv, SubmitInv, BountyInv, ClaimAgesInv, ReadingInv
<1>2. CASE \E v \in Validator : PickUp(v) \/ Approve(v) \/ Abandon(v)
  BY <1>2, PickUpInv, ApproveInv, AbandonInv
<1>3. CASE GitHub
  BY <1>3, GitHubInv
<1>4. CASE \E u \in PR : HearCheck(u) \/ HearMerge(u)
  BY <1>4, WebhookInv
<1>5. CASE PollList \/ PollAdvance \/ \E q \in asked : PollAsk(q) \/ PollAskFails(q)
  BY <1>5, AskingInv, AdvanceInv
<1>6. CASE RefreshList \/ RefreshApply \/ \E c \in listed : RefreshAsk(c) \/ RefreshAskFails(c)
  BY <1>6, LookingInv, ApplyInv
<1>7. CASE Restart \/ UNCHANGED vars
  BY <1>7, RestartInv
<1>8. CASE \E s \in Slice : Decide(s) \/ VerdictMerges(s) \/ \E status \in Made : Overwrite(s, status)
  BY <1>8, ElsewhereInv
<1> QED BY <1>1, <1>2, <1>3, <1>4, <1>5, <1>6, <1>7, <1>8 DEF Next

LEMMA InitInv == Init => Inv
<1> SUFFICES ASSUME Init PROVE Inv
  OBVIOUS
<1> USE DEF Init, Idle
<1>1. Fresh("draft") \in Row /\ Fresh("draft").status = "draft"
  BY DEF Fresh, Row, Status
<1>2. touched \in [Slice -> Nat] /\ handed \in [Slice -> Nat]
  BY SlicesAssumption, FS_CardinalityType DEF Orders
<1>3. TypeOK
  BY <1>1, <1>2 DEF TypeOK, CheckStates
<1>4. Rows
  BY <1>1 DEF Rows, ActiveIsOwnWork, PickableWasGreen, RewardedWasMerged, EndsElsewhere, Attested
<1>5. Memories
  BY DEF Memories
<1> QED BY <1>3, <1>4, <1>5 DEF Inv

LEMMA Invariance == Spec => []Inv
BY InitInv, NextInv, PTL DEF Spec

(* slices.rs, ci_sync.rs and slice_validation.rs: rows and memories keep   *)
(* their types; what validators may pick up had a successful check run on  *)
(* the pull request the slice carries, or was polled when it had none; and *)
(* what was rewarded was validated here and merged upstream, though the    *)
(* poller that rewards it decides from a snapshot, unless a bounty or a    *)
(* deliverable wrote the row.                                              *)
THEOREM RewardsAreEarned == Spec => []GreenThenMerged
<1>1. Inv => GreenThenMerged
  BY DEF Inv, Rows, GreenThenMerged
<1> QED BY <1>1, Invariance, PTL

(* submit_pr: a challenge under review or won is its claimer's own pull    *)
(* request if its author was checked, and no two are under one URL.        *)
THEOREM ReviewedIsOwnWork == Spec => []ActiveIsOwnWork
<1>1. Inv => ActiveIsOwnWork
  BY DEF Inv, Rows
<1> QED BY <1>1, Invariance, PTL

(* external_refresh.rs, apply_action: no poll, webhook or request takes    *)
(* back what was won, or closes what was handed in, but a bounty or a      *)
(* deliverable that writes late.                                           *)
THEOREM WonIsFinal == Spec => ValidatedIsFinal
<1>1. Inv /\ [Next]_vars => [WonStays]_vars
  BY NextInv
<1> QED BY <1>1, Invariance, PTL DEF Spec, ValidatedIsFinal

-----------------------------------------------------------------------------
(* Part 2.  What a merged pull request earns. *)

Remembered == [of : {"slice"}, user : Person \cup {None}]
Looked     == [of : PR, status : Waiting]

(* Who has read something is in the middle of what he reads for, and a     *)
(* delivery makes something and answers at its end.                        *)
Paced ==
  /\ \A u \in PR : Reads(u) => delivery[u] = "recorded" /\ read[u] \in Remembered
  /\ \A u \in PR : delivery[u] # "over" => answer[u] = "none" /\ work[u] = NoWork /\ u \notin contested
  /\ \A r \in Reviewer : Reads(r) => read[r] \in Looked

(* Work that was never in two hands is in one, as it was read.             *)
Apart ==
  \A r \in Reviewer : Reads(r) /\ read[r].of \notin contested =>
    /\ work[read[r].of].status = read[r].status
    /\ \A q \in Reviewer : Reads(q) /\ read[q].of = read[r].of => q = r

(* A merge that overtook nobody finds no delivery about to write.          *)
Timely == slice.status = "merged" /\ ~overtaken => \A u \in PR : ~Reads(u)

ReviewsInv == ReviewsTypeOK /\ Paced /\ Apart /\ Timely /\ EarnedIsVouched /\ HeldHasTask

USE DEF Worker, Memory, Remembered, Looked, Waiting, Reads

(* A step of those who claim the slice. *)
Claiming ==
  \/ \E p \in Person : Take(p) \/ GiveBack(p) \/ TakeBounty(p) \/ AttachTo(p)
  \/ \E t \in Team : TakeAsTeam(t) \/ TeamGivesBack(t)

(* What a step does to the slice, the work and the credits, and to what    *)
(* reviewers have read, without touching work that is verified.            *)
Harmless ==
  /\ contested' = contested /\ (overtaken => overtaken') /\ UNCHANGED <<reviews, earned>>
  /\ \A u \in PR : work'[u] = work[u] \/ (work[u] = NoWork /\ u \notin contested /\ work'[u].status # "verified")
  /\ \A r \in Reviewer : read'[r] \in {read[r], None}
  /\ \A u \in PR : answer'[u] = "verified" <=> answer[u] = "verified"
  /\ slice' = slice \/ (slice'.status # "merged" /\ (slice.status = "merged" => overtaken'))
  /\ \A u \in PR : read'[u] \in {read[u], None} \/ slice'.status # "merged"

-----------------------------------------------------------------------------
(* What a claimer's statement leaves is a slice that is not merged and was *)
(* not.                                                                     *)
LEMMA ClaimersStep ==
  ASSUME slice \in Row, Claiming
  PROVE  /\ slice' \in Row /\ slice'.status # "merged" /\ slice.status # "merged"
         /\ UNCHANGED <<delivery, answer, work, task, reviews, earned, read, contested, overtaken>>
<1> USE DEF Row, Status, Update, Change
<1>1. ASSUME NEW p \in Person, Take(p)
      PROVE  slice' \in Row /\ slice'.status # "merged" /\ slice.status # "merged"
  BY <1>1 DEF Take, Claimed
<1>2. ASSUME NEW p \in Person, GiveBack(p)
      PROVE  slice' \in Row /\ slice'.status # "merged" /\ slice.status # "merged"
  BY <1>2 DEF GiveBack, Unclaimed
<1>3. ASSUME NEW p \in Person, AttachTo(p)
      PROVE  slice' \in Row /\ slice'.status # "merged" /\ slice.status # "merged"
  BY <1>3 DEF AttachTo, Attached
<1>8. ASSUME NEW p \in Person, TakeBounty(p)
      PROVE  slice' \in Row /\ slice'.status # "merged" /\ slice.status # "merged"
  <2>1. /\ slice.status \in {"open", "claimed"}
        /\ slice' = [slice EXCEPT !.status = "claimed", !.user = p,
                                  !.clock = IF slice.clock = "unset" THEN "ahead" ELSE slice.clock]
    BY <1>8 DEF TakeBounty, BountyClaimed
  <2>2. (IF slice.clock = "unset" THEN "ahead" ELSE slice.clock) \in {"unset", "ahead", "past"}
    OBVIOUS
  <2> QED BY <2>1, <2>2
<1>4. ASSUME NEW t \in Team, TakeAsTeam(t)
      PROVE  slice' \in Row /\ slice'.status # "merged" /\ slice.status # "merged"
  BY <1>4 DEF TakeAsTeam, TeamClaimed
<1>5. ASSUME NEW t \in Team, TeamGivesBack(t)
      PROVE  slice' \in Row /\ slice'.status # "merged" /\ slice.status # "merged"
  BY <1>5 DEF TeamGivesBack, TeamUnclaimed
<1>6. slice' \in Row /\ slice'.status # "merged" /\ slice.status # "merged"
  BY <1>1, <1>2, <1>3, <1>4, <1>5, <1>8 DEF Claiming
<1>7. \E rows : Change(rows)
  BY DEF Claiming, Take, GiveBack, TakeBounty, AttachTo, TakeAsTeam, TeamGivesBack
<1> QED BY <1>6, <1>7 DEF overlaps

(* The reviewers who approved are finitely many. *)
LEMMA Countable ==
  ASSUME NEW u
  PROVE  IsFiniteSet(Approvals(u)) /\ Cardinality(Approvals(u)) \in Nat
<1>1. Approvals(u) \subseteq Reviewer
  BY DEF Approvals
<1> QED BY <1>1, FS_Subset, FS_CardinalityType, ReviewsAssumption DEF ReviewsAssumption

(* One who approves for the first time is one more. *)
LEMMA OneMore ==
  ASSUME NEW u \in PR, NEW r \in Reviewer, <<u, r, "approve">> \notin reviews,
         reviews' = reviews \cup {<<u, r, "approve">>}
  PROVE  Cardinality(Approvals(u)') = Cardinality(Approvals(u)) + 1
<1>1. IsFiniteSet(Approvals(u))
  BY Countable
<1>2. Approvals(u)' = Approvals(u) \cup {r}
  BY DEF Approvals
<1>3. r \notin Approvals(u)
  BY DEF Approvals
<1> QED BY <1>1, <1>2, <1>3, FS_AddElement

(* A harmless step keeps the books, and what is settled.                    *)
LEMMA HarmlessKeeps ==
  ASSUME ReviewsInv, Harmless
  PROVE  Apart' /\ Timely' /\ EarnedIsVouched' /\ Settles
<1> USE DEF ReviewsInv, Harmless
<1>1. Apart'
  <2> SUFFICES ASSUME NEW r \in Reviewer, read'[r] # None, read'[r].of \notin contested
               PROVE  /\ work'[read'[r].of].status = read'[r].status
                      /\ \A q \in Reviewer : read'[q] # None /\ read'[q].of = read'[r].of => q = r
    BY DEF Apart
  <2>1. read'[r] = read[r] /\ \A q \in Reviewer : read'[q] # None => read'[q] = read[q]
    OBVIOUS
  <2>2. /\ work[read[r].of].status = read[r].status /\ read[r].status \in Waiting /\ read[r].of \in PR
        /\ \A q \in Reviewer : Reads(q) /\ read[q].of = read[r].of => q = r
    BY <2>1 DEF Apart, Paced
  <2>3. work'[read[r].of] = work[read[r].of]
    BY <2>2 DEF NoWork
  <2> QED BY <2>1, <2>2, <2>3
<1>2. Timely'
  BY DEF Timely
<1>3. EarnedIsVouched'
  <2>1. \A u \in PR : Approvals(u)' = Approvals(u)
    BY DEF Approvals
  <2>2. \A u \in PR : work'[u].status = "verified" <=> work[u].status = "verified"
    BY DEF NoWork
  <2>3. slice'.status = "merged" => slice.status = "merged"
    OBVIOUS
  <2> QED BY <2>1, <2>2, <2>3 DEF EarnedIsVouched
<1>4. Settles
  BY DEF Settles, NoWork
<1> QED BY <1>1, <1>2, <1>3, <1>4

(* At first nothing was merged, nothing reviewed. *)
LEMMA ReviewsInitInv == ReviewsInit => ReviewsInv
<1> SUFFICES ASSUME ReviewsInit PROVE ReviewsInv
  OBVIOUS
<1>1. ReviewsTypeOK
  BY DEF ReviewsInit, ReviewsTypeOK, Fresh, Row, Status, NoWork
<1>2. Paced
  BY DEF ReviewsInit, Paced
<1>3. EarnedIsVouched
  <2>1. \A u \in PR : Approvals(u) = {}
    BY DEF Approvals, ReviewsInit
  <2>2. Cardinality({}) = 0
    BY FS_EmptySet
  <2> QED BY <2>1, <2>2 DEF ReviewsInit, EarnedIsVouched, Fresh, NoWork
<1>4. HeldHasTask /\ Apart /\ Timely
  BY DEF ReviewsInit, HeldHasTask, NoWork, Apart, Timely
<1> QED BY <1>1, <1>2, <1>3, <1>4 DEF ReviewsInv

-----------------------------------------------------------------------------
(* A delivery decides on what it read. *)

(* Reading changes nothing else. *)
LEMMA ReadSliceInv == ASSUME ReviewsInv, NEW u \in PR, ReadSlice(u) PROVE ReviewsInv' /\ Settles
<1> USE DEF ReviewsInv
<1>1. delivery[u] = "recorded" /\ UNCHANGED <<slice, work, task, reviews, earned, contested, overtaken>> /\ ~Reads(u)
  BY DEF ReadSlice, overlaps
<1>2. answer[u] = "none"
  BY <1>1 DEF Paced
<1>3. CASE /\ Actionable
           /\ read' = [read EXCEPT ![u] = [of |-> "slice", user |-> slice.user]]
           /\ UNCHANGED <<delivery, answer>>
  <2>1. [of |-> "slice", user |-> slice.user] \in Remembered
    BY DEF ReviewsTypeOK, Row
  <2>2. ReviewsTypeOK' /\ Paced'
    BY <1>1, <1>3, <2>1, ReviewsAssumption DEF ReviewsTypeOK, Paced
  <2>3. Harmless
    BY <1>1, <1>3, ReviewsAssumption DEF Harmless, Actionable, ReviewsTypeOK
  <2> QED BY <1>1, <2>2, <2>3, HarmlessKeeps DEF HeldHasTask
<1>4. CASE /\ delivery' = [delivery EXCEPT ![u] = "over"]
           /\ answer' = [answer EXCEPT ![u] = "ignored"]
           /\ UNCHANGED read
  <2>1. ReviewsTypeOK' /\ Paced'
    BY <1>1, <1>4 DEF ReviewsTypeOK, Paced
  <2>2. \A v \in PR : answer'[v] = "verified" <=> answer[v] = "verified"
    BY <1>2, <1>4 DEF ReviewsTypeOK
  <2>3. Harmless
    BY <1>1, <1>4, <2>2 DEF Harmless
  <2> QED BY <1>1, <2>1, <2>3, HarmlessKeeps DEF HeldHasTask
<1> QED BY <1>3, <1>4 DEF ReadSlice

(* The author's own claim: one credit, and the answer says so. *)
LEMMA VerifyInv == ASSUME ReviewsInv, NEW u \in PR, Verify(u) PROVE ReviewsInv' /\ Settles
<1> USE DEF ReviewsInv
<1>1. /\ delivery[u] = "recorded" /\ answer[u] = "none" /\ work[u] = NoWork /\ u \notin contested
      /\ Opener[u] \in Person
  BY ReviewsAssumption DEF Paced, Verify
<1>2. /\ work' = [work EXCEPT ![u] = [status |-> "verified", user |-> Opener[u]]]
      /\ earned' = [earned EXCEPT ![u] = @ + 1]
      /\ delivery' = [delivery EXCEPT ![u] = "over"]
      /\ answer' = [answer EXCEPT ![u] = "verified"]
      /\ read' = [read EXCEPT ![u] = None]
      /\ UNCHANGED <<task, reviews, contested>>
  BY DEF Verify, Respond
<1>3. /\ slice' \in Row /\ slice'.status = "merged"
      /\ overtaken' \/ \A v \in PR \ {u} : ~Reads(v)
      /\ (overtaken => overtaken') /\ overtaken' \in BOOLEAN
  <2>1. Put(slice, "merged") \in Row /\ Put(slice, "merged").status = "merged"
    BY DEF ReviewsTypeOK, Put, Row, Status
  <2>2. Becomes(Put(slice, "merged"), u)
    BY DEF Verify
  <2> QED BY <2>1, <2>2 DEF Becomes, ReviewsTypeOK
<1>4. ReviewsTypeOK'
  BY <1>1, <1>2, <1>3 DEF ReviewsTypeOK
<1>5. Paced'
  BY <1>1, <1>2, ReviewsAssumption DEF ReviewsTypeOK, Paced
<1>6. Apart'
  <2>1. \A r \in Reviewer : read'[r] = read[r]
    BY <1>2, ReviewsAssumption DEF ReviewsTypeOK
  <2>2. \A r \in Reviewer : Reads(r) /\ read[r].of \notin contested => read[r].of \in PR \ {u}
    BY <1>1 DEF Apart, Paced, NoWork
  <2> QED BY <1>2, <2>1, <2>2 DEF Apart, ReviewsTypeOK
<1>7. Timely'
  BY <1>2, <1>3 DEF Timely, ReviewsTypeOK
<1>8. EarnedIsVouched'
  <2>1. \A v \in PR : Approvals(v)' = Approvals(v)
    BY <1>2 DEF Approvals
  <2>2. \A v \in PR : earned'[v] = Cardinality(Approvals(v)) + (IF answer'[v] = "verified" THEN 1 ELSE 0)
    BY <1>1, <1>2, Countable DEF EarnedIsVouched, ReviewsTypeOK
  <2>3. earned[u] = 0
    BY <1>1 DEF EarnedIsVouched, NoWork
  <2>4. \A v \in PR \ contested : earned'[v] = IF work'[v].status = "verified" THEN 1 ELSE 0
    BY <1>1, <1>2, <2>3 DEF EarnedIsVouched, ReviewsTypeOK
  <2>5. earned'[u] > 0
    BY <1>2, <2>3 DEF ReviewsTypeOK
  <2> QED BY <1>2, <2>1, <2>2, <2>4, <2>5 DEF EarnedIsVouched
<1>9. HeldHasTask'
  BY <1>2 DEF HeldHasTask, ReviewsTypeOK
<1>10. Settles
  BY <1>1, <1>2, <1>3 DEF Settles, NoWork, ReviewsTypeOK
<1> QED BY <1>4, <1>5, <1>6, <1>7, <1>8, <1>9, <1>10

(* Anybody else's: held, and queued with it. *)
LEMMA HoldInv == ASSUME ReviewsInv, NEW u \in PR, Hold(u) PROVE ReviewsInv' /\ Settles
<1> USE DEF ReviewsInv
<1>1. /\ delivery[u] = "recorded" /\ answer[u] = "none" /\ work[u] = NoWork /\ u \notin contested
      /\ read[u].user \in Person \cup {None} /\ Opener[u] \in Person /\ Reads(u)
  BY ReviewsAssumption DEF Paced, Hold
<1>2. PICK w \in [status : {"pending_manual_review"}, user : Person \cup {None}] :
         work' = [work EXCEPT ![u] = w]
  <2>1. work' = [work EXCEPT ![u] =
          [status |-> "pending_manual_review", user |-> IF read[u].user = None THEN Opener[u] ELSE read[u].user]]
    BY DEF Hold
  <2>2. (IF read[u].user = None THEN Opener[u] ELSE read[u].user) \in Person \cup {None}
    BY <1>1
  <2>3. [status |-> "pending_manual_review", user |-> IF read[u].user = None THEN Opener[u] ELSE read[u].user]
          \in [status : {"pending_manual_review"}, user : Person \cup {None}]
    BY <2>2
  <2> QED BY <2>1, <2>3
<1>3. /\ slice' = Put(slice, "in_review") /\ (overtaken => overtaken') /\ overtaken' \in BOOLEAN
      /\ task' = [task EXCEPT ![u] = "open"]
      /\ delivery' = [delivery EXCEPT ![u] = "over"]
      /\ answer' = [answer EXCEPT ![u] = "held"]
      /\ read' = [read EXCEPT ![u] = None]
      /\ UNCHANGED <<reviews, earned, contested>>
  BY DEF Hold, Respond, QueueFor, Becomes, ReviewsTypeOK
<1>4. slice' \in Row /\ slice'.status = "in_review"
  BY <1>3 DEF ReviewsTypeOK, Put, Row, Status
<1>5. ReviewsTypeOK'
  BY <1>1, <1>2, <1>3, <1>4 DEF ReviewsTypeOK
<1>6. Paced'
  BY <1>1, <1>2, <1>3, ReviewsAssumption DEF ReviewsTypeOK, Paced
<1>7. Harmless
  <2>1. \A v \in PR : answer'[v] = "verified" <=> answer[v] = "verified"
    BY <1>1, <1>3 DEF ReviewsTypeOK
  <2>2. \A r \in Worker : read'[r] \in {read[r], None}
    BY <1>3 DEF ReviewsTypeOK
  <2>3. \A v \in PR : work'[v] = work[v] \/ (work[v] = NoWork /\ v \notin contested /\ work'[v].status # "verified")
    BY <1>1, <1>2 DEF ReviewsTypeOK
  <2>4. slice.status = "merged" => overtaken'
    BY <1>1, <1>3 DEF Timely
  <2> QED BY <1>3, <1>4, <2>1, <2>2, <2>3, <2>4 DEF Harmless
<1>8. HeldHasTask'
  BY <1>2, <1>3 DEF HeldHasTask, ReviewsTypeOK
<1> QED BY <1>5, <1>6, <1>7, <1>8, HarmlessKeeps

(* A delivery that ends without anything done. *)
LEMMA DroppedInv ==
  ASSUME ReviewsInv, NEW u \in PR, HoldForStranger(u) \/ Lose(u)
  PROVE  ReviewsInv' /\ Settles
<1> USE DEF ReviewsInv
<1>1. delivery[u] = "recorded" /\ answer[u] = "none"
  BY DEF Paced, HoldForStranger, Lose
<1>2. /\ UNCHANGED <<slice, work, task, reviews, earned, contested, overtaken>>
      /\ delivery' = [delivery EXCEPT ![u] = "over"] /\ answer' \in {answer, [answer EXCEPT ![u] = "held"]}
      /\ read' = [read EXCEPT ![u] = None]
  BY DEF HoldForStranger, Lose, Respond, overlaps
<1>3. ReviewsTypeOK'
  <2>1. read' \in [Worker -> Memory]
    BY <1>2 DEF ReviewsTypeOK, Memory
  <2> QED BY <1>2, <2>1 DEF ReviewsTypeOK
<1>4. Paced'
  BY <1>1, <1>2, ReviewsAssumption DEF ReviewsTypeOK, Paced
<1>5. Harmless
  <2>1. \A v \in PR : answer'[v] = "verified" <=> answer[v] = "verified"
    BY <1>1, <1>2 DEF ReviewsTypeOK
  <2>2. \A r \in Worker : read'[r] \in {read[r], None}
    BY <1>2 DEF ReviewsTypeOK
  <2> QED BY <1>2, <2>1, <2>2 DEF Harmless
<1> QED BY <1>2, <1>3, <1>4, <1>5, HarmlessKeeps DEF HeldHasTask

-----------------------------------------------------------------------------
(* A reviewer decides on what it read. *)

(* A request dropped, and a task taken, change nothing that counts. *)
LEMMA IdleInv ==
  ASSUME ReviewsInv, NEW r \in Reviewer, Withdraw(r) \/ \E u \in PR : TakeTask(r, u)
  PROVE  ReviewsInv' /\ Settles
<1> USE DEF ReviewsInv
<1>1. UNCHANGED <<slice, delivery, answer, work, reviews, earned, contested, overtaken>>
  BY DEF Withdraw, TakeTask, overlaps
<1>2. read' \in {read, [read EXCEPT ![r] = None]}
  BY DEF Withdraw, TakeTask
<1>3. \A x \in Worker : read'[x] \in {read[x], None}
  BY <1>2 DEF ReviewsTypeOK
<1>4. /\ task' \in [PR -> {"none", "open", "claimed", "completed"}]
      /\ \A u \in PR : task[u] \in {"open", "claimed"} => task'[u] \in {"open", "claimed"}
  BY DEF Withdraw, TakeTask, ReviewsTypeOK
<1>5. ReviewsTypeOK'
  <2>1. read' \in [Worker -> Memory]
    BY <1>2 DEF ReviewsTypeOK
  <2> QED BY <1>1, <1>4, <2>1 DEF ReviewsTypeOK
<1>6. Paced'
  BY <1>1, <1>3 DEF Paced
<1>7. Harmless
  BY <1>1, <1>3 DEF Harmless
<1> QED BY <1>1, <1>4, <1>5, <1>6, <1>7, HarmlessKeeps DEF HeldHasTask

(* Who reads work that another has in hand contests it. *)
LEMMA LookInv ==
  ASSUME ReviewsInv, NEW r \in Reviewer, NEW u \in PR, ReadWork(r, u)
  PROVE  ReviewsInv' /\ Settles
<1> USE DEF ReviewsInv
<1>1. /\ UNCHANGED <<slice, delivery, answer, work, task, reviews, earned, overtaken>>
      /\ work[u].status \in Waiting /\ ~Reads(r)
      /\ contested' = IF \E q \in Reviewer : Reads(q) /\ read[q].of = u THEN contested \cup {u} ELSE contested
      /\ read' = [read EXCEPT ![r] = [of |-> u, status |-> work[u].status]]
  BY DEF ReadWork, Open
<1>2. [of |-> u, status |-> work[u].status] \in Looked
  BY <1>1
<1>3. ReviewsTypeOK'
  <2>1. contested' \subseteq PR
    BY <1>1 DEF ReviewsTypeOK
  <2>2. read' \in [Worker -> Memory]
    BY <1>1, <1>2 DEF ReviewsTypeOK
  <2> QED BY <1>1, <2>1, <2>2 DEF ReviewsTypeOK
<1>4. \A x \in Worker : read'[x] = IF x = r THEN [of |-> u, status |-> work[u].status] ELSE read[x]
  BY <1>1 DEF ReviewsTypeOK
<1>5. Paced'
  <2>1. delivery[u] = "over"
    BY <1>1 DEF Paced, NoWork
  <2> QED BY <1>1, <1>2, <1>4, <2>1, ReviewsAssumption DEF Paced
<1>6. Apart'
  <2> SUFFICES ASSUME NEW q \in Reviewer, read'[q] # None, read'[q].of \notin contested'
               PROVE  /\ work'[read'[q].of].status = read'[q].status
                      /\ \A p \in Reviewer : read'[p] # None /\ read'[p].of = read'[q].of => p = q
    BY DEF Apart
  <2>1. CASE q = r
    <3>1. read'[q].of = u /\ read'[q].status = work[u].status
      BY <1>4, <2>1
    <3>2. \A p \in Reviewer : ~(Reads(p) /\ read[p].of = u)
      BY <1>1, <3>1
    <3> QED BY <1>1, <1>4, <2>1, <3>1, <3>2
  <2>2. CASE q # r
    <3>1. read'[q] = read[q] /\ Reads(q) /\ read[q].of \notin contested
      BY <1>1, <1>4, <2>2
    <3>2. read[q].of # u
      BY <1>1, <3>1
    <3>3. /\ work[read[q].of].status = read[q].status
          /\ \A p \in Reviewer : Reads(p) /\ read[p].of = read[q].of => p = q
      BY <3>1 DEF Apart
    <3> QED BY <1>1, <1>4, <3>1, <3>2, <3>3
  <2> QED BY <2>1, <2>2
<1>7. Timely'
  BY <1>1, <1>4, ReviewsAssumption DEF Timely
<1>8. EarnedIsVouched'
  <2>1. \A v \in PR : Approvals(v)' = Approvals(v)
    BY <1>1 DEF Approvals
  <2> QED BY <1>1, <2>1 DEF EarnedIsVouched
<1>9. HeldHasTask' /\ Settles
  BY <1>1 DEF HeldHasTask, Settles
<1> QED BY <1>3, <1>5, <1>6, <1>7, <1>8, <1>9

(* A verdict is recorded with what it pays for. *)
LEMMA VerdictInv ==
  ASSUME ReviewsInv, NEW r \in Reviewer, NEW verdict \in Verdicts, GiveVerdict(r, verdict)
  PROVE  ReviewsInv' /\ Settles
<1> USE DEF ReviewsInv
<1>a. PICK u : u = read[r].of
  OBVIOUS
<1>b. PICK status : status = Outcome(verdict, read[r].status)
  OBVIOUS
<1>1. u \in PR /\ read[r].status \in Waiting /\ Reads(r)
  BY <1>a DEF GiveVerdict, Paced, Reads
<1>2. /\ \A v \in Verdicts : <<u, r, v>> \notin reviews
      /\ reviews' = reviews \cup {<<u, r, verdict>>}
      /\ work' = IF status = read[r].status THEN work ELSE [work EXCEPT ![u].status = status]
      /\ Credit(u, verdict)
      /\ task' = task \/ task' = [task EXCEPT ![u] = "completed"]
      /\ read' = [read EXCEPT ![r] = None]
      /\ UNCHANGED <<delivery, answer, contested>>
  BY <1>a, <1>b DEF GiveVerdict
<1>3. /\ slice' \in Row
      /\ slice'.status = "merged" => slice.status = "merged" \/ verdict = "approve"
      /\ slice.status = "merged" => slice'.status = "merged"
      /\ (overtaken => overtaken') /\ overtaken' \in BOOLEAN
      /\ slice'.status = "merged" /\ ~overtaken' => \A v \in PR : ~Reads(v)
  <2>1. CASE UNCHANGED <<slice, overtaken>>
    BY <2>1 DEF ReviewsTypeOK, Timely
  <2>2. ASSUME NEW n \in ReviewMerged(slice), Becomes(n, r), verdict = "approve"
        PROVE  /\ slice' \in Row /\ slice'.status = "merged"
               /\ (overtaken => overtaken') /\ overtaken' \in BOOLEAN
               /\ ~overtaken' => \A v \in PR : ~Reads(v)
    <3>1. n \in Row /\ n.status = "merged" /\ slice' = n
      BY <2>2 DEF ReviewMerged, Becomes, ReviewsTypeOK, Row, Status
    <3>2. r \notin PR
      BY ReviewsAssumption
    <3> QED BY <2>2, <3>1, <3>2 DEF Becomes, ReviewsTypeOK
  <2> QED BY <2>1, <2>2 DEF GiveVerdict
<1>4. /\ status \in {"verified", "rejected"} \cup Waiting
      /\ status = "verified" <=> verdict = "approve"
  BY <1>1, <1>b DEF Outcome, Verdicts
<1>w. /\ work' \in [PR -> [status : {"none", "verified", "rejected"} \cup Waiting, user : Person \cup {None}]]
      /\ \A v \in PR \ {u} : work'[v] = work[v]
      /\ work[u].status = read[r].status => work'[u].status = status
  <2>1. [work[u] EXCEPT !.status = status] \in
           [status : {"none", "verified", "rejected"} \cup Waiting, user : Person \cup {None}]
    BY <1>1, <1>4 DEF ReviewsTypeOK
  <2> QED BY <1>1, <1>2, <2>1 DEF ReviewsTypeOK
<1>5. ReviewsTypeOK'
  <2>2. earned' \in [PR -> Nat] /\ task' \in [PR -> {"none", "open", "claimed", "completed"}]
    BY <1>1, <1>2 DEF ReviewsTypeOK, Credit
  <2>3. reviews' \subseteq PR \X Reviewer \X Verdicts
    BY <1>1, <1>2 DEF ReviewsTypeOK
  <2>4. read' \in [Worker -> Memory]
    BY <1>2 DEF ReviewsTypeOK
  <2>5. UNCHANGED <<delivery, answer, contested>>
    BY <1>2
  <2> QED BY <1>3, <1>w, <2>2, <2>3, <2>4, <2>5 DEF ReviewsTypeOK
<1>r. \A x \in Worker : read'[x] = IF x = r THEN None ELSE read[x]
  BY <1>2 DEF ReviewsTypeOK
<1>6. Paced' /\ Timely'
  <2>1. delivery[u] = "over"
    BY <1>1, <1>a DEF Paced, Apart, NoWork
  <2>2. Paced'
    BY <1>2, <1>r, <1>w, <2>1, ReviewsAssumption DEF Paced
  <2> QED BY <1>3, <1>r, <2>2, ReviewsAssumption DEF Timely
<1>s. /\ u \notin contested => work[u].status = read[r].status
      /\ \A q \in Reviewer \ {r} : Reads(q) /\ read[q].of = u => u \in contested
  BY <1>1, <1>a DEF Apart
<1>7. Apart'
  <2> SUFFICES ASSUME NEW q \in Reviewer, read'[q] # None, read'[q].of \notin contested
               PROVE  /\ work'[read'[q].of].status = read'[q].status
                      /\ \A p \in Reviewer : read'[p] # None /\ read'[p].of = read'[q].of => p = q
    BY <1>2 DEF Apart
  <2>1. q # r /\ read'[q] = read[q] /\ Reads(q)
    BY <1>r
  <2>2. read[q].of \in PR \ {u}
    BY <1>s, <2>1 DEF Paced
  <2>3. /\ work[read[q].of].status = read[q].status
        /\ \A p \in Reviewer : Reads(p) /\ read[p].of = read[q].of => p = q
    BY <2>1 DEF Apart
  <2> QED BY <1>r, <1>w, <2>1, <2>2, <2>3
<1>8. EarnedIsVouched'
  <2>1. \A v \in PR \ {u} : Approvals(v)' = Approvals(v) /\ earned'[v] = earned[v]
    BY <1>2 DEF Approvals, Credit, ReviewsTypeOK
  <2>2. earned[u] \in Nat /\ Cardinality(Approvals(u)) \in Int
    BY <1>1, Countable DEF ReviewsTypeOK
  <2>3. earned'[u] = earned[u] + (IF verdict = "approve" THEN 1 ELSE 0)
    BY <1>1, <1>2, <2>2 DEF Credit, ReviewsTypeOK
  <2>4. Cardinality(Approvals(u)') = Cardinality(Approvals(u)) + (IF verdict = "approve" THEN 1 ELSE 0)
    <3>1. CASE verdict = "approve"
      <4>1. <<u, r, "approve">> \notin reviews /\ reviews' = reviews \cup {<<u, r, "approve">>}
        BY <1>2, <3>1
      <4> QED BY <1>1, <3>1, <4>1, OneMore
    <3>2. CASE verdict # "approve"
      <4>1. Approvals(u)' = Approvals(u)
        BY <1>2, <3>2 DEF Approvals
      <4> QED BY <2>2, <3>2, <4>1
    <3> QED BY <3>1, <3>2
  <2>5. \A v \in PR : earned'[v] = Cardinality(Approvals(v)') + (IF answer'[v] = "verified" THEN 1 ELSE 0)
    <3>1. earned'[u] = Cardinality(Approvals(u)') + (IF answer'[u] = "verified" THEN 1 ELSE 0)
      BY <1>1, <1>2, <2>2, <2>3, <2>4 DEF EarnedIsVouched
    <3>2. \A v \in PR \ {u} : earned'[v] = Cardinality(Approvals(v)') + (IF answer'[v] = "verified" THEN 1 ELSE 0)
      BY <1>2, <2>1 DEF EarnedIsVouched
    <3> QED BY <3>1, <3>2
  <2>6. \A v \in PR \ contested' : earned'[v] = IF work'[v].status = "verified" THEN 1 ELSE 0
    <3>1. u \notin contested => earned[u] = 0
      BY <1>1, <1>s DEF EarnedIsVouched
    <3>2. u \notin contested => earned'[u] = IF work'[u].status = "verified" THEN 1 ELSE 0
      BY <1>4, <1>w, <1>s, <2>3, <3>1
    <3> QED BY <1>2, <1>w, <2>1, <3>2 DEF EarnedIsVouched
  <2>7. slice'.status = "merged" => \E v \in PR : earned'[v] > 0
    <3>1. CASE slice.status = "merged"
      <4>1. PICK v \in PR : earned[v] > 0
        BY <3>1 DEF EarnedIsVouched
      <4> QED BY <1>1, <2>1, <2>2, <2>3, <4>1
    <3>2. CASE verdict = "approve"
      BY <1>1, <2>2, <2>3, <3>2
    <3> QED BY <1>3, <3>1, <3>2
  <2> QED BY <2>5, <2>6, <2>7 DEF EarnedIsVouched
<1>9. HeldHasTask'
  <2>1. \E q \in Reviewer, v \in Verdicts : <<u, q, v>> \in reviews'
    BY <1>2
  <2>2. \A v \in PR \ {u} : work'[v] = work[v] /\ task'[v] = task[v]
    BY <1>2 DEF ReviewsTypeOK
  <2>3. reviews \subseteq reviews'
    BY <1>2
  <2> QED BY <2>1, <2>2, <2>3 DEF HeldHasTask
<1>10. Settles
  <2>1. u \notin contested => work[u].status # "verified"
    BY <1>1, <1>s
  <2>2. \A v \in PR \ {u} : work'[v] = work[v] /\ earned'[v] = earned[v]
    BY <1>2, <1>w DEF Credit, ReviewsTypeOK
  <2> QED BY <1>2, <1>3, <2>1, <2>2 DEF Settles
<1> QED BY <1>5, <1>6, <1>7, <1>8, <1>9, <1>10

-----------------------------------------------------------------------------
(* Every step keeps the invariant, and what is settled. *)
LEMMA StepInv == ReviewsInv /\ [ReviewsNext]_reviewVars => ReviewsInv' /\ Settles
<1> SUFFICES ASSUME ReviewsInv, [ReviewsNext]_reviewVars PROVE ReviewsInv' /\ Settles
  OBVIOUS
<1>1. CASE Claiming
  <2> USE DEF ReviewsInv
  <2>1. /\ slice' \in Row /\ slice'.status # "merged" /\ slice.status # "merged"
        /\ UNCHANGED <<delivery, answer, work, task, reviews, earned, read, contested, overtaken>>
    BY <1>1, ClaimersStep DEF ReviewsTypeOK
  <2>2. ReviewsTypeOK' /\ Paced' /\ HeldHasTask'
    BY <2>1 DEF ReviewsTypeOK, Paced, HeldHasTask
  <2>3. Harmless
    BY <2>1 DEF Harmless
  <2> QED BY <2>2, <2>3, HarmlessKeeps
<1>2. CASE UNCHANGED reviewVars \/ \E u \in PR : Merge(u) \/ Record(u)
  <2> USE DEF ReviewsInv
  <2>1. UNCHANGED <<slice, answer, work, task, reviews, earned, read, contested, overtaken>>
    BY <1>2 DEF Merge, Record, reviewVars, overlaps
  <2>2. /\ delivery' \in [PR -> {"unmerged", "sent", "recorded", "over"}]
        /\ \A u \in PR : /\ delivery'[u] # "over" => delivery[u] # "over"
                         /\ delivery[u] = "recorded" => delivery'[u] = "recorded"
    BY <1>2 DEF Merge, Record, reviewVars, ReviewsTypeOK
  <2>3. ReviewsTypeOK' /\ Paced' /\ HeldHasTask'
    BY <2>1, <2>2 DEF ReviewsTypeOK, Paced, HeldHasTask
  <2>4. Harmless
    BY <2>1 DEF Harmless
  <2> QED BY <2>3, <2>4, HarmlessKeeps
<1>3. CASE \E u \in PR : ReadSlice(u) \/ Verify(u) \/ Hold(u) \/ HoldForStranger(u) \/ Lose(u)
  BY <1>3, ReadSliceInv, VerifyInv, HoldInv, DroppedInv
<1>4. CASE \E u \in PR, r \in Reviewer : TakeTask(r, u) \/ ReadWork(r, u)
  BY <1>4, IdleInv, LookInv
<1>5. CASE \E r \in Reviewer : Withdraw(r) \/ \E v \in Verdicts : GiveVerdict(r, v)
  BY <1>5, IdleInv, VerdictInv
<1> QED BY <1>1, <1>2, <1>3, <1>4, <1>5 DEF ReviewsNext, Claiming

(* Every reachable state satisfies it. *)
LEMMA ReviewsInvariant == ReviewsSpec => []ReviewsInv
<1> QED BY ReviewsInitInv, StepInv, PTL DEF ReviewsSpec

-----------------------------------------------------------------------------
(* Rows, deliveries, deliverables and tasks keep to their types.           *)
THEOREM ReviewsTypeCorrect == ReviewsSpec => []ReviewsTypeOK
<1>1. ReviewsInv => ReviewsTypeOK
  BY DEF ReviewsInv
<1> QED BY <1>1, ReviewsInvariant, PTL

(* create_from_pr_merged and submit_verdict, whatever overlaps: each credit *)
(* of fragments is for an author who was the claimer or for an approval;   *)
(* work that no two reviewers had in hand at once earned once if it is     *)
(* verified, else nothing; and no slice is merged without a credit.        *)
THEOREM CreditIsVouched == ReviewsSpec => []EarnedIsVouched
<1>1. ReviewsInv => EarnedIsVouched
  BY DEF ReviewsInv
<1> QED BY <1>1, ReviewsInvariant, PTL

(* insert_deliverable_pending_manual_review: what waits for a human is in  *)
(* the queue until a human has looked.                                     *)
THEOREM HeldIsQueued == ReviewsSpec => []HeldHasTask
<1>1. ReviewsInv => HeldHasTask
  BY DEF ReviewsInv
<1> QED BY <1>1, ReviewsInvariant, PTL

(* reviews.rs and deliverables.rs: a merge is for good, unless a delivery  *)
(* that had read the slice before it writes after it; verified work stays  *)
(* verified, its author its author, and earns no more, unless two          *)
(* reviewers had it in hand at once.                                       *)
THEOREM SettledForGood == ReviewsSpec => SettledStays
<1>1. ReviewsInv /\ [ReviewsNext]_reviewVars => [Settles]_reviewVars
  BY StepInv
<1> QED BY <1>1, ReviewsInvariant, PTL DEF ReviewsSpec, SettledStays
=============================================================================
