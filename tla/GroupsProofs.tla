----------------------------- MODULE GroupsProofs -----------------------------
(***************************************************************************)
(* What people form, for any number of people and requests.                *)
(***************************************************************************)
EXTENDS MCGroups, FiniteSetTheorems, TLAPS

-----------------------------------------------------------------------------
(* Part 1.  A cohort.  What a request read under the lock holds until it   *)
(* writes; what it read without one is not relied upon.                    *)

Locked == {"locked join", "locked leave", "locked add"}

Request  == [user : User, role : {"member", "organizer"}]
Finished == [user : User, done : BOOLEAN]

(* What each step of a request remembers. *)
Remembers(w) ==
  /\ pc[w] \in {"locked join", "locked leave", "remove"} => memo[w] \in User
  /\ pc[w] \in {"locked add", "add"} => memo[w] \in Request
  /\ pc[w] = "update"  => memo[w] \in Bodies
  /\ pc[w] = "outcome" => memo[w] \in Finished

(* u is not the only organizer. *)
OthersOrganize(u) == role[u] = "organizer" => \E o \in Organizers : o # u

(* Whoever holds the row may still do what it was found that he may. *)
StillMay(w) ==
  /\ pc[w] = "locked join"  => ~archived /\ Cardinality(Seated) < cap
  /\ pc[w] = "locked add"   => ~archived /\ Cardinality(Seated \ {memo[w].user}) < cap
  /\ pc[w] = "locked leave" => OthersOrganize(memo[w])

CohortInv ==
  /\ TypeOK /\ FinishedOrLeft
  /\ memo = [w \in Worker |-> memo[w]]
  /\ \A w \in Worker : Remembers(w) /\ StillMay(w)

(* What ArrivalsFit and OrganizerStays say of a step. *)
Orderly ==
  /\ Arrival => ~archived /\ Cardinality(Seated') <= cap'
  /\ Departure /\ Organizers # {} => Organizers' # {}

USE DEF Locked

-----------------------------------------------------------------------------
LEMMA SeatedIsFinite ==
  /\ IsFiniteSet(Seated) /\ Cardinality(Seated) \in Nat
  /\ IsFiniteSet(Organizers)
<1>1. Seated \subseteq User /\ Organizers \subseteq User
  BY DEF Seated, Organizers
<1> QED BY <1>1, CohortsAssumption, FS_Subset, FS_CardinalityType

(* Only whoever holds the row is in the middle of using it. *)
LEMMA OneHolder ==
  ASSUME CohortInv, NEW w \in Worker, pc[w] \in Locked
  PROVE  lock = w /\ \A x \in Worker \ {w} : pc[x] \notin Locked
BY DEF CohortInv, TypeOK

LEMMA NoHolder ==
  ASSUME CohortInv, lock = None
  PROVE  \A x \in Worker : pc[x] \notin Locked
BY CohortsAssumption DEF CohortInv, TypeOK

(* Nothing the requests under the lock rely upon has changed. *)
Undisturbed == UNCHANGED <<role, cap, archived>>

LEMMA OrderlyIfSeated == role' = role => Orderly
BY DEF Orderly, Arrival, Departure, Seated, Organizers

LEMMA MayStill ==
  ASSUME Undisturbed, NEW w \in Worker, StillMay(w), pc'[w] = pc[w], memo'[w] = memo[w]
  PROVE  StillMay(w)'
BY DEF Undisturbed, StillMay, OthersOrganize, Seated, Organizers

-----------------------------------------------------------------------------
(* A request reads what lets it go on, or takes the row. *)
LEMMA ReadsInv ==
  ASSUME CohortInv, NEW w \in Worker, NEW value, NEW to,
         to \in {"remove", "add", "update", "archive", "plan", "unplan", "post", "outcome"},
         Reads(w, "idle", to, value),
         to = "remove" => value \in User,
         to = "add" => value \in Request,
         to = "update" => value \in Bodies,
         to = "outcome" => value \in Finished
  PROVE  CohortInv' /\ Orderly
<1> USE DEF Reads, Step, Keeps, members, terms, content, CohortInv
<1>1. /\ pc' = [pc EXCEPT ![w] = to] /\ memo' = [memo EXCEPT ![w] = value]
      /\ UNCHANGED <<role, graduated, left, cap, archived, messages, milestones, lock>>
  OBVIOUS
<1>2. TypeOK'
  BY <1>1 DEF TypeOK
<1>3. FinishedOrLeft' /\ Orderly
  BY <1>1, OrderlyIfSeated DEF FinishedOrLeft
<1>4. /\ pc'[w] = to /\ memo'[w] = value
      /\ \A x \in Worker \ {w} : pc'[x] = pc[x] /\ memo'[x] = memo[x]
  BY <1>1 DEF TypeOK
<1>5. \A x \in Worker : Remembers(x)' /\ StillMay(x)'
  BY <1>1, <1>4, MayStill DEF Remembers, StillMay, Undisturbed
<1> QED BY <1>1, <1>2, <1>3, <1>5

LEMMA TakesInv ==
  ASSUME CohortInv, NEW w \in Worker, NEW value, NEW from, NEW to,
         to \in Locked, Takes(w, from, to, value),
         to \in {"locked join", "locked leave"} => value \in User,
         to = "locked add" => value \in Request,
         to = "locked join" => ~archived /\ Cardinality(Seated) < cap,
         to = "locked add"  => ~archived /\ Cardinality(Seated \ {value.user}) < cap,
         to = "locked leave" => OthersOrganize(value)
  PROVE  CohortInv' /\ Orderly
<1> USE DEF Takes, Locks, Step, Keeps, members, terms, content, CohortInv
<1>1. /\ pc' = [pc EXCEPT ![w] = to] /\ memo' = [memo EXCEPT ![w] = value]
      /\ UNCHANGED <<role, graduated, left, cap, archived, messages, milestones>>
      /\ lock = None /\ lock' = w
  OBVIOUS
<1>2. TypeOK'
  BY <1>1, NoHolder DEF TypeOK
<1>3. FinishedOrLeft' /\ Orderly
  BY <1>1, OrderlyIfSeated DEF FinishedOrLeft
<1>4. /\ pc'[w] = to /\ memo'[w] = value
      /\ \A x \in Worker \ {w} : pc'[x] = pc[x] /\ memo'[x] = memo[x]
  BY <1>1 DEF TypeOK
<1>5. \A x \in Worker \ {w} : Remembers(x)' /\ StillMay(x)'
  BY <1>1, <1>4, MayStill DEF Remembers, Undisturbed
<1>6. Remembers(w)'
  BY <1>1, <1>4 DEF Remembers
<1>7. StillMay(w)'
  <2>1. Seated' = Seated /\ Organizers' = Organizers
    BY <1>1 DEF Seated, Organizers
  <2>2. OthersOrganize(value) => OthersOrganize(value)'
    BY <1>1, <2>1 DEF OthersOrganize
  <2>3. memo'[w].user = value.user
    BY <1>4
  <2> HIDE DEF Takes, CohortInv
  <2> QED BY <1>1, <1>4, <2>1, <2>2, <2>3 DEF StillMay, OthersOrganize
<1> QED BY <1>1, <1>2, <1>3, <1>5, <1>6, <1>7

(* A request is over, and whatever row it held is free. *)
LEMMA EndsInv ==
  ASSUME CohortInv, NEW w \in Worker,
         pc' = [pc EXCEPT ![w] = "idle"], memo' = [memo EXCEPT ![w] = None],
         lock' = IF lock = w THEN None ELSE lock,
         Undisturbed \/ pc[w] \in Locked \/ lock = None
  PROVE  /\ \A x \in Worker : Remembers(x)' /\ StillMay(x)'
         /\ memo' = [x \in Worker |-> memo'[x]]
         /\ \A x \in Worker : lock' = x <=> pc'[x] \in Locked
         /\ lock' \in Worker \cup {None}
         /\ pc' \in [Worker -> {"idle", "locked join", "locked leave", "locked add", "add",
                                "remove", "update", "archive", "plan", "unplan", "post", "outcome"}]
<1> USE DEF CohortInv
<1>1. /\ pc'[w] = "idle" /\ memo'[w] = None
      /\ \A x \in Worker \ {w} : pc'[x] = pc[x] /\ memo'[x] = memo[x]
  BY DEF TypeOK
<1>2. \A x \in Worker : Remembers(x)'
  BY <1>1 DEF Remembers
<1>3. \A x \in Worker : StillMay(x)'
  <2>1. StillMay(w)'
    BY <1>1 DEF StillMay
  <2>2. ASSUME NEW x \in Worker \ {w}, Undisturbed
        PROVE  StillMay(x)'
    BY <1>1, <2>2, MayStill
  <2>3. ASSUME NEW x \in Worker \ {w}, pc[w] \in Locked \/ lock = None
        PROVE  StillMay(x)'
    BY <1>1, <2>3, OneHolder, NoHolder DEF StillMay
  <2> QED BY <2>1, <2>2, <2>3
<1>4. /\ \A x \in Worker : lock' = x <=> pc'[x] \in Locked
      /\ lock' \in Worker \cup {None}
  BY <1>1, CohortsAssumption DEF TypeOK
<1> QED BY <1>1, <1>2, <1>3, <1>4 DEF TypeOK

-----------------------------------------------------------------------------
(* join, add_member and leave, under the lock. *)
LEMMA JoinedInv == ASSUME CohortInv, NEW w \in Worker, Joined(w) PROVE CohortInv' /\ Orderly
<1> USE DEF CohortInv
<1> DEFINE u == memo[w]
<1>1. /\ pc[w] = "locked join" /\ u \in User /\ lock = w
      /\ ~archived /\ Cardinality(Seated) < cap
  BY OneHolder DEF Joined, Settles, Ends, Step, Remembers, StillMay
<1>2. /\ pc' = [pc EXCEPT ![w] = "idle"] /\ memo' = [memo EXCEPT ![w] = None]
      /\ lock' = IF lock = w THEN None ELSE lock
      /\ role' = [role EXCEPT ![u] = "member"]
      /\ UNCHANGED <<graduated, left, cap, archived, messages, milestones>>
  BY DEF Joined, Settles, Ends, Step, Forgets, Keeps, Releases, terms, content
<1>3. Seated' = Seated \cup {u}
  BY <1>1, <1>2 DEF Seated, TypeOK
<1>4. Cardinality(Seated') <= cap'
  <2> HIDE DEF u, CohortInv
  <2>1. cap \in Nat /\ cap' = cap /\ Cardinality(Seated) < cap
    BY <1>1, <1>2, CohortsAssumption DEF CohortInv, TypeOK
  <2>2. CASE u \in Seated
    <3>1. Seated' = Seated
      BY <1>3, <2>2
    <3>2. Cardinality(Seated') = Cardinality(Seated)
      BY <3>1
    <3> QED BY <2>1, <3>2, SeatedIsFinite
  <2>3. CASE u \notin Seated
    <3>1. Cardinality(Seated \cup {u}) = Cardinality(Seated) + 1
      BY <2>3, SeatedIsFinite, FS_AddElement
    <3>2. Cardinality(Seated') = Cardinality(Seated) + 1
      BY <1>3, <3>1
    <3> QED BY <2>1, <3>2, SeatedIsFinite
  <2> QED BY <2>2, <2>3
<1>5. Orderly
  BY <1>1, <1>3, <1>4 DEF Orderly, Arrival, Departure
<1>6. TypeOK'
  BY <1>1, <1>2, EndsInv DEF TypeOK
<1>7. FinishedOrLeft'
  BY <1>2 DEF FinishedOrLeft
<1> QED BY <1>1, <1>2, <1>5, <1>6, <1>7, EndsInv

LEMMA AddedInv == ASSUME CohortInv, NEW w \in Worker, Added(w) PROVE CohortInv' /\ Orderly
<1> USE DEF CohortInv
<1> DEFINE u == memo[w].user
<1>1. /\ pc[w] = "locked add" /\ memo[w] \in Request /\ u \in User /\ lock = w
      /\ ~archived /\ Cardinality(Seated \ {u}) < cap
  BY OneHolder DEF Added, Settles, Ends, Step, Remembers, StillMay, Request
<1>2. /\ pc' = [pc EXCEPT ![w] = "idle"] /\ memo' = [memo EXCEPT ![w] = None]
      /\ lock' = IF lock = w THEN None ELSE lock
      /\ role' = [role EXCEPT ![u] = memo[w].role]
      /\ UNCHANGED <<graduated, left, cap, archived, messages, milestones>>
  BY DEF Added, Settles, Ends, Step, Forgets, Keeps, Releases, terms, content
<1>3. Seated' = (Seated \ {u}) \cup {u}
  BY <1>1, <1>2 DEF Seated, TypeOK, Request
<1>4. Cardinality(Seated') <= cap'
  <2> HIDE DEF u, CohortInv
  <2>1. IsFiniteSet(Seated \ {u}) /\ u \notin Seated \ {u}
    BY SeatedIsFinite, FS_Subset
  <2>2. /\ Cardinality((Seated \ {u}) \cup {u}) = Cardinality(Seated \ {u}) + 1
        /\ Cardinality(Seated \ {u}) \in Nat
    BY <2>1, FS_AddElement, FS_CardinalityType
  <2>3. cap \in Nat
    BY CohortsAssumption DEF CohortInv, TypeOK
  <2>4. Cardinality(Seated') = Cardinality((Seated \ {u}) \cup {u}) /\ cap' = cap
    BY <1>2, <1>3
  <2>5. Cardinality(Seated \ {u}) < cap
    BY <1>1
  <2> QED BY <2>2, <2>3, <2>4, <2>5
<1>5. Orderly
  BY <1>1, <1>3, <1>4 DEF Orderly, Arrival, Departure
<1>6. TypeOK'
  BY <1>1, <1>2, EndsInv DEF TypeOK, Request
<1>7. FinishedOrLeft'
  BY <1>2 DEF FinishedOrLeft
<1> QED BY <1>1, <1>2, <1>5, <1>6, <1>7, EndsInv

LEMMA LeftInv == ASSUME CohortInv, NEW w \in Worker, Left(w) PROVE CohortInv' /\ Orderly
<1> USE DEF CohortInv
<1> DEFINE u == memo[w]
<1>1. pc[w] = "locked leave" /\ u \in User /\ lock = w /\ OthersOrganize(u)
  BY OneHolder DEF Left, Settles, Ends, Step, Remembers, StillMay
<1>2. /\ pc' = [pc EXCEPT ![w] = "idle"] /\ memo' = [memo EXCEPT ![w] = None]
      /\ lock' = IF lock = w THEN None ELSE lock
      /\ role' = [role EXCEPT ![u] = "none"]
      /\ graduated' = graduated \ {u} /\ left' = left \ {u}
      /\ UNCHANGED <<cap, archived, messages, milestones>>
  BY DEF Left, Settles, Ends, Step, Forgets, Keeps, Releases, Unseat, terms, content
<1>3. Seated' = Seated \ {u} /\ Organizers' = Organizers \ {u}
  BY <1>1, <1>2 DEF Seated, Organizers, TypeOK
<1>4. Organizers # {} => Organizers \ {u} # {}
  BY <1>1 DEF OthersOrganize, Organizers
<1>5. Orderly
  BY <1>3, <1>4 DEF Orderly, Arrival, Departure
<1>6. TypeOK'
  BY <1>1, <1>2, EndsInv DEF TypeOK
<1>7. FinishedOrLeft'
  BY <1>2 DEF FinishedOrLeft
<1> QED BY <1>1, <1>2, <1>5, <1>6, <1>7, EndsInv

-----------------------------------------------------------------------------
(* update and archive need the row free; the rest leaves who sits and what *)
(* the cohort says.                                                        *)
LEMMA TermsInv ==
  ASSUME CohortInv, NEW w \in Worker, Update(w) \/ Archive(w)
  PROVE  CohortInv' /\ Orderly
<1> USE DEF CohortInv
<1>1. /\ pc' = [pc EXCEPT ![w] = "idle"] /\ memo' = [memo EXCEPT ![w] = None]
      /\ lock = None /\ lock' = lock
      /\ UNCHANGED <<role, graduated, left, messages, milestones>>
  BY DEF Update, Archive, Alone, Ends, Step, Forgets, Keeps, members, content
<1>2. cap' \in Caps
  <2>1. CASE Update(w)
    <3>1. memo[w].cap \in Caps \cup {None} /\ cap' = Given(memo[w].cap, cap)
      BY <2>1, CohortsAssumption DEF Update, Alone, Ends, Step, Remembers, Optional
    <3> QED BY <3>1 DEF Given, TypeOK
  <2>2. CASE Archive(w)
    BY <2>2 DEF Archive, TypeOK
  <2> QED BY <2>1, <2>2
<1>3. w # None
  BY CohortsAssumption
<1>4. TypeOK'
  BY <1>1, <1>2, <1>3, EndsInv DEF TypeOK
<1>5. FinishedOrLeft' /\ Orderly
  BY <1>1, OrderlyIfSeated DEF FinishedOrLeft
<1> QED BY <1>1, <1>3, <1>4, <1>5, EndsInv

LEMMA ContentInv ==
  ASSUME CohortInv, NEW w \in Worker,
         AddMilestone(w) \/ DropMilestone(w) \/ Post(w) \/ Outcome(w) \/ GiveUp(w)
  PROVE  CohortInv' /\ Orderly
<1> USE DEF CohortInv
<1>1. /\ pc' = [pc EXCEPT ![w] = "idle"] /\ memo' = [memo EXCEPT ![w] = None]
      /\ lock' = IF lock = w THEN None ELSE lock
      /\ UNCHANGED <<role, left, cap, archived>>
  <2>1. CASE GiveUp(w)
    BY <2>1 DEF GiveUp, Releases, Forgets, Keeps, members, terms
  <2>2. ASSUME NEW from, from \notin Locked, Ends(w, from)
        PROVE  /\ pc' = [pc EXCEPT ![w] = "idle"] /\ memo' = [memo EXCEPT ![w] = None]
               /\ lock # w
    BY <2>2 DEF Ends, Step, Forgets, Keeps, TypeOK
  <2> QED BY <2>1, <2>2 DEF AddMilestone, DropMilestone, Post, Outcome, members, terms
<1>2. messages' \in Nat /\ milestones' \in Nat
  <2>1. messages \in Nat /\ milestones \in Nat
    BY DEF TypeOK
  <2>2. \/ messages' = messages + 1 /\ milestones' = milestones
        \/ messages' = messages /\ milestones' = milestones
        \/ messages' = messages /\ milestones' = milestones + 1
        \/ messages' = messages /\ milestones > 0 /\ milestones' = milestones - 1
    BY DEF AddMilestone, DropMilestone, Post, Outcome, GiveUp, content
  <2> HIDE DEF CohortInv
  <2> QED BY <2>1, <2>2
<1>3. graduated' \subseteq User /\ graduated' \cap left' = {}
  <2>1. CASE graduated' = graduated
    BY <1>1, <2>1 DEF FinishedOrLeft, TypeOK
  <2>2. CASE Outcome(w)
    <3>1. memo[w] \in Finished
      BY <2>2 DEF Outcome, Ends, Step, Remembers
    <3>2. PICK u \in User : graduated' = graduated \ {u} \/ (u \notin left /\ graduated' = graduated \cup {u})
      BY <2>2, <3>1 DEF Outcome, MayFinish, Finished
    <3> QED BY <1>1, <3>2 DEF FinishedOrLeft, TypeOK
  <2> QED BY <2>1, <2>2 DEF AddMilestone, DropMilestone, Post, GiveUp, members
<1>4. Undisturbed
  BY <1>1 DEF Undisturbed
<1>5. TypeOK'
  BY <1>1, <1>2, <1>3, <1>4, EndsInv DEF TypeOK
<1>6. Orderly
  BY <1>1, OrderlyIfSeated
<1> QED BY <1>1, <1>3, <1>4, <1>5, <1>6, EndsInv DEF FinishedOrLeft

(* The lead, and time. *)
LEMMA LeadInv ==
  ASSUME CohortInv, Graduate \/ RecordDeparture \/ RunsOut \/ UNCHANGED vars
  PROVE  CohortInv' /\ Orderly
<1> USE DEF CohortInv
<1>1. UNCHANGED <<role, cap, archived, messages, milestones, lock, pc, memo>>
  BY DEF Graduate, RecordDeparture, RunsOut, vars, members, terms, content
<1>2. graduated' \subseteq User /\ left' \subseteq User /\ graduated' \cap left' = {}
  BY DEF Graduate, RecordDeparture, RunsOut, vars, members, FinishedOrLeft, TypeOK
<1>3. TypeOK'
  BY <1>1, <1>2 DEF TypeOK
<1>4. Orderly
  BY <1>1, OrderlyIfSeated
<1>5. \A w \in Worker : Remembers(w)' /\ StillMay(w)'
  BY <1>1, MayStill DEF Remembers, Undisturbed
<1> QED BY <1>1, <1>2, <1>3, <1>4, <1>5 DEF FinishedOrLeft

-----------------------------------------------------------------------------
(* Two organizers are more than one. *)
LEMMA OthersIfTwo ==
  ASSUME NEW u, Cardinality(Organizers) > 1
  PROVE  \E o \in Organizers : o # u
<1> SUFFICES ASSUME \A o \in Organizers : o = u PROVE FALSE
  OBVIOUS
<1>1. Organizers \subseteq {u}
  OBVIOUS
<1>2. IsFiniteSet({u}) /\ Cardinality({u}) = 1
  BY FS_Singleton
<1>3. Cardinality(Organizers) <= Cardinality({u}) /\ Cardinality(Organizers) \in Nat
  BY <1>1, <1>2, FS_Subset, FS_CardinalityType
<1> QED BY <1>2, <1>3

LEMMA CohortNextInv == CohortInv /\ [Next]_vars => CohortInv' /\ Orderly
<1> SUFFICES ASSUME CohortInv, [Next]_vars PROVE CohortInv' /\ Orderly
  OBVIOUS
<1>1. ASSUME NEW w \in Worker, Join(w) \/ Leave(w) \/ Remove(w) \/ Add(w)
      PROVE  CohortInv' /\ Orderly
  <2>1. CASE Join(w)
    BY <2>1, TakesInv DEF Join, Writable
  <2>2. CASE Leave(w)
    <3>1. PICK u \in User : MayLeave(u) /\ Takes(w, "idle", "locked leave", u)
      BY <2>2 DEF Leave
    <3>2. OthersOrganize(u)
      <4>1. role[u] = "organizer" => Cardinality(Organizers) > 1
        BY <3>1 DEF MayLeave
      <4>2. Cardinality(Organizers) > 1 => \E o \in Organizers : o # u
        BY OthersIfTwo
      <4> QED BY <4>1, <4>2 DEF OthersOrganize
    <3> QED BY <3>1, <3>2, TakesInv
  <2>3. CASE Remove(w)
    <3>1. memo[w] \in User
      BY <2>3 DEF Remove, Takes, Step, CohortInv, Remembers
    <3> QED BY <2>3, <3>1, TakesInv, OthersIfTwo DEF Remove, MayLeave, OthersOrganize
  <2>4. CASE Add(w)
    <3>1. memo[w] \in Request
      BY <2>4 DEF Add, Takes, Step, CohortInv, Remembers
    <3> QED BY <2>4, <3>1, TakesInv DEF Add, Writable
  <2> QED BY <1>1, <2>1, <2>2, <2>3, <2>4
<1>2. ASSUME NEW w \in Worker,
             \/ AskRemoval(w) \/ AskAddition(w) \/ AskUpdate(w) \/ AskArchive(w)
             \/ AskMilestone(w) \/ AskErasure(w) \/ AskPost(w) \/ AskOutcome(w)
      PROVE  CohortInv' /\ Orderly
  <2>1. CASE AskRemoval(w)
    BY <2>1, ReadsInv DEF AskRemoval
  <2>2. CASE AskAddition(w)
    <3>1. PICK u \in User, r \in {"member", "organizer"} : Reads(w, "idle", "add", [user |-> u, role |-> r])
      BY <2>2 DEF AskAddition
    <3>2. [user |-> u, role |-> r] \in Request
      BY DEF Request
    <3> QED BY <3>1, <3>2, ReadsInv
  <2>3. CASE AskUpdate(w)
    BY <2>3, ReadsInv DEF AskUpdate
  <2>4. CASE AskOutcome(w)
    <3>1. PICK u \in User, done \in BOOLEAN : Reads(w, "idle", "outcome", [user |-> u, done |-> done])
      BY <2>4 DEF AskOutcome, Seated
    <3>2. [user |-> u, done |-> done] \in Finished
      BY DEF Finished
    <3> QED BY <3>1, <3>2, ReadsInv
  <2>5. CASE AskArchive(w) \/ AskMilestone(w) \/ AskErasure(w) \/ AskPost(w)
    BY <2>5, ReadsInv DEF AskArchive, AskMilestone, AskErasure, AskPost
  <2> QED BY <1>2, <2>1, <2>2, <2>3, <2>4, <2>5
<1>3. CASE Graduate \/ RecordDeparture \/ RunsOut \/ UNCHANGED vars
  BY <1>3, LeadInv
<1> QED BY <1>1, <1>2, <1>3, JoinedInv, AddedInv, LeftInv, TermsInv, ContentInv DEF Next

LEMMA CohortInitInv == Init => CohortInv
<1> SUFFICES ASSUME Init PROVE CohortInv
  OBVIOUS
<1> USE DEF Init
<1>1. TypeOK
  BY CohortsAssumption DEF TypeOK
<1> QED BY <1>1 DEF CohortInv, FinishedOrLeft, Remembers, StillMay

LEMMA CohortInvariance == Spec => []CohortInv
BY CohortInitInv, CohortNextInv, PTL DEF Spec

(* leadership_practice.rs and education.rs: nobody has both finished the   *)
(* cohort and left it, and the rows keep to their types.                   *)
THEOREM FinishedOrLeftIsKept == Spec => []CohortIsSound
<1>1. CohortInv => CohortIsSound
  BY DEF CohortInv, CohortIsSound
<1> QED BY <1>1, CohortInvariance, PTL

(* cohorts.rs, join and add_member: no arrival takes the headcount past    *)
(* max_members or into an archived cohort, however many requests raced for *)
(* the last seat.                                                          *)
THEOREM ArrivalsHaveASeat == Spec => ArrivalsFit
<1>1. CohortInv /\ [Next]_vars => [Arrival => ~archived /\ Cardinality(Seated') <= cap']_vars
  BY CohortNextInv DEF Orderly
<1> QED BY <1>1, CohortInvariance, PTL DEF Spec, ArrivalsFit

(* cohorts.rs, leave: organizers who leave at the same time do not all go. *)
THEOREM AnOrganizerStays == Spec => OrganizerStays
<1>1. CohortInv /\ [Next]_vars => [Departure /\ Organizers # {} => Organizers' # {}]_vars
  BY CohortNextInv DEF Orderly
<1> QED BY <1>1, CohortInvariance, PTL DEF Spec, OrganizerStays

-----------------------------------------------------------------------------
(* Part 2.  Guilds: who belongs to one, and who leads it.                  *)

FounderOf(u, g) == home[u] = g /\ grole[u] = "founder"
Exists(g)       == state[g] # "none"
Led(g)          == \E u \in Person : FounderOf(u, g)

(* What each step of a request remembers, and what is still true of it:    *)
(* whoever may be unseated or given a role does not found that guild.      *)
KnowsWho(w) ==
  /\ gpc[w] \in {"join", "seat", "leave", "kick", "cool", "promote", "accept", "decide"} =>
       gmemo[w].user \in Person /\ gmemo[w].guild \in Hall
  /\ gpc[w] = "promote" => gmemo[w].role \in {"officer", "member", "recruit"}
  /\ gpc[w] = "revoke"  => gmemo[w] \in invited
  /\ gpc[w] = "accept"  => <<gmemo[w].guild, gmemo[w].user>> \in invited

KnowsWhere(w) ==
  /\ gpc[w] \in {"seat", "leave", "kick"} => Exists(gmemo[w].guild)
  /\ gpc[w] = "kick" \/ (gpc[w] = "leave" /\ gmemo[w].role # "founder") =>
       ~FounderOf(gmemo[w].user, gmemo[w].guild)

(* The requests that have counted the members and not taken their seat yet. *)
Seating(g) == {w \in Worker : gpc[w] = "seat" /\ gmemo[w].guild = g}

HasRoom(g) ==
  Cardinality(G!Members(g)) + Cardinality(Seating(g)) < MaxMembers + Cardinality(Worker)

GuildsInv ==
  /\ G!TypeOK
  /\ \A g \in Hall \ misled : state[g] = "active" => Led(g)
  /\ \A g \in Hall : G!Members(g) # {} => Exists(g)
  /\ gmemo = [w \in Worker |-> gmemo[w]]
  /\ \A w \in Worker : KnowsWho(w) /\ KnowsWhere(w)
  /\ \A g \in Hall : HasRoom(g)

(* What every step keeps: a guild that exists goes on existing, and gets   *)
(* no new founder.                                                         *)
NoNewFounders ==
  /\ \A g \in Hall : Exists(g) => Exists(g)' /\ \A u \in Person : FounderOf(u, g)' => FounderOf(u, g)
  /\ invited \subseteq invited'

(* Nobody new is seated, or about to be. *)
NobodySeated ==
  \A g \in Hall : G!Members(g)' \subseteq G!Members(g) /\ Seating(g)' \subseteq Seating(g)

(* G is an instance, and brings its own name for the same count. *)
LEMMA SameCount == \A S : G!Cardinality(S) = Cardinality(S)
BY DEF G!Cardinality, Cardinality

LEMMA PeopleAreFinite ==
  ASSUME NEW g
  PROVE  /\ IsFiniteSet(G!Members(g)) /\ Cardinality(G!Members(g)) \in Nat
         /\ IsFiniteSet(Seating(g)) /\ Cardinality(Seating(g)) \in Nat
         /\ Cardinality(Seating(g)) <= Cardinality(Worker) /\ Cardinality(Worker) \in Nat
<1>1. G!Members(g) \subseteq Person /\ Seating(g) \subseteq Worker
  BY DEF G!Members, Seating
<1> QED BY <1>1, GuildsAssumption, FS_Subset, FS_CardinalityType

LEMMA PeopleStillFinite ==
  ASSUME NEW g
  PROVE  /\ IsFiniteSet(G!Members(g)') /\ Cardinality(G!Members(g)') \in Nat
         /\ IsFiniteSet(Seating(g)') /\ Cardinality(Seating(g)') \in Nat
         /\ Cardinality(Seating(g)') <= Cardinality(Worker) /\ Cardinality(Worker) \in Nat
<1>1. G!Members(g)' \subseteq Person /\ Seating(g)' \subseteq Worker
  BY DEF G!Members, Seating
<1> QED BY <1>1, GuildsAssumption, FS_Subset, FS_CardinalityType

LEMMA RoomIsKept ==
  ASSUME NEW g, HasRoom(g), G!Members(g)' \subseteq G!Members(g), Seating(g)' \subseteq Seating(g)
  PROVE  HasRoom(g)'
<1> DEFINE a == Cardinality(G!Members(g))
           b == Cardinality(Seating(g))
           c == Cardinality(G!Members(g)')
           d == Cardinality(Seating(g)')
<1>1. c <= a /\ d <= b
  BY PeopleAreFinite, FS_Subset
<1>2. a \in Nat /\ b \in Nat /\ c \in Nat /\ d \in Nat /\ Cardinality(Worker) \in Nat /\ MaxMembers \in Nat
  BY PeopleAreFinite, PeopleStillFinite, GuildsAssumption
<1>3. a + b < MaxMembers + Cardinality(Worker)
  BY DEF HasRoom
<1>4. c + d < MaxMembers + Cardinality(Worker)
  <2> HIDE DEF a, b, c, d
  <2> QED BY <1>1, <1>2, <1>3
<1> QED BY <1>4 DEF HasRoom

(* A request that stays where it is still knows what it knew. *)
LEMMA KnowsStill ==
  ASSUME GuildsInv, NoNewFounders, NEW w \in Worker, gpc'[w] = gpc[w], gmemo'[w] = gmemo[w]
  PROVE  KnowsWho(w)' /\ KnowsWhere(w)'
<1>1. KnowsWho(w) /\ KnowsWhere(w)
  BY DEF GuildsInv
<1>2. KnowsWho(w)'
  BY <1>1 DEF KnowsWho, NoNewFounders
<1>3. KnowsWhere(w)'
  BY <1>1 DEF KnowsWho, KnowsWhere, NoNewFounders
<1> QED BY <1>2, <1>3

-----------------------------------------------------------------------------
(* A step of one request that seats nobody. *)
LEMMA OneRequest ==
  ASSUME GuildsInv, NEW w \in Worker, NoNewFounders, G!TypeOK',
         \A x \in Worker \ {w} : gpc'[x] = gpc[x] /\ gmemo'[x] = gmemo[x],
         gmemo' = [x \in Worker |-> gmemo'[x]],
         KnowsWho(w)', KnowsWhere(w)', gpc'[w] # "seat",
         \A g \in Hall : G!Members(g)' \subseteq G!Members(g),
         \A g \in Hall \ misled' : state'[g] = "active" => Led(g)'
  PROVE  GuildsInv'
<1>1. \A x \in Worker : KnowsWho(x)' /\ KnowsWhere(x)'
  BY KnowsStill
<1>2. \A g \in Hall : Seating(g)' \subseteq Seating(g)
  BY DEF Seating
<1>3. \A g \in Hall : HasRoom(g)'
  <2>1. \A g \in Hall : HasRoom(g)
    BY DEF GuildsInv
  <2> QED BY <1>2, <2>1, RoomIsKept
<1>4. \A g \in Hall : G!Members(g)' # {} => Exists(g)'
  BY DEF GuildsInv, NoNewFounders
<1> QED BY <1>1, <1>3, <1>4 DEF GuildsInv

(* A step that changes no membership. *)
LEMMA RostersStay ==
  ASSUME GuildsInv, UNCHANGED <<state, home, grole>>, invited \subseteq invited', misled' = misled
  PROVE  /\ NoNewFounders
         /\ \A g \in Hall : G!Members(g)' \subseteq G!Members(g)
         /\ \A g \in Hall \ misled' : state'[g] = "active" => Led(g)'
         /\ \A u \in Person : home'[u] = None <=> grole'[u] = None
         /\ state' \in [Hall -> {"none", "active", "disbanded"}] /\ home' \in [Person -> Hall \cup {None}]
         /\ grole' \in [Person -> {None, "founder", "officer", "member", "recruit"}]
BY DEF GuildsInv, NoNewFounders, Exists, FounderOf, Led, G!Members, G!TypeOK

GuildSteps == {"idle", "join", "seat", "leave", "kick", "cool", "promote", "revoke", "accept", "decide"}

(* A request begins. *)
LEMMA GuildBeginsInv ==
  ASSUME GuildsInv, NEW w \in Worker, NEW to, NEW value, G!Begins(w, to, value),
         to \in {"join", "leave", "kick", "promote", "revoke", "accept", "decide"},
         to # "revoke" => value.user \in Person /\ value.guild \in Hall,
         to = "promote" => value.role \in {"officer", "member", "recruit"},
         to = "revoke" => value \in invited,
         to = "accept" => <<value.guild, value.user>> \in invited,
         to \in {"leave", "kick"} => Exists(value.guild),
         to = "kick" \/ (to = "leave" /\ value.role # "founder") => ~FounderOf(value.user, value.guild)
  PROVE  GuildsInv'
<1>1. /\ gpc' = [gpc EXCEPT ![w] = to] /\ gmemo' = [gmemo EXCEPT ![w] = value] /\ misled' = misled
      /\ UNCHANGED <<state, home, grole, cooling, invited, accepted, revoked, applied>>
  BY DEF G!Begins, G!Step, G!Keeps, G!Arrives, G!rosters, G!offers
<1>2. gpc'[w] = to /\ gmemo'[w] = value /\ \A x \in Worker \ {w} : gpc'[x] = gpc[x] /\ gmemo'[x] = gmemo[x]
  BY <1>1 DEF GuildsInv, G!TypeOK
<1>3. gpc' \in [Worker -> GuildSteps]
  BY <1>1 DEF GuildsInv, G!TypeOK, GuildSteps
<1>4. G!TypeOK'
  BY <1>1, <1>3 DEF GuildsInv, G!TypeOK, GuildSteps
<1>5. KnowsWho(w)' /\ KnowsWhere(w)'
  BY <1>1, <1>2 DEF KnowsWho, KnowsWhere, Exists, FounderOf
<1>6. gmemo' = [x \in Worker |-> gmemo'[x]]
  BY <1>1 DEF GuildsInv
<1> QED BY <1>1, <1>2, <1>4, <1>5, <1>6, RostersStay, OneRequest

(* A request goes on to another step, or is over, and seats nobody. *)
LEMMA GuildGoesOn ==
  ASSUME GuildsInv, NEW w \in Worker, NEW from, NEW to \in GuildSteps, gpc[w] = from, to # "seat",
         gpc' = [gpc EXCEPT ![w] = to],
         \/ to = "idle" /\ gmemo' = [gmemo EXCEPT ![w] = None]
         \/ to \in {"join", "cool"} /\ from \in {"accept", "decide", "kick"} /\ gmemo' = gmemo
  PROVE  /\ gpc' \in [Worker -> GuildSteps]
         /\ \A x \in Worker \ {w} : gpc'[x] = gpc[x] /\ gmemo'[x] = gmemo[x]
         /\ gmemo' = [x \in Worker |-> gmemo'[x]]
         /\ KnowsWho(w)' /\ KnowsWhere(w)' /\ gpc'[w] # "seat"
<1>1. gpc'[w] = to /\ \A x \in Worker \ {w} : gpc'[x] = gpc[x] /\ gmemo'[x] = gmemo[x]
  BY DEF GuildsInv, G!TypeOK
<1>2. gpc' \in [Worker -> GuildSteps]
  BY DEF GuildsInv, G!TypeOK, GuildSteps
<1>3. gmemo' = [x \in Worker |-> gmemo'[x]]
  BY DEF GuildsInv
<1>4. KnowsWho(w)
  BY DEF GuildsInv
<1>5. KnowsWho(w)' /\ KnowsWhere(w)'
  BY <1>1, <1>4 DEF KnowsWho, KnowsWhere
<1> QED BY <1>1, <1>2, <1>3, <1>5

-----------------------------------------------------------------------------
(* The requests that begin. *)
LEMMA GuildAsksInv ==
  ASSUME GuildsInv, NEW w \in Worker,
         G!ComeIn(w) \/ G!Leave(w) \/ G!Kick(w) \/ G!Promote(w) \/ G!Accept(w) \/ G!Revoke(w) \/ G!Decide(w)
  PROVE  GuildsInv'
<1>1. \A g \in Hall : G!Members(g) # {} => Exists(g)
  BY DEF GuildsInv
<1>2. CASE G!ComeIn(w)
  <2>1. PICK g \in Hall, u \in Person : G!Begins(w, "join", [user |-> u, guild |-> g])
    BY <1>2 DEF G!ComeIn
  <2> QED BY <2>1, GuildBeginsInv
<1>3. CASE G!Leave(w)
  <2>1. PICK u \in Person :
          home[u] # None /\ G!Begins(w, "leave", [user |-> u, guild |-> home[u], role |-> grole[u]])
    BY <1>3 DEF G!Leave
  <2>2. home[u] \in Hall /\ Exists(home[u])
    BY <1>1, <2>1 DEF GuildsInv, G!TypeOK, G!Members
  <2>3. grole[u] # "founder" => ~FounderOf(u, home[u])
    BY DEF FounderOf
  <2> QED BY <2>1, <2>2, <2>3, GuildBeginsInv
<1>4. ASSUME NEW g \in Hall, G!Officers(g) # {} PROVE Exists(g)
  BY <1>1, <1>4 DEF G!Officers
<1>5. CASE G!Kick(w)
  <2>1. PICK g \in Hall, u \in Person :
          G!Officers(g) # {} /\ G!Kickable(u, g) /\ G!Begins(w, "kick", [user |-> u, guild |-> g])
    BY <1>5 DEF G!Kick
  <2>2. Exists(g) /\ ~FounderOf(u, g)
    BY <1>4, <2>1 DEF G!Kickable, FounderOf
  <2> QED BY <2>1, <2>2, GuildBeginsInv
<1>6. CASE G!Promote(w)
  <2>1. PICK g \in Hall, u \in Person, r \in {"officer", "member", "recruit"} :
          G!Begins(w, "promote", [user |-> u, guild |-> g, role |-> r])
    BY <1>6 DEF G!Promote
  <2> QED BY <2>1, GuildBeginsInv
<1>7. CASE G!Accept(w)
  <2>1. PICK p \in invited : G!Begins(w, "accept", [user |-> p[2], guild |-> p[1]])
    BY <1>7 DEF G!Accept, G!Usable
  <2>2. p[1] \in Hall /\ p[2] \in Person /\ p = <<p[1], p[2]>>
    BY DEF GuildsInv, G!TypeOK
  <2> QED BY <2>1, <2>2, GuildBeginsInv
<1>8. CASE G!Revoke(w)
  <2>1. PICK p \in invited : G!Begins(w, "revoke", p)
    BY <1>8 DEF G!Revoke, G!Usable
  <2> QED BY <2>1, GuildBeginsInv
<1>9. CASE G!Decide(w)
  <2>1. PICK g \in Hall, u \in Person, yes \in BOOLEAN :
          G!Begins(w, "decide", [user |-> u, guild |-> g, yes |-> yes])
    BY <1>9 DEF G!Decide
  <2> QED BY <2>1, GuildBeginsInv
<1> QED BY <1>2, <1>3, <1>5, <1>6, <1>7, <1>8, <1>9

-----------------------------------------------------------------------------
(* The steps that write something else than who belongs to what. *)
LEMMA GuildNotesInv ==
  ASSUME GuildsInv, NEW w \in Worker,
         \/ G!Cool(w) \/ G!MarkAccepted(w) \/ G!MarkRevoked(w) \/ G!MarkDecided(w)
         \/ G!Refused(w) \/ G!CutOff(w)
  PROVE  GuildsInv'
<1> USE DEF G!Ends, G!Settles, G!Step, G!Forgets, G!Keeps, G!rosters, G!offers, G!bounds, GuildSteps
<1>1. /\ UNCHANGED <<state, home, grole>> /\ misled' = misled /\ invited' = invited
      /\ \E to \in {"idle", "join", "cool"} :
           /\ gpc' = [gpc EXCEPT ![w] = to]
           /\ \/ to = "idle" /\ gmemo' = [gmemo EXCEPT ![w] = None]
              \/ to \in {"join", "cool"} /\ gpc[w] \in {"accept", "decide", "kick"} /\ gmemo' = gmemo
  BY DEF G!Cool, G!MarkAccepted, G!MarkRevoked, G!MarkDecided, G!Refused, G!CutOff
<1>2. /\ gpc' \in [Worker -> GuildSteps]
      /\ \A x \in Worker \ {w} : gpc'[x] = gpc[x] /\ gmemo'[x] = gmemo[x]
      /\ gmemo' = [x \in Worker |-> gmemo'[x]]
      /\ KnowsWho(w)' /\ KnowsWhere(w)' /\ gpc'[w] # "seat"
  BY <1>1, GuildGoesOn
<1>3. KnowsWho(w)
  BY DEF GuildsInv
<1>4. /\ cooling' \subseteq Person /\ accepted' \cup revoked' \subseteq invited'
      /\ applied' \in [Hall \X Person -> {None, "pending", "accepted", "rejected"}]
  BY <1>3 DEF GuildsInv, G!TypeOK, KnowsWho, G!Cool, G!MarkAccepted, G!MarkRevoked, G!MarkDecided,
              G!Refused, G!CutOff, G!Pair
<1>5. G!TypeOK'
  BY <1>1, <1>2, <1>4 DEF GuildsInv, G!TypeOK
<1> QED BY <1>1, <1>2, <1>5, RostersStay, OneRequest

(* The requests of one step that change no membership, and time. *)
LEMMA GuildOffersInv ==
  ASSUME GuildsInv, (\E w \in Worker : G!Invite(w) \/ G!Apply(w)) \/ G!CooldownOver \/ UNCHANGED guilds
  PROVE  GuildsInv'
<1> USE DEF G!Whole, G!Arrives, G!rosters, G!offers, G!bounds, guilds
<1>1. /\ UNCHANGED <<state, home, grole, gpc, gmemo>> /\ misled' = misled /\ invited \subseteq invited'
  BY DEF G!Invite, G!Apply, G!CooldownOver
<1>2. /\ cooling' \subseteq Person /\ accepted' \cup revoked' \subseteq invited' /\ invited' \subseteq Hall \X Person
      /\ applied' \in [Hall \X Person -> {None, "pending", "accepted", "rejected"}]
  <2>1. CASE \E w \in Worker : G!Invite(w)
    <3>1. PICK g \in Hall, u \in Person : invited' = invited \cup {<<g, u>>}
      BY <2>1 DEF G!Invite
    <3>2. UNCHANGED <<cooling, accepted, revoked, applied>>
      BY <2>1 DEF G!Invite
    <3> QED BY <3>1, <3>2 DEF GuildsInv, G!TypeOK
  <2>2. CASE \E w \in Worker : G!Apply(w)
    <3>1. PICK p \in Hall \X Person : applied' = [applied EXCEPT ![p] = "pending"]
      BY <2>2 DEF G!Apply
    <3>2. UNCHANGED <<cooling, invited, accepted, revoked>>
      BY <2>2 DEF G!Apply
    <3> QED BY <3>1, <3>2 DEF GuildsInv, G!TypeOK
  <2>3. CASE G!CooldownOver \/ UNCHANGED guilds
    BY <2>3 DEF GuildsInv, G!TypeOK, G!CooldownOver
  <2> QED BY <2>1, <2>2, <2>3
<1>3. G!TypeOK'
  BY <1>1, <1>2 DEF GuildsInv, G!TypeOK
<1>4. NoNewFounders
  BY <1>1, RostersStay
<1>5. \A x \in Worker : KnowsWho(x)' /\ KnowsWhere(x)'
  BY <1>1, <1>4, KnowsStill
<1>6. \A g \in Hall : G!Members(g)' = G!Members(g) /\ Seating(g)' = Seating(g)
  BY <1>1 DEF G!Members, Seating
<1>7. (\A g \in Hall : HasRoom(g)') /\ \A g \in Hall : G!Members(g)' # {} => Exists(g)'
  BY <1>1, <1>6 DEF GuildsInv, HasRoom, Exists
<1>8. \A g \in Hall \ misled' : state'[g] = "active" => Led(g)'
  BY <1>1 DEF GuildsInv, Led, FounderOf
<1>9. gmemo' = [x \in Worker |-> gmemo'[x]]
  BY <1>1 DEF GuildsInv
<1> QED BY <1>3, <1>5, <1>7, <1>8, <1>9 DEF GuildsInv

-----------------------------------------------------------------------------
(* A join: counted, then seated. *)
LEMMA CheckSeatInv == ASSUME GuildsInv, NEW w \in Worker, G!CheckSeat(w) PROVE GuildsInv'
<1> USE DEF G!Step, G!rosters, G!offers, G!bounds
<1> DEFINE h == gmemo[w].guild
<1>1. /\ gpc[w] = "join" /\ gpc' = [gpc EXCEPT ![w] = "seat"] /\ gmemo' = gmemo /\ misled' = misled
      /\ UNCHANGED <<state, home, grole, cooling, invited, accepted, revoked, applied>>
  BY DEF G!CheckSeat
<1>2. state[h] = "active" /\ Cardinality(G!Members(h)) < MaxMembers
  BY SameCount DEF G!CheckSeat, G!MayJoin, G!Seats
<1>3. gpc'[w] = "seat" /\ \A x \in Worker \ {w} : gpc'[x] = gpc[x]
  BY <1>1 DEF GuildsInv, G!TypeOK
<1>4. gpc' \in [Worker -> GuildSteps]
  BY <1>1 DEF GuildsInv, G!TypeOK, GuildSteps
<1>5. G!TypeOK'
  BY <1>1, <1>4 DEF GuildsInv, G!TypeOK, GuildSteps
<1>6. NoNewFounders /\ \A g \in Hall : G!Members(g)' = G!Members(g)
  BY <1>1, RostersStay DEF G!Members
<1>7. KnowsWho(w) /\ KnowsWhere(w)
  BY DEF GuildsInv
<1>8. KnowsWho(w)' /\ KnowsWhere(w)'
  BY <1>1, <1>2, <1>3, <1>7 DEF KnowsWho, KnowsWhere, Exists
<1>9. \A x \in Worker : KnowsWho(x)' /\ KnowsWhere(x)'
  BY <1>1, <1>3, <1>6, <1>8, KnowsStill
<1>10. ASSUME NEW g \in Hall PROVE HasRoom(g)'
  <2>1. CASE g = h
    <3>1. Cardinality(G!Members(g)') < MaxMembers
      BY <1>2, <1>6, <2>1
    <3>2. /\ Cardinality(Seating(g)') <= Cardinality(Worker) /\ Cardinality(Seating(g)') \in Nat
          /\ Cardinality(Worker) \in Nat /\ Cardinality(G!Members(g)') \in Nat /\ MaxMembers \in Nat
      BY PeopleStillFinite, GuildsAssumption
    <3> HIDE DEF h
    <3>3. Cardinality(G!Members(g)') + Cardinality(Seating(g)') < MaxMembers + Cardinality(Worker)
      BY <3>1, <3>2
    <3> QED BY <3>3 DEF HasRoom
  <2>2. CASE g # h
    <3>1. Seating(g)' = Seating(g)
      BY <1>1, <1>3, <2>2 DEF Seating
    <3>2. HasRoom(g)
      BY DEF GuildsInv
    <3> QED BY <1>6, <3>1, <3>2, RoomIsKept
  <2> QED BY <2>1, <2>2
<1>11. \A g \in Hall : G!Members(g)' # {} => Exists(g)'
  BY <1>1, <1>6 DEF GuildsInv, Exists
<1>12. \A g \in Hall \ misled' : state'[g] = "active" => Led(g)'
  BY <1>1 DEF GuildsInv, Led, FounderOf
<1>13. gmemo' = [x \in Worker |-> gmemo'[x]]
  BY <1>1 DEF GuildsInv
<1> QED BY <1>5, <1>9, <1>10, <1>11, <1>12, <1>13 DEF GuildsInv

LEMMA TakeSeatInv == ASSUME GuildsInv, NEW w \in Worker, G!TakeSeat(w) PROVE GuildsInv'
<1> USE DEF G!Ends, G!Settles, G!Step, G!Forgets, G!Keeps, G!rosters, G!offers, G!bounds, GuildSteps
<1> PICK u, h : u = gmemo[w].user /\ h = gmemo[w].guild
  OBVIOUS
<1>1. /\ gpc[w] = "seat" /\ gpc' = [gpc EXCEPT ![w] = "idle"] /\ gmemo' = [gmemo EXCEPT ![w] = None]
      /\ UNCHANGED <<state, cooling, invited, accepted, revoked, applied>> /\ misled' = misled
      /\ home[u] = None /\ home' = [home EXCEPT ![u] = h] /\ grole' = [grole EXCEPT ![u] = "recruit"]
  BY DEF G!TakeSeat, G!Seat
<1>2. u \in Person /\ h \in Hall /\ Exists(h)
  BY <1>1 DEF GuildsInv, KnowsWho, KnowsWhere
<1>3. /\ gpc' \in [Worker -> GuildSteps]
      /\ \A x \in Worker \ {w} : gpc'[x] = gpc[x] /\ gmemo'[x] = gmemo[x]
      /\ gmemo' = [x \in Worker |-> gmemo'[x]]
      /\ KnowsWho(w)' /\ KnowsWhere(w)' /\ gpc'[w] # "seat"
  BY <1>1, GuildGoesOn
<1>4. /\ home'[u] = h /\ grole'[u] = "recruit" /\ grole[u] = None
      /\ \A v \in Person \ {u} : home'[v] = home[v] /\ grole'[v] = grole[v]
  BY <1>1, <1>2 DEF GuildsInv, G!TypeOK
<1>5. home' \in [Person -> Hall \cup {None}] /\ grole' \in [Person -> {None, "founder", "officer", "member", "recruit"}]
  BY <1>1, <1>2 DEF GuildsInv, G!TypeOK
<1>6. None \notin Hall /\ None # "recruit"
  BY <1>4, GuildsAssumption DEF GuildsInv, G!TypeOK
<1>7. \A v \in Person : home'[v] = None <=> grole'[v] = None
  BY <1>2, <1>4, <1>6 DEF GuildsInv, G!TypeOK
<1>8. G!TypeOK'
  BY <1>1, <1>3, <1>5, <1>7 DEF GuildsInv, G!TypeOK
<1>9. NoNewFounders
  BY <1>1, <1>2, <1>4 DEF NoNewFounders, FounderOf, Exists
<1>10. \A x \in Worker : KnowsWho(x)' /\ KnowsWhere(x)'
  BY <1>3, <1>9, KnowsStill
<1>11. ASSUME NEW g \in Hall PROVE HasRoom(g)'
  <2>1. HasRoom(g)
    BY DEF GuildsInv
  <2>2. CASE g # h
    <3>1. G!Members(g)' \subseteq G!Members(g) /\ Seating(g)' \subseteq Seating(g)
      BY <1>1, <1>3, <1>4, <1>6, <2>2 DEF G!Members, Seating
    <3> QED BY <2>1, <3>1, RoomIsKept
  <2>3. CASE g = h
    <3>1. G!Members(g)' = G!Members(g) \cup {u} /\ u \notin G!Members(g)
      BY <1>1, <1>2, <1>4, <1>6, <2>3 DEF G!Members
    <3>2. Seating(g)' = Seating(g) \ {w} /\ w \in Seating(g)
      BY <1>1, <1>3, <2>3 DEF Seating
    <3>3. Cardinality(G!Members(g)') = Cardinality(G!Members(g)) + 1
      BY <3>1, PeopleAreFinite, FS_AddElement
    <3>4. Cardinality(Seating(g)') = Cardinality(Seating(g)) - 1
      BY <3>2, PeopleAreFinite, FS_RemoveElement
    <3>5. /\ Cardinality(G!Members(g)) \in Nat /\ Cardinality(Seating(g)) \in Nat
          /\ Cardinality(Worker) \in Nat /\ MaxMembers \in Nat
      BY PeopleAreFinite, GuildsAssumption
    <3>6. Cardinality(G!Members(g)') + Cardinality(Seating(g)') < MaxMembers + Cardinality(Worker)
      BY <2>1, <3>3, <3>4, <3>5 DEF HasRoom
    <3> QED BY <3>6 DEF HasRoom
  <2> QED BY <2>2, <2>3
<1>12. \A g \in Hall : G!Members(g)' # {} => Exists(g)'
  BY <1>1, <1>2, <1>4 DEF GuildsInv, Exists, G!Members
<1>13. \A g \in Hall \ misled' : state'[g] = "active" => Led(g)'
  BY <1>1, <1>2, <1>4, <1>6 DEF GuildsInv, Led, FounderOf
<1> QED BY <1>3, <1>8, <1>10, <1>11, <1>12, <1>13 DEF GuildsInv

-----------------------------------------------------------------------------
(* The steps that take members out. *)
LEMMA UnseatKeeps ==
  ASSUME GuildsInv, NEW us, G!Unseat(us)
  PROVE  /\ home' \in [Person -> Hall \cup {None}]
         /\ grole' \in [Person -> {None, "founder", "officer", "member", "recruit"}]
         /\ \A v \in Person : home'[v] = None <=> grole'[v] = None
         /\ \A v \in Person \ us : home'[v] = home[v] /\ grole'[v] = grole[v]
         /\ \A v \in us \cap Person : home'[v] = None
         /\ \A g \in Hall : G!Members(g)' \subseteq G!Members(g)
         /\ \A g \in Hall, v \in Person : FounderOf(v, g)' => FounderOf(v, g)
<1>1. None \notin Hall
  BY GuildsAssumption
<1>2. \A v \in Person : /\ home'[v] = IF v \in us THEN None ELSE home[v]
                        /\ grole'[v] = IF v \in us THEN None ELSE grole[v]
  BY DEF G!Unseat
<1>3. /\ home' \in [Person -> Hall \cup {None}]
      /\ grole' \in [Person -> {None, "founder", "officer", "member", "recruit"}]
  BY DEF GuildsInv, G!TypeOK, G!Unseat
<1>4. \A v \in Person : home'[v] = None <=> grole'[v] = None
  BY <1>2 DEF GuildsInv, G!TypeOK
<1>5. \A g \in Hall : G!Members(g)' \subseteq G!Members(g)
  BY <1>1, <1>2 DEF G!Members
<1>6. \A g \in Hall, v \in Person : FounderOf(v, g)' => FounderOf(v, g)
  BY <1>1, <1>2 DEF FounderOf
<1> QED BY <1>2, <1>3, <1>4, <1>5, <1>6

LEMMA KickedInv == ASSUME GuildsInv, NEW w \in Worker, G!Kicked(w) PROVE GuildsInv'
<1> USE DEF G!Step, G!offers, G!bounds
<1> PICK u, h : u = gmemo[w].user /\ h = gmemo[w].guild
  OBVIOUS
<1>1. /\ gpc[w] = "kick" /\ gpc' = [gpc EXCEPT ![w] = "cool"] /\ gmemo' = gmemo /\ misled' = misled
      /\ UNCHANGED <<state, cooling, invited, accepted, revoked, applied>>
      /\ G!Unseat(IF home[u] = h THEN {u} ELSE {})
  BY DEF G!Kicked, G!Expels
<1>2. u \in Person /\ h \in Hall /\ ~FounderOf(u, h)
  BY <1>1 DEF GuildsInv, KnowsWho, KnowsWhere
<1> DEFINE us == IF home[u] = h THEN {u} ELSE {}
<1>3. /\ home' \in [Person -> Hall \cup {None}]
      /\ grole' \in [Person -> {None, "founder", "officer", "member", "recruit"}]
      /\ \A v \in Person : home'[v] = None <=> grole'[v] = None
      /\ \A v \in Person \ us : home'[v] = home[v] /\ grole'[v] = grole[v]
      /\ \A g \in Hall : G!Members(g)' \subseteq G!Members(g)
      /\ \A g \in Hall, v \in Person : FounderOf(v, g)' => FounderOf(v, g)
  <2>1. G!Unseat(us)
    BY <1>1
  <2> HIDE DEF us
  <2> QED BY <2>1, UnseatKeeps
<1>4. /\ gpc' \in [Worker -> GuildSteps]
      /\ \A x \in Worker \ {w} : gpc'[x] = gpc[x] /\ gmemo'[x] = gmemo[x]
      /\ gmemo' = [x \in Worker |-> gmemo'[x]]
      /\ KnowsWho(w)' /\ KnowsWhere(w)' /\ gpc'[w] # "seat"
  BY <1>1, GuildGoesOn DEF GuildSteps
<1>5. G!TypeOK'
  BY <1>1, <1>3, <1>4 DEF GuildsInv, G!TypeOK, GuildSteps
<1>6. NoNewFounders
  BY <1>1, <1>3 DEF NoNewFounders, Exists
<1>7. ASSUME NEW g \in Hall \ misled', state'[g] = "active" PROVE Led(g)'
  <2>1. PICK v \in Person : FounderOf(v, g)
    BY <1>1, <1>7 DEF GuildsInv, Led
  <2>2. v \notin us
    BY <1>2, <2>1 DEF FounderOf
  <2>3. home'[v] = home[v] /\ grole'[v] = grole[v]
    BY <1>3, <2>2
  <2> QED BY <2>1, <2>3 DEF Led, FounderOf
<1> QED BY <1>3, <1>4, <1>5, <1>6, <1>7, OneRequest

LEMMA GuildLeftInv == ASSUME GuildsInv, NEW w \in Worker, G!Left(w) PROVE GuildsInv'
<1> USE DEF G!Settles, G!Step, G!Forgets, G!Keeps, G!offers
<1> PICK u, h, r : u = gmemo[w].user /\ h = gmemo[w].guild /\ r = gmemo[w].role
  OBVIOUS
<1>1. /\ gpc[w] = "leave" /\ gpc' = [gpc EXCEPT ![w] = "idle"] /\ gmemo' = [gmemo EXCEPT ![w] = None]
      /\ UNCHANGED <<invited, accepted, revoked, applied>>
      /\ state' = IF r = "founder" THEN [state EXCEPT ![h] = "disbanded"] ELSE state
      /\ G!Unseat({v \in {u} : home[v] # None})
      /\ cooling' = cooling \cup {u}
      /\ misled' = misled \cup {g \in Hall \ {h} : home[u] = g /\ grole[u] = "founder"}
  BY DEF G!Left
<1>2. u \in Person /\ h \in Hall /\ (r # "founder" => ~FounderOf(u, h))
  BY <1>1 DEF GuildsInv, KnowsWho, KnowsWhere
<1>3. /\ home' \in [Person -> Hall \cup {None}]
      /\ grole' \in [Person -> {None, "founder", "officer", "member", "recruit"}]
      /\ \A v \in Person : home'[v] = None <=> grole'[v] = None
      /\ \A v \in Person \ {u} : home'[v] = home[v] /\ grole'[v] = grole[v]
      /\ \A g \in Hall : G!Members(g)' \subseteq G!Members(g)
      /\ \A g \in Hall, v \in Person : FounderOf(v, g)' => FounderOf(v, g)
  <2> DEFINE us == {v \in {u} : home[v] # None}
  <2>1. G!Unseat(us) /\ us \subseteq {u}
    BY <1>1
  <2> HIDE DEF us
  <2> QED BY <2>1, UnseatKeeps
<1>4. /\ gpc' \in [Worker -> GuildSteps]
      /\ \A x \in Worker \ {w} : gpc'[x] = gpc[x] /\ gmemo'[x] = gmemo[x]
      /\ gmemo' = [x \in Worker |-> gmemo'[x]]
      /\ KnowsWho(w)' /\ KnowsWhere(w)' /\ gpc'[w] # "seat"
  BY <1>1, GuildGoesOn DEF GuildSteps
<1>5. /\ state' \in [Hall -> {"none", "active", "disbanded"}]
      /\ \A g \in Hall : /\ Exists(g) => state'[g] # "none"
                         /\ state'[g] = "active" => state[g] = "active" /\ ~(r = "founder" /\ g = h)
  BY <1>1, <1>2 DEF GuildsInv, G!TypeOK, Exists
<1>6. cooling' \subseteq Person
  BY <1>1, <1>2 DEF GuildsInv, G!TypeOK
<1>7. G!TypeOK'
  BY <1>1, <1>3, <1>4, <1>5, <1>6 DEF GuildsInv, G!TypeOK, GuildSteps
<1>8. NoNewFounders
  BY <1>1, <1>3, <1>5 DEF NoNewFounders, Exists
<1>9. ASSUME NEW g \in Hall \ misled', state'[g] = "active" PROVE Led(g)'
  <2>1. g \notin misled /\ state[g] = "active" /\ ~(r = "founder" /\ g = h)
    BY <1>1, <1>5, <1>9
  <2>2. PICK v \in Person : FounderOf(v, g)
    BY <2>1 DEF GuildsInv, Led
  <2>3. v # u
    BY <1>1, <1>2, <1>9, <2>1, <2>2 DEF FounderOf
  <2>4. home'[v] = home[v] /\ grole'[v] = grole[v]
    BY <1>3, <2>3
  <2> QED BY <2>2, <2>4 DEF Led, FounderOf
<1> QED BY <1>3, <1>4, <1>7, <1>8, <1>9, OneRequest

LEMMA PromotedInv == ASSUME GuildsInv, NEW w \in Worker, G!Promoted(w) PROVE GuildsInv'
<1> USE DEF G!Ends, G!Settles, G!Step, G!Forgets, G!Keeps, G!offers
<1> PICK u, h, r : u = gmemo[w].user /\ h = gmemo[w].guild /\ r = gmemo[w].role
  OBVIOUS
<1>1. /\ gpc[w] = "promote" /\ gpc' = [gpc EXCEPT ![w] = "idle"] /\ gmemo' = [gmemo EXCEPT ![w] = None]
      /\ UNCHANGED <<state, home, cooling, invited, accepted, revoked, applied>> /\ misled' = misled
      /\ home[u] = h /\ grole[u] # "founder" /\ grole' = [grole EXCEPT ![u] = r]
  BY DEF G!Promoted, G!Promotable
<1>2. u \in Person /\ h \in Hall /\ r \in {"officer", "member", "recruit"}
  BY <1>1 DEF GuildsInv, KnowsWho
<1>3. /\ grole'[u] = r /\ \A v \in Person \ {u} : grole'[v] = grole[v]
      /\ grole' \in [Person -> {None, "founder", "officer", "member", "recruit"}]
  BY <1>1, <1>2 DEF GuildsInv, G!TypeOK
<1>4. \A v \in Person : home'[v] = None <=> grole'[v] = None
  BY <1>1, <1>2, <1>3, GuildsAssumption DEF GuildsInv, G!TypeOK
<1>5. /\ gpc' \in [Worker -> GuildSteps]
      /\ \A x \in Worker \ {w} : gpc'[x] = gpc[x] /\ gmemo'[x] = gmemo[x]
      /\ gmemo' = [x \in Worker |-> gmemo'[x]]
      /\ KnowsWho(w)' /\ KnowsWhere(w)' /\ gpc'[w] # "seat"
  BY <1>1, GuildGoesOn DEF GuildSteps
<1>6. G!TypeOK'
  BY <1>1, <1>3, <1>4, <1>5 DEF GuildsInv, G!TypeOK, GuildSteps
<1>7. \A g \in Hall, v \in Person : FounderOf(v, g)' <=> FounderOf(v, g)
  BY <1>1, <1>2, <1>3 DEF FounderOf
<1>8. NoNewFounders
  BY <1>1, <1>7 DEF NoNewFounders, Exists
<1>9. \A g \in Hall \ misled' : state'[g] = "active" => Led(g)'
  BY <1>1, <1>7 DEF GuildsInv, Led
<1>10. \A g \in Hall : G!Members(g)' \subseteq G!Members(g)
  BY <1>1 DEF G!Members
<1> QED BY <1>5, <1>6, <1>8, <1>9, <1>10, OneRequest

-----------------------------------------------------------------------------
(* A guild begins, and an administrator ends it. *)
LEMMA CreateInv == ASSUME GuildsInv, NEW w \in Worker, G!Create(w) PROVE GuildsInv'
<1> USE DEF G!Whole, G!Arrives, G!offers
<1> PICK h \in Hall, c \in Companies :
      /\ state[h] = "none" /\ \A v \in {c.founder} \cup c.others : home[v] = None
      /\ state' = [state EXCEPT ![h] = "active"]
      /\ home'  = [v \in Person |-> IF v \in {c.founder} \cup c.others THEN h ELSE home[v]]
      /\ grole' = [v \in Person |-> CASE v = c.founder  -> "founder"
                                      [] v \in c.others -> "member"
                                      [] OTHER          -> grole[v]]
  BY DEF G!Create, G!Free
<1> DEFINE crew == {c.founder} \cup c.others
<1>1. UNCHANGED <<cooling, invited, accepted, revoked, applied, gpc, gmemo>> /\ misled' = misled
  BY DEF G!Create
<1>2. /\ c.founder \in Person /\ crew \subseteq Person /\ c.founder \notin c.others
      /\ IsFiniteSet(c.others) /\ Cardinality(c.others) < MaxMembers /\ None \notin Hall
  BY GuildsAssumption, FS_Subset
<1>3. /\ \A v \in crew : home'[v] = h /\ grole'[v] \in {"founder", "member"}
      /\ grole'[c.founder] = "founder"
      /\ \A v \in Person \ crew : home'[v] = home[v] /\ grole'[v] = grole[v]
  BY <1>2
<1>4. /\ home' \in [Person -> Hall \cup {None}]
      /\ grole' \in [Person -> {None, "founder", "officer", "member", "recruit"}]
  BY DEF GuildsInv, G!TypeOK
<1>5. \A v \in Person : home'[v] = None <=> grole'[v] = None
  <2>1. \A v \in Person \ crew : home'[v] = None <=> grole'[v] = None
    BY <1>3 DEF GuildsInv, G!TypeOK
  <2>2. \A v \in crew : home'[v] # None /\ grole'[v] # None
    BY <1>2, <1>3, GuildsAssumption
  <2> QED BY <2>1, <2>2
<1>6. /\ state' \in [Hall -> {"none", "active", "disbanded"}]
      /\ state'[h] = "active" /\ \A g \in Hall \ {h} : state'[g] = state[g]
  BY DEF GuildsInv, G!TypeOK
<1>7. G!TypeOK'
  BY <1>1, <1>4, <1>5, <1>6 DEF GuildsInv, G!TypeOK
<1>8. /\ G!Members(h)' = crew /\ Seating(h)' = {}
      /\ \A g \in Hall \ {h} : G!Members(g)' = G!Members(g) /\ Seating(g)' = Seating(g)
  <2>1. G!Members(h) = {} /\ Seating(h) = {}
    BY DEF GuildsInv, Exists, KnowsWhere, Seating
  <2>2. G!Members(h)' = crew
    BY <1>2, <1>3, <2>1 DEF G!Members
  <2>3. \A g \in Hall \ {h} : G!Members(g)' = G!Members(g)
    BY <1>2, <1>3 DEF G!Members
  <2>4. \A g \in Hall : Seating(g)' = Seating(g)
    BY <1>1 DEF Seating
  <2> QED BY <2>1, <2>2, <2>3, <2>4
<1>9. NoNewFounders
  BY <1>1, <1>3, <1>6 DEF NoNewFounders, Exists, FounderOf
<1>10. \A x \in Worker : KnowsWho(x)' /\ KnowsWhere(x)'
  BY <1>1, <1>9, KnowsStill
<1>11. ASSUME NEW g \in Hall PROVE HasRoom(g)'
  <2>1. CASE g # h
    <3>1. HasRoom(g)
      BY DEF GuildsInv
    <3> QED BY <1>8, <2>1, <3>1, RoomIsKept
  <2>2. CASE g = h
    <3>1. Cardinality(crew) = Cardinality(c.others) + 1
      <4>1. crew = c.others \cup {c.founder}
        OBVIOUS
      <4> HIDE DEF crew
      <4> QED BY <1>2, <4>1, FS_AddElement
    <3>2. Worker # {} /\ Cardinality(Worker) \in Nat /\ Cardinality(Worker) # 0
      BY GuildsAssumption, FS_CardinalityType, FS_EmptySet
    <3>3. Cardinality(c.others) \in Nat /\ MaxMembers \in Nat
      BY <1>2, GuildsAssumption, FS_CardinalityType
    <3>4. Cardinality(G!Members(g)') = Cardinality(c.others) + 1 /\ Cardinality(Seating(g)') = 0
      BY <1>8, <2>2, <3>1, FS_EmptySet
    <3>5. Cardinality(G!Members(g)') + Cardinality(Seating(g)') < MaxMembers + Cardinality(Worker)
      BY <1>2, <3>2, <3>3, <3>4
    <3> QED BY <3>5 DEF HasRoom
  <2> QED BY <2>1, <2>2
<1>12. \A g \in Hall : G!Members(g)' # {} => Exists(g)'
  BY <1>6, <1>8 DEF GuildsInv, Exists
<1>13. ASSUME NEW g \in Hall \ misled', state'[g] = "active" PROVE Led(g)'
  <2>1. CASE g = h
    BY <1>2, <1>3, <2>1 DEF Led, FounderOf
  <2>2. CASE g # h
    <3>1. PICK v \in Person : FounderOf(v, g)
      BY <1>1, <1>6, <1>13, <2>2 DEF GuildsInv, Led
    <3>2. v \notin crew
      BY <1>2, <3>1 DEF FounderOf
    <3>3. home'[v] = home[v] /\ grole'[v] = grole[v]
      BY <1>3, <3>2
    <3> QED BY <3>1, <3>3 DEF Led, FounderOf
  <2> QED BY <2>1, <2>2
<1>14. gmemo' = [x \in Worker |-> gmemo'[x]]
  BY <1>1 DEF GuildsInv
<1> QED BY <1>7, <1>10, <1>11, <1>12, <1>13, <1>14 DEF GuildsInv

LEMMA DissolveInv == ASSUME GuildsInv, NEW w \in Worker, G!Dissolve(w) PROVE GuildsInv'
<1> USE DEF G!Whole, G!Arrives, G!offers
<1> PICK h \in Hall :
      /\ state[h] # "none" /\ state' = [state EXCEPT ![h] = "disbanded"]
      /\ cooling' = cooling \cup G!Members(h) /\ G!Unseat(G!Members(h))
  BY DEF G!Dissolve
<1>1. UNCHANGED <<invited, accepted, revoked, applied, gpc, gmemo>> /\ misled' = misled
  BY DEF G!Dissolve
<1>2. /\ home' \in [Person -> Hall \cup {None}]
      /\ grole' \in [Person -> {None, "founder", "officer", "member", "recruit"}]
      /\ \A v \in Person : home'[v] = None <=> grole'[v] = None
      /\ \A v \in Person \ G!Members(h) : home'[v] = home[v] /\ grole'[v] = grole[v]
      /\ \A g \in Hall : G!Members(g)' \subseteq G!Members(g)
      /\ \A g \in Hall, v \in Person : FounderOf(v, g)' => FounderOf(v, g)
  BY UnseatKeeps
<1>3. /\ state' \in [Hall -> {"none", "active", "disbanded"}]
      /\ state'[h] = "disbanded" /\ \A g \in Hall \ {h} : state'[g] = state[g]
  BY DEF GuildsInv, G!TypeOK
<1>4. cooling' \subseteq Person
  BY DEF GuildsInv, G!TypeOK, G!Members
<1>5. G!TypeOK'
  BY <1>1, <1>2, <1>3, <1>4 DEF GuildsInv, G!TypeOK
<1>6. NoNewFounders
  BY <1>1, <1>2, <1>3 DEF NoNewFounders, Exists
<1>7. \A x \in Worker : KnowsWho(x)' /\ KnowsWhere(x)'
  BY <1>1, <1>6, KnowsStill
<1>8. ASSUME NEW g \in Hall PROVE HasRoom(g)'
  <2>1. Seating(g)' = Seating(g)
    BY <1>1 DEF Seating
  <2>2. HasRoom(g)
    BY DEF GuildsInv
  <2> QED BY <1>2, <2>1, <2>2, RoomIsKept
<1>9. \A g \in Hall : G!Members(g)' # {} => Exists(g)'
  BY <1>2, <1>6 DEF GuildsInv, NoNewFounders
<1>10. ASSUME NEW g \in Hall \ misled', state'[g] = "active" PROVE Led(g)'
  <2>1. g # h /\ state[g] = "active" /\ g \notin misled
    BY <1>1, <1>3, <1>10
  <2>2. PICK v \in Person : FounderOf(v, g)
    BY <2>1 DEF GuildsInv, Led
  <2>3. v \notin G!Members(h)
    BY <2>1, <2>2 DEF FounderOf, G!Members
  <2>4. home'[v] = home[v] /\ grole'[v] = grole[v]
    BY <1>2, <2>3
  <2> QED BY <2>2, <2>4 DEF Led, FounderOf
<1>11. gmemo' = [x \in Worker |-> gmemo'[x]]
  BY <1>1 DEF GuildsInv
<1> QED BY <1>5, <1>7, <1>8, <1>9, <1>10, <1>11 DEF GuildsInv

-----------------------------------------------------------------------------
LEMMA GuildInitInv == G!Init => GuildsInv
<1> SUFFICES ASSUME G!Init PROVE GuildsInv
  OBVIOUS
<1>1. /\ None \notin Hall \cup {"founder", "officer", "member", "recruit"}
      /\ MaxMembers \in Nat \ {0} /\ Cardinality(Worker) \in Nat
  BY GuildsAssumption, FS_CardinalityType
<1>2. G!TypeOK
  BY DEF G!Init, G!TypeOK
<1>3. \A g \in Hall : G!Members(g) = {} /\ Seating(g) = {}
  BY <1>1 DEF G!Init, G!Members, Seating
<1>4. \A g \in Hall : HasRoom(g)
  <2>1. Cardinality({}) = 0
    BY FS_EmptySet
  <2> QED BY <1>1, <1>3, <2>1 DEF HasRoom
<1>5. gmemo = [w \in Worker |-> gmemo[w]]
  BY DEF G!Init
<1>6. \A w \in Worker : KnowsWho(w) /\ KnowsWhere(w)
  BY DEF G!Init, KnowsWho, KnowsWhere
<1>7. \A g \in Hall \ misled : state[g] = "active" => Led(g)
  BY DEF G!Init
<1> QED BY <1>2, <1>3, <1>4, <1>5, <1>6, <1>7 DEF GuildsInv

LEMMA GuildNextInv == GuildsInv /\ [G!Next]_guilds => GuildsInv'
<1> SUFFICES ASSUME GuildsInv, [G!Next]_guilds PROVE GuildsInv'
  OBVIOUS
<1>1. CASE G!CooldownOver \/ UNCHANGED guilds
  BY <1>1, GuildOffersInv
<1>2. ASSUME NEW w \in Worker, G!Create(w) PROVE GuildsInv'
  BY <1>2, CreateInv
<1>3. ASSUME NEW w \in Worker, G!Dissolve(w) PROVE GuildsInv'
  BY <1>3, DissolveInv
<1>4. ASSUME NEW w \in Worker, G!Invite(w) \/ G!Apply(w) PROVE GuildsInv'
  BY <1>4, GuildOffersInv
<1>5. ASSUME NEW w \in Worker,
             \/ G!ComeIn(w) \/ G!Leave(w) \/ G!Kick(w) \/ G!Promote(w)
             \/ G!Accept(w) \/ G!Revoke(w) \/ G!Decide(w)
      PROVE  GuildsInv'
  BY <1>5, GuildAsksInv
<1>6. ASSUME NEW w \in Worker,
             \/ G!Cool(w) \/ G!MarkAccepted(w) \/ G!MarkRevoked(w) \/ G!MarkDecided(w)
             \/ G!Refused(w) \/ G!CutOff(w)
      PROVE  GuildsInv'
  BY <1>6, GuildNotesInv
<1>7. ASSUME NEW w \in Worker, G!CheckSeat(w) PROVE GuildsInv'
  BY <1>7, CheckSeatInv
<1>8. ASSUME NEW w \in Worker, G!TakeSeat(w) PROVE GuildsInv'
  BY <1>8, TakeSeatInv
<1>9. ASSUME NEW w \in Worker, G!Left(w) PROVE GuildsInv'
  BY <1>9, GuildLeftInv
<1>10. ASSUME NEW w \in Worker, G!Kicked(w) PROVE GuildsInv'
  BY <1>10, KickedInv
<1>11. ASSUME NEW w \in Worker, G!Promoted(w) PROVE GuildsInv'
  BY <1>11, PromotedInv
<1> QED BY <1>1, <1>2, <1>3, <1>4, <1>5, <1>6, <1>7, <1>8, <1>9, <1>10, <1>11 DEF G!Next

LEMMA GuildsInvIsEnough == GuildsInv => GuildIsLed
<1> SUFFICES ASSUME GuildsInv PROVE GuildIsLed
  OBVIOUS
<1>1. G!FounderStays
  BY DEF GuildsInv, G!FounderStays, Led, FounderOf, G!Members
<1>2. ASSUME NEW g \in Hall
      PROVE  Cardinality(G!Members(g)) < MaxMembers + Cardinality(Worker)
  <2>1. Cardinality(G!Members(g)) + Cardinality(Seating(g)) < MaxMembers + Cardinality(Worker)
    BY DEF GuildsInv, HasRoom
  <2>2. /\ Cardinality(G!Members(g)) \in Nat /\ Cardinality(Seating(g)) \in Nat
        /\ Cardinality(Worker) \in Nat /\ MaxMembers \in Nat
    BY PeopleAreFinite, GuildsAssumption
  <2> QED BY <2>1, <2>2
<1>3. G!OverrunIsBounded
  BY <1>2, SameCount DEF G!OverrunIsBounded
<1> QED BY <1>1, <1>3 DEF GuildIsLed, GuildsInv

(* Whatever the requests of any number of people for any number of guilds  *)
(* and however they overlap: who belongs to what is well formed, a guild   *)
(* that exists keeps its founder unless he left another one as it was read,*)
(* and the joins overrun max_members by less than the requests there are.  *)
THEOREM GuildsAreLed == G!Spec => []GuildIsLed
<1>1. G!Init => GuildsInv
  BY GuildInitInv
<1>2. GuildsInv /\ [G!Next]_(G!vars) => GuildsInv'
  BY GuildNextInv DEF G!vars, G!rosters, G!offers, G!bounds, guilds
<1> QED BY <1>1, <1>2, GuildsInvIsEnough, PTL DEF G!Spec
===============================================================================
