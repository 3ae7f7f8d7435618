-------------------------------- MODULE Cohorts --------------------------------
(***************************************************************************)
(* One study cohort: who sits in it, what it says and plans, and when it   *)
(* is frozen (services/cohorts.rs, routes/cohorts.rs); who finished it and *)
(* who left it (services/leadership_practice.rs, routes/education.rs).     *)
(*                                                                         *)
(* A worker is one request.  join, leave and add_member lock the cohort's  *)
(* row (SELECT ... FOR UPDATE), read under the lock and write in a second  *)
(* step, which commits.  What else a request reads, it reads unlocked.     *)
(***************************************************************************)
EXTENDS Integers, FiniteSets, TLC

CONSTANTS Worker,    \* requests that may run at the same time
          User,
          Creator,   \* who created the cohort
          Caps,      \* the values max_members may be given
          Bodies,    \* the bodies of update; None for a field that is not given
          None,      \* nobody holds the lock; nothing remembered
          MaxMoves   \* how many requests there are in all

Optional(values) == values \cup {None}

ASSUME CohortsAssumption ==
  /\ Creator \in User /\ IsFiniteSet(User) /\ Caps \subseteq Nat
  /\ Bodies \subseteq [cap : Optional(Caps), public : Optional(BOOLEAN),
                       archive : BOOLEAN, over : Optional(BOOLEAN)]
  /\ None \notin Worker

VARIABLES role,       \* role[u]: cohort_members.role, "none" without a row
          graduated,  \* cohort_members whose graduated_at is set
          left,       \* cohort_members whose left_at is set
          cap,        \* cohorts.max_members
          public,     \* cohorts.is_public
          archived,   \* cohorts.archived_at is set
          over,       \* cohorts.ends_at has passed
          messages,   \* rows of cohort_messages
          milestones, \* rows of cohort_milestones
          lock,       \* the transaction that holds the cohort's row
          pc, memo,   \* the next step of each worker, and what it has read
          moves

members == <<role, graduated, left>>
terms   == <<cap, public, archived, over>>
content == <<messages, milestones>>
vars    == <<members, terms, content, lock, pc, memo, moves>>

Seated     == {u \in User : role[u] # "none"}
Organizers == {u \in User : role[u] = "organizer"}
Writable   == ~archived /\ ~over

TypeOK ==
  /\ role       \in [User -> {"none", "member", "organizer"}]
  /\ graduated  \subseteq User
  /\ left       \subseteq User
  /\ cap        \in Caps
  /\ messages   \in Nat
  /\ milestones \in Nat
  /\ lock       \in Worker \cup {None}
  /\ pc         \in [Worker -> {"idle", "locked join", "locked leave", "locked add", "add",
                                "remove", "update", "archive", "plan", "unplan", "post",
                                "outcome"}]
  /\ \A w \in Worker : lock = w <=> pc[w] \in {"locked join", "locked leave", "locked add"}

Init ==
  /\ role       = [u \in User |-> IF u = Creator THEN "organizer" ELSE "none"]
  /\ graduated  = {}
  /\ left       = {}
  /\ cap        \in Caps
  /\ public     \in BOOLEAN
  /\ archived   = FALSE
  /\ over       = FALSE
  /\ messages   = 0
  /\ milestones = 0
  /\ lock       = None
  /\ pc         = [w \in Worker |-> "idle"]
  /\ memo       = [w \in Worker |-> None]
  /\ moves      = 0

-----------------------------------------------------------------------------
Step(w, from, to) == pc[w] = from /\ pc' = [pc EXCEPT ![w] = to]
Keeps(w, value)   == memo' = [memo EXCEPT ![w] = value]
Forgets(w)        == Keeps(w, None)
Arrives           == moves < MaxMoves /\ moves' = moves + 1

(* A request that has read what lets it go on. *)
Reads(w, from, to, value) ==
  Step(w, from, to) /\ Keeps(w, value) /\ UNCHANGED <<members, terms, content, lock>>

(* Mutant: a plain SELECT. *)
Locks_Not(w) == UNCHANGED lock

(* A transaction takes the row and reads under it; its end frees the row. *)
Locks(w)    == lock = None /\ lock' = w

Releases(w) == lock' = IF lock = w THEN None ELSE lock

Takes(w, from, to, value) ==
  Step(w, from, to) /\ Keeps(w, value) /\ Locks(w) /\ UNCHANGED <<members, terms, content>>

(* A committed transaction, and a lone statement that needs the row free.  *)
Ends(w, from)    == Step(w, from, "idle") /\ Forgets(w) /\ UNCHANGED moves
Settles(w, from) == Ends(w, from) /\ Releases(w)
Alone(w, from)   == Ends(w, from) /\ lock = None /\ UNCHANGED lock

Unseat(u) ==
  /\ role'      = [role EXCEPT ![u] = "none"]
  /\ graduated' = graduated \ {u}
  /\ left'      = left \ {u}

-----------------------------------------------------------------------------
(* join: a public, writable cohort with a seat left takes a newcomer. *)

Join(w) ==
  \E u \in User :
    /\ Arrives
    /\ Writable /\ public /\ role[u] = "none" /\ Cardinality(Seated) < cap
    /\ Takes(w, "idle", "locked join", u)

Joined(w) ==
  /\ Settles(w, "locked join")
  /\ role' = [role EXCEPT ![memo[w]] = "member"]
  /\ UNCHANGED <<graduated, left, terms, content>>

(* leave: deletes the row; the last organizer is refused.  An organizer's  *)
(* removal of somebody goes the same way.                                  *)

(* Mutant: another organizer is not asked for. *)
MayLeave_Any(u) == role[u] # "none"

MayLeave(u) ==
  /\ role[u] # "none"
  /\ role[u] = "organizer" => Cardinality(Organizers) > 1

Leave(w) ==
  \E u \in User : Arrives /\ MayLeave(u) /\ Takes(w, "idle", "locked leave", u)

Left(w) ==
  /\ Settles(w, "locked leave")
  /\ Unseat(memo[w])
  /\ UNCHANGED <<terms, content>>

-----------------------------------------------------------------------------
(* What an organizer asks for: the role is read first, and not again. *)

AskRemoval(w) ==
  \E o \in Organizers, u \in User : Arrives /\ Reads(w, "idle", "remove", u)

Remove(w) ==
  /\ Takes(w, "remove", "locked leave", memo[w])
  /\ MayLeave(memo[w])
  /\ UNCHANGED moves

AskAddition(w) ==
  \E o \in Organizers, u \in User, r \in {"member", "organizer"} :
    Arrives /\ Reads(w, "idle", "add", [user |-> u, role |-> r])

Add(w) ==
  /\ Takes(w, "add", "locked add", memo[w])
  /\ Writable /\ Cardinality(Seated \ {memo[w].user}) < cap
  /\ UNCHANGED moves

(* The upsert: somebody new is seated, somebody seated changes role. *)
Added(w) ==
  /\ Settles(w, "locked add")
  /\ role' = [role EXCEPT ![memo[w].user] = memo[w].role]
  /\ UNCHANGED <<graduated, left, terms, content>>

(* update: a new cap is compared with the headcount, then what the body    *)
(* gives is written.  ends_at may be moved either way.                     *)
Given(value, old) == IF value = None THEN old ELSE value

FitsNow(c) == c # None => c >= Cardinality(Seated)

AskUpdate(w) ==
  \E o \in Organizers, body \in Bodies :
    Arrives /\ FitsNow(body.cap) /\ Reads(w, "idle", "update", body)

Update(w) ==
  /\ Alone(w, "update")
  /\ cap'      = Given(memo[w].cap, cap)
  /\ public'   = Given(memo[w].public, public)
  /\ archived' = (archived \/ memo[w].archive)
  /\ over'     = Given(memo[w].over, over)
  /\ UNCHANGED <<members, content>>

(* admin_archive: a moderator's request, which reads that it is not yet. *)
AskArchive(w) == Arrives /\ ~archived /\ Reads(w, "idle", "archive", None)

Archive(w) ==
  /\ Alone(w, "archive")
  /\ archived' = TRUE
  /\ UNCHANGED <<members, cap, public, over, content>>

AskMilestone(w) == Organizers # {} /\ Arrives /\ Reads(w, "idle", "plan", None)
AskErasure(w)   == Organizers # {} /\ Arrives /\ Reads(w, "idle", "unplan", None)

AddMilestone(w) ==
  /\ Ends(w, "plan")
  /\ milestones' = milestones + 1
  /\ UNCHANGED <<members, terms, messages, lock>>

DropMilestone(w) ==
  /\ Ends(w, "unplan")
  /\ milestones > 0 /\ milestones' = milestones - 1
  /\ UNCHANGED <<members, terms, messages, lock>>

(* post_message: the cohort and the sender's role are read, the message is *)
(* written.                                                                *)
AskPost(w) == \E u \in Seated : Arrives /\ Writable /\ Reads(w, "idle", "post", u)

Post(w) ==
  /\ Ends(w, "post")
  /\ messages' = messages + 1
  /\ UNCHANGED <<members, terms, milestones, lock>>

-----------------------------------------------------------------------------
(* The lead, who is not a member, in one statement each: who graduated,    *)
(* who left and why.                                                       *)

Member(u) == role[u] = "member"

Graduate ==
  \E u \in User :
    /\ Arrives /\ Member(u) /\ u \notin left
    /\ graduated' = graduated \cup {u}
    /\ UNCHANGED <<role, left, terms, content, lock, pc, memo>>

RecordDeparture ==
  \E u \in User :
    /\ Arrives /\ Member(u) /\ u \notin graduated
    /\ left' = left \cup {u}
    /\ UNCHANGED <<role, graduated, terms, content, lock, pc, memo>>

(* record_outcome: membership is read, then completion is written on it. *)
AskOutcome(w) ==
  \E u \in Seated, done \in BOOLEAN :
    Arrives /\ Reads(w, "idle", "outcome", [user |-> u, done |-> done])

(* Mutant: a recorded departure is not looked at. *)
MayFinish_Left(u) == role[u] # "none"

MayFinish(u) == role[u] # "none" /\ u \notin left

(* The CHECK that refuses a row with both (0462, a_member_finished_or_left_ *)
(* not_both) is left out on purpose: the guard must do without it.          *)
Outcome(w) ==
  LET u == memo[w].user
  IN  /\ Ends(w, "outcome")
      /\ IF memo[w].done
         THEN MayFinish(u) /\ graduated' = graduated \cup {u}
         ELSE graduated' = graduated \ {u}
      /\ UNCHANGED <<role, left, terms, content, lock>>

(* ends_at passes. *)
RunsOut ==
  /\ ~over /\ over' = TRUE
  /\ UNCHANGED <<members, cap, public, archived, content, lock, pc, memo, moves>>

(* A request is refused where it stands, or cut off: nothing is written    *)
(* and its transaction rolls back.                                         *)
GiveUp(w) ==
  /\ pc[w] # "idle"
  /\ pc'   = [pc EXCEPT ![w] = "idle"]
  /\ Releases(w) /\ Forgets(w)
  /\ UNCHANGED <<members, terms, content, moves>>

-----------------------------------------------------------------------------
Next ==
  \/ \E w \in Worker :
       \/ Join(w) \/ Joined(w) \/ Leave(w) \/ Left(w)
       \/ AskRemoval(w) \/ Remove(w) \/ AskAddition(w) \/ Add(w) \/ Added(w)
       \/ AskUpdate(w) \/ Update(w) \/ AskArchive(w) \/ Archive(w)
       \/ AskMilestone(w) \/ AddMilestone(w) \/ AskErasure(w) \/ DropMilestone(w)
       \/ AskPost(w) \/ Post(w) \/ AskOutcome(w) \/ Outcome(w) \/ GiveUp(w)
  \/ Graduate \/ RecordDeparture \/ RunsOut

Spec == Init /\ [][Next]_vars

-----------------------------------------------------------------------------
Arrival   == Seated' \ Seated # {}
Departure == Seated \ Seated' # {}

(* Two requests for the last seat do not both get it: no arrival takes the *)
(* headcount past max_members, and nobody arrives in an archived cohort,   *)
(* whatever a request read before (the lock of join and add_member).       *)
ArrivalsFit == [][Arrival => ~archived /\ Cardinality(Seated') <= cap']_vars

(* Two organizers who leave together do not both go: while there is one,   *)
(* a departure leaves one behind (the lock of leave).                      *)
OrganizerStays == [][Departure /\ Organizers # {} => Organizers' # {}]_vars

(* Nobody has both finished the cohort and left it: the lead's records and *)
(* the teacher's outcomes exclude each other (migration 0462).             *)
FinishedOrLeft == graduated \cap left = {}
=============================================================================
