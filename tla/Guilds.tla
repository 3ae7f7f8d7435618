-------------------------------- MODULE Guilds --------------------------------
(***************************************************************************)
(* Who belongs to a guild, and how they came and went (services/guild.rs). *)
(*                                                                         *)
(* A worker is one request.  It reads in one step and writes in later ones,*)
(* a transaction being one step, and locks nothing it reads; the unique    *)
(* index on guild_members.user_id refuses a second membership.  It may be  *)
(* cut off between two steps.  One worker makes requests follow each other.*)
(***************************************************************************)
EXTENDS Integers, FiniteSets, TLC

CONSTANTS Worker,      \* requests that may run at the same time
          User,
          Guild,
          Companies,   \* founders with their co-founders: records [founder, others]
          MaxMembers,  \* guilds.max_members
          None,
          MaxStops,    \* how many requests are cut off
          MaxMoves     \* how many requests there are in all

VARIABLES state,       \* state[g]: "none", "active", or "disbanded" with disbanded_at
          home,        \* home[u]: guild_members.guild_id, or None without a row
          role,        \* role[u]: guild_members.role, or None
          cooling,     \* users whose user_guild_cooldown.available_at is ahead
          invited,     \* pairs <<g, u>> with a row of guild_invitations
          accepted,    \* those whose accepted_at is set
          revoked,     \* those whose revoked_at is set
          applied,     \* applied[<<g, u>>]: guild_applications.status, or None
          pc, memo,    \* the next step of each worker, and what it has read
          misled,      \* history: guilds whose founder left another one, as it was read
          stops, moves

rosters == <<state, home, role, cooling>>
offers  == <<invited, accepted, revoked, applied>>
bounds  == <<stops, moves, misled>>
vars    == <<rosters, offers, pc, memo, bounds>>

Members(g)  == {u \in User : home[u] = g}
Officers(g) == {u \in Members(g) : role[u] \in {"founder", "officer"}}

TypeOK ==
  /\ state   \in [Guild -> {"none", "active", "disbanded"}]
  /\ home    \in [User -> Guild \cup {None}]
  /\ role    \in [User -> {None, "founder", "officer", "member", "recruit"}]
  /\ \A u \in User : home[u] = None <=> role[u] = None
  /\ cooling \subseteq User
  /\ accepted \cup revoked \subseteq invited /\ invited \subseteq Guild \X User
  /\ applied \in [Guild \X User -> {None, "pending", "accepted", "rejected"}]
  /\ pc      \in [Worker -> {"idle", "join", "seat", "leave", "kick", "cool", "promote",
                             "revoke", "accept", "decide"}]

Init ==
  /\ state    = [g \in Guild |-> "none"]
  /\ home     = [u \in User |-> None]
  /\ role     = [u \in User |-> None]
  /\ cooling  = {}
  /\ invited  = {} /\ accepted = {} /\ revoked = {}
  /\ applied  = [p \in Guild \X User |-> None]
  /\ pc       = [w \in Worker |-> "idle"]
  /\ memo     = [w \in Worker |-> None]
  /\ misled = {} /\ stops = 0 /\ moves = 0

-----------------------------------------------------------------------------
Step(w, from, to) == pc[w] = from /\ pc' = [pc EXCEPT ![w] = to]
Keeps(w, value)   == memo' = [memo EXCEPT ![w] = value]
Forgets(w)        == Keeps(w, None)
Arrives           == moves < MaxMoves /\ moves' = moves + 1 /\ UNCHANGED <<stops, misled>>

(* A new request reads what lets it go on. *)
Begins(w, to, value) ==
  Step(w, "idle", to) /\ Keeps(w, value) /\ Arrives /\ UNCHANGED <<rosters, offers>>

(* A request of one step. *)
Whole(w) == pc[w] = "idle" /\ Arrives /\ UNCHANGED <<pc, memo>>

Settles(w, from) == Step(w, from, "idle") /\ Forgets(w) /\ UNCHANGED <<stops, moves>>
Ends(w, from)    == Settles(w, from) /\ UNCHANGED misled

Seat(u, g, as) ==
  /\ home' = [home EXCEPT ![u] = g]
  /\ role' = [role EXCEPT ![u] = as]

Unseat(us) ==
  /\ home' = [u \in User |-> IF u \in us THEN None ELSE home[u]]
  /\ role' = [u \in User |-> IF u \in us THEN None ELSE role[u]]

Free(u) == home[u] = None /\ u \notin cooling

-----------------------------------------------------------------------------
(* create_guild: the founder and the co-founders, in one transaction. *)
Create(w) ==
  \E g \in Guild, c \in Companies :
    /\ Whole(w)
    /\ state[g] = "none"
    /\ \A u \in {c.founder} \cup c.others : Free(u)
    /\ state' = [state EXCEPT ![g] = "active"]
    /\ home'  = [u \in User |-> IF u \in {c.founder} \cup c.others THEN g ELSE home[u]]
    /\ role'  = [u \in User |-> CASE u = c.founder  -> "founder"
                                  [] u \in c.others -> "member"
                                  [] OTHER          -> role[u]]
    /\ UNCHANGED <<cooling, offers>>

(* Mutant: one seat too many. *)
Seats_One(g) == Cardinality(Members(g)) <= MaxMembers

(* join_guild: reads that the user is free and the guild active and not    *)
(* full, then inserts; the index refuses who has joined meanwhile.         *)
Seats(g) == Cardinality(Members(g)) < MaxMembers

MayJoin(u, g) == Free(u) /\ state[g] = "active" /\ Seats(g)

CheckSeat(w) ==
  /\ Step(w, "join", "seat")
  /\ MayJoin(memo[w].user, memo[w].guild)
  /\ UNCHANGED <<rosters, offers, memo, bounds>>

TakeSeat(w) ==
  /\ Ends(w, "seat")
  /\ home[memo[w].user] = None
  /\ Seat(memo[w].user, memo[w].guild, "recruit")
  /\ UNCHANGED <<state, cooling, offers>>

(* apply_to_guild in a guild of mode `open`, and join_by_token in any      *)
(* other: straight to the join.                                            *)
ComeIn(w) ==
  \E g \in Guild, u \in User :
    state[g] = "active" /\ Begins(w, "join", [user |-> u, guild |-> g])

-----------------------------------------------------------------------------
(* leave_guild: a founder leaves only as the last member, and disbands the *)
(* guild; the DELETE names the user alone.                                 *)
Leave(w) ==
  \E u \in User :
    /\ home[u] # None
    /\ role[u] = "founder" => Members(home[u]) = {u}
    /\ Begins(w, "leave", [user |-> u, guild |-> home[u], role |-> role[u]])

Left(w) ==
  LET m == memo[w]
  IN  /\ Settles(w, "leave")
      /\ state'   = IF m.role = "founder" THEN [state EXCEPT ![m.guild] = "disbanded"] ELSE state
      /\ Unseat({u \in {m.user} : home[u] # None})
      /\ cooling' = cooling \cup {m.user}
      /\ misled'  = misled \cup {g \in Guild \ {m.guild} : home[m.user] = g /\ role[m.user] = "founder"}
      /\ UNCHANGED offers

(* kick_member: two roles are read, the membership is deleted, and the     *)
(* cooldown is written by another statement, for whoever was named.        *)
Kickable(u, g) == ~(home[u] = g /\ role[u] = "founder")

Kick(w) ==
  \E g \in Guild, u \in User :
    /\ Officers(g) # {}
    /\ Kickable(u, g)
    /\ Begins(w, "kick", [user |-> u, guild |-> g])

Expels(m) == IF home[m.user] = m.guild THEN {m.user} ELSE {}

Kicked(w) ==
  /\ Step(w, "kick", "cool")
  /\ Unseat(Expels(memo[w]))
  /\ UNCHANGED <<state, cooling, offers, memo, bounds>>

Cool(w) ==
  /\ Ends(w, "cool")
  /\ cooling' = cooling \cup {memo[w].user}
  /\ UNCHANGED <<state, home, role, offers>>

(* promote: an officer gives anybody but the founder another role. *)
Promote(w) ==
  \E g \in Guild, u \in User, r \in {"officer", "member", "recruit"} :
    Officers(g) # {} /\ Begins(w, "promote", [user |-> u, guild |-> g, role |-> r])

Promotable(m) == home[m.user] = m.guild /\ role[m.user] # "founder"

Promoted(w) ==
  /\ Ends(w, "promote")
  /\ Promotable(memo[w])
  /\ role' = [role EXCEPT ![memo[w].user] = memo[w].role]
  /\ UNCHANGED <<state, home, cooling, offers>>

(* admin_dissolve: the guild, its members and their cooldowns at once. *)
Dissolve(w) ==
  \E g \in Guild :
    /\ Whole(w)
    /\ state[g] # "none"
    /\ state'   = [state EXCEPT ![g] = "disbanded"]
    /\ cooling' = cooling \cup Members(g)
    /\ Unseat(Members(g))
    /\ UNCHANGED offers

-----------------------------------------------------------------------------
(* Invitations: an accepted one is marked, then the join is tried. *)
Invite(w) ==
  \E g \in Guild, u \in User :
    /\ Whole(w)
    /\ Officers(g) \ {u} # {} /\ <<g, u>> \notin invited
    /\ invited' = invited \cup {<<g, u>>}
    /\ UNCHANGED <<rosters, accepted, revoked, applied>>

Usable == invited \ (accepted \cup revoked)

Accept(w) == \E p \in Usable : Begins(w, "accept", [user |-> p[2], guild |-> p[1]])

Pair(m) == <<m.guild, m.user>>

MarkAccepted(w) ==
  /\ Step(w, "accept", "join")
  /\ accepted' = accepted \cup {Pair(memo[w])}
  /\ UNCHANGED <<rosters, invited, revoked, applied, memo, bounds>>

Revoke(w) ==
  \E p \in Usable : Officers(p[1]) # {} /\ Begins(w, "revoke", p)

MarkRevoked(w) ==
  /\ Ends(w, "revoke")
  /\ revoked' = revoked \cup {memo[w]}
  /\ UNCHANGED <<rosters, invited, accepted, applied>>

(* Applications: the decision is written by id, then the join is tried.    *)
Apply(w) ==
  \E g \in Guild, u \in User :
    /\ Whole(w)
    /\ state[g] = "active" /\ applied[<<g, u>>] = None
    /\ applied' = [applied EXCEPT ![<<g, u>>] = "pending"]
    /\ UNCHANGED <<rosters, invited, accepted, revoked>>

Decide(w) ==
  \E g \in Guild, u \in User, yes \in BOOLEAN :
    /\ applied[<<g, u>>] = "pending" /\ Officers(g) # {}
    /\ Begins(w, "decide", [user |-> u, guild |-> g, yes |-> yes])

MarkDecided(w) ==
  LET m == memo[w]
  IN  /\ pc[w] = "decide"
      /\ IF m.yes THEN Step(w, "decide", "join") /\ UNCHANGED <<memo, bounds>>
                  ELSE Ends(w, "decide")
      /\ applied' = [applied EXCEPT ![Pair(m)] = IF m.yes THEN "accepted" ELSE "rejected"]
      /\ UNCHANGED <<rosters, invited, accepted, revoked>>

-----------------------------------------------------------------------------
(* Seven days pass; no request lasts as long. *)
CooldownOver ==
  /\ \A w \in Worker : pc[w] = "idle"
  /\ \E u \in cooling : cooling' = cooling \ {u}
  /\ UNCHANGED <<state, home, role, offers, pc, memo, bounds>>

(* A join is refused: the guild, the user or the index says no. *)
Refused(w) ==
  /\ \/ pc[w] = "join" /\ ~MayJoin(memo[w].user, memo[w].guild)
     \/ pc[w] = "seat" /\ home[memo[w].user] # None
     \/ pc[w] = "promote" /\ ~Promotable(memo[w])
  /\ Ends(w, pc[w])
  /\ UNCHANGED <<rosters, offers>>

CutOff(w) ==
  /\ pc[w] # "idle" /\ stops < MaxStops
  /\ stops' = stops + 1
  /\ pc' = [pc EXCEPT ![w] = "idle"]
  /\ Forgets(w)
  /\ UNCHANGED <<rosters, offers, moves, misled>>

Next ==
  \/ CooldownOver
  \/ \E w \in Worker :
       \/ Create(w) \/ Dissolve(w) \/ Invite(w) \/ Apply(w)
       \/ ComeIn(w) \/ CheckSeat(w) \/ TakeSeat(w)
       \/ Leave(w) \/ Left(w) \/ Kick(w) \/ Kicked(w) \/ Cool(w)
       \/ Promote(w) \/ Promoted(w)
       \/ Accept(w) \/ MarkAccepted(w) \/ Revoke(w) \/ MarkRevoked(w)
       \/ Decide(w) \/ MarkDecided(w)
       \/ Refused(w) \/ CutOff(w)

Spec == Init /\ [][Next]_vars

-----------------------------------------------------------------------------
(* A guild that exists is led: its founder is a member until it is         *)
(* disbanded, whoever kicks, promotes or leaves at the same time.          *)
FounderStays ==
  \A g \in Guild \ misled : state[g] = "active" => \E u \in Members(g) : role[u] = "founder"

(* Nothing is locked between the count and the insertion: requests that    *)
(* overlap may overrun max_members, by one less than there are of them.    *)
OverrunIsBounded ==
  \A g \in Guild : Cardinality(Members(g)) < MaxMembers + Cardinality(Worker)
=============================================================================
