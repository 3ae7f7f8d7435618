------------------------------- MODULE Sessions -------------------------------
(***************************************************************************)
(* The refresh-token sessions of one person (services/session.rs, and the  *)
(* handlers of routes/auth.rs that open, refresh and end them).            *)
(*                                                                         *)
(* A browser holds cookies and sends requests, more than one at a time if  *)
(* it likes; a request runs one statement per step and its answer sets the *)
(* cookies when it arrives.  A token is a number: the n-th that was minted. *)
(***************************************************************************)
EXTENDS Naturals, FiniteSets

CONSTANTS None, Browser,
          Req,           \* requests in flight at a time
          Apps,          \* frontends: "public", "admin"; each has its own cookie
          MaxSessions, MaxTokens, MaxEvictions,   \* bounds
          MaxStops       \* bound: requests cut off, answers lost, revocations that fail,
                         \* cookies that lapse

SessionsAssumption == /\ Apps \subseteq {"public", "admin"}
                      /\ {MaxSessions, MaxTokens, MaxEvictions, MaxStops} \subseteq Nat

ASSUME SessionsAssumption

VARIABLES row,       \* user_sessions
          minted,    \* tokens minted so far
          banned,    \* users.is_banned
          epoch,     \* times everybody was to be signed out: a reset, a ban, a new address
          evicting,  \* one of these has not yet revoked the sessions
          jar,       \* jar[b][a]: the refresh cookie of app a in browser b
          pc, req,   \* per request: its next statement, and what it carries
          alarmed,   \* browsers whose request was taken for the replay of a stolen token
          disturbed, \* history: browsers with two requests at once, left without an answer, or
                     \*          whose cookie lapsed while a request was under way
          mixed,     \* history: browsers that held a cookie of both apps
          careless,  \* history: browsers signed in by a handler that ends no earlier session
          abandoned, \* history: sessions whose cookie lapsed, or that a login failed to end
          raced,     \* history: a login was under way when an eviction began
          stops

histories == <<alarmed, disturbed, mixed, careless, abandoned, raced>>
vars == <<row, minted, banned, epoch, evicting, jar, pc, req, histories, stops>>

Session  == 1 .. MaxSessions
Cookies  == [session : 0 .. MaxSessions, token : Nat]
NoCookie == [session |-> 0, token |-> 0]
Held(cookie) == cookie.session # 0

Steps    == {"idle", "revoke_prior", "insert", "find", "rotate", "revoke_family", "check_ban",
             "answer", "logout", "clear"}

(* Who holds it and when it was opened are histories of the row. *)
Rows   == [state : {"none", "live", "revoked"}, current : Nat, previous : Nat, by : Browser \cup {None}, opened : Nat]
Carried == [browser : Browser \cup {None}, app : {"public", "admin"}, cookie : Cookies, epoch : Nat]

TypeOK ==
  /\ row    \in [Session -> Rows]
  /\ {minted, epoch} \subseteq Nat
  /\ {banned, evicting, raced} \subseteq BOOLEAN
  /\ jar    \in [Browser -> [{"public", "admin"} -> Cookies]]
  /\ pc     \in [Req -> Steps]
  /\ req    \in [Req -> Carried]
  /\ alarmed \subseteq Browser /\ disturbed \subseteq Browser
  /\ mixed \subseteq Browser /\ careless \subseteq Browser /\ abandoned \subseteq Session
  /\ stops \in 0 .. MaxStops

NoRow == [state |-> "none", current |-> 0, previous |-> 0, by |-> None, opened |-> 0]
NoReq == [browser |-> None, app |-> "public", cookie |-> NoCookie, epoch |-> 0]

Init ==
  /\ row = [s \in Session |-> NoRow]
  /\ minted = 0 /\ epoch = 0 /\ stops = 0
  /\ banned = FALSE /\ evicting = FALSE /\ raced = FALSE
  /\ jar = [b \in Browser |-> [a \in {"public", "admin"} |-> NoCookie]]
  /\ pc  = [r \in Req |-> "idle"]
  /\ req = [r \in Req |-> NoReq]
  /\ alarmed = {} /\ disturbed = {} /\ mixed = {} /\ careless = {} /\ abandoned = {}

-----------------------------------------------------------------------------
Live(s) == row[s].state = "live"

Busy      == {r \in Req : pc[r] # "idle"}
InFlight(b) == {r \in Busy : req[r].browser = b}

Users == UNCHANGED <<banned, epoch, evicting, raced>>

(* parse_refresh_cookie: the admin app's, if both are there. *)
Presented(b) == IF Held(jar[b]["admin"]) THEN jar[b]["admin"] ELSE jar[b]["public"]

(* A browser sends a request, with the cookies it has now. *)
Send(r, b, a, cookie, step) ==
  /\ pc[r] = "idle"
  /\ minted + Cardinality(Busy) < MaxTokens
  /\ pc'  = [pc EXCEPT ![r] = step]
  /\ req' = [req EXCEPT ![r] = [browser |-> b, app |-> a, cookie |-> cookie,
                                 epoch |-> IF step \in {"revoke_prior", "insert"} THEN epoch ELSE 0]]
  /\ disturbed' = IF InFlight(b) = {} THEN disturbed ELSE disturbed \cup {b}
  /\ Users /\ UNCHANGED <<row, minted, jar, alarmed, mixed, abandoned, stops>>

Go(r, from, to) ==
  /\ pc[r] = from
  /\ pc' = [pc EXCEPT ![r] = to]
  /\ Users /\ UNCHANGED stops

(* It is over; an answer that sets no cookie leaves the browser those it had. *)
End(r, from) ==
  /\ Go(r, from, "idle")
  /\ req' = [req EXCEPT ![r] = NoReq]

Over(it)   == [it EXCEPT !.state = "revoked", !.by = None, !.opened = 0]
Revoked(S) == row' = [s \in Session |-> IF s \in S /\ Live(s) THEN Over(row[s]) ELSE row[s]]

-----------------------------------------------------------------------------
(* Signing in.                                                             *)

Unused == {s \in Session : row[s].state = "none"}
Room   == Cardinality(Busy) < Cardinality(Unused)

(* The person is who they say and is not banned.  revoke_prior_from_cookie   *)
(* looks for `refresh_token=` only, which is the public app's.               *)
Login(r, b, a) ==
  /\ ~banned /\ Room
  /\ Send(r, b, a, jar[b]["public"], "revoke_prior")
  /\ careless' = IF a = "admin" THEN careless \cup {b} ELSE careless

(* oauth.rs and enterprise_sso.rs end no earlier session. *)
SignInElsewhere(r, b) ==
  /\ Room
  /\ Send(r, b, "public", NoCookie, "insert")
  /\ careless' = careless \cup {b}

(* Mutant: the earlier session stays. *)
RevokePrior_Keeps(r) ==
  /\ Go(r, "revoke_prior", "insert")
  /\ UNCHANGED <<row, minted, jar, req, alarmed, disturbed, mixed, careless, abandoned>>

RevokePrior(r) ==
  /\ Go(r, "revoke_prior", "insert")
  /\ Revoked({req[r].cookie.session})
  /\ UNCHANGED <<minted, jar, req, alarmed, disturbed, mixed, careless, abandoned>>

(* The update failed, and the failure is swallowed: the login goes on.     *)
RevokePriorFails(r) ==
  /\ pc[r] = "revoke_prior" /\ pc' = [pc EXCEPT ![r] = "insert"]
  /\ stops < MaxStops /\ stops' = stops + 1
  /\ abandoned' = abandoned \cup ({req[r].cookie.session} \cap Session)
  /\ Users /\ UNCHANGED <<row, minted, jar, req, alarmed, disturbed, mixed, careless>>

(* create_with_method *)
Insert(r, s) ==
  /\ s \in Unused /\ \A u \in Unused : s <= u
  /\ Go(r, "insert", "answer")
  /\ minted' = minted + 1
  /\ row' = [row EXCEPT ![s] = [state |-> "live", current |-> minted + 1, previous |-> 0,
                                by |-> req[r].browser, opened |-> req[r].epoch]]
  /\ req' = [req EXCEPT ![r].cookie = [session |-> s, token |-> minted + 1]]
  /\ UNCHANGED <<jar, alarmed, disturbed, mixed, careless, abandoned>>

(* The answer arrives, and sets the cookie of the app that asked. *)
Answer(r) ==
  LET b == req[r].browser
  IN  /\ End(r, "answer")
      /\ jar' = [jar EXCEPT ![b][req[r].app] = req[r].cookie]
      /\ mixed' = IF \A a \in {"public", "admin"} : Held(jar'[b][a]) THEN mixed \cup {b} ELSE mixed
      /\ UNCHANGED <<row, minted, alarmed, disturbed, careless, abandoned>>

-----------------------------------------------------------------------------
(* refresh: SessionService::rotate reads the row, then writes it.          *)

Refresh(r, b, a) ==
  /\ Held(Presented(b))
  /\ Send(r, b, a, Presented(b), "find")
  /\ UNCHANGED careless

FindSession(r) ==
  LET it == row[req[r].cookie.session]
      token == req[r].cookie.token
      accepted == it.state = "live" /\ token = it.current
      replayed == it.state = "live" /\ token # it.current /\ token = it.previous
  IN  /\ pc[r] = "find"
      /\ \/ accepted /\ Go(r, "find", "rotate") /\ UNCHANGED req
         \/ replayed /\ Go(r, "find", "revoke_family") /\ UNCHANGED req
         \/ ~accepted /\ ~replayed /\ End(r, "find")
      /\ UNCHANGED <<row, minted, jar, alarmed, disturbed, mixed, careless, abandoned>>

(* Mutant: the answer carries the token that came. *)
Rotate_SameToken(r) ==
  LET s == req[r].cookie.session
  IN  /\ Go(r, "rotate", "check_ban")
      /\ minted' = minted + 1
      /\ row' = [row EXCEPT ![s].previous = row[s].current, ![s].current = minted + 1]
      /\ UNCHANGED <<req, jar, alarmed, disturbed, mixed, careless, abandoned>>

(* UPDATE ... WHERE id: whatever the row holds by now. *)
Rotate(r) ==
  LET s == req[r].cookie.session
  IN  /\ Go(r, "rotate", "check_ban")
      /\ minted' = minted + 1
      /\ row' = [row EXCEPT ![s].previous = row[s].current, ![s].current = minted + 1]
      /\ req' = [req EXCEPT ![r].cookie.token = minted + 1]
      /\ UNCHANGED <<jar, alarmed, disturbed, mixed, careless, abandoned>>

(* Only now is the person looked up: a 403 takes the new token with it.    *)
CheckBan(r) ==
  /\ IF banned
     THEN End(r, "check_ban") /\ disturbed' = disturbed \cup {req[r].browser}
     ELSE Go(r, "check_ban", "answer") /\ UNCHANGED <<req, disturbed>>
  /\ UNCHANGED <<row, minted, jar, alarmed, mixed, careless, abandoned>>

RevokeFamily(r) ==
  /\ End(r, "revoke_family")
  /\ Revoked(Session)
  /\ alarmed' = alarmed \cup {req[r].browser}
  /\ UNCHANGED <<minted, jar, disturbed, mixed, careless, abandoned>>

-----------------------------------------------------------------------------
(* Signing out: the session of the cookie presented; both cookies go.      *)
Logout(r, b) ==
  /\ Held(Presented(b))
  /\ Send(r, b, "public", Presented(b), "logout")
  /\ UNCHANGED careless

RevokeOwn(r) ==
  /\ Go(r, "logout", "clear")
  /\ Revoked({req[r].cookie.session})
  /\ UNCHANGED <<minted, jar, req, alarmed, disturbed, mixed, careless, abandoned>>

ClearCookies(r) ==
  /\ End(r, "clear")
  /\ jar' = [jar EXCEPT ![req[r].browser] = [a \in {"public", "admin"} |-> NoCookie]]
  /\ UNCHANGED <<row, minted, alarmed, disturbed, mixed, careless, abandoned>>

(* Max-Age: seven days after it was set, a cookie is no longer sent.  Its    *)
(* row knows no such limit.                                                  *)
CookieLapses(b, a) ==
  /\ Held(jar[b][a])
  /\ stops < MaxStops /\ stops' = stops + 1
  /\ jar' = [jar EXCEPT ![b][a] = NoCookie]
  /\ abandoned' = abandoned \cup {jar[b][a].session}
  /\ disturbed' = IF InFlight(b) = {} THEN disturbed ELSE disturbed \cup {b}
  /\ Users /\ UNCHANGED <<row, minted, pc, req, alarmed, mixed, careless>>

RowsOnly == UNCHANGED <<minted, banned, epoch, jar, pc, req, histories, stops>>

(* The list of sessions: end one, or all but this one. *)
RevokeOne(s) == Live(s) /\ Revoked({s}) /\ RowsOnly /\ UNCHANGED evicting

RevokeOthers(b) ==
  /\ Held(Presented(b))
  /\ Revoked(Session \ {Presented(b).session})
  /\ RowsOnly /\ UNCHANGED evicting

-----------------------------------------------------------------------------
(* reset_password, confirm_email_change, the moderators' ban: they write the *)
(* user and, some statements later, revoke every session.                    *)
SigningIn == {r \in Req : pc[r] \in {"revoke_prior", "insert"}}

Evict(ban) ==
  /\ ~evicting /\ epoch < MaxEvictions
  /\ evicting' = TRUE /\ epoch' = epoch + 1
  /\ banned' = (banned \/ ban)
  /\ raced' = (raced \/ SigningIn # {})
  /\ UNCHANGED <<row, minted, jar, pc, req, alarmed, disturbed, mixed, careless, abandoned, stops>>

(* Mutant: revoke_all_except, with the first session kept. *)
RevokeAll_ButFirst ==
  /\ evicting /\ evicting' = FALSE
  /\ Revoked(Session \ {1})
  /\ RowsOnly

RevokeAll ==
  /\ evicting /\ evicting' = FALSE
  /\ Revoked(Session)
  /\ RowsOnly

Unban ==
  /\ banned /\ ~evicting
  /\ banned' = FALSE
  /\ UNCHANGED <<row, minted, epoch, evicting, jar, pc, req, histories, stops>>

-----------------------------------------------------------------------------
(* A request cut off, or an answer that never arrives. *)
Lose(r) ==
  /\ pc[r] # "idle"
  /\ stops < MaxStops /\ stops' = stops + 1
  /\ pc' = [pc EXCEPT ![r] = "idle"] /\ req' = [req EXCEPT ![r] = NoReq]
  /\ disturbed' = disturbed \cup {req[r].browser}
  /\ Users /\ UNCHANGED <<row, minted, jar, alarmed, mixed, careless, abandoned>>

Serve(r) ==
  \/ RevokePrior(r) \/ RevokePriorFails(r) \/ Answer(r) \/ FindSession(r) \/ Rotate(r) \/ CheckBan(r)
  \/ RevokeFamily(r) \/ RevokeOwn(r) \/ ClearCookies(r)
  \/ \E s \in Session : Insert(r, s)

Next ==
  \/ \E r \in Req : \/ Serve(r) \/ Lose(r)
                    \/ \E b \in Browser : \/ SignInElsewhere(r, b) \/ Logout(r, b)
                                          \/ \E a \in Apps : Login(r, b, a) \/ Refresh(r, b, a)
  \/ \E s \in Session : RevokeOne(s)
  \/ \E b \in Browser : RevokeOthers(b) \/ \E a \in Apps : CookieLapses(b, a)
  \/ \E ban \in BOOLEAN : Evict(ban)
  \/ RevokeAll \/ Unban

Spec == Init /\ [][Next]_vars

-----------------------------------------------------------------------------
(* The replay of a token is never seen where there is none: a browser that  *)
(* waits for each answer, gets it, and keeps to one app is never signed out  *)
(* everywhere for a theft (rotate, "reuse detected").                        *)
ReuseIsReal == alarmed \subseteq disturbed \cup mixed

(* A login leaves no row behind: a live session is held, with its current    *)
(* token, by the browser that opened it, until that browser's cookie lapses  *)
(* or ending the session fails ("every fresh login ... accumulates a ghost   *)
(* row", session.rs:51).                                                     *)
NoGhosts ==
  \A s \in Session \ abandoned :
    LET b == row[s].by
    IN  Live(s) /\ InFlight(b) = {} /\ b \notin disturbed \cup mixed \cup careless
          => jar[b]["public"] = [session |-> s, token |-> row[s].current]

(* After a reset, a new address or a ban, every session opened before it is  *)
(* over, refreshes under way or not - unless a login was half-way through.   *)
EveryoneIsSignedOut == ~raced /\ ~evicting => \A s \in Session : Live(s) => row[s].opened = epoch
=============================================================================
