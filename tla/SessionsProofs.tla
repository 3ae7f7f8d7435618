---------------------------- MODULE SessionsProofs ----------------------------
(***************************************************************************)
(* What holds of one person's sessions for any number of browsers, of      *)
(* requests in flight and of sessions, whatever is lost on the way.        *)
(*                                                                         *)
(* A cookie names a session of the browser that holds it, so nobody else   *)
(* rotates it; while a browser waits for each answer, the cookie it will   *)
(* present is the current one, and the sessions it has left behind are     *)
(* over.                                                                   *)
(***************************************************************************)
EXTENDS Sessions, TLAPS

App        == {"public", "admin"}
Refreshing == {"find", "rotate", "check_ban", "revoke_family"}
Rotating   == Refreshing \cup {"logout"}
Updated    == {"check_ban", "answer"}

(* A request of browser b is under way. *)
In(b, r) == pc[r] # "idle" /\ req[r].browser = b

(* A session a cookie of browser b may name. *)
Owns(b, cookie) == /\ row[cookie.session].state # "none"
                   /\ Live(cookie.session) => row[cookie.session].by = b

Current(cookie) == Live(cookie.session) => cookie.token = row[cookie.session].current

(* Cookies, kept or carried, name sessions of the browser. *)
Owned ==
  /\ \A b \in Browser, a \in App : Held(jar[b][a]) => Owns(b, jar[b][a])
  /\ \A r \in Req : /\ pc[r] # "idle" => req[r].browser \in Browser
                    /\ pc[r] \in Rotating \cup {"answer"} => Held(req[r].cookie)
                    /\ pc[r] # "idle" /\ Held(req[r].cookie) => Owns(req[r].browser, req[r].cookie)
  /\ \A s \in Session : Live(s) => row[s].by \in Browser

(* Who waits has one request; who holds both cookies is on record.         *)
OneAtATime ==
  /\ \A b \in Browser \ disturbed : \A q, r \in Req : In(b, q) /\ In(b, r) => q = r
  /\ \A b \in Browser : (\A a \in App : Held(jar[b][a])) => b \in mixed

(* What such a browser presents is current, unless the answer that renews it *)
(* is on its way.                                                            *)
FreshAt(b) ==
  /\ \A a \in App :
       /\ Held(jar[b][a])
       /\ \A r \in Req : In(b, r) /\ pc[r] \in Updated => req[r].cookie.session # jar[b][a].session
       => Current(jar[b][a])
  /\ \A r \in Req : In(b, r) => /\ pc[r] \in {"find", "rotate"} \cup Updated => Current(req[r].cookie)
                                /\ pc[r] # "revoke_family"

Fresh == \A b \in Browser \ (disturbed \cup mixed) : FreshAt(b)

(* A browser that ends its earlier session holds the only one it has left, *)
(* but for those abandoned.                                                *)
TidyAt(b) ==
  /\ ~Held(jar[b]["admin"])
  /\ \A r \in Req : In(b, r) =>
       /\ req[r].app = "admin" => Held(jar[b]["public"]) /\ pc[r] \in Refreshing \cup {"answer"}
       /\ pc[r] \in {"revoke_prior", "logout", "find", "rotate"} => req[r].cookie = jar[b]["public"]
       /\ pc[r] = "check_ban" => req[r].cookie.session = jar[b]["public"].session
       /\ pc[r] \in {"insert", "clear"} => \A s \in Session \ abandoned : Live(s) => row[s].by # b
       /\ pc[r] = "answer" => \A s \in Session \ abandoned : Live(s) /\ row[s].by = b => s = req[r].cookie.session
  /\ (\A r \in Req : In(b, r) => pc[r] # "answer") =>
       \A s \in Session \ abandoned : Live(s) /\ row[s].by = b => s = jar[b]["public"].session

Tidy == \A b \in Browser \ (disturbed \cup mixed \cup careless) : TidyAt(b)

(* Sign-ins begun since the last eviction, and the sessions that stand.     *)
Opened ==
  ~raced => /\ \A r \in SigningIn : req[r].epoch = epoch
            /\ ~evicting => \A s \in Session : Live(s) => row[s].opened = epoch

Inv == TypeOK /\ Owned /\ OneAtATime /\ ReuseIsReal /\ Fresh /\ Tidy /\ Opened

(* The three parts of the type invariant. *)
Tables   == row \in [Session -> Rows] /\ jar \in [Browser -> [{"public", "admin"} -> Cookies]]
Requests == pc \in [Req -> Steps] /\ req \in [Req -> Carried]
Rest     == /\ {minted, epoch} \subseteq Nat
            /\ {banned, evicting, raced} \subseteq BOOLEAN
            /\ alarmed \subseteq Browser /\ disturbed \subseteq Browser
            /\ mixed \subseteq Browser /\ careless \subseteq Browser /\ abandoned \subseteq Session
            /\ stops \in 0 .. MaxStops

(* All but r stand where they stood. *)
Others(r) == \A q \in Req \ {r} : pc'[q] = pc[q] /\ req'[q] = req[q]

USE DEF Held, Live, SigningIn, Users, Go, End, RowsOnly, Owns, Current, histories, Others, In,
        App, Refreshing, Rotating, Updated,
        FreshAt, TidyAt

-----------------------------------------------------------------------------
(* The type invariant is its three parts. *)
LEMMA Types == TypeOK <=> Tables /\ Requests /\ Rest
BY DEF TypeOK, Tables, Requests, Rest

(* At first nobody is signed in and nothing is under way. *)
LEMMA InitInv == Init => Inv
<1> SUFFICES ASSUME Init PROVE Inv
  OBVIOUS
<1>1. Tables
  BY SessionsAssumption DEF Init, Tables, SessionsAssumption, Session, Rows, NoRow, Cookies, NoCookie
<1>2. Requests
  BY SessionsAssumption DEF Init, Requests, SessionsAssumption, Steps, Carried, NoReq, Cookies, NoCookie
<1>3. Rest
  <2>1. stops \in 0 .. MaxStops
    BY SessionsAssumption DEF Init, SessionsAssumption
  <2>2. alarmed \subseteq Browser /\ disturbed \subseteq Browser /\ mixed \subseteq Browser /\ careless \subseteq Browser
    BY DEF Init
  <2>3. minted \in Nat /\ epoch \in Nat
    BY DEF Init
  <2>4. banned \in BOOLEAN /\ evicting \in BOOLEAN /\ raced \in BOOLEAN
    BY DEF Init
  <2>5. abandoned \subseteq Session
    BY DEF Init
  <2> QED BY <2>1, <2>2, <2>3, <2>4, <2>5 DEF Rest
<1>4. Owned /\ OneAtATime /\ ReuseIsReal
  BY DEF Init, Owned, OneAtATime, ReuseIsReal, Session, NoRow, NoCookie
<1>5. Fresh /\ Tidy /\ Opened
  BY DEF Init, Fresh, Tidy, Opened, Session, NoRow, NoCookie
<1> QED BY <1>1, <1>2, <1>3, <1>4, <1>5, Types DEF Inv

(* What a cookie names is a session. *)
LEMMA Named ==
  ASSUME TypeOK
  PROVE  /\ \A b \in Browser, a \in App : jar[b][a] \in Cookies /\ (Held(jar[b][a]) => jar[b][a].session \in Session)
         /\ \A r \in Req : req[r].cookie \in Cookies /\ (Held(req[r].cookie) => req[r].cookie.session \in Session)
<1>1. \A cookie \in Cookies : Held(cookie) => cookie.session \in Session
  BY SessionsAssumption DEF SessionsAssumption, Cookies, Session
<1>2. \A b \in Browser, a \in App : jar[b][a] \in Cookies
  BY DEF TypeOK
<1>3. \A r \in Req : req[r].cookie \in Cookies
  BY DEF TypeOK, Carried
<1> QED BY <1>1, <1>2, <1>3

(* Sessions that are revoked are over, and the others are as they were.     *)
LEMMA Fading ==
  ASSUME TypeOK, NEW S, Revoked(S)
  PROVE  /\ row' \in [Session -> Rows]
         /\ \A s \in Session : /\ Live(s)' => Live(s) /\ row'[s] = row[s]
                               /\ row'[s].state = "none" <=> row[s].state = "none"
                               /\ s \in S => ~Live(s)'
<1>1. \A s \in Session : row'[s] = IF s \in S /\ Live(s) THEN Over(row[s]) ELSE row[s]
  BY DEF Revoked
<1>2. ASSUME NEW s \in Session
      PROVE  row[s] \in Rows /\ Over(row[s]) \in Rows /\ Over(row[s]).state = "revoked"
  <2>1. row[s] \in Rows
    BY DEF TypeOK
  <2> QED BY <2>1 DEF Over, Rows
<1>3. \A s \in Session : row'[s] \in Rows
  BY <1>1, <1>2
<1>4. row' \in [Session -> Rows]
  BY <1>3 DEF Revoked
<1> QED BY <1>1, <1>2, <1>4

(* What is owned is owned still, and what is current too, as rows fade.     *)
LEMMA Faded ==
  ASSUME TypeOK,
         \A s \in Session : /\ Live(s)' => Live(s) /\ row'[s] = row[s]
                            /\ row'[s].state = "none" <=> row[s].state = "none",
         NEW b, NEW cookie, cookie.session \in Session
  PROVE  /\ Owns(b, cookie) => /\ row'[cookie.session].state # "none"
                               /\ row'[cookie.session].state = "live" => row'[cookie.session].by = b
         /\ Current(cookie) => (row'[cookie.session].state = "live" => cookie.token = row'[cookie.session].current)
OBVIOUS

-----------------------------------------------------------------------------
(* A request takes the cookies its browser has, or none. *)
LEMMA SendStep ==
  ASSUME Inv, NEW r \in Req, NEW b \in Browser, NEW a \in App, NEW cookie \in Cookies,
         NEW step \in {"revoke_prior", "insert", "find", "logout"},
         Send(r, b, a, cookie, step),
         Held(cookie) => \E x \in App : cookie = jar[b][x],
         step \in {"find", "logout"} => Held(cookie),
         careless' \in {careless, careless \cup {b}},
         b \notin careless' => /\ step # "insert"
                               /\ ~Held(jar[b]["admin"]) => cookie = jar[b]["public"]
                               /\ a = "admin" => step = "find"
  PROVE  Inv'
<1>1. /\ pc[r] = "idle" /\ pc' = [pc EXCEPT ![r] = step]
      /\ req' = [req EXCEPT ![r] = [browser |-> b, app |-> a, cookie |-> cookie,
                                    epoch |-> IF step \in {"revoke_prior", "insert"} THEN epoch ELSE 0]]
      /\ UNCHANGED <<row, minted, jar, alarmed, mixed, abandoned, stops, banned, epoch, evicting, raced>>
  BY DEF Send
<1>2. /\ disturbed' \in {disturbed, disturbed \cup {b}}
      /\ b \notin disturbed' => \A q \in Req : ~In(b, q)
  BY DEF Send, InFlight, Busy
<1>3. Requests'
  BY <1>1 DEF Inv, TypeOK, Requests, Steps, Carried
<1>4. TypeOK'
  BY <1>1, <1>2, <1>3 DEF Inv, TypeOK, Requests
<1>5. /\ Others(r) /\ pc'[r] = step
      /\ req'[r].browser = b /\ req'[r].app = a /\ req'[r].cookie = cookie
      /\ step \in {"revoke_prior", "insert"} => req'[r].epoch = epoch
  BY <1>1 DEF Inv, TypeOK
<1>6. Owned'
  <2>1. Held(cookie) => Owns(b, cookie)
    BY DEF Inv, Owned
  <2> QED BY <1>1, <1>5, <2>1 DEF Inv, Owned
<1>7. OneAtATime' /\ ReuseIsReal'
  BY <1>1, <1>2, <1>5 DEF Inv, OneAtATime, ReuseIsReal
<1>8. Fresh'
  BY <1>1, <1>2, <1>5 DEF Inv, Fresh
<1>9. Tidy'
  BY <1>1, <1>2, <1>5 DEF Inv, Tidy
<1>10. Opened'
  BY <1>1, <1>5 DEF Inv, Opened
<1> QED BY <1>4, <1>6, <1>7, <1>8, <1>9, <1>10 DEF Inv

(* The requests a browser can send. *)
LEMMA SendInv ==
  ASSUME Inv, NEW r \in Req, NEW b \in Browser,
         \/ SignInElsewhere(r, b) \/ Logout(r, b)
         \/ \E a \in Apps : Login(r, b, a) \/ Refresh(r, b, a)
  PROVE  Inv'
<1>1. /\ jar[b]["public"] \in Cookies /\ Presented(b) \in Cookies
      /\ \E x \in App : Presented(b) = jar[b][x]
      /\ ~Held(jar[b]["admin"]) => Presented(b) = jar[b]["public"]
  BY DEF Inv, TypeOK, Presented
<1>2. CASE SignInElsewhere(r, b)
  <2>1. NoCookie \in Cookies /\ ~Held(NoCookie)
    BY SessionsAssumption DEF SessionsAssumption, NoCookie, Cookies
  <2> QED BY <1>2, <2>1, SendStep DEF SignInElsewhere
<1>3. CASE Logout(r, b)
  BY <1>1, <1>3, SendStep DEF Logout
<1>4. ASSUME NEW a \in Apps, Login(r, b, a) PROVE Inv'
  BY <1>1, <1>4, SendStep, SessionsAssumption DEF Login, SessionsAssumption
<1>5. ASSUME NEW a \in Apps, Refresh(r, b, a) PROVE Inv'
  BY <1>1, <1>5, SendStep, SessionsAssumption DEF Refresh, SessionsAssumption
<1> QED BY <1>2, <1>3, <1>4, <1>5

-----------------------------------------------------------------------------
(* Sessions that end elsewhere: no cookie and no request of theirs changes. *)
LEMMA EndStep ==
  ASSUME Inv, NEW S, Revoked(S), RowsOnly,
         evicting' \in BOOLEAN, evicting => evicting' \/ S = Session
  PROVE  Inv'
<1>1. UNCHANGED <<minted, banned, epoch, jar, pc, req, alarmed, disturbed, mixed, careless, abandoned, raced, stops>>
  OBVIOUS
<1>2. /\ row' \in [Session -> Rows]
      /\ \A s \in Session : /\ Live(s)' => Live(s) /\ row'[s] = row[s]
                            /\ row'[s].state = "none" <=> row[s].state = "none"
                            /\ s \in S => ~Live(s)'
  BY Fading DEF Inv
<1>3. TypeOK'
  <2>1. Tables' /\ Requests'
    BY <1>1, <1>2 DEF Inv, TypeOK, Tables, Requests
  <2>2. Rest'
    BY <1>1 DEF Inv, TypeOK, Rest
  <2> QED BY <2>1, <2>2 DEF TypeOK, Tables, Requests, Rest
<1>4. Owned'
  <2>1. \A b \in Browser, a \in App : Held(jar[b][a]) => Owns(b, jar[b][a])'
    BY <1>1, <1>2, Named, Faded DEF Inv, Owned
  <2>2. ASSUME NEW r \in Req, pc[r] # "idle", Held(req[r].cookie) PROVE Owns(req[r].browser, req[r].cookie)'
    BY <1>1, <1>2, <2>2, Named, Faded DEF Inv, Owned
  <2>3. \A s \in Session : Live(s)' => row'[s].by \in Browser
    BY <1>2 DEF Inv, Owned
  <2> QED BY <1>1, <2>1, <2>2, <2>3 DEF Inv, Owned
<1>5. OneAtATime' /\ ReuseIsReal'
  BY <1>1 DEF Inv, OneAtATime, ReuseIsReal
<1>6. Fresh'
  <2>1. \A b \in Browser, a \in App : Held(jar[b][a]) /\ Current(jar[b][a]) => Current(jar[b][a])'
    BY <1>1, <1>2, Named, Faded DEF Inv
  <2>2. ASSUME NEW r \in Req, Current(req[r].cookie), pc[r] \in {"find", "rotate"} \cup Updated
        PROVE  Current(req[r].cookie)'
    BY <1>1, <1>2, <2>2, Named, Faded DEF Inv, Owned
  <2> QED BY <1>1, <2>1, <2>2 DEF Inv, Fresh
<1>7. Tidy'
  BY <1>1, <1>2 DEF Inv, Tidy
<1>8. Opened'
  BY <1>1, <1>2 DEF Inv, Opened
<1> QED BY <1>3, <1>4, <1>5, <1>6, <1>7, <1>8 DEF Inv

(* Sessions end elsewhere: by a logout everywhere, an eviction, or time. *)
LEMMA EndInv ==
  ASSUME Inv, \/ \E s \in Session : RevokeOne(s)
              \/ \E b \in Browser : RevokeOthers(b)
              \/ RevokeAll
  PROVE  Inv'
<1>1. evicting \in BOOLEAN
  BY DEF Inv, TypeOK
<1>2. ASSUME NEW s \in Session, RevokeOne(s) PROVE Inv'
  BY <1>1, <1>2, EndStep DEF RevokeOne
<1>3. ASSUME NEW b \in Browser, RevokeOthers(b) PROVE Inv'
  BY <1>1, <1>3, EndStep DEF RevokeOthers
<1>4. CASE RevokeAll
  BY <1>4, EndStep DEF RevokeAll
<1> QED BY <1>2, <1>3, <1>4

-----------------------------------------------------------------------------
(* A request that goes on or ends, while rows at most fade: what it may not *)
(* do unless its browser is on record.                                      *)
LEMMA MoveStep ==
  ASSUME Inv, NEW r \in Req, NEW to \in Steps,
         pc[r] # "idle", pc' = [pc EXCEPT ![r] = to],
         IF to = "idle" THEN req' = [req EXCEPT ![r] = NoReq] ELSE req' = req,
         row' \in [Session -> Rows],
         \A s \in Session : /\ Live(s)' => Live(s) /\ row'[s] = row[s]
                            /\ row'[s].state = "none" <=> row[s].state = "none",
         UNCHANGED <<minted, jar, banned, epoch, evicting, raced, mixed, careless>>,
         abandoned \subseteq abandoned', abandoned' \subseteq Session,
         stops' \in 0 .. MaxStops,
         disturbed' \in {disturbed, disturbed \cup {req[r].browser}},
         alarmed' \in {alarmed, alarmed \cup {req[r].browser}}, alarmed' \subseteq disturbed' \cup mixed,
         to \in Rotating \cup {"answer"} => pc[r] \in Rotating,
         to \in {"revoke_prior", "insert"} => pc[r] = "revoke_prior",
         \/ req[r].browser \in disturbed' \cup mixed
         \/ /\ pc[r] # "answer" /\ to # "revoke_family" /\ (to \in Updated <=> pc[r] \in Updated)
            /\ to \in {"find", "rotate"} => pc[r] \in {"find", "rotate"},
         \/ req[r].browser \in disturbed' \cup mixed \cup careless
         \/ /\ to \in {"insert", "clear"} => /\ req[r].app # "admin"
                                             /\ \A s \in Session \ abandoned' : Live(s)' => row[s].by # req[r].browser
            /\ to = "answer" => \A s \in Session \ abandoned' : Live(s)' /\ row[s].by = req[r].browser => s = req[r].cookie.session
            /\ to \notin {"revoke_prior", "logout", "find", "check_ban"}
            /\ to = "rotate" => pc[r] = "find"
  PROVE  Inv'
<1>1. /\ Others(r) /\ pc'[r] = to
      /\ to # "idle" => req'[r] = req[r]
      /\ req[r].browser \in Browser
  BY DEF Inv, TypeOK, Owned, Carried
<1>2. TypeOK'
  <2>1. Tables'
    BY DEF Inv, TypeOK, Tables
  <2>2. Requests'
    BY SessionsAssumption DEF Inv, TypeOK, Requests, NoReq, NoCookie, Carried, Cookies, SessionsAssumption
  <2>3. Rest'
    BY <1>1 DEF Inv, TypeOK, Rest
  <2> QED BY <2>1, <2>2, <2>3 DEF TypeOK, Tables, Requests, Rest
<1>3. Owned'
  <2>1. \A b \in Browser, a \in App : Held(jar[b][a]) => Owns(b, jar[b][a])'
    <3>1. \A b \in Browser, a \in App : Held(jar[b][a]) => Owns(b, jar[b][a]) /\ jar[b][a].session \in Session
      BY Named DEF Inv, Owned
    <3> QED BY <3>1
  <2>2. ASSUME NEW q \in Req, pc'[q] # "idle"
        PROVE  /\ req'[q].browser \in Browser
               /\ pc'[q] \in Rotating \cup {"answer"} => Held(req[q].cookie)'
               /\ Held(req[q].cookie)' => Owns(req[q].browser, req[q].cookie)'
    <3>1. req'[q] = req[q] /\ pc[q] # "idle" /\ (pc'[q] \in Rotating \cup {"answer"} => pc[q] \in Rotating \cup {"answer"})
      BY <1>1, <2>2
    <3>2. /\ req[q].browser \in Browser
          /\ pc[q] \in Rotating \cup {"answer"} => Held(req[q].cookie)
          /\ Held(req[q].cookie) => Owns(req[q].browser, req[q].cookie) /\ req[q].cookie.session \in Session
      BY <3>1, Named DEF Inv, Owned
    <3>3. Held(req[q].cookie) => Owns(req[q].browser, req[q].cookie)'
      BY <3>1, <3>2
    <3> QED BY <3>1, <3>2, <3>3
  <2>3. \A s \in Session : Live(s)' => row'[s].by \in Browser
    BY DEF Inv, Owned
  <2> QED BY <2>1, <2>2, <2>3 DEF Owned
<1>4. OneAtATime' /\ ReuseIsReal'
  BY <1>1 DEF Inv, OneAtATime, ReuseIsReal
<1>5. Fresh'
  <2> SUFFICES ASSUME NEW b \in Browser, b \notin disturbed', b \notin mixed
               PROVE  FreshAt(b)'
    BY DEF Fresh
  <2>1. ASSUME NEW q \in Req, In(b, q)
        PROVE  \/ /\ In(b, q)' /\ req'[q] = req[q] /\ (pc'[q] \in Updated <=> pc[q] \in Updated)
                  /\ pc'[q] \in {"find", "rotate"} => pc[q] \in {"find", "rotate"}
                  /\ pc'[q] = "revoke_family" => pc[q] = "revoke_family"
               \/ ~In(b, q)' /\ pc[q] \notin Updated
    BY <1>1, <2>1
  <2>2. \A q \in Req : In(b, q)' => In(b, q)
    BY <1>1
  <2>3. \A a \in App : Held(jar[b][a]) /\ Current(jar[b][a]) => Current(jar[b][a])'
    BY Named, Faded DEF Inv
  <2>4. ASSUME NEW q \in Req, In(b, q), req'[q] = req[q], Current(req[q].cookie),
               pc[q] \in {"find", "rotate"} \cup Updated
        PROVE  Current(req[q].cookie)'
    <3>1. Held(req[q].cookie)
      BY <2>4 DEF Inv, Owned
    <3>2. req[q].cookie.session \in Session
      BY <3>1, Named DEF Inv
    <3> QED BY <2>4, <3>2
  <2>5. FreshAt(b) /\ jar' = jar
    BY DEF Inv, Fresh
  <2>6. ASSUME NEW a \in App, Held(jar[b][a]),
               \A q \in Req : In(b, q)' /\ pc'[q] \in Updated => req'[q].cookie.session # jar[b][a].session
        PROVE  Current(jar[b][a])'
    <3>1. \A q \in Req : In(b, q) /\ pc[q] \in Updated => req[q].cookie.session # jar[b][a].session
      BY <2>1, <2>6
    <3>2. Current(jar[b][a])
      BY <2>5, <2>6, <3>1
    <3> QED BY <2>3, <2>6, <3>2
  <2>7. ASSUME NEW q \in Req, In(b, q)'
        PROVE  /\ pc'[q] \in {"find", "rotate"} \cup Updated => Current(req[q].cookie)'
               /\ pc'[q] # "revoke_family"
    <3>1. In(b, q) /\ req'[q] = req[q]
      BY <2>1, <2>2, <2>7
    <3>2. /\ pc[q] \in {"find", "rotate"} \cup Updated => Current(req[q].cookie)
          /\ pc[q] # "revoke_family"
      BY <2>5, <3>1
    <3>3. pc'[q] # "revoke_family"
      BY <2>1, <2>7, <3>1, <3>2
    <3> QED BY <2>1, <2>4, <2>7, <3>1, <3>2, <3>3
  <2> QED BY <2>5, <2>6, <2>7
<1>6. Tidy'
  <2> SUFFICES ASSUME NEW b \in Browser, b \notin disturbed', b \notin mixed, b \notin careless
               PROVE  /\ ~Held(jar[b]["admin"])
                      /\ \A q \in Req : In(b, q)' =>
                           /\ req'[q].app = "admin" => Held(jar[b]["public"]) /\ pc'[q] \in Refreshing \cup {"answer"}
                           /\ pc'[q] \in {"revoke_prior", "logout", "find", "rotate"} => req'[q].cookie = jar[b]["public"]
                           /\ pc'[q] = "check_ban" => req'[q].cookie.session = jar[b]["public"].session
                           /\ pc'[q] \in {"insert", "clear"} => \A s \in Session \ abandoned' : Live(s)' => row'[s].by # b
                           /\ pc'[q] = "answer" => \A s \in Session \ abandoned' : Live(s)' /\ row'[s].by = b => s = req'[q].cookie.session
                      /\ (\A q \in Req : In(b, q)' => pc'[q] # "answer") =>
                           \A s \in Session \ abandoned' : Live(s)' /\ row'[s].by = b => s = jar[b]["public"].session
    BY DEF Tidy
  <2>1. \A s \in Session : Live(s)' /\ row'[s].by = b => Live(s) /\ row[s].by = b
    OBVIOUS
  <2>2. ASSUME NEW q \in Req, In(b, q)', q # r
        PROVE  In(b, q) /\ pc'[q] = pc[q] /\ req'[q] = req[q]
    BY <1>1, <2>2
  <2>3. In(b, r)' => In(b, r) /\ to # "idle" /\ req'[r] = req[r]
    BY <1>1
  <2>4. b = req[r].browser => pc[r] # "answer"
    OBVIOUS
  <2>5. /\ ~Held(jar[b]["admin"])
        /\ (\A q \in Req : In(b, q)' => pc'[q] # "answer") =>
             \A s \in Session \ abandoned' : Live(s)' /\ row'[s].by = b => s = jar[b]["public"].session
    BY <1>1, <2>1, <2>4 DEF Inv, Tidy
  <2>6. ASSUME NEW q \in Req, In(b, q)', q # r
        PROVE  /\ req'[q].app = "admin" => Held(jar[b]["public"]) /\ pc'[q] \in Refreshing \cup {"answer"}
               /\ pc'[q] \in {"revoke_prior", "logout", "find", "rotate"} => req'[q].cookie = jar[b]["public"]
               /\ pc'[q] = "check_ban" => req'[q].cookie.session = jar[b]["public"].session
               /\ pc'[q] \in {"insert", "clear"} => \A s \in Session \ abandoned' : Live(s)' => row'[s].by # b
               /\ pc'[q] = "answer" => \A s \in Session \ abandoned' : Live(s)' /\ row'[s].by = b => s = req'[q].cookie.session
    BY <2>1, <2>2, <2>6 DEF Inv, Tidy
  <2>7. ASSUME In(b, r)'
        PROVE  /\ req'[r].app = "admin" => Held(jar[b]["public"]) /\ pc'[r] \in Refreshing \cup {"answer"}
               /\ pc'[r] \in {"revoke_prior", "logout", "find", "rotate"} => req'[r].cookie = jar[b]["public"]
               /\ pc'[r] # "check_ban"
               /\ pc'[r] \in {"insert", "clear"} => \A s \in Session \ abandoned' : Live(s)' => row'[s].by # b
               /\ pc'[r] = "answer" => \A s \in Session \ abandoned' : Live(s)' /\ row'[s].by = b => s = req'[r].cookie.session
    <3>1. b = req[r].browser /\ pc'[r] = to /\ In(b, r) /\ req'[r] = req[r]
      BY <1>1, <2>3, <2>7
    <3>2. /\ to \in {"insert", "clear"} => /\ req[r].app # "admin"
                                          /\ \A s \in Session \ abandoned' : Live(s)' => row[s].by # b
          /\ to = "answer" => \A s \in Session \ abandoned' : Live(s)' /\ row[s].by = b => s = req[r].cookie.session
          /\ to \notin {"revoke_prior", "logout", "find", "check_ban"}
          /\ to = "rotate" => pc[r] = "find"
      BY <3>1
    <3>3. to \in Rotating \cup {"answer", "insert", "clear"}
      BY <2>3, <2>7, <3>2 DEF Steps
    <3> QED BY <2>1, <3>1, <3>2, <3>3 DEF Inv, Tidy
  <2> QED BY <2>5, <2>6, <2>7
<1>7. Opened'
  BY <1>1 DEF Inv, Opened
<1> QED BY <1>2, <1>3, <1>4, <1>5, <1>6, <1>7 DEF Inv

(* While a browser waits, its one request is the only one under way.        *)
LEMMA TheOne ==
  ASSUME Inv, NEW r \in Req, pc[r] # "idle", req[r].browser \notin disturbed, pc[r] # "answer"
  PROVE  \A q \in Req : In(req[r].browser, q) => pc[q] # "answer"
BY DEF Inv, OneAtATime, Owned

(* The steps that move one request on, and end sessions if anything. *)
LEMMA LeaveInv ==
  ASSUME Inv, NEW r \in Req,
         \/ RevokePrior(r) \/ RevokeOwn(r) \/ RevokeFamily(r)
         \/ FindSession(r) \/ CheckBan(r) \/ Lose(r) \/ RevokePriorFails(r)
  PROVE  Inv'
<1> USE DEF Steps
<1>1. /\ row \in [Session -> Rows] /\ stops \in 0 .. MaxStops /\ abandoned \subseteq Session
      /\ pc[r] # "idle" => req[r].browser \in Browser
  BY DEF Inv, TypeOK, Owned
<1>2. CASE RevokePrior(r)
  <2>1. PICK S : S = {req[r].cookie.session} /\ Revoked(S)
    BY <1>2 DEF RevokePrior
  <2>2. /\ row' \in [Session -> Rows]
        /\ \A s \in Session : /\ Live(s)' => Live(s) /\ row'[s] = row[s]
                              /\ row'[s].state = "none" <=> row[s].state = "none"
                              /\ s \in S => ~Live(s)'
    BY <2>1, Fading DEF Inv
  <2>3. req[r].browser \notin disturbed \cup mixed \cup careless =>
          req[r].app # "admin" /\ \A s \in Session \ abandoned' : Live(s)' => row[s].by # req[r].browser
    BY <1>1, <1>2, <2>1, <2>2, TheOne DEF Inv, Tidy, RevokePrior
  <2> QED BY <1>1, <1>2, <2>2, <2>3, MoveStep DEF RevokePrior, Inv, ReuseIsReal
<1>3. CASE RevokeOwn(r)
  <2>1. PICK S : S = {req[r].cookie.session} /\ Revoked(S)
    BY <1>3 DEF RevokeOwn
  <2>2. /\ row' \in [Session -> Rows]
        /\ \A s \in Session : /\ Live(s)' => Live(s) /\ row'[s] = row[s]
                              /\ row'[s].state = "none" <=> row[s].state = "none"
                              /\ s \in S => ~Live(s)'
    BY <2>1, Fading DEF Inv
  <2>3. req[r].browser \notin disturbed \cup mixed \cup careless =>
          req[r].app # "admin" /\ \A s \in Session \ abandoned' : Live(s)' => row[s].by # req[r].browser
    BY <1>1, <1>3, <2>1, <2>2, TheOne DEF Inv, Tidy, RevokeOwn
  <2> QED BY <1>1, <1>3, <2>2, <2>3, MoveStep DEF RevokeOwn, Inv, ReuseIsReal
<1>4. CASE RevokeFamily(r)
  <2>1. Revoked(Session)
    BY <1>4 DEF RevokeFamily
  <2>2. /\ row' \in [Session -> Rows]
        /\ \A s \in Session : /\ Live(s)' => Live(s) /\ row'[s] = row[s]
                              /\ row'[s].state = "none" <=> row[s].state = "none"
    BY <2>1, Fading DEF Inv
  <2>3. req[r].browser \in disturbed \cup mixed
    BY <1>1, <1>4 DEF Inv, Fresh, RevokeFamily
  <2> QED BY <1>1, <1>4, <2>2, <2>3, MoveStep DEF RevokeFamily, Inv, ReuseIsReal
<1>5. CASE FindSession(r)
  <2>1. pc[r] = "find" /\ Held(req[r].cookie) /\ UNCHANGED <<row, jar, minted, alarmed, disturbed, mixed, careless, abandoned>>
    BY <1>5 DEF Inv, Owned, FindSession
  <2>2. CASE Go(r, "find", "rotate") /\ UNCHANGED req
    BY <1>1, <2>1, <2>2, MoveStep DEF Inv, ReuseIsReal
  <2>3. CASE End(r, "find")
    BY <1>1, <2>1, <2>3, MoveStep DEF Inv, ReuseIsReal
  <2>4. CASE Go(r, "find", "revoke_family") /\ UNCHANGED req /\ ~Current(req[r].cookie)
    <3>1. req[r].browser \in disturbed \cup mixed
      BY <1>1, <2>1, <2>4 DEF Inv, Fresh
    <3> QED BY <1>1, <2>1, <2>4, <3>1, MoveStep DEF Inv, ReuseIsReal
  <2> QED BY <1>5, <2>2, <2>3, <2>4 DEF FindSession
<1>6. CASE CheckBan(r)
  <2>1. CASE banned
    BY <1>1, <1>6, <2>1, MoveStep DEF CheckBan, Inv, ReuseIsReal
  <2>2. CASE ~banned
    <3>1. req[r].browser \notin disturbed \cup mixed \cup careless =>
            \A s \in Session \ abandoned : Live(s) /\ row[s].by = req[r].browser => s = req[r].cookie.session
      BY <1>1, <1>6, <2>2, TheOne DEF Inv, Tidy, CheckBan
    <3> QED BY <1>1, <1>6, <2>2, <3>1, MoveStep DEF CheckBan, Inv, ReuseIsReal
  <2> QED BY <2>1, <2>2
<1>7. CASE Lose(r)
  <2>1. stops' \in 0 .. MaxStops
    BY <1>1, <1>7, SessionsAssumption DEF Lose, SessionsAssumption
  <2>2. /\ pc[r] # "idle" /\ pc' = [pc EXCEPT ![r] = "idle"] /\ req' = [req EXCEPT ![r] = NoReq]
        /\ disturbed' = disturbed \cup {req[r].browser}
        /\ UNCHANGED <<row, minted, jar, alarmed, mixed, careless, abandoned, banned, epoch, evicting, raced>>
    BY <1>7 DEF Lose
  <2>3. alarmed' \subseteq disturbed' \cup mixed
    BY <2>2 DEF Inv, ReuseIsReal
  <2>4. req[r].browser \in disturbed' \cup mixed
    BY <2>2
  <2> QED BY <1>1, <2>1, <2>2, <2>3, <2>4, MoveStep
<1>8. CASE RevokePriorFails(r)
  <2>1. stops' \in 0 .. MaxStops
    BY <1>1, <1>8, SessionsAssumption DEF RevokePriorFails, SessionsAssumption
  <2>2. /\ pc[r] = "revoke_prior" /\ pc' = [pc EXCEPT ![r] = "insert"] /\ req' = req
        /\ abandoned' = abandoned \cup ({req[r].cookie.session} \cap Session)
        /\ UNCHANGED <<row, minted, jar, alarmed, disturbed, mixed, careless, banned, epoch, evicting, raced>>
    BY <1>8 DEF RevokePriorFails
  <2>3. abandoned \subseteq abandoned' /\ abandoned' \subseteq Session
    BY <2>2 DEF Inv, TypeOK
  <2>4. req[r].browser \notin disturbed \cup mixed \cup careless =>
          /\ req[r].app # "admin"
          /\ \A s \in Session \ abandoned' : Live(s)' => row[s].by # req[r].browser
    BY <1>1, <2>2, TheOne DEF Inv, Tidy
  <2>5. alarmed' \subseteq disturbed' \cup mixed
    BY <2>2 DEF Inv, ReuseIsReal
  <2> QED BY <1>1, <2>1, <2>2, <2>3, <2>4, <2>5, MoveStep
<1> QED BY <1>2, <1>3, <1>4, <1>5, <1>6, <1>7, <1>8

(* A new session takes a row that nothing names yet. *)
LEMMA InsertInv == ASSUME Inv, NEW r \in Req, NEW s \in Session, Insert(r, s) PROVE Inv'
<1>0. PICK b, new : b = req[r].browser /\ new = [session |-> s, token |-> minted + 1]
  OBVIOUS
<1>1. /\ pc[r] = "insert" /\ row[s].state = "none" /\ b \in Browser /\ minted \in Nat /\ s # 0
      /\ pc' = [pc EXCEPT ![r] = "answer"]
      /\ req' = [req EXCEPT ![r].cookie = new]
      /\ row' = [row EXCEPT ![s] = [state |-> "live", current |-> minted + 1, previous |-> 0,
                                    by |-> b, opened |-> req[r].epoch]]
      /\ minted' = minted + 1
      /\ UNCHANGED <<jar, banned, epoch, evicting, raced, alarmed, disturbed, mixed, careless, abandoned, stops>>
  BY <1>0 DEF Inv, TypeOK, Owned, Insert, Unused, Session
<1>2. /\ req[r] \in Carried /\ req[r].epoch \in Nat /\ new \in Cookies
  <2>1. req[r] \in Carried /\ req[r].epoch \in Nat
    BY DEF Inv, TypeOK, Carried
  <2>2. new \in Cookies
    BY <1>0, <1>1, SessionsAssumption DEF Cookies, Session, SessionsAssumption
  <2> QED BY <2>1, <2>2
<1>3. /\ Others(r) /\ pc'[r] = "answer"
      /\ req'[r].browser = b /\ req'[r].app = req[r].app /\ req'[r].cookie = new
  BY <1>0, <1>1, <1>2 DEF Inv, TypeOK, Carried
<1>4. /\ \A t \in Session \ {s} : row'[t] = row[t]
      /\ row'[s].state = "live" /\ row'[s].current = minted + 1 /\ row'[s].by = b /\ row'[s].opened = req[r].epoch
  BY <1>1 DEF Inv, TypeOK
<1>5. TypeOK'
  <2>1. Tables'
    BY <1>1, <1>2 DEF Inv, TypeOK, Tables, Rows
  <2>2. Requests'
    BY <1>1, <1>2 DEF Inv, TypeOK, Requests, Carried, Steps
  <2>3. Rest'
    BY <1>1 DEF Inv, TypeOK, Rest
  <2> QED BY <2>1, <2>2, <2>3 DEF TypeOK, Tables, Requests, Rest
<1>6. /\ \A c \in Browser, a \in App : Held(jar[c][a]) => jar[c][a].session \in Session \ {s}
      /\ \A q \in Req \ {r} : pc[q] # "idle" /\ Held(req[q].cookie) => req[q].cookie.session \in Session \ {s}
  BY <1>1, Named DEF Inv, Owned
<1>7. Owned'
  <2>1. new.session = s /\ new.session # 0
    BY <1>0, <1>1
  <2>2. \A c \in Browser, a \in App : Held(jar'[c][a]) => Owns(c, jar[c][a])'
    BY <1>1, <1>4, <1>6 DEF Inv, Owned
  <2>3. Owns(b, new)'
    BY <1>4, <2>1
  <2>4. ASSUME NEW q \in Req
        PROVE  /\ pc'[q] # "idle" => req'[q].browser \in Browser
               /\ pc'[q] \in Rotating \cup {"answer"} => Held(req'[q].cookie)
               /\ pc'[q] # "idle" /\ Held(req'[q].cookie) => Owns(req[q].browser, req[q].cookie)'
    <3>1. CASE q = r
      BY <1>1, <1>3, <2>1, <2>3, <3>1
    <3>2. CASE q # r
      BY <1>3, <1>4, <1>6, <3>2 DEF Inv, Owned
    <3> QED BY <3>1, <3>2
  <2>5. \A t \in Session : Live(t)' => row'[t].by \in Browser
    BY <1>1, <1>4 DEF Inv, Owned
  <2> QED BY <2>2, <2>4, <2>5 DEF Owned
<1>8. OneAtATime' /\ ReuseIsReal'
  BY <1>0, <1>1, <1>3 DEF Inv, OneAtATime, ReuseIsReal
<1>9. Fresh'
  <2>1. new.session = s /\ new.token = minted + 1
    BY <1>0
  <2>2. \A q \in Req \ {r} : pc[q] \in {"find", "rotate"} \cup Updated => req[q].cookie.session \in Session \ {s}
    BY <1>6 DEF Inv, Owned
  <2> SUFFICES ASSUME NEW c \in Browser, c \notin disturbed, c \notin mixed
               PROVE  FreshAt(c)'
    BY <1>1 DEF Fresh
  <2>3. FreshAt(c) /\ jar' = jar
    BY <1>1 DEF Inv, Fresh
  <2>4. Current(new)'
    BY <1>4, <2>1
  <2>5. ASSUME NEW a \in App, Held(jar[c][a]), Current(jar[c][a]) PROVE Current(jar[c][a])'
    BY <1>4, <1>6, <2>3, <2>5
  <2>6. \A q \in Req : q # r => pc'[q] = pc[q] /\ req'[q] = req[q]
    BY <1>3
  <2>7. \A q \in Req \ {r} : pc[q] \in {"find", "rotate"} \cup Updated /\ Current(req[q].cookie)
                              => Current(req[q].cookie)'
    BY <1>4, <2>2, <2>6
  <2>8. pc[r] \notin Updated \cup {"revoke_family"} /\ pc'[r] # "revoke_family" /\ req'[r].cookie = new
    BY <1>1, <1>3
  <2> QED BY <2>3, <2>4, <2>5, <2>6, <2>7, <2>8
<1>10. Tidy'
  <2>1. new.session = s
    BY <1>0
  <2> QED BY <1>1, <1>3, <1>4, <2>1, <1>0 DEF Inv, OneAtATime, Tidy
<1>11. Opened'
  BY <1>1, <1>3, <1>4 DEF Inv, Opened
<1> QED BY <1>5, <1>7, <1>8, <1>9, <1>10, <1>11 DEF Inv

(* The answer brings the cookie; if it was of the other app, both are held. *)
LEMMA AnswerInv == ASSUME Inv, NEW r \in Req, Answer(r) PROVE Inv'
<1>0. PICK b, a, it : b = req[r].browser /\ a = req[r].app /\ it = req[r].cookie
  OBVIOUS
<1>1. /\ pc[r] = "answer" /\ pc' = [pc EXCEPT ![r] = "idle"] /\ req' = [req EXCEPT ![r] = NoReq]
      /\ jar' = [jar EXCEPT ![b][a] = it]
      /\ mixed' = IF \A x \in {"public", "admin"} : Held(jar'[b][x]) THEN mixed \cup {b} ELSE mixed
      /\ UNCHANGED <<row, minted, banned, epoch, evicting, raced, alarmed, disturbed, careless, abandoned, stops>>
  BY <1>0 DEF Answer
<1>2. b \in Browser /\ a \in App /\ it \in Cookies /\ Held(it) /\ Owns(b, it)
  BY <1>0, <1>1 DEF Inv, TypeOK, Owned, Carried
<1>3. /\ \A c \in Browser, x \in App : jar'[c][x] = IF c = b /\ x = a THEN it ELSE jar[c][x]
      /\ Others(r) /\ pc'[r] = "idle"
  BY <1>1, <1>2 DEF Inv, TypeOK
<1>4. TypeOK'
  <2>1. Tables'
    BY <1>1, <1>2 DEF Inv, TypeOK, Tables
  <2>2. Requests'
    BY <1>1, SessionsAssumption
    DEF Inv, TypeOK, Requests, Steps, NoReq, NoCookie, Carried, Cookies, SessionsAssumption
  <2>3. Rest'
    BY <1>1, <1>2 DEF Inv, TypeOK, Rest
  <2> QED BY <2>1, <2>2, <2>3 DEF TypeOK, Tables, Requests, Rest
<1>5. Owned'
  <2>1. \A c \in Browser, x \in App : Held(jar'[c][x]) => Owns(c, jar'[c][x])
    BY <1>2, <1>3 DEF Inv, Owned
  <2>2. row' = row
    BY <1>1
  <2> QED BY <1>3, <2>1, <2>2 DEF Inv, Owned
<1>6. OneAtATime' /\ ReuseIsReal'
  BY <1>1, <1>2, <1>3 DEF Inv, OneAtATime, ReuseIsReal
<1>7. b \notin disturbed => \A q \in Req : ~In(b, q)'
  BY <1>0, <1>1, <1>2, <1>3 DEF Inv, OneAtATime
<1>8. b \notin mixed' => \A x \in App \ {a} : ~Held(jar'[b][x])
  BY <1>1, <1>2, <1>3
<1>9. mixed \subseteq mixed' /\ mixed' \subseteq mixed \cup {b}
  BY <1>1
<1>10. Fresh'
  <2>1. b \notin disturbed \cup mixed => Current(it)
    BY <1>0, <1>1, <1>2 DEF Inv, Fresh
  <2> SUFFICES ASSUME NEW c \in Browser, c \notin disturbed, c \notin mixed'
               PROVE  FreshAt(c)'
    BY <1>1 DEF Fresh
  <2>2. c \notin mixed
    BY <1>9
  <2>3. CASE c = b
    <3>1. Current(it)'
      BY <1>1, <2>1, <2>2, <2>3
    <3> QED BY <1>2, <1>3, <1>7, <1>8, <2>3, <3>1
  <2>4. CASE c # b
    <3>1. \A q \in Req : /\ In(c, q)' => In(c, q) /\ pc'[q] = pc[q] /\ req'[q] = req[q]
                         /\ In(c, q) => In(c, q)'
      BY <1>0, <1>3, <2>4
    <3>2. \A x \in App : jar'[c][x] = jar[c][x]
      BY <1>3, <2>4
    <3> QED BY <1>1, <2>2, <3>1, <3>2 DEF Inv, Fresh
  <2> QED BY <2>3, <2>4
<1>11. Tidy'
  <2>1. b \notin disturbed \cup mixed' \cup careless =>
          /\ a = "public" /\ ~Held(jar[b]["admin"])
          /\ \A s \in Session \ abandoned : Live(s) /\ row[s].by = b => s = it.session
    <3> SUFFICES ASSUME b \notin disturbed \cup mixed' \cup careless
                 PROVE  /\ a = "public" /\ ~Held(jar[b]["admin"])
                        /\ \A s \in Session \ abandoned : Live(s) /\ row[s].by = b => s = it.session
      OBVIOUS
    <3>1. In(b, r) /\ b \notin mixed
      BY <1>0, <1>1, <1>9
    <3>2. /\ ~Held(jar[b]["admin"]) /\ a = "admin" => Held(jar[b]["public"])
          /\ \A s \in Session \ abandoned : Live(s) /\ row[s].by = b => s = it.session
      BY <1>0, <1>1, <1>2, <3>1 DEF Inv, Tidy
    <3>3. ~Held(jar[b]["admin"])
      BY <1>2, <3>1 DEF Inv, Tidy
    <3>4. a = "admin" => Held(jar[b]["public"])
      BY <1>0, <1>1, <1>2, <3>1 DEF Inv, Tidy
    <3>5. a # "admin"
      <4> SUFFICES ASSUME a = "admin" PROVE FALSE
        OBVIOUS
      <4>1. ~Held(jar'[b]["public"])
        BY <1>8
      <4>2. jar'[b]["public"] = jar[b]["public"]
        BY <1>2, <1>3
      <4> QED BY <3>4, <4>1, <4>2
    <3> QED BY <1>2, <3>2, <3>3, <3>5
  <2> SUFFICES ASSUME NEW c \in Browser, c \notin disturbed, c \notin mixed', c \notin careless
               PROVE  TidyAt(c)'
    BY <1>1 DEF Tidy
  <2>2. c \notin mixed
    BY <1>9
  <2>3. CASE c = b
    BY <1>1, <1>2, <1>3, <1>7, <2>1, <2>3
  <2>4. CASE c # b
    <3>1. \A q \in Req : /\ In(c, q)' => In(c, q) /\ pc'[q] = pc[q] /\ req'[q] = req[q]
                         /\ In(c, q) => In(c, q)'
      BY <1>0, <1>3, <2>4
    <3>2. \A x \in App : jar'[c][x] = jar[c][x]
      BY <1>3, <2>4
    <3> QED BY <1>1, <2>2, <3>1, <3>2 DEF Inv, Tidy
  <2> QED BY <2>3, <2>4
<1>12. Opened'
  BY <1>1, <1>3 DEF Inv, Opened
<1> QED BY <1>4, <1>5, <1>6, <1>10, <1>11, <1>12 DEF Inv

(* Only the browser that owns a session rotates it, and the answer is on   *)
(* its way.                                                                *)
LEMMA RotateInv == ASSUME Inv, NEW r \in Req, Rotate(r) PROVE Inv'
<1>0. PICK b, s : b = req[r].browser /\ s = req[r].cookie.session
  OBVIOUS
<1>1. /\ pc[r] = "rotate" /\ b \in Browser /\ s \in Session /\ minted \in Nat
      /\ Owns(b, req[r].cookie)
  BY <1>0, Named DEF Inv, TypeOK, Owned, Rotate
<1>2. /\ pc' = [pc EXCEPT ![r] = "check_ban"]
      /\ req' = [req EXCEPT ![r].cookie.token = minted + 1]
      /\ row' = [row EXCEPT ![s].previous = row[s].current, ![s].current = minted + 1]
      /\ minted' = minted + 1
      /\ UNCHANGED <<jar, banned, epoch, evicting, raced, alarmed, disturbed, mixed, careless, abandoned, stops>>
  BY <1>0 DEF Rotate
<1>3. req[r] \in Carried /\ req[r].cookie \in Cookies /\ row[s] \in Rows /\ pc \in [Req -> Steps]
  BY <1>0, <1>1, Named DEF Inv, TypeOK
<1>4. /\ Others(r) /\ pc'[r] = "check_ban"
      /\ req'[r].browser = b /\ req'[r].app = req[r].app
      /\ req'[r].cookie.session = s /\ req'[r].cookie.token = minted + 1
  BY <1>0, <1>2, <1>3 DEF Inv, TypeOK, Carried, Cookies
<1>5. /\ \A t \in Session \ {s} : row'[t] = row[t]
      /\ row'[s].state = row[s].state /\ row'[s].current = minted + 1 /\ row'[s].by = row[s].by
      /\ row'[s].opened = row[s].opened
  BY <1>1, <1>2, <1>3 DEF Inv, TypeOK, Rows
<1>6. TypeOK'
  <2>1. Tables'
    <3>1. row'[s] = [row[s] EXCEPT !.previous = row[s].current, !.current = minted + 1]
      BY <1>1, <1>2 DEF Inv, TypeOK
    <3>2. row[s].current \in Nat /\ minted + 1 \in Nat
      BY <1>1, <1>3 DEF Rows
    <3>3. row'[s] \in Rows
      BY <1>3, <3>1, <3>2 DEF Rows
    <3> QED BY <1>1, <1>2, <3>3 DEF Inv, TypeOK, Tables
  <2>2. Requests'
    <3>1. req'[r] = [req[r] EXCEPT !.cookie = [req[r].cookie EXCEPT !.token = minted + 1]]
      BY <1>2 DEF Inv, TypeOK
    <3>2. [req[r].cookie EXCEPT !.token = minted + 1] \in Cookies
      BY <1>1, <1>3 DEF Cookies
    <3>3. req'[r] \in Carried
      BY <1>3, <3>1, <3>2 DEF Carried
    <3> QED BY <1>2, <3>3 DEF Inv, TypeOK, Requests, Steps
  <2>3. Rest'
    BY <1>1, <1>2 DEF Inv, TypeOK, Rest
  <2> QED BY <2>1, <2>2, <2>3 DEF TypeOK, Tables, Requests, Rest
<1>7. /\ \A c \in Browser, x \in App : Held(jar[c][x]) => jar[c][x].session \in Session
      /\ \A q \in Req : Held(req[q].cookie) => req[q].cookie.session \in Session
  BY Named DEF Inv
<1>8. Owned'
  <2>1. \A t \in Session : row'[t].state = row[t].state /\ row'[t].by = row[t].by
    BY <1>5
  <2>2. \A q \in Req : /\ req'[q].browser = req[q].browser /\ req'[q].cookie.session = req[q].cookie.session
                       /\ pc'[q] = "idle" <=> pc[q] = "idle"
                       /\ pc'[q] \in Rotating \cup {"answer"} <=> pc[q] \in Rotating \cup {"answer"}
    BY <1>0, <1>1, <1>4
  <2>3. \A c \in Browser, x \in App : Held(jar'[c][x]) => Owns(c, jar[c][x])'
    <3> SUFFICES ASSUME NEW c \in Browser, NEW x \in App, Held(jar'[c][x]) PROVE Owns(c, jar[c][x])'
      OBVIOUS
    <3>1. jar' = jar
      BY <1>2
    <3>2. Owns(c, jar[c][x]) /\ jar[c][x].session \in Session
      BY <1>7, <3>1 DEF Inv, Owned
    <3> QED BY <2>1, <3>1, <3>2
  <2>4. ASSUME NEW q \in Req
        PROVE  /\ pc'[q] # "idle" => req'[q].browser \in Browser
               /\ pc'[q] \in Rotating \cup {"answer"} => Held(req'[q].cookie)
               /\ pc'[q] # "idle" /\ Held(req'[q].cookie) => Owns(req[q].browser, req[q].cookie)'
    <3>1. /\ pc[q] # "idle" => req[q].browser \in Browser
          /\ pc[q] \in Rotating \cup {"answer"} => Held(req[q].cookie)
          /\ pc[q] # "idle" /\ Held(req[q].cookie) => Owns(req[q].browser, req[q].cookie)
      BY DEF Inv, Owned
    <3>2. pc[q] # "idle" /\ Held(req[q].cookie) => Owns(req[q].browser, req[q].cookie)'
      BY <1>7, <2>1, <2>2, <3>1
    <3> QED BY <2>2, <3>1, <3>2
  <2>5. \A t \in Session : Live(t)' => row'[t].by \in Browser
    BY <2>1 DEF Inv, Owned
  <2> QED BY <2>3, <2>4, <2>5 DEF Owned
<1>9. OneAtATime' /\ ReuseIsReal'
  BY <1>0, <1>1, <1>2, <1>4 DEF Inv, OneAtATime, ReuseIsReal
<1>10. Fresh'
  <2>1. \A c \in Browser, x \in App : Held(jar[c][x]) /\ jar[c][x].session # s /\ Current(jar[c][x]) => Current(jar[c][x])'
    BY <1>2, <1>5, <1>7
  <2>2. \A c \in Browser, x \in App : Held(jar[c][x]) /\ jar[c][x].session = s /\ c # b => ~Live(s)
    BY <1>0, <1>1 DEF Inv, Owned
  <2>3. \A q \in Req \ {r} : pc[q] # "idle" /\ Held(req[q].cookie) /\ req[q].cookie.session = s /\ req[q].browser # b => ~Live(s)
    BY <1>0, <1>1 DEF Inv, Owned
  <2>4. \A q \in Req \ {r} : In(b, q) => b \in disturbed
    BY <1>0, <1>1 DEF Inv, OneAtATime
  <2>5. \A q \in Req : pc[q] \in {"find", "rotate"} \cup Updated => Held(req[q].cookie)
    BY DEF Inv, Owned
  <2>6. Live(s)' <=> Live(s)
    BY <1>5
  <2> SUFFICES ASSUME NEW c \in Browser, c \notin disturbed, c \notin mixed
               PROVE  FreshAt(c)'
    BY <1>2 DEF Fresh
  <2>7. CASE c = b
    <3>1. \A q \in Req : In(b, q) => q = r
      BY <2>4, <2>7
    <3>2. \A q \in Req : In(b, q)' => q = r
      BY <1>4, <3>1
    <3>3. In(b, r) /\ In(b, r)'
      BY <1>0, <1>1, <1>4
    <3>4. Current(req[r].cookie)'
      BY <1>4, <1>5
    <3>5. \A x \in App : Held(jar[b][x]) /\ jar[b][x].session # s => Current(jar[b][x])
      BY <1>1, <2>7, <3>1, <3>3 DEF Inv, Fresh
    <3>6. pc'[r] \in Updated /\ pc'[r] # "revoke_family" /\ req'[r].cookie.session = s /\ jar' = jar
      BY <1>2, <1>4
    <3>7. ASSUME NEW x \in App, Held(jar[b][x]), jar[b][x].session # s PROVE Current(jar[b][x])'
      BY <1>1, <2>1, <3>5, <3>7
    <3> QED BY <2>7, <3>2, <3>3, <3>4, <3>6, <3>7
  <2>8. CASE c # b
    <3>1. \A q \in Req : In(c, q)' => q # r /\ In(c, q) /\ pc'[q] = pc[q] /\ req'[q] = req[q]
      BY <1>0, <1>4, <2>8
    <3>2. \A q \in Req : In(c, q) => In(c, q)' /\ q # r
      BY <1>0, <1>4, <2>8
    <3>3. ASSUME NEW q \in Req, In(c, q), q # r, pc[q] \in {"find", "rotate"} \cup Updated,
                 Current(req[q].cookie)
          PROVE  Current(req[q].cookie)'
      BY <1>4, <1>5, <1>7, <2>3, <2>5, <2>6, <2>8, <3>3
    <3>4. \A x \in App : Held(jar[c][x]) /\ Current(jar[c][x]) => Current(jar[c][x])'
      BY <1>2, <2>1, <2>2, <2>6, <2>8
    <3>5. jar' = jar /\ FreshAt(c)
      BY <1>2 DEF Inv, Fresh
    <3> QED BY <3>1, <3>2, <3>3, <3>4, <3>5
  <2> QED BY <2>7, <2>8
<1>11. Tidy'
  <2>1. \A t \in Session : (Live(t)' <=> Live(t)) /\ row'[t].by = row[t].by
    BY <1>5
  <2>2. b \notin disturbed \cup mixed \cup careless =>
          s = jar[b]["public"].session /\ (req[r].app = "admin" => Held(jar[b]["public"]))
    BY <1>0, <1>1 DEF Inv, Tidy
  <2>3. \A q \in Req : In(b, q)' <=> In(b, q)
    BY <1>0, <1>1, <1>4
  <2> SUFFICES ASSUME NEW c \in Browser, c \notin disturbed, c \notin mixed, c \notin careless
               PROVE  TidyAt(c)'
    BY <1>2 DEF Tidy
  <2>4. TidyAt(c) /\ jar' = jar /\ abandoned' = abandoned
    BY <1>2 DEF Inv, Tidy
  <2>5. \A q \in Req : In(c, q)' => In(c, q)
    BY <1>0, <1>1, <1>4
  <2>6. CASE c = b
    <3>1. In(b, r) /\ pc[r] # "answer"
      BY <1>0, <1>1
    <3>2. \A q \in Req : In(b, q) => q = r
      BY <1>1, <2>6, <3>1 DEF Inv, OneAtATime
    <3>3. \A t \in Session \ abandoned : Live(t) /\ row[t].by = b => t = jar[b]["public"].session
      BY <2>4, <2>6, <3>1, <3>2
    <3> QED BY <1>4, <2>1, <2>2, <2>4, <2>5, <2>6, <3>2, <3>3
  <2>7. CASE c # b
    <3>1. \A q \in Req : /\ In(c, q)' => In(c, q) /\ pc'[q] = pc[q] /\ req'[q] = req[q]
                         /\ In(c, q) => In(c, q)'
      BY <1>0, <1>4, <2>7
    <3> QED BY <2>1, <2>4, <3>1
  <2> QED BY <2>6, <2>7
<1>12. Opened'
  <2>1. \A t \in Session : (Live(t)' <=> Live(t)) /\ row'[t].opened = row[t].opened
    BY <1>5
  <2>2. \A q \in SigningIn' : q \in SigningIn /\ req'[q] = req[q]
    BY <1>1, <1>4
  <2> QED BY <1>2, <2>1, <2>2 DEF Inv, Opened
<1> QED BY <1>6, <1>8, <1>9, <1>10, <1>11, <1>12 DEF Inv

(* Nothing of the browser is left when its cookies go. *)
LEMMA ClearInv == ASSUME Inv, NEW r \in Req, ClearCookies(r) PROVE Inv'
<1>0. PICK b : b = req[r].browser
  OBVIOUS
<1>1. /\ pc[r] = "clear" /\ pc' = [pc EXCEPT ![r] = "idle"] /\ req' = [req EXCEPT ![r] = NoReq]
      /\ jar' = [jar EXCEPT ![b] = [a \in {"public", "admin"} |-> NoCookie]]
      /\ b \in Browser
      /\ UNCHANGED <<row, minted, banned, epoch, evicting, raced, alarmed, disturbed, mixed, careless, abandoned, stops>>
  BY <1>0 DEF Inv, Owned, ClearCookies
<1>2. NoCookie \in Cookies /\ ~Held(NoCookie) /\ NoCookie.session \notin Session
  BY SessionsAssumption DEF NoCookie, Cookies, Session, SessionsAssumption
<1>3. /\ \A c \in Browser, x \in App : jar'[c][x] = IF c = b THEN NoCookie ELSE jar[c][x]
      /\ Others(r) /\ pc'[r] = "idle"
  BY <1>1 DEF Inv, TypeOK
<1>4. TypeOK'
  <2>1. Tables'
    BY <1>1, <1>2 DEF Inv, TypeOK, Tables
  <2>2. Requests'
    BY <1>1, SessionsAssumption
    DEF Inv, TypeOK, Requests, Steps, NoReq, NoCookie, Carried, Cookies, SessionsAssumption
  <2>3. Rest'
    BY <1>1 DEF Inv, TypeOK, Rest
  <2> QED BY <2>1, <2>2, <2>3 DEF TypeOK, Tables, Requests, Rest
<1>5. Owned'
  <2>1. \A c \in Browser, x \in App : Held(jar'[c][x]) => Owns(c, jar'[c][x])
    BY <1>2, <1>3 DEF Inv, Owned
  <2>2. row' = row
    BY <1>1
  <2> QED BY <1>3, <2>1, <2>2 DEF Inv, Owned
<1>6. OneAtATime' /\ ReuseIsReal'
  BY <1>1, <1>2, <1>3 DEF Inv, OneAtATime, ReuseIsReal
<1>7. \A c \in Browser, q \in Req : In(c, q)' => In(c, q) /\ q # r /\ pc'[q] = pc[q] /\ req'[q] = req[q]
  BY <1>3
<1>8. \A c \in Browser, q \in Req : In(c, q) => In(c, q)' \/ q = r
  BY <1>3
<1>9. Fresh'
  BY <1>1, <1>2, <1>3, <1>7, <1>8 DEF Inv, Fresh
<1>10. Tidy'
  <2>1. b \notin disturbed \cup mixed \cup careless => \A s \in Session \ abandoned : Live(s) => row[s].by # b
    BY <1>0, <1>1 DEF Inv, Tidy
  <2>2. b \notin disturbed => \A q \in Req : ~In(b, q)'
    BY <1>0, <1>1, <1>7 DEF Inv, OneAtATime
  <2>3. \A c \in Browser \ {b} : In(c, r) => FALSE
    BY <1>0
  <2> QED BY <1>1, <1>2, <1>3, <1>7, <1>8, <2>1, <2>2, <2>3 DEF Inv, Tidy
<1>11. Opened'
  BY <1>1, <1>3 DEF Inv, Opened
<1> QED BY <1>4, <1>5, <1>6, <1>9, <1>10, <1>11 DEF Inv

(* The session of a cookie that lapses is left behind, on record. *)
LEMMA LapseInv == ASSUME Inv, NEW b \in Browser, NEW a \in App, CookieLapses(b, a) PROVE Inv'
<1>1. /\ Held(jar[b][a]) /\ jar' = [jar EXCEPT ![b][a] = NoCookie]
      /\ stops < MaxStops /\ stops' = stops + 1
      /\ abandoned' = abandoned \cup {jar[b][a].session}
      /\ disturbed' = IF InFlight(b) = {} THEN disturbed ELSE disturbed \cup {b}
      /\ UNCHANGED <<row, minted, pc, req, banned, epoch, evicting, raced, alarmed, mixed, careless>>
  BY DEF CookieLapses
<1>2. NoCookie \in Cookies /\ ~Held(NoCookie) /\ jar[b][a].session \in Session
  BY <1>1, Named, SessionsAssumption DEF Inv, NoCookie, Cookies, Session, SessionsAssumption
<1>3. \A c \in Browser, x \in App : jar'[c][x] = IF c = b /\ x = a THEN NoCookie ELSE jar[c][x]
  BY <1>1 DEF Inv, TypeOK
<1>4. TypeOK'
  <2>1. Tables'
    BY <1>1, <1>2 DEF Inv, TypeOK, Tables
  <2>2. Requests'
    BY <1>1 DEF Inv, TypeOK, Requests
  <2>3. stops' \in 0 .. MaxStops
    BY <1>1, SessionsAssumption DEF Inv, TypeOK, SessionsAssumption
  <2>4. Rest'
    BY <1>1, <1>2, <2>3 DEF Inv, TypeOK, Rest
  <2> QED BY <2>1, <2>2, <2>4 DEF TypeOK, Tables, Requests, Rest
<1>5. Owned'
  <2>1. \A c \in Browser, x \in App : Held(jar'[c][x]) => Owns(c, jar'[c][x])
    BY <1>2, <1>3 DEF Inv, Owned
  <2>2. row' = row /\ pc' = pc /\ req' = req
    BY <1>1
  <2> QED BY <2>1, <2>2 DEF Inv, Owned
<1>6. disturbed \subseteq disturbed' /\ (b \notin disturbed' => \A q \in Req : ~In(b, q))
  BY <1>1 DEF InFlight, Busy
<1>7. OneAtATime' /\ ReuseIsReal'
  BY <1>1, <1>2, <1>3, <1>6 DEF Inv, OneAtATime, ReuseIsReal
<1>8. Fresh'
  <2> SUFFICES ASSUME NEW c \in Browser, c \notin disturbed', c \notin mixed
               PROVE  FreshAt(c)'
    BY <1>1 DEF Fresh
  <2>1. FreshAt(c)
    BY <1>6 DEF Inv, Fresh
  <2> QED BY <1>1, <1>2, <1>3, <2>1
<1>9. Tidy'
  <2> SUFFICES ASSUME NEW c \in Browser, c \notin disturbed', c \notin mixed, c \notin careless
               PROVE  TidyAt(c)'
    BY <1>1 DEF Tidy
  <2>1. TidyAt(c)
    BY <1>6 DEF Inv, Tidy
  <2>2. CASE c = b
    BY <1>1, <1>2, <1>3, <1>6, <2>1, <2>2
  <2>3. CASE c # b
    <3>1. \A x \in App : jar'[c][x] = jar[c][x]
      BY <1>3, <2>3
    <3> QED BY <1>1, <2>1, <3>1
  <2> QED BY <2>2, <2>3
<1>10. Opened'
  BY <1>1 DEF Inv, Opened
<1> QED BY <1>4, <1>5, <1>7, <1>8, <1>9, <1>10 DEF Inv

(* An eviction notes the sign-ins it overtakes. *)
LEMMA EvictInv == ASSUME Inv, (\E ban \in BOOLEAN : Evict(ban)) \/ Unban PROVE Inv'
<1>0. epoch \in Nat /\ banned \in BOOLEAN /\ evicting \in BOOLEAN /\ raced \in BOOLEAN
  BY DEF Inv, TypeOK
<1>1. /\ UNCHANGED <<row, minted, jar, pc, req, alarmed, disturbed, mixed, careless, abandoned, stops>>
      /\ banned' \in BOOLEAN /\ evicting' \in BOOLEAN /\ raced' \in BOOLEAN /\ epoch' \in Nat
      /\ ~raced' => ~raced /\ (epoch' = epoch \/ SigningIn = {})
      /\ ~evicting' => ~evicting /\ epoch' = epoch
  <2>1. CASE \E ban \in BOOLEAN : Evict(ban)
    <3>1. PICK ban \in BOOLEAN : Evict(ban)
      BY <2>1
    <3>2. /\ UNCHANGED <<row, minted, jar, pc, req, alarmed, disturbed, mixed, careless, abandoned, stops>>
          /\ evicting' = TRUE /\ epoch' = epoch + 1
          /\ banned' = (banned \/ ban) /\ raced' = (raced \/ SigningIn # {})
      BY <3>1 DEF Evict
    <3>3. banned' \in BOOLEAN /\ raced' \in BOOLEAN /\ (~raced' => ~raced /\ SigningIn = {})
      BY <3>2
    <3> QED BY <1>0, <3>2, <3>3
  <2>2. CASE Unban
    BY <1>0, <2>2 DEF Unban
  <2> QED BY <2>1, <2>2
<1>2. TypeOK'
  BY <1>1 DEF Inv, TypeOK
<1>3. Owned' /\ OneAtATime' /\ ReuseIsReal'
  BY <1>1 DEF Inv, Owned, OneAtATime, ReuseIsReal
<1>4. Fresh' /\ Tidy'
  BY <1>1 DEF Inv, Fresh, Tidy
<1>5. Opened'
  BY <1>1 DEF Inv, Opened
<1> QED BY <1>2, <1>3, <1>4, <1>5 DEF Inv

(* Every step keeps the invariant. *)
LEMMA NextInv == Inv /\ [Next]_vars => Inv'
<1> SUFFICES ASSUME Inv, [Next]_vars PROVE Inv'
  OBVIOUS
<1>1. CASE Next
  <2>1. ASSUME NEW r \in Req, Serve(r) \/ Lose(r) PROVE Inv'
    BY <2>1, LeaveInv, InsertInv, AnswerInv, RotateInv, ClearInv DEF Serve
  <2>2. ASSUME NEW r \in Req, NEW b \in Browser,
               \/ SignInElsewhere(r, b) \/ Logout(r, b)
               \/ \E a \in Apps : Login(r, b, a) \/ Refresh(r, b, a)
        PROVE  Inv'
    BY <2>2, SendInv
  <2>3. ASSUME NEW b \in Browser, NEW a \in Apps, CookieLapses(b, a) PROVE Inv'
    BY <2>3, LapseInv, SessionsAssumption DEF SessionsAssumption
  <2> QED BY <1>1, <2>1, <2>2, <2>3, EndInv, EvictInv DEF Next
<1>2. CASE UNCHANGED vars
  <2>1. TypeOK'
    BY <1>2 DEF Inv, TypeOK, vars
  <2>2. Owned' /\ OneAtATime' /\ ReuseIsReal'
    BY <1>2 DEF Inv, Owned, OneAtATime, ReuseIsReal, vars
  <2>3. Fresh' /\ Tidy' /\ Opened'
    BY <1>2 DEF Inv, Fresh, Tidy, Opened, vars
  <2> QED BY <2>1, <2>2, <2>3 DEF Inv
<1> QED BY <1>1, <1>2

(* The invariant holds throughout. *)
LEMMA Invariance == Spec => []Inv
<1>1. Init => Inv
  BY InitInv
<1>2. Inv /\ [Next]_vars => Inv'
  BY NextInv
<1> QED BY <1>1, <1>2, PTL DEF Spec

-----------------------------------------------------------------------------
(* The sessions, the requests and the browsers keep to their types. *)
THEOREM TypeCorrect == Spec => []TypeOK
<1>1. Inv => TypeOK
  BY DEF Inv
<1> QED BY <1>1, Invariance, PTL

(* Nobody who waits for each answer and keeps to one app is ever taken for *)
(* a thief.                                                                *)
THEOREM AlarmsAreReal == Spec => []ReuseIsReal
<1>1. Inv => ReuseIsReal
  BY DEF Inv
<1> QED BY <1>1, Invariance, PTL

(* No live session is left without the browser that can use it, except one   *)
(* whose cookie lapsed or that a login failed to end.                        *)
THEOREM NoGhostRows == Spec => []NoGhosts
<1>1. Inv => NoGhosts
  <2> SUFFICES ASSUME Inv, NEW s \in Session, s \notin abandoned, Live(s), InFlight(row[s].by) = {},
                      row[s].by \notin disturbed \cup mixed \cup careless
               PROVE  jar[row[s].by]["public"] = [session |-> s, token |-> row[s].current]
    BY DEF NoGhosts
  <2> DEFINE b == row[s].by
             cookie == jar[b]["public"]
  <2>1. b \in Browser /\ cookie \in Cookies /\ s \in Session
    BY DEF Inv, TypeOK, Owned
  <2>2. \A r \in Req : ~In(b, r)
    BY DEF InFlight, Busy
  <2>3. cookie.session = s
    BY <2>1, <2>2 DEF Inv, Tidy
  <2>4. cookie.token = row[s].current
    <3>1. Held(cookie)
      BY <2>1, <2>3 DEF Session
    <3> QED BY <2>1, <2>2, <2>3, <3>1 DEF Inv, Fresh
  <2> QED BY <2>1, <2>3, <2>4 DEF Cookies
<1> QED BY <1>1, Invariance, PTL

(* An eviction that no sign-in overlapped leaves none of the old sessions. *)
THEOREM EvictionIsComplete == Spec => []EveryoneIsSignedOut
<1>1. Inv => EveryoneIsSignedOut
  BY DEF Inv, Opened, EveryoneIsSignedOut
<1> QED BY <1>1, Invariance, PTL
=============================================================================
