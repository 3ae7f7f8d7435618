-------------------------------- MODULE Prizes --------------------------------
(***************************************************************************)
(* A contest judged on its entries and the cash it promises: registration  *)
(* and conclusion (services/tournament.rs and the route that calls it),    *)
(* entries and judgements (services/contest.rs), plagiarism cases          *)
(* (services/plagiarism_cases.rs) and the escrow                           *)
(* (services/contest_prizes.rs).                                           *)
(*                                                                         *)
(* A handler serves one request at a time.  It reads in one step and       *)
(* writes in another, a transaction being one step, and locks nothing it   *)
(* reads; it may be cut off between two of them.  A transaction that fails *)
(* on another's posting key is cut off so.                                 *)
(***************************************************************************)
EXTENDS Movements

CONSTANTS Handler,     \* requests that may run at the same time
          Field,       \* who registers, first come first
          Sums,        \* the sums a sponsor may put up, in cents
          Fragments,   \* prize_pool_fragments
          MaxScore,    \* the best judge_score
          Nil,         \* nothing remembered
          MaxCuts,     \* how many requests are cut off
          MaxReopens,  \* how often an administrator reopens what was concluded
          MaxMoves     \* registrations, entries, judgements, accusations, changes of status

Entrant  == ToSet(Field)
Reasons  == {"cancelled", "no winner"}
Open     == {"registration", "active"}
ContestStatus == Open \cup {"upcoming", "concluded", "cancelled"}

(* Nobody registers twice, and a prize is a positive sum.                  *)
ASSUME PrizesAssumption ==
  /\ Field \in Seq(Entrant)
  /\ \A i, j \in DOMAIN Field : Field[i] = Field[j] => i = j
  /\ Sums \subseteq Nat \ {0}
  /\ Fragments \in Nat /\ MaxScore \in Nat

VARIABLES status,     \* tournaments.status
          escrow,     \* tournaments.prize_escrow_state
          prize,      \* tournaments.prize_cash_amount, 0 for NULL
          entered,    \* how many of the field have registered
          entry,      \* entry[u]: tournament_submissions, its status and judge_score
          score,      \* score[u]: tournament_participants.score
          rank,       \* rank[u]: tournament_participants.rank, 0 for NULL
          fragments,  \* fragments[u]: what the contest added to users.total_fragments
          accused,    \* entrants with an open plagiarism case
          condemned,  \* entrants with an upheld one
          journal,    \* the contest's postings in the ledger
          stage, memo, \* the next step of each handler, and what it has read
          crossed,     \* a request began before another was over
          podiums,    \* how many finishers stood on each podium that was written
          cuts, reopens, moves

contest   == <<status, escrow, prize, entered, rank, fragments, podiums>>
entries   == <<entry, score, accused, condemned>>
bounds    == <<cuts, reopens, moves>>
process   == <<stage, memo, crossed>>
prizeVars == <<contest, entries, journal, process, bounds>>

PrizesTypeOK ==
  /\ status    \in ContestStatus
  /\ escrow    \in {"none", "funded", "awarded", "refunded"}
  /\ prize     \in Sums \cup {0}
  /\ entered   \in 0 .. Len(Field)
  /\ entry     \in [Entrant -> [status : {"none", "submitted", "accepted", "disqualified"},
                                score : 0 .. MaxScore]]
  /\ score     \in [Entrant -> 0 .. MaxScore]
  /\ rank      \in [Entrant -> 0 .. Len(Field)]
  /\ fragments \in [Entrant -> Nat]
  /\ accused   \subseteq Entrant
  /\ condemned \subseteq Entrant
  /\ stage     \in [Handler -> {"idle", "register", "fund", "rescore", "check", "rank", "award",
                                "podium", "pay", "refund", "submit", "find", "seize"}]
  /\ crossed   \in BOOLEAN
  /\ podiums   \subseteq Nat

(* A contest that is announced or takes registrations, and has some. *)
PrizesInit ==
  /\ status    \in {"upcoming", "registration"}
  /\ escrow    = "none"
  /\ prize     = 0
  /\ entered   \in 0 .. Len(Field)
  /\ entry     = [u \in Entrant |-> [status |-> "none", score |-> 0]]
  /\ score     = [u \in Entrant |-> 0]
  /\ rank      = [u \in Entrant |-> 0]
  /\ fragments = [u \in Entrant |-> 0]
  /\ accused   = {}
  /\ condemned = {}
  /\ journal   = {}
  /\ stage     = [w \in Handler |-> "idle"]
  /\ memo      = [w \in Handler |-> Nil]
  /\ crossed   = FALSE
  /\ podiums   = {}
  /\ cuts = 0 /\ reopens = 0 /\ moves = 0

-----------------------------------------------------------------------------
(* The books. *)

Held  == <<"escrow", "contest", "held", "EUR">>
World == <<"external", "world", "out", "EUR">>
Pending(u) == Owed(u, "pending", "EUR")

Move(key, from, to, amount) ==
  [key |-> key, legs |-> <<Debit(from, amount), Credit(to, amount)>>]

Deposit(amount)        == Move(<<"prize_escrow">>, Psp("stripe", "EUR"), Held, amount)
Award(place, u, share) == Move(<<"prize_award", place>>, Held, Pending(u), share)
Return(reason, amount) == Move(<<"prize_refund", reason>>, Held, World, amount)
Seizure(u, amount)     == Move(<<"prize_confiscated", u>>, Pending(u), Held, amount)

(* A posting whose key the book holds is a replay and writes nothing. *)
Posted(ps) == journal \cup {p \in ps : \A q \in journal : q.key # p.key}

Of(kind)               == {p \in journal : p.key[1] = kind}
Credited(to, ps)       == -SumFunctionOnSet([p \in ps |-> Net(p.legs, to)], ps)
Claim(account)         == Credited(account, journal)
Awarded(u)             == Credited(Pending(u), Of("prize_award"))

(* BigDecimal::round: to the nearest cent, halves to the even one. *)
Percent(amount, part) ==
  LET cents == (amount * part) \div 100
      rest  == (amount * part) % 100
  IN  IF rest > 50 \/ (rest = 50 /\ cents % 2 = 1) THEN cents + 1 ELSE cents

Split == <<50, 30, 20>>

Least(a, b) == IF a < b THEN a ELSE b

(* split_for: the shares of the places that have a finisher, and what goes *)
(* back; with every place taken, what rounding left is the winner's.       *)
Rounded(amount, finishers) ==
  [i \in 1 .. Least(finishers, Len(Split)) |-> Percent(amount, Split[i])]

(* Mutant: what rounding left stays where it is. *)
Shares_Rounded(amount, finishers) == Rounded(amount, finishers)

Shares(amount, finishers) ==
  LET shares == Rounded(amount, finishers)
  IN  IF Len(shares) = Len(Split)
      THEN [shares EXCEPT ![1] = @ + amount - Total(shares)]
      ELSE shares

Unclaimed(amount, finishers) == amount - Total(Shares(amount, finishers))

-----------------------------------------------------------------------------
Proceed(w, from, to) ==
  /\ stage[w] = from /\ stage' = [stage EXCEPT ![w] = to]
  /\ crossed' = (crossed \/ (from = "idle" /\ \E x \in Handler : stage[x] # "idle"))
Keeps(w, value)   == memo' = [memo EXCEPT ![w] = value]
Forgets(w)        == Keeps(w, Nil)
Moved             == moves < MaxMoves /\ moves' = moves + 1 /\ UNCHANGED <<cuts, reopens>>

(* A request that only reads, and goes on with what it read or ends there. *)
Reads(w, from, to, value) ==
  /\ Proceed(w, from, to)
  /\ Keeps(w, IF to = "idle" THEN Nil ELSE value)
  /\ UNCHANGED <<contest, entries, journal, bounds>>

-----------------------------------------------------------------------------
(* The sponsor's money is recorded as held.  A second request that also    *)
(* read `none` replays the posting, and its UPDATE finds no row.           *)

Fund(w) ==
  \E amount \in Sums : escrow = "none" /\ Reads(w, "idle", "fund", amount)

RecordFunds(w) ==
  /\ Proceed(w, "fund", "idle") /\ Forgets(w)
  /\ journal' = Posted({Deposit(memo[w])})
  /\ prize'   = IF escrow = "none" THEN memo[w] ELSE prize
  /\ escrow'  = IF escrow = "none" THEN "funded" ELSE escrow
  /\ UNCHANGED <<status, entered, rank, fragments, podiums, entries, bounds>>

(* set_status: any status, but the table refuses to open a contest whose   *)
(* prize went back.                                                        *)
SetStatus(s) ==
  /\ s # status
  /\ s \in Open => escrow # "refunded"
  /\ moves < MaxMoves /\ moves' = moves + 1
  /\ IF status = "concluded" THEN reopens < MaxReopens /\ reopens' = reopens + 1
                             ELSE reopens' = reopens
  /\ status' = s
  /\ UNCHANGED <<escrow, prize, entered, rank, fragments, podiums, entries, journal, process, cuts>>

-----------------------------------------------------------------------------
(* register_individual reads the status, then writes the row; a row that   *)
(* is there already stays.                                                 *)
Registered == {Field[i] : i \in 1 .. entered}

Register(w) ==
  status \in {"registration", "upcoming"} /\ Reads(w, "idle", "register", Nil)

Enroll(w) ==
  /\ Proceed(w, "register", "idle") /\ Forgets(w)
  /\ entered' = IF entered < Len(Field) THEN entered + 1 ELSE entered
  /\ Moved
  /\ UNCHANGED <<status, escrow, prize, rank, fragments, podiums, entries, journal>>

(* submit asks the contest's status, whether the entrant is registered and *)
(* the host of the work whose it is, then writes.                          *)

Submit(w) == \E u \in Registered : status \in Open /\ Reads(w, "idle", "submit", u)

HandIn(w) ==
  /\ Proceed(w, "submit", "idle") /\ Forgets(w)
  /\ entry' = [entry EXCEPT ![memo[w]] = [status |-> "submitted", score |-> 0]]
  /\ Moved
  /\ UNCHANGED <<contest, score, accused, condemned, journal>>

(* judge: whatever the contest's status; a refused entry scores nothing. *)
Verdicts == [status : {"accepted"}, score : 0 .. MaxScore]
              \cup {[status |-> "disqualified", score |-> 0]}

Judge(u) ==
  /\ entry[u].status # "none"
  /\ \E verdict \in Verdicts : /\ entry' = [entry EXCEPT ![u] = verdict]
                             /\ score' = [score EXCEPT ![u] = verdict.score]
  /\ Moved
  /\ UNCHANGED <<contest, accused, condemned, journal, process>>

Flag(u) ==
  /\ entry[u].status # "none" /\ u \notin accused
  /\ accused' = accused \cup {u}
  /\ Moved
  /\ UNCHANGED <<contest, entry, score, condemned, journal, process>>

Dismiss(u) ==
  /\ u \in accused
  /\ accused' = accused \ {u}
  /\ UNCHANGED <<contest, entry, score, condemned, journal, process, bounds>>

(* decide, upheld: the case and the entry in one transaction, whose commit *)
(* the confiscation follows.  The participant's score stays.               *)
Uphold(w, u) ==
  /\ u \in accused
  /\ Proceed(w, "idle", "find") /\ Keeps(w, u)
  /\ accused'   = accused \ {u}
  /\ condemned' = condemned \cup {u}
  /\ entry'     = [entry EXCEPT ![u].status = "disqualified"]
  /\ UNCHANGED <<contest, score, journal, bounds>>

(* confiscate: what the book says was awarded, if all of it is still held. *)
Seizable(u) == Awarded(u) > 0 /\ Claim(Pending(u)) >= Awarded(u)

FindPrize(w) ==
  Reads(w, "find", IF Seizable(memo[w]) THEN "seize" ELSE "idle",
        [of |-> memo[w], amount |-> Awarded(memo[w])])

Seized_PerRequest(w) ==
  journal \cup {Move(<<"prize_confiscated", memo[w].of, w>>, Pending(memo[w].of), Held, memo[w].amount)}

Seized(w) == Posted({Seizure(memo[w].of, memo[w].amount)})

Seize(w) ==
  /\ Proceed(w, "seize", "idle") /\ Forgets(w)
  /\ journal' = Seized(w)
  /\ UNCHANGED <<contest, entries, bounds>>

-----------------------------------------------------------------------------
(* Conclusion: the scores are computed from the entries in the running,    *)
(* the ranks written with the fragments, and the prize awarded - by one    *)
(* request, in as many transactions.                                       *)

Conclude(w) ==
  Reads(w, "idle", "rescore",
        [u \in {u \in Entrant : entry[u].status \notin {"none", "disqualified"}} |-> entry[u].score])

Rescore(w) ==
  /\ Proceed(w, "rescore", "check") /\ Forgets(w)
  /\ score' = [u \in Entrant |-> IF u \in DOMAIN memo[w] THEN memo[w][u] ELSE score[u]]
  /\ UNCHANGED <<contest, entry, accused, condemned, journal, bounds>>

CheckStatus(w) == Reads(w, "check", IF status = "concluded" THEN "idle" ELSE "rank", Nil)

(* Best first; who scored nothing comes last, and who registered first     *)
(* comes first among equals.                                               *)
Arrival(u) == CHOOSE i \in DOMAIN Field : Field[i] = u
Ahead(u, v) == score[u] > score[v] \/ (score[u] = score[v] /\ Arrival(u) < Arrival(v))
Standing(u) == 1 + Cardinality({v \in Registered : Ahead(v, u)})

FragmentShare(u) ==
  IF Standing(u) <= Len(Split) THEN (Fragments * Split[Standing(u)]) \div 100 ELSE 0

(* Who is in the first places, for the ranks r. *)
Placed(r) == {u \in Entrant : r[u] \in DOMAIN Split}

Rank(w) ==
  /\ Proceed(w, "rank", "award") /\ Forgets(w)
  /\ rank'      = [u \in Entrant |-> IF u \in Registered THEN Standing(u) ELSE rank[u]]
  /\ fragments' = [u \in Entrant |-> fragments[u] + (IF u \in Registered THEN FragmentShare(u) ELSE 0)]
  /\ status'    = "concluded"
  /\ podiums'   = podiums \cup {Cardinality(Placed(rank'))}
  /\ UNCHANGED <<escrow, prize, entered, entries, journal, bounds>>

(* award *)
BeginAward(w) ==
  Reads(w, "award", IF escrow = "funded" /\ status = "concluded" THEN "podium" ELSE "idle", Nil)

Before(u) == {v \in Placed(rank) : rank[v] < rank[u]}
Podium    == [i \in 1 .. Cardinality(Placed(rank)) |->
                CHOOSE u \in Placed(rank) : Cardinality(Before(u)) = i - 1]

ReadPodium(w) == Reads(w, "podium", "pay", Podium)

Awards_PerWinnerToo(podium) ==
  {Move(<<"prize_award", i, podium[i]>>, Held, Pending(podium[i]), Shares(prize, Len(podium))[i]) :
     i \in {j \in DOMAIN Shares(prize, Len(podium)) : Shares(prize, Len(podium))[j] # 0}}

Awards(podium) ==
  {Award(i, podium[i], Shares(prize, Len(podium))[i]) :
     i \in {j \in DOMAIN Shares(prize, Len(podium)) : Shares(prize, Len(podium))[j] # 0}}

Leftover(podium) ==
  LET amount == Unclaimed(prize, Len(podium))
  IN  IF amount > 0 THEN {Return("unclaimed_place", amount)} ELSE {}

Pay(w) ==
  /\ Proceed(w, "pay", "idle") /\ Forgets(w)
  /\ journal' = Posted(Awards(memo[w]) \cup Leftover(memo[w]))
  /\ escrow'  = IF escrow = "funded" THEN "awarded" ELSE escrow
  /\ UNCHANGED <<status, prize, entered, rank, fragments, podiums, entries, bounds>>

-----------------------------------------------------------------------------
(* refund: the posting's key is the reason given; the table refuses to     *)
(* return the prize of a contest people can enter.                         *)

Refund(w) ==
  \E reason \in Reasons : escrow = "funded" /\ Reads(w, "idle", "refund", reason)

ReturnPrize(w) ==
  /\ Proceed(w, "refund", "idle") /\ Forgets(w)
  /\ IF escrow = "funded" /\ status \in Open
     THEN UNCHANGED <<escrow, journal>>
     ELSE /\ journal' = Posted({Return(memo[w], prize)})
          /\ escrow'  = IF escrow = "funded" THEN "refunded" ELSE escrow
  /\ UNCHANGED <<status, prize, entered, rank, fragments, podiums, entries, bounds>>

Cut(w) ==
  /\ stage[w] # "idle" /\ cuts < MaxCuts
  /\ cuts' = cuts + 1
  /\ stage' = [stage EXCEPT ![w] = "idle"] /\ Forgets(w)
  /\ UNCHANGED <<contest, entries, journal, crossed, reopens, moves>>

-----------------------------------------------------------------------------
(* What a request does once it has begun. *)
Resume(w) ==
  \/ Enroll(w) \/ RecordFunds(w) \/ HandIn(w) \/ FindPrize(w) \/ Seize(w) \/ ReturnPrize(w)
  \/ Rescore(w) \/ CheckStatus(w) \/ Rank(w) \/ BeginAward(w) \/ ReadPodium(w) \/ Pay(w)

PrizesNext ==
  \/ \E w \in Handler :
       \/ Register(w) \/ Fund(w) \/ Submit(w) \/ Conclude(w) \/ Refund(w)
       \/ \E u \in Entrant : Uphold(w, u)
       \/ Resume(w)
       \/ Cut(w)
  \/ \E u \in Entrant : Judge(u) \/ Flag(u) \/ Dismiss(u)
  \/ \E s \in ContestStatus : SetStatus(s)

PrizesSpec == PrizesInit /\ [][PrizesNext]_prizeVars

-----------------------------------------------------------------------------
(* Properties. *)

Paid    == Of("prize_award") \cup {p \in Of("prize_refund") : p.key[2] = "unclaimed_place"}
OnePodium == ~crossed \/ Cardinality(podiums) <= 1

(* Whatever requests for the conclusion overlap, and whatever ranks each   *)
(* of them reads, what the winners get and what goes back for want of one  *)
(* is the prize exactly, paid once (split_for, and award: one posting key  *)
(* per place) - unless they overlap on podiums of different sizes.         *)
PaidOutExactly == OnePodium => Paid = {} \/ Credited(Held, Paid) = -prize

(* However often an entry is accused, and however the decisions overlap,   *)
(* nobody gives back more than they were awarded (confiscate: one key per  *)
(* person, and only what is still pending).                                *)
NobodyOwesAPrize == \A u \in Entrant : Claim(Pending(u)) >= 0

(* Only what a condemned entrant was awarded is taken back, and all of it. *)
SeizedForCause ==
  OnePodium =>
    \A p \in Of("prize_confiscated") :
      \E u \in condemned :
        /\ p.key[2] = u
        /\ Claim(Pending(u)) = 0
        /\ Credited(Held, {p}) = Awarded(u)

(* Taking a prize back is sound, whatever overlaps. *)
SeizuresAreSound == PrizesTypeOK /\ NobodyOwesAPrize /\ SeizedForCause

(* As long as requests follow each other, cut off anywhere: the escrow     *)
(* account holds the whole prize while the contest says it is funded, and  *)
(* once it says otherwise nothing but what was taken back from a winner;   *)
(* and a contest people can enter holds the prize it announces or has paid *)
(* all of it, to finishers or back for want of them (0242,                 *)
(* tournaments_open_contest_still_holds_its_prize).                        *)
EscrowMatchesState ==
  ~crossed =>
    /\ Claim(Held) = IF escrow = "funded" THEN prize
                     ELSE Credited(Held, Of("prize_confiscated"))
    /\ prize > 0 /\ status \in Open => Claim(Held) = prize \/ Credited(Held, Paid) = -prize
===============================================================================
