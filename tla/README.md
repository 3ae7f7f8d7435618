# Skilluv backend: its money, its work and its groups, specified

TLA+ modules, TLC configurations and TLAPS proofs for the parts of the backend
where several requests, background loops or outside services meet on the same
rows: the ledger and everything that moves money through it, signing in, the
outbox, the work done on GitHub and its review, and the groups people form.

    cd tla
    tlc -workers 2 -config MCHolds.cfg Holds.tla     # one run
    tlapm GroupsProofs.tla                           # one set of proofs

Every definition that models code is mapped to its lines in `PROJECT.json`,
which also lists the components left out, the hazards, and the places where the
code and its own words part.

## 1. The system and its parts

The backend is an HTTP service over PostgreSQL and Redis with a few background
loops. Handlers keep no state between requests. What they share is the
database, and they reach it through many short transactions, so the unit of
interleaving everywhere below is **one SQL statement (or one transaction, where
the code opens one and nothing else can come between) or one call to a
provider**. Two exceptions: `Ledger` and `Cohorts` split transactions, because
there the row locks are the point. A handler may be cut off between any two
steps: the client hangs up and its future is dropped, a statement fails, the
process dies.

| Part | State it keeps | Operations | Talks to |
|---|---|---|---|
| Ledger (`services/ledger.rs`) | accounts, transactions, entries, running totals | `post` and one function per business movement | PostgreSQL: unique key, row locks, balance trigger |
| Held funds (`services/release.rs`) | `pending_releases` | hold, release (sweep, early), dispute | ledger |
| Disputes (`services/disputes.rs`) | `disputes` | raise, concede, contest, withdraw, decide, settle | release, ledger, collect (refund) |
| Mentorship sessions (`routes/mentorship.rs`) | `mentorship_sessions` | complete, confirm, checkout | ledger, release, collect |
| Collecting (`services/collect.rs`, adapters) | `payments` | start, refund | Stripe, FedaPay |
| Delivery (`services/fulfilment.rs`) | `payments.fulfilled_at` | claim, deliver, unstamp | every product that can be bought |
| Payment poller, status page, webhooks | `payments`, `payment_webhook_events` | rescue, ask, verify, store, apply | providers, delivery, payouts |
| Payouts and their reconciliation | `payouts`, notifications | withdraw, send, fail, reverse, replay, escalate | ledger, providers |
| Missions (`services/missions.rs`, `mission_*.rs`, `routes/admin_missions.rs`) | `missions`, `mission_invoices`, deliveries | select, capture, deliver, review, release, refund, arbitrate | ledger, collect |
| Contest prizes (`services/contest*.rs`, `tournament.rs`) | `tournaments`, participants, entries, cases | fund, register, enter, judge, conclude, award, return, take back | ledger |
| Enterprise credits (`services/credits.rs`, `subscriptions.rs`) | balance, transactions, interest requests | grant, spend, refund, expire, Stripe events | Stripe |
| Sessions (`services/session.rs`, `routes/auth.rs`) | `sessions`, two cookies | sign in, refresh, revoke, evict | browsers |
| Outbox (`services/outbox.rs`, `services/notify.rs`) | `notification_outbox` | send through a chain, queue, drain, escalate | mail, chat, push |
| Slices (`services/slices.rs`, `ci_sync.rs`, `external_refresh.rs`, `slice_validation.rs`) | `project_slices` | claim, submit, check, validate, merge, close, refresh | GitHub webhooks, two pollers |
| Deliverables and reviews (`services/deliverables.rs`, `reviews.rs`) | `deliverables`, `review_queue` | finalise a merged pull request, claim a task, give a verdict | slices, users' fragments |
| Guilds and wars (`services/guild.rs`) | `guilds`, members, invitations, applications, `guild_wars` | found, join, leave, kick, promote, invite, dissolve; propose, answer, conclude | - |
| Cohorts (`services/cohorts.rs`, `leadership_practice.rs`, `routes/education.rs`) | `cohorts`, members, milestones, messages | join, leave, add, update, archive, graduate | - |
| Everything else (badges, attestations, forum, engagements, integrations, AI queue, SCIM, export, e-mail ...) | about 400 tables | mostly single-statement CRUD and recomputation | - |

What is hard in it, and what would make each part correct:

* **Ledger.** Two requests with one key; a call that fails half-way; two
  transactions that lock the same balance rows in opposite orders; a running
  total kept beside the entries. Correct: each key is posted once, each posting
  whole or absent, totals equal entries, every currency sums to zero, and every
  call is answered.
* **Held funds and disputes.** The sweep, a confirmation, and five answers to a
  dispute all read a row, move money in another transaction, and stamp the row
  in a third. Correct: rows never run ahead of the ledger, nor the ledger of the
  provider; the share moves out of the window once.
* **Payments.** Three roads (webhook, return page, poller) bring the same news,
  each can be lost or cut off. Correct: what was paid for is delivered, once,
  and only if it was paid for.
* **Payouts.** The debit, the row, the provider's call and its answer are four
  steps; verdicts come from the call, a callback and a poll. Correct: the
  provider is asked once, money is paid or returned and not both, and nothing
  stays pending in silence.
* **Missions.** The status, the invoices, the ledger and the provider are four
  records written one after the other, over several instalments, while either
  party or an administrator may end the mission. Correct: invoices follow the
  books, books follow the provider, each instalment goes to one side once, and
  before the end only what an accepted delivery earned is paid.
* **Contest prizes.** One pot, several places and rounding; a conclusion, an
  award and a plagiarism case that overlap; a contest reopened. Correct: the
  escrow account holds what the contest's state says.
* **Credits.** Stripe's events come twice and in any order; a contact is
  accepted, refused and swept at the same moment. Correct: each ends one way
  and no event grants twice.
* **Sessions.** A token is rotated on every use and its second use is taken for
  theft, while answers get lost. Correct: the alarm rings only for a real second
  use, and an eviction leaves nobody signed in.
* **Outbox.** Two instances drain the same rows; one stops in between. Correct:
  nothing is abandoned early, and what is owed reaches somebody or an operator.
* **Slices and reviews.** GitHub's webhooks are lost or repeated, two pollers
  decide from what they listed earlier, people claim and unclaim meanwhile.
  Correct: what is under review is the claimer's own green work, only merged
  work is paid, and what is settled stays so.
* **Guilds, wars, cohorts.** A last seat, a last organizer, a founder, a stake
  taken from two sides. Correct: limits hold, somebody can always administer, no
  points are lost or made.

## 2. Modules

| Module | What it is | About |
|---|---|---|
| `Movements` | pure operators | what each business movement writes: a key and its legs |
| `Book` | abstract specification | `post` as one atomic, idempotent step |
| `Ledger` | state machine | concurrent `post` calls, statement by statement; implements `Book` |
| `Custody` | abstract specification | one share: nowhere, pending, available / disputed, available or returned |
| `Holds` | state machine | one held payment: completion, release, disputes; implements `Custody` when operations do not overlap |
| `Payments` | state machine | one row of `payments`: start, provider, webhook, page, poller, delivery |
| `Payouts` | state machine | withdrawals: `send`, callbacks, sweep, three kinds of provider |
| `Missions` | state machine | one mission: its instalments, rounds of delivery, selection, arbitration |
| `Prizes` | state machine | one contest with a prize: funding, registration, entries, conclusion, award, cases |
| `Credits` | state machine | one company: a contact, packs, a promotional code, a subscription |
| `Sessions` | state machine | one person: browsers, cookies, requests in flight, refresh tokens |
| `Outbox` | state machine | one notification, its channels and two drains |
| `SliceRow` | shared definitions | the row of `project_slices` and what the statements of three products (challenges, deliverables, bounties) make of it |
| `Slices` | state machine | a challenge: claims, submissions, GitHub's events, both pollers, validation, and what deliverables and bounties write to the row meanwhile |
| `Reviews` | state machine | merged pull requests, deliverables, the queue, verdicts, credits |
| `Guilds` | state machine | membership of guilds and the offers that lead to it |
| `Wars` | state machine | wars between guilds and the points staked on them |
| `Cohorts` | state machine | one cohort: seats, organizers, archive, plan, graduations |
| `BooksProofs` | theorems | the ledger, a session's money (`Ledger`, `Holds` and what they implement), the points of wars and the prize of a contest: whatever is a sum (section 5) |
| `WorkProofs` | theorems | `Slices` and `Reviews` |
| `GroupsProofs` | theorems | `Cohorts` and `Guilds` |
| `PaymentsProofs` | theorems | `Payments` and `Credits` |
| `PayoutsProofs`, `MissionsProofs`, `SessionsProofs`, `OutboxProofs` | theorems | the module each is named for |
| `MCLedger`, `MCSessions`, `MCCredits` | models | constants and symmetry for TLC; `MCCredits` and `MCSessions` a view that forgets histories no property reads any more |
| `MCEscrows` | model | `Missions` and `Prizes` under one variable `purpose`, with such a view |
| `MCWork` | model | `Slices` (four instances) and `Reviews` (two) under one variable `life` |
| `MCGroups` | model | `Cohorts`, `Guilds` and `Wars` under one variable `group` |

How they fit: `Ledger` shows that `post` behaves as `Book` says, and the other
modules use that: in `Holds`, `Payouts`, `Missions` and `Prizes` a posting is one
step that adds a key, the second time changing nothing. `Holds`, `Missions` and
`Prizes` take the legs of their movements from `Movements`. `Payments` and `Holds`
meet at the charge: `Holds` starts from a charge that was made or not recorded and
refunds it with `collect::refund`; `Missions` is what `Payments` delivers to for
a mission's invoice. `Slices` and `Reviews` write the same row of `project_slices`, by
the operators of `SliceRow`. Neither contains the other: in `Slices`, a delivery or a
request about a bounty checks the row in one step (`Decide`) and writes what it
makes of it in a later one (`Overwrite`, `VerdictMerges`), whoever wrote between;
what a deliverable earns and who judges it is in `Reviews`, where the row goes
through the claims and the merges, and not through a challenge's validation.
`Guilds` decides who belongs to a guild and `Wars` what its points are.

### Correspondence with the code

In every state machine `pc[w]` (`at[c]` in `Ledger`, `doing[w]` in `Credits` and `Wars`)
is the next statement of worker `w` (a request, a loop, an instance), and what it has read and kept across an await is in
`memo`, `took`, `draft` or a like-named variable. One operator per endpoint or
statement; `Stop`, `Halt`, `CutOff` or `GiveUp` is the cut.

* `Ledger`: `asked` is a call's posting; `draft` the balance rows it has changed
  and locked, as READ COMMITTED hides them; `balance` is `ledger_account_balances`
  as committed. `DetectDeadlock` stands for PostgreSQL's detector, `Abort` for a
  failed statement or a dropped request.
* `Holds`: `hold` is the row of `pending_releases`, `dispute` the status of the row
  of `disputes`, `book` the movements posted for the subject, `charge` the row of
  `payments`, `returned` the provider's side, `byHand` the log that calls an
  operator.
* `Payments`: `row` is the row of `payments`, `charge` the provider's checkout,
  `news` the notices under way.
* `Payouts`: `withdrawn` and `returned` are the keys posted and reversed, `payout`
  the table, `prov` what the provider did, `inbox` the stored events, `page`
  the rows the sweep has listed with what it read of them.
* `Missions`: `state` (`missions.status`) and `ended` are columns of `missions`, `bill[i]` the status of
  the invoice of instalment `i`, `book[i]` its movements, `returned` the provider's
  side, `round` the decisions on deliveries, `job[w]` the invoices a request has
  still to move and what it moves them for.
* `Prizes`: `status`, `escrow`, `prize` are columns of `tournaments`; `entry`, `score`
  and `rank` of submissions and participants; `entered` counts those of the field who
  have registered, in order; `accused` and `condemned` are the plagiarism cases;
  `journal` the postings under the contest's keys, with their legs; `stage` and
  `memo` a request's next step and what it has read. `crossed` and `podiums` are
  history: whether a request began before another was over, and how many finishers
  stood on each podium written.
* `Credits`: `balance` and `journal` are the account and its transactions, `status[r]`
  a contact asked for, `monthly[p]` the grants recorded under period `p` (0 is the
  program's own clock, which a checkout is recorded under), `dawn` the period in which
  that checkout was heard of, `marked` the rows of `stripe_webhook_events`.
* `Sessions`: `row` is `user_sessions`, `jar[b][a]` the refresh cookie of frontend `a`
  in browser `b`; an answer that is lost leaves the row rotated and the jar as it was.
  `epoch` counts the moments at which everybody was to be signed out. `CookieLapses` is
  the cookie's Max-Age of seven days, which its row does not share, `RevokePriorFails`
  the update that a login makes and whose failure it swallows; `abandoned` keeps the
  sessions that either left behind.
* `Outbox`: `queue` is `notification_outbox`, `mails[r]` the messages that really left,
  `saw[d][r]` the attempts drain `d` read, `alert` the error line for an operator.
* `SliceRow`, `Slices`, `Reviews`: `row` is `project_slices`; `hub` and `issue` are
  GitHub, of whose past a webhook may speak at any time; `asked`, `green`, `listed`, `todo` what the
  two pollers carry from one statement to the next. `touched` and `handed` are the
  order of `updated_at` and `submitted_at`, which decides who is polled. A `Url` is a
  spelling, `Names` says which pull request it leads to and `Canonical` which one GitHub
  writes. `vouched`, `bare` and `made` are history: whose author was checked, what was
  polled without a check run, and what deliverables and bounties wrote. In `Reviews`
  `work[u]` is the deliverable made of pull request `u`, `task[u]` its row of the
  queue, `earned[u]` how often its fragments were credited; `contested` is work that two
  reviewers had in hand at once, `overtaken` says that a merge came between a
  delivery's reading and its writing.
* `Guilds`: `home` and `role` are `guild_members` (its primary key is the user),
  `cooling` is `user_guild_cooldown`.
* `Wars`: `gp` is `guilds.gp_total`, `war` the table, `earned` and `paid` history, and so
  are `contested`, the wars that two requests had in hand at once, and `rushed`, the
  pairs of guilds with two proposals under way at once.
* `Cohorts`: `role`, `graduated`, `left` are columns of `cohort_members`; `lock` is
  who holds the cohort's row `FOR UPDATE`.

## 3. Runs

A run that is expected to pass checks all its properties over the whole state
space of its instance. Each run expected to find a violation checks one sentence the
code says of itself; `PROJECT.json` quotes it under `findings`. Section 6 lists the
other sentences that counterexamples refuted while the models were made.

| Run | Module, configuration | Checks |
|---|---|---|
| `ledger` | `MCLedger`, `MCLedger.cfg` | `BooksAgree`, `BookSpec`, `EveryCallIsAnswered`. Three concurrent calls of ledger::post, over six postings that share keys and lock accounts in opposite orders: each key is posted once, running totals equal the entries, money is conserved, every call is answered though they deadlock, and the whole implements one atomic step per call. |
| `holds` | `Holds`, `MCHolds.cfg` | `RowsAreBacked`, `RefundedAtProviderFirst`, `RowMatchesBooks`, `CustodySpec`, `DueIsReleased`. Two workers on one held payment, every interleaving of completion, sweep, confirmation and all the answers to a dispute, one of them cut off anywhere: the rows never run ahead of the ledger, nor the ledger of the provider; operations that do not overlap implement the abstract custody of the share; and money whose window has closed is released or disputed. |
| `payouts` | `Payouts`, `MCPayouts.cfg` | `AskedOnceOnRecord`, `EndedRowsAreTrue`, `ReturnedIsUnpaid`, `NoneStaysPending`, `RefusalIsHandled`. Two requests under one key, callbacks, polls, the sweep, a stop anywhere and a lost answer, on each kind of provider: the provider is asked once and after the books, a row that ended says what happened, returned money was never paid, no payout stays pending without an operator knowing, and refused money comes back or is escalated. |
| `payments` | `Payments`, `MCPayments.cfg` | `PaidIsDeliveredOnce`, `PaidIsFound`, `CardPaymentArrives`. Two request handlers and the poller on one payment, either provider, two presses of pay, a declined card, a lost notice and a stop: delivery happens once, only for paid money, a paid notice finds its row, and a card payer gets what was paid for though the tab is closed and the webhook lost. |
| `escrows` | `MCEscrows`, `MCEscrows.cfg` | `PostedFirst`, `OnlyAcceptedIsPaidEarly`, `RefundedAtProviderFirst`, `SettledOnce`, `SeizuresAreSound`, `PaidOutExactly`, `EscrowMatchesState`. A mission or a contest, each by itself. Two requests on one mission of two instalments, any status change, delivery, acceptance, selection, payment and arbitration interleaved, one of them cut off or refused by the provider: invoices never run ahead of the books, nothing leaves escrow early but what an accepted round earned, and refunds follow the provider. Two requests over a contest with three entrants and a sum that does not divide, overlapping or one of them cut off, the contest reopened once: nobody gives back more than they were awarded; conclusions that overlap, on podiums of one size, pay the prize once and to the cent; and as long as requests follow each other the escrow account holds what the contest's state says. |
| `sessions` | `MCSessions`, `MCSessions.cfg` | `ReuseIsReal`, `NoGhosts`, `EveryoneIsSignedOut`. Two browsers with a cookie jar each and two requests in flight, on both frontends: logins, refreshes, logouts, evictions, bans, lost answers, a refresh cookie that lapses and a login that fails to end the session before it. Reuse is only detected where a token really came twice; no live session is left without its browser but the one whose cookie lapsed or that a login failed to end; and an eviction leaves nobody signed in. |
| `credits` | `MCCredits`, `MCCredits.cfg` | `OneEndOneGrant`, `GrantedOnce`. Two instances serving requests and sweeping, one contact, a promotional code, and the events of a subscription over two periods delivered in any order, repeated and cut off: a contact ends one way, no event grants twice, and undisturbed a code is granted once and so is every month, but the month of the checkout, granted twice at most. |
| `outbox` | `Outbox`, `MCOutbox.cfg` | `NeverGivesUpEarly`, `SentOnce`, `ObligationIsMet`. A sender that tries every channel, and two instances draining the same rows, one of them stopped or its answer lost: nothing is abandoned early, undisturbed nothing is sent twice, and an obligation reaches somebody or an operator. |
| `work` | `MCWork`, `MCWork.cfg` | `GreenThenMerged`, `ActiveIsOwnWork`, `EarnedIsVouched`, `ValidatedIsFinal`. A slice in one of six lives. A challenge with two pull requests of one contributor whose author is checked, or with one pull request of two and a contributor nobody checks; pull requests whose check runs appear late or never; a pull request with two spellings of its URL under two challenges; a challenge that a bounty or a deliverable writes to; webhooks at any time or never, both pollers deciding from snapshots and restarted anywhere: what is under review is its claimer's own work where that was checked, and no URL is there twice; what is won stays won; only merged work is rewarded. And merged pull requests of two people and of a stranger, two reviewers, webhooks and verdicts overlapping or lost: fragments are credited for a claimer's own merge or an approval and for nothing else. |
| `groups` | `MCGroups`, `MCGroups.cfg` | `CohortIsSound`, `GuildIsLed`, `WarsAreFair`, `ArrivalsFit`, `OrganizerStays`. A cohort of three under two requests at a time; two guilds of five people under two requests at a time one of which is cut off; guilds at war under two officers at a time: the row lock keeps the cohort's seats, its last organizer and its archive; a guild keeps its founder unless he left another one as it was read, and overruns its limit by one at most; no stake is lost unless two answers to one war overlap, and a war answered and concluded by one request at a time pays once. |

And the runs that refute a sentence:

| Run | Refutes | Because |
|---|---|---|
| `holds_sweep_race` | `MoneyMovesOnce` | A release and a dispute that overlap both take the share out of pending (`services/release.rs:202`). |
| `credits_first_month` | `MonthGrantedOnce` | The checkout's month is granted under the server's clock, and again under Stripe's start of it once an update has written that over the first (`services/subscriptions.rs:107`). |

Every property of a passing run has a mutant in `PROJECT.json`: a one-place change
of a mapped definition (a dropped check, a swapped order, a forgotten reset, a
missing lock) under which the run fails.

### Bounds, and why they are enough

* `Ledger`, three calls: two to race for a key or to deadlock, a third to come
  between. The six postings make every kind of conflict: the same key, no key,
  the same accounts in opposite orders, legs of amount zero, one leg, two
  currencies; no two sets of postings give the same totals by accident.
* Two workers wherever operations race (`Holds`, `Payments`, `Payouts`, `Missions`,
  `Prizes`, `Credits`, `Sessions`, `Cohorts`): each operation is a chain of
  statements and every race found is between two chains. `MaxStops` = 1 is a stop
  anywhere, in either.
* `Prizes` checks overlapping requests; what only holds of requests that follow each
  other (`EscrowMatchesState`) is guarded by the history variable `crossed`, and what
  needs one size of podium by `OnePodium`. In the run two requests overlap, or one is cut
  off anywhere and the next finds what it left, not both (`CutOrCrossed`); the proofs
  have neither limit.
* `MCWork`, `MCGroups` and `MCEscrows` explore several machines one at a time: a
  behaviour belongs to one of them, chosen in its first state, and the rest stutter.
  Those of `MCGroups` and `MCEscrows` share nothing, and each property reads one of
  them. Those of `MCWork` share the row of `project_slices`; what `Reviews` writes to it is
  therefore in `Slices` too, where any status may be written at any time after the
  row was found actionable.
* `Payouts`: two requests for one key race for it; all withdrawals are of one unit,
  because no property depends on the amount. `MaxChecks` = 2 is the smallest value
  that makes the first failed check different from the last; the code has 12.
* `Payments`: any two of a press, a webhook and a return page overlap; a second
  press, one declined attempt, one lost notice, one stop.
* `Missions`: two instalments, so that one can be paid while the other is refunded;
  one repeated round. `Credits`: two periods, so that a renewal can overtake the
  first invoice.
* `Sessions`: two sessions and four tokens: each may be rotated once more after the
  first answer was lost, which is what reuse detection needs. The one stop is a lost
  request or answer, a cookie that lapses or a revocation that fails.
* `Outbox`: two attempts make the last one different from the first.
* `Slices`, in `work`, has four lives, each with the part of the environment that makes
  it interesting. *One challenge*: two people and two pull requests of one of them, both
  polled and both with checks that appear when they please; one of the two goes well.
  *Unchecked*: the same with teams, aging claims and people whose pull requests nobody
  looks at the author of, and no poller. *Bounty*: bounties and deliverables write the
  row while the second poller carries a snapshot of it. *Two challenges*: one person
  hands in one pull request for both, under either spelling, with its checks there in
  time and only the second poller running. One row per tick is the
  smallest page. The proofs have none of these limits.
* `Reviews`, in `work`, has two: four people, two of whom review, and a team; two merged
  pull requests of two claimers, or of one claimer and an author without an account;
  all requests overlap.
* `Prizes`: a sum of 3 over three entrants, whose shares are rounded, and a contest
  with any number of them registered at the start; `MaxMoves` = 3 bounds the
  registrations, entries, judgements, accusations and changes of status. Funding,
  conclusions, awards, returns and decisions are not bounded but by what they leave
  to do: two conclusions overlap, an entry is accused and condemned twice, or a
  contest is reopened, gains an entrant and is concluded again on a larger podium.
* `Guilds`, in `groups`: two guilds, five people and a limit of 3, two workers, four
  requests and one stop: enough to found a guild, fill and overrun it, to kick and
  promote, and for a member kicked out of one to found the other before the
  cooldown is written. `Wars`: two guilds, two wars, two officers at a time, 0 or
  100 points, below and at the least stake; one war or one pair is clashed over, and then nobody
  earns or disbands besides.
  `Cohorts`: caps of 2 and 3 for three users, two workers, four requests.

`CHECK_DEADLOCK FALSE` is set wherever a bounded instance may be over: all presses,
requests, rounds or moves used up and nothing in flight. `Ledger` and `Payments`
end in an explicit stuttering step guarded by "nothing is in flight"
(`AllAnswered`, `Quiet`), so there TLC does check that no call waits for ever;
elsewhere the liveness properties do.

## 4. Fairness

* The runtime drives what it has begun: weak fairness on a worker's next
  statement. Stops are bounded, so this is what a process that stays up does.
* Timers come back: the release sweep (every ten minutes, `main.rs`), the
  reconciliation (fifteen), the poller (one), the drain of the outbox, the two
  GitHub loops. The release sweep and the listing of payouts get strong fairness
  because another operation may be in their way at one tick, never at all of them.
  In the model a worker that is busy cannot start the sweep; in the program the
  sweep has its own task.
* The database detects deadlocks (weak fairness on `DetectDeadlock`).
* A provider that accepted a payout decides (`Pays \/ Refuses`); a provider asked
  again and again answers, and a delivery tried again and again succeeds (strong
  fairness).
  **Not** assumed: that a callback or webhook arrives, that a payout
  poll succeeds, that anybody pays, presses, confirms, answers or reviews.

`DueIsReleased` therefore means: the window closed, and unless the money is
disputed it becomes available although a worker was cut off in the middle of
releasing it. The safety properties need no fairness
and assume none.

## 5. Proofs

TLC checks small instances; the theorems hold for every set of calls, workers,
browsers, drains, people, pull requests and postings. The argument is an inductive
invariant each time; what it adds to the property is what the code remembers
between two statements.

**`BooksProofs`: whatever is a sum.** *Part 1, sums.* The totals are
`SumFunctionOnSet` of the community modules, for which the library has no theorem.
An induction over a finite set is replaced by a smallest counterexample: if the
fact failed for some subset, it would fail for one none of whose proper subsets it
fails for (`FS_StrictSubsetOrderingWellFounded`, `WFMin`), and taking one element
out contradicts that. `SumPicks`, `SumAdds` and `SumOfFibres` (a sum is the sum of
the sums over the members of a partition) are what the other parts cite.

*Part 2, the ledger.* `LedgerInv` = types + `Progress` + `Answers` + `OneRowPerKey`.
"One posting per key" alone is not inductive: two calls that both found the key unused
could both insert. `OneRowPerKey` says that at most one call *holds a row* under a
key, committed or not, which the wait in `Insert` and the unique index preserve.
`Books` adds the running totals: `Drafts` says that what a transaction has changed is
the committed balance plus the legs it wrote, and `RowsAreLocked` that no two
transactions have changed one row, so a commit adds exactly its own posting
(`TotalsAgree`). `Implementation` proves `LedgerSpec => BookSpec` with "the book is what
the recorded calls wrote": `Begin` is `Ask`, `Commit` is `Record`, a lookup that finds
the key is `Replay`, every rollback is `Fail`, every other step stutters.

*Part 3, a session's money.* A row is written one step after the ledger, by a worker
that remembers. `WorkerInv` says what has been posted when a worker stands before the
statement that stamps it; `FrozenInv` that whoever is about to end a dispute found
one. From them the rows are backed, an ended dispute was frozen, the provider
refunds before the ledger does and what is closed stays so. `InTurn` is the stronger
statement while nothing overlapped and nobody was cut off: the rows say what is
posted, but for the one movement between its posting and its stamp. That gives
`RowMatchesBooks`, and, with the place of the share read off the books, that each
operation is a step of `Custody` or none (`CustodyIsKept`).

*Part 4, wars.* Any number of requests run at once. `StillSo` says of each request
that what it read still holds when it writes, unless its war is `contested` or its pair
`rushed`: what two requests have in hand is marked when the second takes it, so
that of any other war its request is the only one, and what it found stands. All
points and all pots are two sums, and each statement changes one term of either
(`WarsPayFairly`).

*Part 5, a contest's prize.* `PrizeInv` = types + `PrizeBooks` + `Remembered` +
`Sequential`. `PrizeBooks` (`GoodBooks`) says that the book is made of the four kinds
of posting, one under each key, each for an amount the code may write: a seizure for
no more than was awarded to somebody condemned, and, as long as podiums had one size,
for all of it; and then what is paid for the conclusion is the whole of some podium
(`PaysOnce`). That is inductive because two podiums of one size are paid under the
same keys, whoever stands on them (`PayKeys`): the second writes nothing
(`BooksPay`). `Remembered` says of each request under way that what it read of the
book still bounds what it will write: awards are only ever added (`AwardedGrows`).
`Sequential` reads the book off the escrow's state while nothing overlapped. The
money itself is three facts about rounding and sums: the shares and the remainder
make the prize for every sum and every number of finishers (`SharesAre`), what a
podium is paid is therefore the prize (`PayIs`), and what an entrant is owed is what
was awarded less what was taken back (`ClaimOfEntrant`).

**`WorkProofs`: the two sides of a slice.** *Part 1, a challenge.* `Rows` is what the
runs check of the rows, with the attestation of what was validated; `Memories` is what a
validator's request and the two pollers carry from one statement to the next of a
row that has moved on since: of a pull request what was once so stays so, and what was
won is won with the same one. `Fits` names what a statement may leave in a row, so that
each statement is checked against it once. Nothing is assumed of authors, of when
checks appear or of how a URL is spelled, except that GitHub's spelling leads to the
pull request it is of (`SlicesAssumption`). *Part 2, what a merge earns.* `ReviewsInv`
= types + `Paced` + `Apart` + `Timely` + `EarnedIsVouched` + `HeldHasTask`, for any
number of requests at once. `Apart`: work that was never in two hands is in one, with
the status that was read. `Timely`: a merge that overtook no delivery finds none about
to write. From these `SettledForGood`; without `contested` and `overtaken` in it it would
be false: two verdicts that overlap both credit (`reviews.rs:166`), and a second merged
pull request overwrites the `merged` of the first (`deliverables.rs:361`).

**`GroupsProofs`: what people form.** *Part 1, a cohort.* `StillMay`: whoever holds the
cohort's row may still do what it was found that he may; what was read without the
lock is not relied upon. The two statements that write a role or a cap without it
seat nobody and unseat nobody, so they are neither `Arrival` nor `Departure` (section 6
says what they can do). *Part 2, guilds.* `KnowsWhere`: whoever is about to
be unseated or given a role does not found that guild, which is what a departure
checked before it deletes. `HasRoom` counts the members and the requests that have
found a seat and not taken it: each worker overruns the limit by one at most. The
claim that somebody leads needs the history `misled`: the guilds whose founder was
deleted by a departure that had read his row in *another* guild (section 6), for which
it is false.

**`PaymentsProofs`: what is paid for, and credits.** *Part 1, a payment.* `Claims` counts
the workers between the claim and the end of their delivery, at most one, and then
the stamp is set and nothing was delivered. `PaidFacts`: a worker on its way to claim
knows of money that is there. `Sessions`: a payer is only sent to a checkout whose
id is kept. *Part 2, credits.* `Accounted`: what was granted and what is still owed to
events taken in hand is no more than the events marked, whoever meets whom: a grant
takes its event out of the second, a cut off request only lowers it.
`Undisturbed`, while no two processes met and nobody was cut off: one process works,
and finds what it read; each contact is refunded once or by the process under way
(`ContactsOnce`), the code likewise (`PromoOnce`); and the period last granted is the
latest that was, below which nothing is granted again, because periods grow
(`MonthsOnce`). A month is therefore credited once under its period, and the month of
the checkout at most once more, under the program's clock.

**`PayoutsProofs`.** A posting is recorded once, so at most one request goes on under
a key (`Alone`) and owns the payout as long as it has no reference; what it has done
is read off its step (`SenderInv`). From the reference on, events own the row: each
is about something that happened and stays so (`EventInv`), and a row pending under
a reference is never a transfer, the only kind that can bounce (`RowInv`).

**`MissionsProofs`.** `Inv` = `Safe` + `InTurn`. A request that moves money carries
its reasons: `Earned` says that whoever releases goes through invoices that are due
(the mission ended or their round was accepted), `Owed` that whoever refunds goes
through invoices that were captured on a mission that ended, `StepByStep` that
each movement is posted before the row is stamped. `InTurn` is the stronger
statement where nothing overlapped: rows and books differ by the one step in
between, from which `SettledOnce` follows.

**`SessionsProofs`.** `Owned`: a cookie, kept in a jar or carried by a request, names a
session of that browser, so nobody else rotates it. `OneAtATime`, `Fresh`, `Tidy`: a
browser that waits for each answer has one request, what it presents is
current, and the sessions it left behind are over, but those whose cookie lapsed or
whose end failed (`abandoned`). That a browser waits is no assumption: one that does
not is `disturbed`, and the invariant says nothing of it. `Opened` relates each session to
the eviction it came after. From these: an alarm means a token really came twice, no
live session is without its browser, and an eviction leaves nobody signed in.

**`OutboxProofs`.** `Counted`: the attempts a row shows, and those a drain read, never
exceed those that failed. `Undisturbed`: while no two drains met and nobody was cut
off, one drain works at a time (`Alone`) and what left the queue agrees with its row
(`Settled`). Uses `FiniteSetTheorems` for the page of due rows.

| Module | Theorems (the property each states) |
|---|---|
| `BooksProofs` | `LedgerTypeCorrect`, `OneRecordPerKey`, `TotalsAgree` (`BooksAgree`), `Implementation` (`BookSpec`); `TypeCorrect`, `RowsFollowBooks` (`RowsAreBacked`), `OnlyFrozenIsEnded`, `ProviderComesFirst` (`RefundedAtProviderFirst`), `ClosedIsFinal`, `RowsTellTheMoney` (`RowMatchesBooks`), `CustodyIsKept` (`CustodySpec`); `WarsPayFairly` (`WarsAreFair`); `PrizesSeizeSoundly` (`SeizuresAreSound`), `PrizesPayExactly` (`PaidOutExactly`), `PrizesMatchEscrow` (`EscrowMatchesState`) |
| `WorkProofs` | `RewardsAreEarned` (`GreenThenMerged`), `ReviewedIsOwnWork` (`ActiveIsOwnWork`), `WonIsFinal` (`ValidatedIsFinal`); `ReviewsTypeCorrect`, `CreditIsVouched` (`EarnedIsVouched`), `HeldIsQueued`, `SettledForGood` |
| `GroupsProofs` | `FinishedOrLeftIsKept` (`CohortIsSound`), `ArrivalsHaveASeat` (`ArrivalsFit`), `AnOrganizerStays` (`OrganizerStays`); `GuildsAreLed` (`GuildIsLed`) |
| `PaymentsProofs` | `TypeCorrect`, `FindsThePaid` (`PaidIsFound`), `DeliversThePaidOnce` (`PaidIsDeliveredOnce`); `CreditsEndOnce` (`OneEndOneGrant`), `NothingGrantedTwice` (`GrantedOnce`) |
| `PayoutsProofs` | `TypeCorrect`, `ReturnsTheUnpaid` (`ReturnedIsUnpaid`), `AsksOnceOnRecord` (`AskedOnceOnRecord`), `EndsTruly` (`EndedRowsAreTrue`) |
| `MissionsProofs` | `TypeCorrect`, `RowsFollowBooks` (`PostedFirst`), `EarlyPayIsEarned` (`OnlyAcceptedIsPaidEarly`), `RefundsAreOwed` (`RefundedAtProviderFirst`), `SettlesOnce` (`SettledOnce`) |
| `SessionsProofs` | `TypeCorrect`, `AlarmsAreReal` (`ReuseIsReal`), `NoGhostRows` (`NoGhosts`), `EvictionIsComplete` (`EveryoneIsSignedOut`) |
| `OutboxProofs` | `TypeCorrect`, `AbandonedAfterEnough` (`NeverGivesUpEarly`), `MailedOnce` (`SentOnce`) |

Assumptions, each under a name in the module that declares the constants and
evaluated by TLC in a run: bounds are naturals, model values are distinct, and the sets
that are counted or summed over (accounts, people, workers, guilds, wars, slices,
reviewers, requests) are finite. Beyond that:
`SlicesAssumption` says that GitHub's own spelling of a pull request leads to it;
`LedgerAssumption` says that the legs `Kept` of a posting are a sequence of legs (the
library has no theorem about `SelectSeq`); `SharesAreAmounts` that a session's share is
positive and its fee not negative; `WarsAssumption` that guilds start with natural points
and that the range of stakes is given in natural percents; `PrizesAssumption` that a
sponsor puts up a positive sum and nobody is in the field twice (the row's primary key);
`GuildsAssumption` that the company a guild is founded with fits `max_members`: its
default of 30 is never updated, and a foundation takes three cofounders
(`REQUIRED_COFOUNDER_COUNT`).

Only model-checked: the liveness properties (`EveryCallIsAnswered`, `DueIsReleased`,
`NoneStaysPending`, `RefusalIsHandled`, `CardPaymentArrives`, `ObligationIsMet`), which
are out of the prover's reach. Every safety invariant, action property and refinement
that a passing run checks is also a theorem.

## 6. Where the code and its words part

The runs `holds_sweep_race` and `credits_first_month` refute a sentence each and stay in
the project. The others below were met as counterexamples of TLC while the models were made, or by reading;
each is written as what the code does against what a comment, a schema or a test
says.

*Money.*
* A FedaPay checkout is created without the merchant reference (`fedapay.rs:185`), so
  the poller's lookup by it (`payment_poller.rs:135`) finds nothing and a payment
  whose notice is lost is never delivered; `fedapay.rs:256` says the reference "is
  sent when the transaction is created".
* An arbitration writes `cancelled` before it moves the money (`missions.rs:715`, 758)
  and refuses a mission that ended (`admin_missions.rs:570`): when a refund fails the
  repetition answers 409; `admin_missions.rs:615` says "So a repeat finishes the
  settlement instead".
* Two changes of a mission's status that overlap both settle it: `set_status` writes over
  whatever the status is by then (`missions.rs:715`), and an invoice may be released by one
  and refunded by the other.
* A prize is returned or awarded before an UPDATE whose row count nobody reads
  (`contest_prizes.rs:349`), under a key that holds the reason, so two that overlap both
  move it; line 200 says "the escrow state guards the whole operation". A conclusion
  whose award failed is refused the second time (`tournament.rs:640`); line 201 says "a
  retried conclusion pays once". Two conclusions that overlap both add fragments; the
  podium takes in entrants who handed in nothing (`contest_prizes.rs:238`) or were
  disqualified (`contest.rs:1140`); an entry may be written after the end
  (`contest.rs:244`) and a registration after the ranking (`tournament.rs:473`). Two
  conclusions that overlap on podiums of different sizes pay two different splits
  under the keys of one, so that "the sum of the shares plus the refund has to equal
  the pool exactly" (`contest_prizes.rs:68`) is true of each call and not of the book. A
  prize concluded with no finisher goes back whole as an unclaimed place, is called
  `awarded`, and the contest may be opened again announcing it (`contest_prizes.rs:295`),
  though migration 0242 says that an open contest "must be holding the money or have
  already paid it out".
* A dispute cut off between its posting and its stamp (`release.rs:323`) is frozen
  money the sweep releases; a concession and a withdrawal that overlap post both
  endings (`disputes.rs:306` re-checks nothing).
* A completed session whose hold fails has entries and no hold
  (`mentorship.rs:856`); a withdrawal cut off between its debit and its row leaves
  nothing for the sweep to find (`payout.rs:322`); two withdrawals read one balance
  (`talent_wallet.rs:534`); a delivery stamped before it is made may never be
  (`fulfilment.rs:59`).
* A refund passes a platform share of 0 (`disputes.rs:369`) under a comment that
  says the cut goes back; a payout that bounces after it was called sent is not put
  back (`payment_webhooks.rs:449`).
* A provider call that errs after it acted is reversed and called failed
  (`payout.rs:375`); a press of "pay" whose provider call fails marks failed the row
  it shares with a press that was paid (`collect.rs:345`); a declined card marks the
  payment failed while Stripe's session stays open (`payment_webhooks.rs:283`); a
  payment delivered by the return page keeps no payment intent
  (`routes/payments.rs:397`), without which `collect::refund` gives up.
* The first month of a subscription is granted twice when an update and an invoice
  follow the checkout (`subscriptions.rs:107`; run `credits_first_month`), and a renewal whose invoice comes before its update is never granted; a webhook marked
  before it is handled is lost with a crash; the delivery of a pack writes a reason
  migration 0042 does not allow (`fulfilment.rs:192`); the refund of a spend looks for
  an earlier refund it can not find (`credits.rs:281`); an acceptance cut off leaves a
  contact accepted without a conversation, and one that overlaps a refusal or the
  sweep an accepted contact refunded, or a declined one refunded twice
  (`contact.rs:400`, 478).
* A bounty's payout names columns its table does not have (`bounties.rs:967`-`980`).
* A prize in `pending` never gets its row of `pending_releases`
  (`contest_prizes.rs:261`); a game jam concludes without awarding
  (`game_jams.rs:345`); a second sponsor's payment for one contest is in no book;
  what is confiscated stays in escrow.

*Signing in and messages.* `parse_refresh_cookie` takes the admin cookie whenever there
is one (`auth.rs:684`), so a refresh by the public app rotates the admin session into
the public cookie and the next use of the other is taken for theft; `auth.rs:620` says
the two "can coexist". Two refreshes that overlap are taken for a theft (line 122 of
`session.rs`). Sign-in by OAuth or SSO ends no earlier session (`oauth.rs:694`,
`enterprise_sso.rs:497`), though `session.rs:51` says "Called from every login handler";
nor does a login whose cookie lapsed after its seven days (`auth.rs:617`), while rows of
`user_sessions` never do, or whose update failed (`session.rs:70`). A drain
mails an address that was never verified, and a message that could not be queued counts
as queued (`notify.rs:401`).

*Work.* One successful check run makes a slice green (`ci_sync.rs:83`), while migration
0119 says "CI passed" and the poller asks for all of them; the poller takes a commit
without check runs for green, though they may only not have been created yet
(`ci_sync.rs:325`, "No CI configured on this repo"). The author of a pull request is not
asked for when the person has no GitHub account here or the server no token
(`slices.rs:62`), so a stranger's may go under review; and several spellings of one URL
pass (`slices.rs:230`), which the unique index of migration 0129 does not see. A
delivery or a cancelled bounty checks the row and writes it later whatever it is by
then (`deliverables.rs:285`, 361, `bounties.rs:592`), over a validated slice too. A
pull request closed upstream rewinds a slice handed in again with another (`external_refresh.rs:361`); with
more rows than a tick takes, those that need nothing are listed for ever (line 217);
a validator who claims the slice between pickup's two statements validates their own
(`slice_validation.rs:84`). Two verdicts that overlap both credit (`reviews.rs:166`); a
second merge overwrites the first's `merged` (`deliverables.rs:361`); the row held for an
author without an account is rolled back (line 151); an abstention completes the task
it should reopen (`reviews.rs:343`). One slice may pay twice, one merged pull request after the other's claim; a
rejected deliverable leaves its slice `in_review`; the maintenance jobs of the review
queue, and `expire_stale_claims`, are called by nobody.

*Groups.* A cohort's cap can be lowered below its headcount (`routes/cohorts.rs:398`); the
last organizer can be added as a member (`services/cohorts.rs:381`); milestones are edited
after the archive (`routes/cohorts.rs:623`), and a message overtakes it
(`services/cohorts.rs:418`); leaving deletes the row with what it recorded (line 327). Two joins
overrun a guild's limit and one enters a dissolved guild (`guild.rs:354`, 351); kicking
a stranger starts their cooldown (492) and a kick cut off starts none (501); a revoked
invitation is accepted (853), an accepted one admits nobody when the guild is full (860),
and a departure deletes the membership in another guild, and leaves that one
without its founder when he was kicked and founded it before his cooldown was written
(402, though 381 says that a founder cannot leave); `GuildIsLed` keeps those guilds apart
in `misled`. Wars mint points when a
debit matches no row (1115), pay twice when two conclusions overlap (1145), are answered twice
by two answers that do (1128), doubled by two proposals (1041), and never end by
themselves (1108); `WarsAreFair` keeps those wars and pairs apart in `contested` and
`rushed`. `UNIQUE (guild, applicant, status)` makes a second decision of the same kind
on a later application fail (`0028:77`); a founder must transfer a guild that no
function transfers (`guild.rs:381`).

## 7. What is abstracted or not modelled

The mapped definitions cover about one line in twenty of the repository's
implementation. Most of the rest is single-statement record keeping,
recomputation, formatting and I/O; section 8 says what of it would be worth a
model.

* *Everywhere:* who the caller is (authorisation decides who may act, and every
  action may be taken by somebody who is allowed to), texts, listings, pagination,
  notifications sent on the side.
* *Holds:* `cancel_session` (`routes/mentorship.rs:593-691`), which gives a held payment
  back before the session took place.
* *Holds, Payments, Payouts:* amounts, currencies and fees except in `Movements`;
  deployments without a provider's credentials; the backoff of the poller and its
  giving up after 25 hours; what a delivery does for each kind of subject but
  missions; that two overlapping posts under one key may end in an error instead of
  a replay, which is the same as a stop.
* *Missions:* applications and shortlists before a selection, NDAs, ratings,
  attestations, lines of platform revenue.
* *Prizes:* measured contests, marathons, jams, juries, community
  votes, guild contests, the response window of a case, the release of an awarded
  prize, `admin_set_score` (`routes/tournament.rs:439`) and the attestation of the podium
  between a conclusion and its award. A rejected entry and a disqualified one are merged.
* *Credits:* the messages of a conversation, blocking, `max_uses` and `percent_off` of
  a promotional code, half credits.
* *Sessions:* passwords, second factors, the contents of a JWT, the CSRF cookie; the
  ban checks inside OAuth.
* *Outbox:* grouping, preferences and quiet hours, which decide whether there is a
  notification at all; several recipients are independent.
* *Slices:* rank and orientation gates, refreshed titles and descriptions, public
  announcements, automatic forks, `in_progress` and `in_iteration` with the design rounds
  that write it, minimum ages, re-run checks and commits pushed to a pull request that
  was green; a validator has one request at a time.
* *Reviews:* deliverables of challenges and rites, skills and metrics, the capability
  gate, the expiry of a task.
* *Guilds:* the founding cost, seasons, divisions and leaderboards. A shareable link
  joins as an open guild does; a pair has one invitation and one application;
  `admin_dissolve`, one transaction, is one step. A cooldown ends when no request is
  in flight. `Wars` leaves out that the caller is an officer.
* *Cohorts:* the CHECK `a_member_finished_or_left_not_both` (`0462:98`), left out so that
  `CohortIsSound` rests on the code's own guard, not on the database's; how a cohort is concluded and reported on, texts of milestones.
* The parts listed as `not_modelled` in `PROJECT.json`, with the reason there.

## 8. What would come next

In the order of what is most likely to go wrong: the disclosure of security findings
and its embargoes; bounties, once their payout can succeed; engagements and
sponsorships, whose contracts are paid through the ledger; the promotion of seasons
and divisions; moderation and erasure, which touch every table at once.
