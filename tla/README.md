# Signal Shift backend: TLA+ models, checks and proofs

Signal Shift is a FastAPI service (PostgreSQL, Redis, Razorpay, a mail API) that sells
time slots of sports turfs, singly or as monthly subscriptions, and runs tournaments of
teams. Three gunicorn workers run asyncio handlers, so two requests interleave both inside a
process (at every `await`) and between processes; the only shared state is the database and
Redis. This directory models the parts of the program in which that matters, checks them with
TLC and proves the central results with TLAPS.

## 1. Inventory

| Component (source) | State | Operations | Interacts with | What makes it correct |
|---|---|---|---|---|
| Booking requests (`app/bookings/service.py`, `conflict_checker.py`, `state_machine.py`) | `bookings` rows, the advisory lock of each turf and day | create, manual create, cancel, confirm, complete, no-show | coupons, payments table, event bus | a slot is sold once; locks are given back; statuses follow the graph |
| Coupons (`app/coupons/service.py`) | `coupons` rows (`used_count`, `usage_limit`) | create, update, delete, validate, count a use | booking creation | uses are counted for bookings that exist |
| Payments (`app/payments/service.py`) | `payment_transactions` rows; orders and refunds at the gateway | initiate, browser callback, webhook, refund, UPI initiate / submit / verify / reject | bookings, subscriptions, gateway, event bus | a payment that succeeded confirms its booking once, and is refunded only for a cancelled one |
| Subscriptions (`app/subscriptions/service.py`) | subscriptions, their weekly slots, child bookings; plans and opening hours are read | availability, initiate, submit UTR, activate (event handler), cancel | bookings, payments, event bus | paid implies active; cancelled implies no child left; what is offered is accepted; an hour is held once |
| Event bus (`app/core/event_bus.py`, `event_handlers.py`) | in-memory tasks | subscribe, emit, isolate failures | every service | an event reports a commit; a lost task harms only what it was for |
| Availability (`app/turfs/availability.py`, `app/turfs/service.py`) | slot rules, overrides | edit them; compute a day | bookings, pricing | what is offered can be booked, at the price shown |
| Pricing, refunds (`app/bookings/pricing_engine.py`, `_resolve_base_price`, `_compute_refund`) | pricing rules, refund policies | edit them; preview, charge, refund | bookings, coupons | the quote is the charge; the refund is the best tier reached |
| Tournaments (`app/tournaments/`) | tournaments, registrations, matches, scoring rules | create, update, register, schedule, enter a result; standings, qualification | teams | places are limited; a score and its winner agree; the table balances |
| Teams (`app/teams/service.py`) | teams, memberships | create, update, add, invite, remove | tournaments | only managers change a roster; who has no manager left stays so |
| Authentication (`app/auth/service.py`, `app/core/redis.py`) | one-time codes and attempt counters in Redis, the user row | send, verify, Google sign-in | users | attempts are limited, lockouts end, a code is spent once |
| Users, plans, tenants, notifications, middleware, templates, migrations | single rows, or none | CRUD, output | – | unique constraints of the database |

What is hard to test here, and therefore what the properties aim at:

* **read, await, write.** PostgreSQL runs at READ COMMITTED and the ORM writes literal values
  computed from an earlier SELECT, to the changed columns only. No update compares a version.
  Every handler that validates what it read and writes later can overwrite somebody: a status,
  a counter, a match result, a role.
* **what the lock covers.** `pg_advisory_xact_lock` is taken by the two creations only; the
  activation of a subscription books hours without it.
* **what a flush locks.** A handler that flushes an UPDATE before it reads holds the row from
  there to its COMMIT. Payments and subscriptions rely on that, without saying so.
* **two transactions in one request.** The coupon count and the refund's last step are
  committed separately; a failure between the two is final.
* **messages and tasks.** Gateway webhooks and the browser's callback arrive in any order,
  several times or never; in-process events are lost with the process.
* **two computations of one thing.** The list of available slots, the conflict check and the
  charge are three pieces of code that must agree; so are the list of weekly slots and the
  checks of an initiation, and the preview of a price and the booking.

Every such place is listed, at its line, under `hazards` in `PROJECT.json`, with the
properties that cover it or the reason none does.

## 2. Modules

    BookingStateMachine     the status graph
      BookingTable          bookings rows; conflict query; INSERT and UPDATE
        CouponService       coupons rows and their operations
        PaymentTable        payment_transactions rows
          BookingService    requests of the booking API   -> BookingProperties -> MCBooking
                              BookingServiceProofs
          PaymentService    payments API, webhooks, gateway -> PaymentProperties -> MCPayment
                              PaymentServiceProofs
          SubscriptionService (+ EventBus) -> SubscriptionAvailability
                              -> SubscriptionProperties -> MCSubscription
                              SubscriptionProofs
      SlotLedger            abstract specification: reservations are atomic
                              SlotLedgerProofs
    TeamService             rosters
      TournamentService     registrations -> LeagueProperties -> MCLeague, LeagueProofs
    StandingCalculator      standings and qualification, as operators
      MatchService          matches and results -> MatchProperties -> MCMatch, MatchProofs
    AuthService             codes and counters in Redis -> AuthProperties -> MCAuth, AuthProofs
    Availability            the slots of a day, as operators
      PricingEngine         base price, discount, pipeline, refund tiers, as operators
        TurfService         edits, preview, booking, cancellation -> TurfProperties -> MCTurf,
                              TurfProofs

A component is one module of actions, one of properties (`...Properties`), one of instances for
TLC (`MC...`) and one of theorems (`...Proofs`). Operators that begin with `(* Mutant:` are
plausible bugs; no next-state relation uses them, and `PROJECT.json` pairs each with the property
that it breaks.

### How the code maps to the model

A request is a record in `req` with a program counter; between two of its steps any other
request may run. A step is one read of committed data or one COMMIT, because that is what READ
COMMITTED lets others see. `Fail` may end a request at any step: it stands for an exception, a
database error, a timeout or the death of a worker, all of which roll back what is uncommitted,
release locks (which belong to the transaction), and lose what should have followed a commit.
Early returns that change and send nothing are requests that never start.

**Bookings.** `create_booking` and `create_manual_booking` are

    ReceiveCreate -> AcquireLock -> FindConflict -> ValidateCoupon -> InsertBooking
                  [-> ReadUsedCount -> IncrementUsage] -> Emit

(`InsertBooking` is the COMMIT, and for a manual booking also the payment row);
`cancel_booking` and `transition_status` are `LoadBooking -> CommitTransition -> Emit`, where
`CommitTransition` writes the target and `version + 1` of the row *as it was read*.

**Payments.**

    InitiatePayment -> InsertOrder            InitiateUpi -> ChooseTxn [-> InsertUpi]
    Callback, WebhookCaptured, VerifyUpi -> FlushSuccess -> CommitSuccess -> Emit
    CallbackUnsigned, Callback, WebhookFailed, RejectUpi -> CommitFailure -> Emit
    Callback -> ReturnExisting                SubmitUtr -> CommitSubmit
    InitiateRefund -> GatewayRefund -> CommitRefund -> CompleteRefund -> Emit

`FlushSuccess` is there because `db.get(Booking, ...)` flushes the session: the UPDATE of the
payment is sent, and its row locked (`rowlock`), *before* the booking is read, so of two handlers
of one payment the second reads the booking after the first has committed. A request remembers
the row it `loaded`, because the ORM sends only the columns that differ from it. The gateway is
an external environment: it declines, authorizes or captures attempts to pay an order, and
whatever it ever said may arrive at any time, again, late or never. A callback is `Signed` if the
gateway made it and the server has the secret (`SecretConfigured`); with any other signature it marks
the payment failed, whatever its status (`CallbackUnsigned`). `receipts` is a history variable:
the payments whose `payment.success` was emitted, which is what mails the receipt.
`OtherCreations` and `OtherTransitions` are what bookings and subscriptions do to the same two
tables meanwhile; they are as liberal as the proofs about `BookingService` say it is.

**Subscriptions.**

    Initiate -> (CheckDate per week -> CheckSubscriptions) per weekly slot -> InsertSubscription
    ReadPayment (submit UTR, verify, reject) -> CommitPayment -> Emit (starts the task)
    LoadByPayment -> FlushActive -> BookDate (one per date) -> CommitActivation
    Cancel -> FlushCancelled -> SelectChildren -> CommitCancel

Neither activation nor cancellation takes the advisory lock of a day. What serialises them is
the row lock of the subscription (`sublock`): both flush their UPDATE before they read bookings.
`EventBus` says which handlers an event starts; of those only the activation writes tables, and
it is the task that `Emit` schedules and `Fail` may lose (`lost`). `creating`, `FindFree` and
`CommitCreation` are a creation of another request under its day's lock; `OtherTransitions` is what
else moves bookings. `today` advances by `Tick`, so that a midnight may pass inside a request.
A weekly slot is any start with the end that the code derives from it, on a clock that starts again
at midnight: the last slot of a day ends before it starts, and the model keeps that. `Picks` are the
sequences of such slots that a plan (its number of slots, its window) lets through. The dates of a
slot are computed from `today` when its queries begin, the start of the subscription when it is
inserted. `SubscriptionAvailability` is the query that offers weekly slots for a plan, opening hours
and a duration: candidates on a grid, then bookings by dates and subscriptions by weekday. It is
written apart from the checks of an initiation, as in the code, and compared with them by a property.
`seen` and `before` are history: which subscriptions were there when an initiation began.

**Teams and tournaments.** A change of a roster is `CreateTeam`/`Authorise` (the caller's role is
read) `-> FindMember -> InsertMember` or `-> RemoveMember`; a registration is `OpenRegistration ->
CheckManager -> CheckUnregistered -> CountRegistrations -> InsertRegistration`. `TournamentService`
runs both kinds of requests on the same `req`. `added_by` and `limits` are history variables.

**Matches.** `LoadMatch -> CommitResult`; `Written` gives the columns an UPDATE carries (those that
differ from the row as it was loaded). `Standings`, `Rankings`, `TopN`, `Formula` and `MinHours`
translate the calculator and the qualification engine; a comprehension and a `sorted` of theirs are
both `Arranged`: rows at some positions, each behind as many as come first in a total order of the
positions. `raced` is a history variable: the matches two results of which overlapped.

**Authentication.** `Receive -> CheckRateLimit -> CountAttempt -> StoreOtp -> SendMail`, or
`-> CompareOtp -> DeleteOtp -> FindUser -> CreateUser`. Redis commands are atomic one by one (or as
the pipelined pair); `Tick` ages every key. `spent` counts the sign-ins of the code stored last.

**Turf.** `PreviewPrice` and `CreateBooking` are `ResolveBasePrice -> ApplyCoupon -> ShowQuote` or
`InsertBooking`, one read of edited tables per step, while `Edit` changes slot rules, overrides,
pricing rules, the coupon and policies, and `MidnightPasses` begins or ends the coupon's validity
without an edit. A customer may book on a preview or without one. The lock is not repeated here (an insert happens only
where nothing conflicts). Where the code leaves an order to the database (rules of equal priority,
several matching slot rules), the model has every order.

**History.** `held` records the statuses each booking has ever held. It lets a property say
"revived": a booking that left the live statuses (pending, confirmed) and came back.

**Abstractions.** A slot is a turf and date (`Day`) and two times. Prices exist in
`PricingEngine` and `TurfService` only, in cents; elsewhere `discount` names the coupon whose
discount a booking carries. In `BookingService`, the reasons for which a code is refused that do not
depend on its uses (window, minimum, scope) are one nondeterministic refusal; `TurfService` has the
window and the minimum. `gateway_txn_id` names attempts at the gateway only: the reference that an
administrator's booking stores there is no payment the gateway knows. A coupon is known by its code;
`row` is the primary key of the row that has it now, because the increment looks the code up
again. Two different days whose 60-bit lock keys collide would only serialise more; the model
gives each day its own lock. A tournament, a team, a code and an address are model values. The
expression of a formula rule is a function from teams to scores. `Refunds` is given the hours of
notice, which the code takes from a local time as if it were UTC, and the policies that are active.

## 3. Runs

All bounds are in the `.cfg` files. `Symmetry` is used for safety runs only, and permutes what
the actions and properties treat alike: requests, booking and payment keys, matches, rule keys,
teams that take no new members.

| Run | Instance | Shows |
|---|---|---|
| `booking` | 2 bookings, 2 requests, 1 day, one slot, 1 code created at most twice | `IndInv` with `CheckedStaysClear` and `LockHasLiveOwner`; `OverlapOnlyIfRevived`, `FinishedWasConfirmed`, `CancellationIsRecorded`, `EventsReportCommits`, `NoCouponUseWithoutBooking` |
| `ledger` | 2 bookings, 2 requests, one slot, with fairness | `ImplementsLedger`: the requests implement `SlotLedger`; `WaitersAreServed` |
| `double_booking` | 2 bookings, 2 requests | the README's promise fails (section 5) |
| `payment` | 1 booking, 1 payment, 2 requests, 2 refunds | `IndInv` with `SuccessLeavesPending`, `ReceiptsAreTrue`, `RecordedRefundsWereMade`; `OneConfirmsAtATime`; `ImplementsLedger` |
| `payment_live` | the same, every callback refused, with fairness | `CapturedLeavesPending` |
| `subscription` | 1 subscription of two weeks with one weekly slot or two, days of three "minutes", 3 bookings (up to 2 of other requests), 2 requests | `OfferedIsAccepted`, `CancelledHasNoLiveChildren`, `ChildrenNeverOverlap`, `ActiveWasPaid`, `OverlapNeedsSubscription` |
| `midnight` | the same, no other bookings | a comment of `initiate` fails (section 5): `PickedSlotsAreDisjoint` |
| `subscription_live` | 1 subscription of one week, 2 requests, a midnight, with fairness | `PaidIsActivatedOrLost`, `RowWaitersAreServed` |
| `league` | 2 users, 3 teams (1 recruiting), 1 tournament with limit 2, 2 requests | `TypeOK`, `RosterGrowsFromCreator`, `LeaderlessIsForever`, `OverbookingIsBounded` |
| `match` | 2 matches of 3 teams and of one without an opponent, 2 requests, goals 0 or 2, a rule with a bonus | `ResultsAgree`, `TableBalances`, `QualificationFollowsTable` |
| `auth` | 2 codes, 2 requests, limits 1 and 2, windows of 2 and 3 lives of a code, with fairness | `AttemptsAreBounded`, `CodeIsSpentOnce`, `LockoutEnds` |
| `turf` | a day of six moments, 2 slot rules, 2 pricing rules, 3 edits, 1 customer | `OfferedIsBookable`, `RunCostsItsSlots`, `QuoteIsKept`, `RefundIsTheBestReached` |

*What the less obvious properties say.*

* `OverlapOnlyIfRevived`: two live bookings overlap only if one of them left the live statuses and
  a stale write revived it. It is a property of `BookingService`, where every insert takes the
  lock. With subscriptions, which take none, `OverlapNeedsSubscription` is what is left of it.
* `IndInv` is the inductive invariant of section 4; checking it on an instance is what made it
  worth proving.
* `OfferedIsAccepted`: of the candidate starts of a query for a plan and slots of one hour, those
  shown as available are the ones an initiation would accept at that moment, though two unrelated
  pieces of code decide. It does not say that an initiation accepts nothing else: it knows neither
  opening hours nor the grid of half hours, and nothing is claimed of other durations, of queries that
  never end, or of a closing time earlier than one slot (section 5).
* `ChildrenNeverOverlap` and `OverlapNeedsSubscription` compare minutes on real clocks, a booking
  that passes midnight reaching into the next day, and except those bookings: no query of the code
  sees what they overlap.
* `NoCouponUseWithoutBooking` bounds `used_count` from above only; increments are lost, and a crash
  leaves discounts uncounted.
* `ReceiptsAreTrue` and `RecordedRefundsWereMade` are each one direction: receipts are also left out,
  and refunds also made without a record (section 5).
* `PaidIsActivatedOrLost`: a verified payment activates its subscription unless the in-memory
  task died (`lost`), also if a cancellation came first; a death is the only excuse.
* `LeaderlessIsForever`: a team that has lost its last manager is frozen as soon as the requests
  that were authorised before are over.
* `OverbookingIsBounded`: with n requests in flight, at most n - 1 teams register above the
  greatest limit, if the tournament always had one.
* `ResultsAgree` excludes matches two results of which were entered at once, where it is false:
  each UPDATE carries only the columns that differ from what its own session loaded.
* `TableBalances`: goal differences sum to zero, wins equal losses, and so on, of the real
  computation over every reachable set of matches, corrected and raced ones included.
* `CodeIsSpentOnce`: a code that is still stored has signed nobody in; those who compared it
  before the first deletion may still sign in, and nobody else. `LockoutEnds`: a client that keeps
  trying does not prolong its own lockout.
* `QualificationFollowsTable`: the eliminated keep the rank of the table and the qualified are
  given new ones, so that it has to be shown that no rank is given twice.
* `OfferedIsBookable`: an offered slot can be booked; the price shown is among those it may be charged,
  and is the charge where the active rules around the slot agree. Where they do not, `LIMIT 1` may
  take another one, expired or of another type.
* `QuoteIsKept`: the preview is the charge if nobody edited in between, the coupon's validity neither
  began nor ended, *and* the order of rules is determined; `RunCostsItsSlots` states the one
  exception to "a run costs what its slots cost".
* `RefundIsTheBestReached` is about fair policies: the tiers are percentages from 0 to 100, and more
  notice never earns less. The program accepts others, and pays for them what the first tier that
  matches says.

*Why the bounds suffice.* A conflict, a lost update or a lock hand-over involves two rows and two
requests (one that holds, and one that waits or takes no lock). A third booking or request adds no new
relation, since every property is about one row, a pair, or a request and what it read; and all of
these are proved for any number. The one-slot instance makes every
pair of creations compete; which times overlap plays no part in a step other than through
`Overlap`, and `Refinement` is proved for any set of times. For payments, a race is between two
handlers of one payment and its booking; a second payment of the same booking adds no lock and
no read the two share (and the safety properties are proved for any number). `MaxVersion` lets the
other services change a row around them, `MaxRefunds` = 2 is one more than the program should
make. A subscription needs two weeks for its dates to differ; two of the three keys may go to
somebody else's bookings, longer than a weekly slot, which occupy a date or are created meanwhile,
one of them at the hour the other has given up. A day of three "minutes" has
a slot in the morning, one at noon and one that ends at midnight. One plan has a slot a week before
noon, the other two after it; opening hours close at the last minute or at the first. Two
subscriptions are out of TLC's reach: what is said of them is proved (section 4). In the safety run
the day stands still (`LastDay` = 1), because a second start date only shifts the calendar; the
liveness run lets a midnight pass between any two steps (`LastDay` = 2) and has one week instead.
`OtherTargets` leaves out completions of other bookings, which free a slot as a cancellation does.
In `league`, two users suffice for a manager to be appointed and to remove the first; one
recruiting team, because teams share no row; three teams and two requests, because a limit of
two can then be passed by one. `Goals` 0 and 2 give wins, draws and the bonus threshold. In `turf`,
the rule rows hold a last slot cut short, one switched off, an expired one, a closed court and
a place for two; three edits are what it takes to change both rules of one kind and one of
another between a preview and a booking; one pricing rule of a pair is exclusive or both are, and
a coupon's window is open, over or to come. In `auth`, windows are longer than a code's life, as in
the code (600 and 900 s to 300 s).

*Deadlock* is checked in `auth`. Elsewhere keys are finite in the model, so a run stops when
every row is used up or terminal, where the program would use a fresh UUID.

*Fairness* (`FairSpec`). `WF(Proceed(r))`: a statement sent to the database is answered.
`SF(AcquireLock(r))` in `BookingService` and `SF(Flush(r))` in `SubscriptionService`: PostgreSQL
queues the waiters of a lock or a row, so a waiter is not overtaken for ever. In `PaymentService`,
every request ends (`WF(Proceed(r) \/ Fail(r))`: the worker's timeout kills what does not answer);
the gateway repeats a webhook until it is answered (`SF(WebhookCaptured)`), and failures and other
holders of a row do not hit every repetition (`SF(FlushSuccess)`, `SF(CommitSuccess)`); without the
last two no system that crashes could promise anything. In `AuthService`, time passes (`WF(Tick)`).
Clients and administrators are under no fairness, and nothing forces or forbids a failure.

## 4. Proofs

Eight modules of theorems are checked by TLAPS, for every value of the constants, under the
assumptions the modules name: times are numbers (`TimeAssumption`), NULL is none of the values
(`NullAssumption`, `RequestAssumption`, `PaymentAssumption`, `TeamAssumption`, `MatchAssumption`,
...), the calendar is long enough for its subscriptions and a day longer than a slot (`CalendarAssumption`, `ClockAssumption`), what is
counted or added up is finite (`TournamentAssumption`, `AuthAssumption`, `MatchAssumption`, the
hypotheses of `CountedUsesAreBooked`), and the rows an administrator may write have the types of their
columns, a slot taking some time (`TurfAssumption`; with the duration 0 that an update lets through,
section 5, the loop over the slots of a day does not end, and no theorem speaks of it).

Every invariant and action property that holds in a run is stated by a theorem, so that a run shows
on an instance what the theorem shows for all (one theorem has no run, see `SubscriptionProofs`); the exception is liveness (see the end of this
section).

**`BookingServiceProofs`.** `BookingInvariant`: `Spec => []IndInv`. The invariant says what each
request may rely on at each program counter: a creation between lock and commit owns its day's
lock, every lock has such an owner, the slot it checked stays clear of bookings that were never
released, and a transition in flight was legal for a status its booking has held. Mutual
exclusion alone is not inductive: "nobody else inserted since my check" follows only because the
inserter would have had to own the same lock. One lemma per action. From it: `LockDiscipline`,
`FoundFreeStaysFree`, `NoOverlapUnlessRevived`, `FinishedOnlyAfterConfirmed`, and `Refinement`:
`Spec => ImplementsLedger`, where an insert is `Reserve`, a status write is `Move`, everything else
stutters.

Three more are about records that outlive the statuses: `CancellationsStayRecorded`, `EventsTellTheTruth` (whose invariant speaks of
every phase past the commit, since a request may still have to count a coupon before it emits) and
`CountedUsesAreBooked`. The last is a counting argument: `used_count` plus the requests that still
have a use to count is at most the bookings with that code, and so is what any request has *read*
of the counter. The second half is what survives lost updates and recreated codes.

**`PaymentServiceProofs`.** `PaymentInvariant`. That a successful payment's booking is not pending
does not follow from itself: a handler commits a decision made on an earlier read. The invariant
adds what each request knows at each phase (`OnRows`, `ReadsHold`): its payment's row is locked by
it while it is about to commit, what it saw of the booking is in the booking's history, and if it
saw something other than pending, the booking is not pending now. The proof has two halves.
Tables only grow (`TablesGrow`): rows and histories stay, nothing returns to pending, money given
back stays so; hence no step takes away what another request knows (`OthersKeep`). And a step
writes only what its request's knowledge allows (`TableStep`, one lemma per action). From it:
`PaidIsNotPending`, `ReceiptsStayTrue`, `RefundsAreReal`, `OneHandlerAtATime`, `PaymentsRefineLedger`.

**`SubscriptionProofs`.** `SubscriptionTyping` (every date a weekly slot takes is a day of the
calendar, which needs arithmetic on weeks), `CancellationsAreComplete`, `ActivationsDoNotDouble`,
`ActivationsArePaid`, `OverlapsNeedSubscriptions`, `OffersAreAccepted`,
`HoursSoldTwiceWereSoldTogether`. The invariant `IInv` adds to the three properties that whoever reads or adds
children holds the subscription's row (`Locked`), that what a cancellation has read is all there
is (`ReadAll`), that what an activation is about to insert overlaps neither itself nor what is there
(`RowsAreClear`), that an activation goes back to a verified payment (`Paid`), and that no child was
ever pending (`NeverPending`), because of which no status the graph allows revives one.
For `OverlapsNeedSubscriptions` two more are needed: the status of a booking that is no subscription's is
in its history (`HistoryIsWhole`), and a slot that a creation found free is taken by nothing but
subscriptions and revived bookings until it commits (`FoundIsClear`). `OffersAreAccepted` needs no
invariant: the two ways of asking agree in every state of the tables, if the query ends and closing is
late enough for a slot (`CloseSuits`); then no candidate passes midnight.
`HoursSoldTwiceWereSoldTogether` is `Spec => []SoldTwiceOnlyTogether`, about any number of
subscriptions: an initiation that has checked a weekly slot knows that whatever was there when it began,
and is still in force, does not hold it. It has no run (two subscriptions take TLC longer than a
run may).

**`LeagueProofs`.** `LeagueTyping`, `RostersGrowFromCreators` (the caller of an authorised request has
held the role, and a role is never taken back, only made inactive), 
`LeaderlessTeamsStayLeaderless` and `OverbookingBounded` (those who counted and have not inserted are
counted against the bound from the moment they counted).

**`MatchProofs`.** `MatchInvariant` and `ResultsAlwaysAgree`: outside `raced`, the row a request has
loaded is the row it writes to, so every column its UPDATE leaves out has the value it would have
written.

`TablesAlwaysBalance` uses of the invariant only that rows have their types, because the table is
derived anew from whatever the rows are. It needs what a sum over a finite set does: it has a value,
is a number, takes one element at a time, and agrees with the sum over any cover by disjoint
parts (`SumRules`, `SumsAgree`, `SumOfParts`). A column of the table is then a sum over all
appearances (`ColumnsAreSums`: teams partition them), and appearances come in pairs, home and away,
of which one scores what the other concedes (`SumBySides`); also where a team meets itself.

`QualificationAlwaysFollowsTable`: in a total order of finitely many positions, "as many as come
first" names each place once (`EveryPlaceIsTaken`); a filter keeps the order (`FilterKeepsOrder`);
and a stable sort by the keys that the table is sorted by already changes nothing (`SortedStays`).
Hence `top_n` with its default keys takes a prefix of what is left of the table
(`TopNFollowsTable`), and a team behind that prefix has a rank beyond its length.

**`TurfProofs`.** `TurfInvariant`: `Spec => []IInv`, types and *knowledge*: at each step of a checkout
that no edit has made stale, what it has computed so far is what the tables give now. From it
`QuotesAreKept`: preview and booking are two runs of one computation, whose result the tables
determine. The other three hold of any tables, and are about the computations. `RefundsAreTheBest`: the loop over the tiers
returns the first, from the greatest notice down, that is kept, and with fair tiers that one is
the best; a percentage of at most 100 does not exceed the price in spite of its rounding.
`OffersAreBookable` and `RunsCostTheirSlots`: the slots of a rule are an arithmetic progression, so
that the slots within a run are counted by a division, the last one by hand.

**`AuthProofs`.** `AuthTyping`, `AttemptsBounded`, `CodesAreSpentOnce`: whoever is about to raise a number
has been counted against its bound since it read that it may.

**`SlotLedgerProofs`.** `LedgerTyping`, `LedgerSafe`: the abstract specification's own invariants, for
any symmetric relation in the place of overlap.

*Induction.* The library's induction theorems take an operator, which no prover here instantiates.
Where data is unbounded the proofs use least elements instead: a non-empty set of numbers has a
least one (`LeastNatural`), a non-empty set of finite sets a smallest (`SubsetInduction`); the set
is that of the counterexamples. What the operators of the community modules compute (`FoldLeft`, `Max`,
`SumFunction`, `SetToSeqs`) is derived from their definitions.

*Only model-checked.* Liveness under fairness, and with it `ENABLED` (`WaitersAreServed`,
`CapturedLeavesPending`, `PaidIsActivatedOrLost`, `RowWaitersAreServed`, `LockoutEnds`), which the
prover does not reach.

## 5. Where the repository and the code disagree

`double_booking` (`README.md:120`, "prevents double-booking"): creations never double-book, but a
confirmation that read `pending` before a cancellation committed revives the cancelled booking, whose
slot may have been sold again.

`midnight` (`app/subscriptions/service.py:245`, "No two picked slots may overlap each other"): an hour
that starts at 23:00 gets the end 00:00 (`_add_minutes`, line 65) and then overlaps nothing, not even
itself. It can be picked twice, no conflict query sees it, and the activation books it twice.

Met in the code while modelling, and visible as a guard or an action that is, or is not, there:

* Bookings: no UPDATE compares the `version` that each transition writes; nothing expires an
  unpaid booking (`BOOKING_HOLD_TIMEOUT_MINUTES` has no reader); the usage limit of a coupon is
  checked before, and counted after, the booking is committed; a creation looks at neither the
  overrides of the date nor the capacity of a slot; the `slot_type` condition of a pricing rule never
  matches in a charge; a slot rule outside its validity window still sets a price; a last slot cut
  short at 23:59 costs a whole slot alone and nothing in a run; `_resolve_base_price` takes any one
  rule that covers the range, of any type, so that the charge may differ from the price shown; a
  coupon is validated again at the booking, so that a midnight between preview and booking may
  change the price.
* Pricing rules: the docstring of `PricingPipeline` (`pricing_engine.py:41-45`) applies all
  non-stackable rules before all stackable ones; the loop applies both as their priorities
  interleave them, which with percentages gives another total. The model follows the loop.
* Payments: a callback that comes after the webhook finds the payment successful and sends no
  receipt; two UPI initiations at once insert two open transactions, after which every
  initiation for that booking fails; the gateway refunds before the booking's status is checked;
  nothing resumes a refund that failed between its two commits.
* Subscriptions: two initiations may be sold the same weekly slot; the candidate loop of the
  availability query never ends when closing minus the duration is 23:30 or later (a turf that closes
  at 23:59, asked for 15 minutes), and closing times earlier than one slot wrap round to the
  evening; an initiation looks at the plan's window but not at opening hours or half hours, and the
  window's end does not catch a slot that reaches midnight; subscription payments are mailed no
  receipt.
* Teams and tournaments: an invitation of an address without a user never becomes a membership;
  the docstring of `invite_by_email` (`teams/service.py:135-138`) adds an existing user immediately,
  but the row of a removed member, which the check does not look at, makes the unique constraint refuse
  the insert, so a removed member cannot return; a team that lost its last manager cannot get another;
  `hours_played` is never set, so `min_hours` above zero eliminates every team.
* Turf: an update may set a slot rule's duration to 0, which creation forbids; the response of
  a created cancellation policy fails after its commit, so that a retry adds another.
* `invalidate_availability_cache` takes the generator `get_redis()` for a client and always fails, which
  it catches; nothing fills the cache it would clear.

## 6. What is left

1. Subscriptions, payments and bookings with one set of requests. Today each has what it shares
   with the others as an environment, as liberal as the proofs of the others say it is.
2. Several subscriptions and turfs at once; a tournament's groups in the `match` run (the module has
   them, the instance has none).

## 7. Not modelled

Single-row CRUD (profiles, plans, tenants, turfs, tournament rules once added), authorisation by
role (who may call an operation; the roles of a team are modelled), notifications and mail
templates, middleware, configuration, migrations, seeding, token signing and refreshing, the
parser of formula rules, the range query that repeats the query of one day, pagination and
listing. They hold no state that another operation's correctness rests on, or are pure output;
`PROJECT.json` lists each with its reason.
