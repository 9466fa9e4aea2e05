# Rosterly, in TLA+

This directory models the reservation system of this repository: System B
(`src/system_b_saas`, "Rosterly", a Django service on PostgreSQL with a Celery
worker on Redis) and System A (`src/system_a_veludo`, "Veludo"), which signs its
users in through System B and passes bookings on to it. The modules are checked
with TLC. The safety properties of ten of the eleven components modelled are proved with
TLAPS for every value of their constants; the liveness properties are model-checked.

## 1. The system

Gunicorn runs System B with 4 worker processes of 4 threads each
(`src/compose.rosterly.yml:39`) and System A with one of 4 threads
(`src/compose.veludo.yml:13-22`), so any two requests can run at the same time.
PostgreSQL runs at READ COMMITTED and, as `ATOMIC_REQUESTS` is not set, every
statement outside `transaction.atomic()` commits by itself. One Celery process
(`-P solo`, `compose.rosterly.yml:67`) runs the tasks one after the other. System A
has a database of its own; it calls System B's integration API over HTTP.

| Component | State it keeps | Operations | Interacts through |
|---|---|---|---|
| Booking creation (`bookings/services.py`, `public_views.py`, `views.py`) | `Booking` rows | create, from the public page and from System A | row locks, `on_commit` task |
| Booking lifecycle (`public_views.py`, `bookings/views.py`, `dashboard/schedule_views.py`, `dashboard/views.py`) | `status`, report counters, `BookingReport` rows | cancel, complete, delete, report, core-time edit and delete | the booking row, notices |
| Notification worker (`bookings/tasks.py`) | Celery messages | confirmation mails, webhook, cancellation notice | Redis, SMTP, tenant's endpoint |
| Free-time views (`public_views.py`, `schedule_service.list_events`, System A's proxies) | none | public slots, calendar events, search | read availability and bookings |
| Schedule editing (`resources/services/schedule_service.py`) | `Availability`, `RecurringPattern`, opening hours | single shift, saved week, delete, core-time hours | the rows a creation locks |
| Core-time orders (`dashboard/views.py:1092`) | `Booking` rows of type CORE_TIME | create, edit, delete | the same tables, no lock |
| SSO (`tenants/views.py`, System A `accounts/views.py`) | `SSOAuthCode`, both sessions | authorize, exchange, callback, sign-out | browser redirects, one HTTP call |
| Sign-in and invites (`tenants/adapters.py`) | `SaaSUser`, `StaffInvite` | sign-up, invite, role hints | Discord |
| Staff binding (`binding_service.py`) | `Resource.linked_user` | bind, migrate schedules | sign-in, dashboard |
| Subscription (`dashboard/stripe_service.py`) | tenant's Stripe fields | customer, credit, checkout, sync, webhook | Stripe |
| Tenant lifecycle (`dashboard/views.py`) | `Tenant`, `ServicePreset` | signup, settings, override, ban, deletion, recovery | every public page |
| System A's shadow users (`accounts/views.py`) | `User` rows, identity cache | login, refresh, pushes of role and email | `IntegrationIdentityView` |
| System A's casts and booking proxy (`casts/`, `accounts/views.py`, `utils/saas_client.py`) | `CastProfile` | profile push, order, booking, cancel, complete | integration API |

What is hard here: requests that check and then write without a lock; rows read
whole, kept over a call to another system and saved later; a transaction that
waits for rows another one deletes and replaces; the database's deadlock
detector; tasks enqueued after a commit, retried, lost with the worker; HTTP calls
that time out but are carried out; the same interval arithmetic written in four
places; state cached between two systems. `PROJECT.json` lists each hazard at its
line, with the property that watches it, or a note on what the code allows there.

What makes each component correct:

- creation: two confirmed bookings of a resource keep the buffer between them,
  are covered when they are confirmed, and every request gets a true answer;
- lifecycle: a closed booking stays closed, reports are counted, notices are
  about closed bookings;
- worker: bounded copies, right order, silence about deleted bookings, an end;
- free-time views: what is offered is accepted, what is accepted is offered;
- schedule: shifts keep the rules they were checked by, a saved week takes effect;
- SSO: one code, one login; a refusal has a reason;
- invites and binding: never more uses than the invite allows, membership stays,
  one resource a person with all of her shifts;
- subscription: one credit, and open exactly if the subscription lives and its
  period has not ended;
- shops: the owner who signed up keeps the shop; what is booked is what was shown;
- System A: its shadow of a user and System B's resource of a cast settle, and what
  customers are told stays true.

## 2. Modules

The modules share no variables: each has the tables one question is about. They
meet in the operations of the others they contain: `Schedule` and `SlotOffers`
describe the rows that `BookingCreate` locks, `ShopFront` and `CastGateway` end in
the transaction that `BookingCreate` models, `SsoLogin` ends where `ShadowUser` and
`StaffInvites` begin.

### BookingCreate (core)

`create_confirmed_booking_with_lock` (`bookings/services.py:16-76`), one action per
SQL statement: `LockResource` and `LockTenant` (the `SELECT .. FOR UPDATE` with its
join locks both rows), `Scan`, `LockSlot` and `PassDeletedSlot` (the availability
query: its snapshot, then the rows it locks in order, passing over one deleted
meanwhile), `RefuseOutside`, `RefuseConflict`, `PassConflictCheck`, `Commit`, then
`Enqueue` or `EnqueueFails` (`transaction.on_commit`). `Fail` is any exception or the death
of the process. The editors are `create_recurring_availability`
(`schedule_service.py:355-439`): one transaction that deletes recurring rows and
inserts others, whose commit waits for the resource row because of the deferred
foreign key. Two things are abstracted there: the day loop deletes any subset of
the resource's recurring rows, and it inserts any recurring rows that
`_check_conflict` allows; `Schedule` has the loop itself. `DeleteAvailability` and
`CloseBooking` are single statements of other requests.

The database is external: row locks are a function from rows to holders, a
deadlock is a set of processes each waiting for another (`OnCycle`), and any process
on it may be the victim.

| State | In the code |
|---|---|
| `slotState` | committed `Availability` rows |
| `status`, `req` | committed `Booking` rows (status, interval) of each request |
| `lock` | PostgreSQL row locks |
| `cand` | rows the running statement has still to visit |
| `edit` | uncommitted changes of a regeneration |
| `queue`, `answer` | Redis, the HTTP response |

### BookingLedger

What creation promises, with no lock and no transaction: each request is decided
at one instant. `Abstract` in `BookingCreate` maps the detailed state to it (`open` is the
set of live slots, `booked` the status, `reply` the answer); `ImplementsLedger` says every
behaviour of `BookingCreate` is one of the ledger's.

### BookingLifecycle

The handlers that touch an existing booking. Every one reads the row, decides
and writes later; how it writes differs, and that is what the module is about:
`save(update_fields=["status"])`, `booking.save()` (whole row, inserted again when it
is gone), `F("count") + 1`, `delete()`. `now` counts hours to the start of the booking,
for the cancellation windows: the tenant's, and the fixed two hours of
`schedule_views.py:597`. Its specification is `LifeSpec`, that of `SlotOffers` is `OfferSpec`: no
name of theirs is one of `Notifications` and `CastGateway`, so that a module can extend both.

### Notifications

The worker of `bookings/tasks.py`. `Fetch`, `StoreLink`, `MailCustomer`, `MailCast`, `CallWebhook`
are the steps of `process_new_booking`; an error before the webhook goes to `Retry`. `Crash`
loses the task in hand (Celery acknowledges when a task starts). The mail server
is external: a mail is delivered, lost, or delivered with the answer lost. What happens to
the booking meanwhile is in four requests: `Create`, `Cancel` (with a cancellation mail, or
with none when the broker is away), `Close` (by the dashboard, in silence) and `Delete` (with a
mail). They take one step each; `enqueued` counts the mails they put in the queue, at most
`MaxNotices` of a booking.

### SlotOffers

Pure algorithms over a table that requests change: `PublicSlots`
(`public_views.py:161-235`), `Events` and `SearchFinds` (`schedule_service.py:198-320`), and
what System A makes of the last two, `Shown` (its calendar) and `Found` (its search,
with `Searched`, the query its client sends), against `Accepts`, the creation's own
check. Segments are sets of intervals and cutting one booking out of them is a
function that is folded over the bookings. `Pages` are the rows the booking page may read,
the first `Limit` (300 in the code) of those that can be booked (`Open`).

### Schedule

`schedule_service.py` with the endpoints that call it: `AskSingle` and `InsertSingle` are
the check and the insert of a single shift, two statements with no transaction;
`AskWeek`, `WipePatterns`, `SavePatterns` (or `SaveRepeats`, when a slot is asked for
twice and the unique key fails), then `ClearDay`, `AddSlot`, `NextDay` and `CommitWeek` are the
statements of one saved week, whose uncommitted part is in `work` and seen by nobody
else. A DELETE that waited for another transaction works on what was committed when it
began (`Deletes`). `Window` and `HoursOn` carry slots and opening hours past midnight.
`Resolved` is who may edit whose schedule, `Proxied` the way a request of System A takes.

### SsoLogin

One browser with several tabs. System A's session (`store`, `cookie`) is loaded when a
request arrives and written back whole when it is answered (`SaveTo`); signing in and
out move it to a new key (`MoveTo`). `Begin`, `AuthorizeForced`, `DiscordSignIn`, `Authorize`
lead a tab to its callback; `Arrive` checks the state and calls System B, whose
`CountExchange`, `LookUp` and `Consume` are the statements of `sso_exchange`; the
callback ends in `GiveUp`, `Reject`, `MappingFails` or `SignIn`, and may end in `GiveUp` while
System B still works on its call.

### ShadowUser

One user, System B's row (`remote`) and System A's (`row`), with the cached identity
between them. The threads of System A go through `VisitPage`'s refresh (`UseCache` or `Ask`,
`Compare`, `WriteChanges`, `Gate`), a sign-in (`SignInAtB`, `Exchange`, `Find`, `Upsert`, `SignedIn`),
an edit of the profile (`SubmitProfile`, `PushAnswered`, `SaveForm`) or a role
change (`UpdateRole`, `RoleAnswered`, `Forget`, `Align`). `PatchFails` leaves a call
that nobody waits for, and `PatchArrivesLate` carries it out.

### CastGateway

One cast at both systems. A save of the profile and every sign-in push it to System B
(`Edit`, `SaveEdit`, `Login`, `SyncAnswered`); a customer's click, cancellation and completion are
passed on (`Click`, `Ask`, `BookAnswered`, `ChangeAnswered`). System B answers a call in the
statements of its views (`PutResource`, `OrderRead` / `OrderSave`, `BookRead` / `Rename` /
`Reserve`, `RowRead` / `CancelDelete` / `CompleteSave`). `GiveUp` leaves a call to itself in a
place of `Late`, where it is handled or not.

### StaffInvites

Sign-ins of persons at one shop, with and without an invite, and the owner's staff
page. `Apply` is the one transaction (`adapters.py:260-310`, with the row lock); the
rest is read in one statement and written in another: `Arrive`, `SignUp`, `Sync`, `Final`,
`Authorize`, `Normalise`, `SaveStaff`, `WriteStaff`. `Bind` is `ensure_staff_resource_binding` in
its steps: `FindRow`, `LinkRow` or `CreateRow`, `Gather` and `Move`.

### ShopAccount

One shop's row and its customers, sessions and subscriptions at Stripe. A checkout
is `CheckoutBegin`, `EnsureCustomer`, `GrantCredit`, `CreateSession`; `Pay` and `ChangeSub` are what
happens at Stripe, which emits `events`. A subscription has a status and an end date, as the
code reads it from Stripe's answer (the end of the period, the date of its cancellation, or
start and interval added up); `Synced` writes both, `Subscribed` looks at both and at the
clock. A worker answers one of them, or a manual
request, with `NameSub`, `Fetch` and `SaveSync`. `DeskBegin` and `DeskWrite` are deletion, recovery,
ban and override. A call to Stripe may fail before or after it took effect, and an
event whose answer was an error is delivered again.

### ShopFront

Signing up (`StartSignup`, `OpenForm`, `PickSlug`, `CreateShop`, `AnswerSignup`, `CancelSignup`), the debug
shop of the super administrator in its three commits, settings and services. Resources
are bound by sign-ins and by every look at the dashboard (`BindStaff`), switched and joined to
a shop by its staff page (`SwitchResource`), given the mark of the terms by their person
(`SaveProfile`), and made or saved by System A (`PutResource`, which sends the mark whether or
not anybody agreed). Then there is a customer's request from the page to the booking:
`OpenPage`, `Post`, `FindResource`, `FindService`, `Book`, which read the shop, the resource and
the service one after the other before the transaction of `BookingCreate`.

## 3. Runs

| Run | Shows | Bounds |
|---|---|---|
| `create` | `NoDoubleBooking`, `EnqueuedAfterCommit`, `ConfirmedWhenCovered`, `OutsideAnswerIsTrue`, `ImplementsLedger`; `EveryRequestAnswered` under fairness | 2 creations, 1 regeneration, 2 resources of one tenant, 2 recurring slots that overlap and can replace each other, 3 requests of which two touch within the buffer; 208 thousand states |
| `lifecycle_safety` | `NeverReconfirmed`, `ReportsCounted`, `MailedNotConfirmed` | 3 requests, start at hour 4, window of 3 hours |
| `lifecycle_complete` | a documented rule the code breaks (below) | 2 requests |
| `notify_safety` | `NoFlood`, `ToldInOrder`, `NoticesJustified`, `DeletedStaysQuiet`, `EveryTaskSettles` | 2 bookings, one of them cancelled in up to 2 mails, 1 retry, all channels on or the webhook alone; 253 thousand states |
| `slots_agree` | `OfferedIsBookable`, `BookableIsOffered`, `SearchAgrees`, `CalendarAgrees` | 9 instants, 4 shifts of which the page reads 2, 2 bookings, 2 lengths of which the cast offers one, every range |
| `schedule` | `RowsApart`, `FormShowsSaved`, `WeekTakesEffect` | 2 requests out of 6, days of 4 units, weeks of 2 days, 2 old rows, 2 orders, 2 kinds of store; 898 thousand states |
| `sso_login` | `GrantedOnce`, `KeepsLogin`, `RefusalsJustified` | 2 attempts, 3 callbacks (one attempt's twice), 1 sign-out, 2 accounts, limit of 2, clock up to 2 |
| `shadow_settles` | `Settles` under fairness | 2 threads, one of them a reader, 2 changes, 1 failed call, cache of 2 ticks; 215 thousand states |
| `gateway_settles` | `AnswersStayTrue`; `CastSettles` under fairness | 2 threads, 1 late call, 2 clicks, 1 edit, 3 changes altogether, 1 failed call |
| `staff_joins` | `InviteHonoured`, `MembershipStays`, `OwnSchedule` | 2 persons, 2 sign-ins, 1 save of the owner, 2 old resources, 1 shift, an invite for one; 1.5 million states |
| `shop_account` | `PaidIsOpen`, `CreditOnce`, `DeskStands` | 2 checkouts, 1 worker, 1 request of owner or operator (deletion or override), 1 change of status or date at Stripe, 1 failed call, one tick, after which a paid period is over |
| `shop_front` | `ShopKeepsOwner`, `BookedAsShown` | an owner and the administrator, 2 tabs, 2 shops, 2 slugs, 1 resource, 1 service, 1 customer; 757 thousand states |

`create`, `sso_login`, `shop_account` and `schedule` also check their module's `TypeOK`.
All runs but `slots_agree` disable deadlock checking: requests come to an end,
and so do the counters that bound changes and failures.

Why the bounds are enough. A conflict is between two bookings, and the conflict
check, the locks and the ledger compare pairs; one regeneration against two
creations is what it takes for a deadlock with a third process waiting behind
it. The overlapping recurring slots make the deleted-and-replaced row happen.
Two handlers suffice for a lost update, the third one can restore what the
second changed. One retry leads through every path of the worker, and two
cancellation mails of one booking can both be in the queue; both numbers are
constants. In `SlotOffers` a booking can lie before, inside, over the end of and
beyond a shift and a range, and two can leave a gap between them of every size from
nothing to more than a slot. The page reads two of up to four shifts there, and two start
together, so which of them it reads is open. In `ShopFront` one resource can have no user, the
owner or the administrator, and go from shop to shop.
In `Schedule` a day of four units still has a
slot and opening hours past midnight, and the 30 hours of a day's clean-up reach
into the next day; lead and buffer are exaggerated on that grid. A tick of `SsoLogin`
is half a minute; a code and an attempt live one tick there, so both can expire between
two steps, and the counter's minute (2 ticks) is the real one.
In `ShadowUser`, `CastGateway`, `StaffInvites` and `ShopAccount` the hazards
are pairs: a request that holds what it read while another one writes. One failed or
late call beside them shows what is repaired afterwards. The runs of several
threads make all interleavings of their statements happen.

Fairness. `FairSpec` of `BookingCreate` assumes that a request under way goes on when the
database lets it and that a lasting cycle of waits is broken (PostgreSQL checks
after `deadlock_timeout`); it does not assume that anybody starts, fails, edits or
deletes. That of `Notifications` assumes that the worker takes tasks while there are some
and that countdowns end; mails may fail for ever. That of `ShadowUser` assumes that time
passes, that requests end, and that the user goes on looking at pages, as the
middleware refreshes on visits only; nobody need sign in or change anything. That of
`CastGateway` assumes that calls and requests end (they have timeouts) and that the cast
signs in now and then, as a lost push is repeated at a sign-in only; `CastSettles` says
nothing about a cast who never comes back.

### Where properties make exceptions

Each exception is something the code allows; without it TLC finds the trace.

- `MailedNotConfirmed` and `NeverReconfirmed` exclude core-time orders: saving one
  confirms it again on purpose (`dashboard/views.py:1130`). `ReportsCounted` excludes the
  full save of `bookings/views.py:350-351`, which writes back old counters.
- `RowsApart` allows overlapping shifts of two requests handled at once: nothing locks
  between check and insert. `WeekTakesEffect` is about weeks saved alone, whose shifts end
  by six in the morning: a longer one may be skipped for a shift of the old week that the next
  day of the loop deletes. `FormShowsSaved` allows saves at the same time to mix hours.
- `MembershipStays` excuses persons two of whose requests ran at once (`mixed`): a sign-in
  that read the user before the invite was applied saves the old tenant and role.
- `OwnSchedule` is about an `Undisputed` person: no resource carries her identity and
  another's email or name. The link is saved whatever it became since it was read
  (`binding_service.py:153-202`), so two bindings at once may each take such a resource, and
  the first is left without. The run has no such resource; the attempt to prove the property
  without the condition led to it, and TLC finds the trace if one of the run's resources has
  the second person's name and the owner's page is about that person.
- `KeepsLogin` allows a login to be lost to the session of a sign-out or a new attempt that
  the login overtook (`Overtaken`): the browser first gets the login's cookie, then theirs.
  That takes three attempts, one more than the run has; the proof found it.
- `PaidIsOpen` is about a last synchronisation that ran alone and met no failed call
  (`trusted`), a newest event not overtaken by one of an older checkout (`strayed`), and
  one customer: two first checkouts at once make two, and a failed GET falls back
  to the last session and may store NONE for a shop that pays
  (`stripe_service.py:228-251`). Open means before the end date the code reads: a shop whose
  renewal Stripe has not announced, or whose date the code adds up too short
  (`stripe_service.py:80-94, 268-269`), is closed although it pays. `CreditOnce`
  allows the credit twice when checkouts overlap.
- `ShopKeepsOwner` excuses a cancellation at the same time as a submission (`crossed`), which
  deletes the account that has just become the owner's. `BookedAsShown` does not say
  that the shop is the one shown: after its slug and the person's resource both moved, the
  booking is made at the shop the person now belongs to.
- `BookableIsOffered` excuses a time when each shift with room for it is `Behind`: at least 300
  others that can be booked start no later. The page reads 300 (`public_views.py:188`), and
  nothing bounds `booking_window_days` (`dashboard/views.py:986`).
- `RefusalsJustified` allows the state check to fail in one tab because of another: the
  tabs share one session.

### Hazards no property covers

These happen in the code as it is. They are in `PROJECT.json` with a note; a property that
excluded them would be false, and the properties above leave room for them.

- The broker refuses the task after the commit: the customer gets an error for a booking that
  exists (`public_views.py:356`).
- A booking cancelled while its task waits for a retry is confirmed by mail all the same
  (`bookings/tasks.py:88`); a full save puts old report counters back
  (`bookings/views.py:351`).
- Two shifts made at once overlap (`schedule_service.py:342`), two weeks saved at once mix
  (`:381`), the clean-up of a week reaches into the night after its range (`:400`), and a
  core-time order is made over whatever there is (`dashboard/views.py:1147`).
- A sign-up cancelled in one tab at the very time its form is sent in another loses the owner
  (`dashboard/views.py:254`).
- A lost answer spends the code of a login (System A `accounts/views.py:640`).
- The credit is granted twice after a failure between the grant and its record, or to two
  checkouts at once (`stripe_service.py:149`).
- Consent: the check is made once, before the transaction (`public_views.py:311`), a binding may
  give the resource a person afterwards, and System A pushes the mark of the terms as set for
  every cast (`casts/source.py:189-190`, `integration_views.py:260-270`). So persons who
  have not agreed are booked. The model has these steps, and no property about them.

### What the violation run says

`lifecycle_complete`: a completion that read CONFIRMED overwrites a cancellation
that came between, and `IntegrationBookingView.patch` (`bookings/views.py:350-351`) even
inserts a deleted booking again. API document, line 578: only CONFIRMED may
change to COMPLETED.

### Other places where code and documents differ

Met while modelling; no property asserts what the documents say here.

- Two cancellations both answer ok (`public_views.py:474-481`; API document, line 881).
- Report counters are written back by a full save (architecture document, line 95).
- When the mails fail for good the webhook is never called (`bookings/tasks.py:94-106`;
  README, line 509).
- A shift that sticks out of the asked range is returned uncut by bookings beyond it
  (`schedule_service.py:237-242`; API document, line 414).
- The guard of `delete_availability` reads `is_booked`, which nothing sets (API document,
  line 452).
- System B is called the source of truth of roles (`accounts/views.py:225`), yet a sign-in
  from a signed-in session hints the role System A has, which may be older
  (`accounts/views.py:590`, `adapters.py:113-159`); both sides still agree in the end.
- A resource follows its user to the next shop (`binding_service.py:126-160`) while its
  bookings keep the old one, and the conflict query filters by shop
  (`services.py:56-63`): after the move the person can be booked twice.

## 4. Proofs

Each `<module>_proofs` states its theorems for every value of the constants that satisfies
the module's assumption: any number of processes, rows, calls and messages. The
assumptions say how the constants fit each other (which sets are disjoint, what a function
maps to what) and that `None`, the absent value, is none of the data; TLC evaluates them in
every run. All proofs go the same way. `IInv` is the inductive invariant, `Invariance` is
`Spec => []IInv`, and the other theorems follow from it: an invariant as one of its
conjuncts, an action property because it holds of every step from an `IInv` state. The
steps of a module are first summed up by what they do to the variables an invariant
looks at (lemmas `<Action>Effect`, or `StepKinds` where several actions do the same); a lemma
`<Conjunct>Step` (in `BookingCreate_proofs` `<Action>Step`) shows that they keep a conjunct.

| Module | Theorems besides `Invariance` |
|---|---|
| `BookingCreate_proofs` | `TypeCorrect`, `NoDoubleBookingHolds`, `EnqueuedAfterCommitHolds`, `ConfirmedWhenCoveredHolds`, `OutsideAnswerIsTrueHolds`, `ImplementsLedgerHolds` |
| `StaffInvites_proofs` | `MembershipStaysHolds`, `InviteHonouredHolds`, `OwnScheduleHolds` |
| `SsoLogin_proofs` | `TypeCorrect`, `GrantedOnceHolds`, `RefusalsJustifiedHolds`, `KeepsLoginHolds` |
| `ShopAccount_proofs` | `TypeCorrect`, `PaidIsOpenHolds`, `CreditOnceHolds`, `DeskStandsHolds` |
| `ShopFront_proofs` | `ShopKeepsOwnerHolds`, `BookedAsShownHolds` |
| `Schedule_proofs` | `TypeCorrect`, `RowsApartHolds`, `FormShowsSavedHolds`, `WeekTakesEffectHolds` |
| `Answers_proofs`, on `CastGateway` | `AnswersStayTrueHolds` |
| `Answers_proofs`, on `SlotOffers` | `OfferedIsBookableHolds`, `BookableIsOfferedHolds`, `SearchAgreesHolds`, `CalendarAgreesHolds` |
| `AfterBooking_proofs`, on `Notifications` | `NoFloodHolds`, `ToldInOrderHolds`, `NoticesJustifiedHolds`, `DeletedStaysQuietHolds` |
| `AfterBooking_proofs`, on `BookingLifecycle` | `ReportsCountedHolds`, `MailedNotConfirmedHolds`, `NeverReconfirmedHolds` |
| `AfterBooking_proofs`, on both | `HandlersAreRequests` |

`Answers_proofs` is about what System A answers its customers, offers and bookings;
`AfterBooking_proofs` about what becomes of a booking once it is made. The invariant of
`BookingLifecycle` there is `LifeIInv` (`LifeInvariance`); the folds of `SlotOffers` need of its
tables only that they are typed and finite (`SlotsTyped`).

Every property the table names is also checked by a run on its instance, and each inductive
invariant was checked by TLC with the constants of that run (that of `Schedule` with the
days and slots it quantifies over cut to those the run can reach).
`HandlersAreRequests` relates two modules and is a theorem only.

### BookingCreate

`NoDoubleBooking` is not inductive: nothing in it forbids a creation that is about to
commit next to a conflicting booking. `IInv` adds why it cannot happen. A creation
past its first lock holds its resource (`HoldsResource`), so two of them never check one
resource at once; what passed the check still passes at the commit
(`CheckStillHolds`), because a booking of the resource can only be added by the holder.
For the availability: while the query visits its rows, every live row that
covers the request is still to be visited (`SeesEverySlot`), because a regeneration
cannot commit an insert while the resource is held; and past the query a
covering row is locked, hence live (`HoldsCover`). `EditIsOwn` says what an open
regeneration holds and may add, `Progress` ties the program counter to the data.
`CloserSymmetric` lets the check of one booking speak for both.

`ImplementsLedgerHolds` takes the steps one by one. `LedgerStep`: under the refinement
mapping a commit is the ledger's `Reserve`, because the check still holds and a covering row
is open; a refusal is `RefuseClash` (the conflicting booking is in the ledger,
`ClashIsConflict`) or `RefuseUnavailable`; answers, closings, deletions and commits of a
regeneration map to theirs, and statements inside a transaction stutter, as `open`, `booked`
and `reply` show committed state only.

### StaffInvites

Membership. A visit that runs alone, apart from the owner's page, holds a copy that differs
from the user only by what the page may write (`CopyFresh`); two visits of a person at once
are remembered (`LoneVisit`), and a visit that began after the person joined has read a
member (`CopyKept`). The page never takes a role away (`SavesPromote`), and `Synced` and
`Normalise` keep a member's. So `MembersKept` survives each save of changed columns.
`UsesCounted` with `JoinedBinds` (a visit that used the invite is past it) counts each use
once; `Visits` may be infinite.

Schedule. A person's resource is one she `Claims`: made by a request of hers, or carrying her
identity, email or name. `LinkedOnce`: she is linked to one at most, and to one she claims.
`BindsOwn`: what a request links, migrates from or migrates to is claimed by its person. Hence no
resource of an undisputed person is ever taken from her (`LinkPermanent`): a link or a
migration that touched it would be by a request of hers, and that one's target is the
resource itself. Her shifts are where they were or on her resource (`ShiftsKept`), and what
is not linked is still at the shop (`HomeKept`), so `Gather` finds all of them
(`GatheredAll`). `JoinedSettle`: a visit that used the invite has failed, is on its way
to that (`Settling`), or every shift is in place (`Settled`), which no later step undoes.

### SsoLogin

`SpentIfGranted` carries `GrantedOnce` (the conditional update of `Consume` finds a code unspent
once) and the second half of `RefusalsJustified`. For the first half, while nothing but one
attempt has begun the session still holds its state (`StateKept`). `Sessions` and `OpenedBy`
say which key of the session table belongs to whom, which is what `KeepsLogin` is about: a
callback writes to the key it loaded, and that has a login only if a callback opened it.

### ShopAccount

`PaidIsOpen` speaks about the end of a chain of events, `IInv` about every moment
before. Without straying the row has the newest subscription, or an event or a worker will
bring it (`NewestAwaited`, `NewestKept`); a worker that runs alone has fresh copies
(`AloneIsFresh`), has fetched the newest subscription's status and date or an event says
otherwise (`FetchedRight`, `NothingMissed`); after a trusted synchronisation the row is right
or there is one more event to answer (`RightOrTold`). `AllPaid` and `AllMet` keep names of
subscriptions and customers meaningful. `CreditNoted` says that who got the credit
has recorded it unless the call failed. The proof showed that `Mapped`, a CASE, had
overlapping arms outside its domain; it was rewritten, with the same values inside.

### Schedule

Nothing locks here, so all that is known of two requests is whether they overlapped.
`Beside`: requests that are open at once are in each other's `beside`. `RowsMade`: a committed
row was made by nobody or by a request that has ended. `PendingFree` is `RowsApart` one step
early, for what a request is about to commit: a committed row in its way is one it deletes
or was made beside it. Rows that are there at the start have to be apart by assumption.

A week is followed through its loop. `PatternsHeld`: what is saved as the form's patterns
is what was asked for, and the old ones go unless a week is saved beside it. `Cleared` says
how far the old week is gone: of a request that is `alone`, up to the morning after the day
reached. `Filled` says the same of the new one: what was added is wanted and fits, and hours
that fit were added or meet what was added. Both depend on what one day can do to the next:
`DaysApart`, `InItsDay` and `WindowBounds` say where hours past midnight end, which is why
`WeekTakesEffect` needs `EndsByMorning`. The position in the loop is data of the request, so
the induction over the week is that of the invariant.

### SlotOffers

The answers fold a cut over the bookings, in an order `CHOOSE` picks. What a fold computes
is shown here without an induction theorem: if two functions that satisfy the recursion of the
fold differed, or none existed, there would be a smallest set of bookings where that is so
(`Minimal`: proper inclusion of finite sets is well-founded), and the recursion refutes it
(`FoldedUnique`, `FoldedExists`). `FoldIs` and `AllCutDef` then give the fold of the community
modules its recursion equation. One cut keeps of a segment exactly what does not meet
the booking and its buffer, although the booking page and the calendar go about it differently
(`PublicCutKeeps`, `EventCutKeeps`); by the same argument all cuts together leave exactly
what meets no booking (`AllCutExact`), for any number of bookings, however they overlap.
`PublicSlotsExact` and `EventsExact` add the clipping to deadline, window and range, for any rows
the page may have read; a row it has not read has `Limit` others before it, which are the
rows it did read (`Behind`). `Accepted` says
what the creation accepts in the same words, and the four theorems compare them.

### ShopFront, CastGateway, Notifications, BookingLifecycle

- `ShopFront`: a person who is not `crossed` has one request of a sign-up at a time
  (`OneTab`), and that one creates or deletes only while there is no shop of hers
  (`NoShopYet`). A request is always about a page that is open (`CallHasPage`), and what
  was read of its service before the transaction still holds as far as the commit needs it
  (`ServiceShown`, `ServiceFound`); where the resource is, the lock itself asks.
- `CastGateway`: a click is in one request or one abandoned call (`SentOnce`). While that
  call is open the customer was told "unknown" (`AnswerOpen`) and only its handler makes the row
  (`RowOfCall`); a row never goes back to "none" and a deleted one never to CONFIRMED
  (`CancelledStays`).
- `Notifications`: the worker has one task (`OneTask`), and a channel not reached yet in this
  attempt was reached at most once in each attempt before (`WithinRetries`), for any
  number of cancellation mails beside it.
- `BookingLifecycle`: `KindFits` (core-time edits touch core-time orders only, customers'
  requests never) is what makes `ReportsCounted` and `MailedNotConfirmed` inductive.
- How the last two fit: `Notifications` lets a request read and write the booking in one
  step, `BookingLifecycle` keeps the two apart. `Told` shows the worker's module a booking of the
  handlers (`Stage`), and `HandlersAreRequests` says that every step of a handler is `Cancel`,
  `Close` or `Delete` there, or changes nothing, however late it writes: the completion that
  brings back a deleted row, too, is a `Close`. Thus the one-step requests leave nothing out
  that would matter to the worker. The theorem is about bookings that are not core-time
  orders, of which nobody is told, and for as many mails as `Bound`, the cap on them in
  `Notifications`.

### Model-checked only

- Liveness (`EveryRequestAnswered`, `EveryTaskSettles`, `Settles`, `CastSettles`): fairness and
  ENABLED are beyond the prover. `ShadowUser` has no other property, hence no proof.
- `CompletedOnlyFromConfirmed`, which is violated.

## 5. Not modelled

- Signatures of the integration API: that a call may be refused is (`Forbid` of
  `CastGateway`), the computation is not. Rate limits other than the exchange's.
- Schedule templates, a list nothing else reads; marking reports as read; lists,
  statistics, announcements, mail templates, admin pages, deployment; System A's
  activity tracking; `resources/views.py`, which no route uses; formatting of mails.
- The bootstrap of the first administrator (`adapters.py:171`) and the creation of
  invites; code nothing calls (`_save_subscription_settings`,
  `_promote_user_to_shop_owner`, `_create_tenant_for_shop_signup`).
- `BookingCreate`: core-time orders bypass the transaction, so `NoDoubleBooking` is about
  bookings created through it; every resource keeps its tenant there.
- `SlotOffers`: an answer is evaluated on one state of the two tables, although the code
  reads them with two queries; the locked check is what decides in the end, and
  `BookingCreate` is about that.
- `CastGateway`: the clock, so a check of the time may go either way. A drag that fails half
  way is repaired by the next push, like a name the booking form sends
  (`bookings/views.py:146-151`).
- `ShadowUser`: two threads that both refresh at the same time. The second could put an
  identity back into the cache that the first had read before a change
  (`accounts/views.py:336-339`), and again and again if it always overlaps; one thread
  at a time looks at a page in this model, the other signs in or changes things.
  Superusers of System B are left out.
- `StaffInvites`: one shop and its one invite, there from the start; two people whom one
  unlinked resource matches; a sign-in that fails after its use was counted.
- `ShopAccount`: two workers that synchronise at once (the later save may be of the
  older status). A shop counts as ACTIVE until its first synchronisation.
- `ShopFront`: whether a shop takes bookings at all (`ShopAccount` is about that), inactive
  linked users, required fields; one request for a debug shop at a time, one session a
  person. A binding is one step there, and so is each user of a saved staff page
  (`StaffInvites` has their statements); which resource without a user a binding takes for
  somebody's, by id, mail or name, is left open.

## 6. Plan

Done: `BookingCreate` with `BookingLedger` and its proofs, `BookingLifecycle`, `Notifications`,
`SlotOffers`, `Schedule`, `SsoLogin`, `ShadowUser`, `CastGateway`, `StaffInvites`,
`ShopAccount`, `ShopFront`.

Proved: every invariant and action property the passing runs check, with the refinement of
`BookingLedger`, and that the handlers of a booking do what the worker's model says of them.

Left, most important first:

1. `ShadowUser`: two threads that refresh at the same time.
2. `ShopFront` and `ShopAccount`: an abstract specification of a shop's life (founded, open,
   suspended, deleted, recovered), and that both implement it.
3. `ShopAccount`: two workers that synchronise at once.
4. `StaffInvites`: creation of invites, and more than one of them.
