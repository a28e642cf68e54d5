# Verification of the Mapletyne CPO

TLA+ models of the charging-station management system in
`src/mapletyne-core`, of its operator console `src/mapletyne-admin`, and of the
home page of the drivers' app `src/mapletyne-chargeapp`, checked with TLC on
small instances, and theorems about them proved with TLAPS for every value of the
constants.  Paths below are relative to `src/mapletyne-core/` unless they say
otherwise; `.tsx` and `.ts` files are in `src/mapletyne-admin/src/`, `home.js` in
`src/mapletyne-chargeapp/static/`.

Reading order, core: `ChargingSession` (what a session is and how it is billed),
`EventDelivery` (how the CDR reaches the biller), `ConnectionRegistry` (who is
connected), `RemoteStart` (from a payment to a running session).  Front ends:
`AdminPages` and `AdminConsole`, `RecordForms`, `SettingsForms`, `SettingsCache` (the
API behind them), `AdminSession`, `AdminRegistration`, `LiveTelemetry`, `SiteViews`,
`DriverMap`, `DriverScan`, and `FrontEnds`, which puts them together.

## 1. The system

One Python process runs on one asyncio event loop: a WebSocket server for OCPP
1.6 chargers (`ocpp16/`), one for OCPP 2.0.1 (`ocpp201/`), the REST API
(`api/`), and a consumer that bills charge detail records (CDRs) in Lago
(`events/consumers/`).  PostgreSQL holds the records, Redis the live state, the
queue of remote starts, and the event streams.  A web application for drivers
(`src/mapletyne-chargeapp`) and a React console for operators
(`src/mapletyne-admin`) are clients of the REST API.

Tasks switch only at an `await`, so an action of a model is what one task does
from one await that touches shared state to the next.  What makes the code hard
to test follows from this:

* every SQL statement outside `db.transaction()` commits by itself, so a handler
  is a series of small commits, and a failure or a crash leaves a prefix of it;
* what a handler has read is stale after its next await;
* the same charger may have two message loops: the server sends no pings, so an
  old socket can outlive the new connection;
* API requests, message loops and background tasks act on the same rows;
* events and queued commands are delivered through Redis, with crashes between
  reading and acknowledging, and expiry;
* in a browser, what a page shows is a copy of the database of some earlier
  moment: answers arrive in any order, effects run again when data arrives, and
  the tabs of a browser share their storage but not their memory.

### Inventory

| Component | State | Operations | Interacts with | What makes it correct |
|---|---|---|---|---|
| Charging session handlers, `ocpp16/session.py`, `meter.py` | `ocpp.sessions`, `ocpp.cdrs`, `ocpp.public_sessions`, Redis `session:<id>` | StartTransaction, MeterValues, StopTransaction, `generate_cdr` | event bus, message loops, charge app | one CDR per session, for its final energy; nothing changes a completed session; receipts show the right session |
| Message loops and dispatch, `main.py`, `ocpp16/handler.py` | `_handlers_16`, `_pending_calls`, per-handler context | `handle_message`, boot, heartbeat, status, authorize, disconnect | all handlers, the connection registry, the start queue | one message at a time per connection; an exception answers with a CALL_ERROR and ends nothing else |
| Connection registry, `ocpp16/server.py`, `state/charger_registry.py` | `_connections` | connect, disconnect, `send_to`, `is_connected`, commands | loops, API | registered exactly while served; status in Redis, database and events agrees with it |
| Public sessions and payments, `api/public_sessions.py`, `public.py`, `payments.py` | `ocpp.public_sessions` | create, cancel, stop, two payment webhooks | Stripe, the start queue, chargers | only paid sessions charge; a payment leads to one start; a running session is not cancelled |
| Pending remote starts, `ocpp16/handler_helpers.py` | Redis `pending_start:<cp>:<id>` | queue, retry, give up, expire | boot and heartbeat | sent once, retried at most three times, settled in the end |
| Event bus and Lago consumer, `events/` | Redis streams, groups, pending entries | publish, consume, acknowledge | every component, Lago | no CDR billed twice or out of order, none lost without a trace |
| Stale session closer, `tasks/stale_sessions.py` | rows of `ocpp.sessions` | close sessions without samples | (nothing starts it) | only closes what is still stale |
| Settings cache, `state/settings.py` | a dictionary with an expiry | load, get, put, list | API, database | what is served is what was saved; what is not sent is kept |
| Energy management and depot bays, `api/ems.py`, `fleet_bays.py` | site limits, schedules, overrides, bays | set, merge and apply limits | chargers | the tightest limit applies, zero included |
| RFID tokens, driver login, `api/tokens.py`, `public_auth.py` | `ocpp.tokens`, codes in Redis | issue, replace, block; send and verify codes | authorize | replaced tokens are never both usable; attempts are bounded |
| OCPP 2.0.1, `ocpp201/` | the same session rows | TransactionEvent | event bus | events out of order leave a consistent session |
| PKI, `pki/` | files and rows of certificates | issue, revoke, OCSP | chargers | what is issued can be revoked |
| Live event stream, `api/events.py` | an ephemeral group per client | subscribe, stream, clean up | event bus | groups do not outlive their client |
| Console pages, `pages/*.tsx` | the query cache, the open dialog, one mutation | mount, poll, refetch, save, live events | REST API, event stream | what was saved gets shown |
| Console forms and settings, `*Modal.tsx`, `SettingsPage.tsx` | drafts | fill, type, submit, upload, test | REST API | what was typed reaches its record, what was not touched is kept |
| Console session and registration, `api-client.ts`, `LoginPage.tsx`, `api/admin_auth.py` | tokens in localStorage, `isRefreshing`, `reg:pending` in Redis | sign in and out, refresh, register, verify, resend | all tabs, all pages | no request waits for ever; guesses are bounded |
| Console charts and site filter, `telemetry-processor.ts`, `SiteContext.tsx` | ring buffers, the chosen site | push, reload, filter, count, export | queries | charts show the last points inside their axes; pages agree about a site |
| Driver home page, `home.js` | map, caches, timers, camera | pan, locate, search, scan | REST API, the camera | the stations follow the map; the camera goes off |
| Admin API, OCPI, setup | single rows, none | CRUD, views, scripts | | no protocol between requests |

`PROJECT.json` lists every component with its status, and the hazards of the
code, each at its line with the properties that cover it.

## 2. Plan

| | Module | Status |
|---|---|---|
| 1 | `BillingLedger` (abstract), `ChargingSession` (implements it), `MCChargingSession` | modelled, checked, safety proved |
| 2 | `CdrCourse` (abstract), `EventDelivery` (implements it) | modelled, checked, safety proved |
| 3 | `ConnectionRegistry` | modelled, checked, safety proved |
| 4 | `PaidStart` (abstract), `RemoteStart` (implements it) | modelled, checked, safety proved |
| 5 | `AdminPages`, `AdminConsole` | modelled, checked, types and `OwnWritesShown` proved |
| 6 | `FormValues`, `FormFields`, `RecordForms`; `SettingsFields`, `SettingsForms`, `SettingsCache` | modelled, checked, safety proved |
| 7 | `AdminSession`, `AdminRegistration` | modelled, checked, their invariants proved |
| 8 | `LiveTelemetry`, `SiteViews` | modelled, checked, their invariants proved |
| 9 | `DriverMap`, `DriverScan` | modelled, checked, safety proved |
| 10 | `FrontEnds` (one scene of 5 to 9 per behaviour) | checked; all its invariants and action properties proved |
| 11 | `NoneStranded` with liveness; OCPP 2.0.1 transaction events against `BillingLedger`; limits and overrides of the energy management | not modelled |

Composition: `ChargingSession` refines `BillingLedger`, `EventDelivery` refines `CdrCourse`
and `RemoteStart` refines `PaidStart`.  The CDR events that `ChargingSession` emits
are the entries `EventDelivery` publishes; `RemoteStart` uses of
`ConnectionRegistry` only that a connection may or may not be found, and of
`ChargingSession` only the two updates of the public session.  The modules of
the front ends share no state: `FrontEnds` plays one of them per behaviour, as a
scene, and instantiates all.  Tables are kept apart from behaviour: `AdminPages`
says what the pages are wired from and `AdminConsole` what a page does with it;
`FormFields` (in the vocabulary of `FormValues`) and `SettingsFields` describe the
inputs, and `RecordForms` and `SettingsForms` use them.

## 3. What each module models

The operators named `Wrong...` are slips a programmer could make in the
definition that follows them; no specification uses them.  They document what
each property is able to notice.

### ChargingSession and BillingLedger

`session`, `cdrs` and `public` are the tables, `live` the Redis hash, `emitted`
the events published.  Each loop has a program counter `pc` and local variables
`ctx`; one action per awaited statement (`StopUpdate`, `StopPublic`,
`StopRedis`, `CdrSelect`, `CdrInsert`, ...).  `db.transaction()` is READ
COMMITTED: reads see committed rows, the conditional `UPDATE ... WHERE status =
'active'` looks again at the row it changes.  Transaction ids are
`MAX(transaction_id) + 1` without a UNIQUE constraint, and may collide.  The
charger is its register and the transaction ids it was told; it may stop, retry
and send samples in any order, over either of its connections.  `Fail` ends a
handler at any await, which is also what a crash leaves.

`SessionEnergy` keeps the code's treatment of zero: a register that reads zero at
start or stop gives zero energy.  `BilledEnergyIsDelta` is therefore stated for
chargers whose register had left zero.

`BillingLedger` is the contract: a session is opened once, accrues while open, is
closed once, and is billed at most once, for its final amount.  The refinement
(`LedgerSpec`) maps status, energy and CDR rows to phase, amount and bills.

Not modelled: the audit rows of `ocpp.meter_values`, power and SoC fields,
profile quirks, the text of CDRs.

### EventDelivery and CdrCourse

An entry is its position in the stream, so order and identity are the same
thing.  `first` moves with the approximate trimming, `last` and `pending` are
the group's state in Redis, `at` and what follows it the batch in memory.  A
restart forgets the memory and keeps the group.  Lost replies, failing look-ups,
failing posts and failing acknowledgements are actions of their own, and so is the
creation of the group when the consumer starts, which may raise: the task is dead then,
as after a failing look-up, until the next restart.  Lago is the set of what it
accepted.  Not modelled: a timestamp that `fromisoformat` refuses, since `Event` writes
it itself, and an installation without `LAGO_API_KEY`, where every event is skipped.

`CdrCourse` is the contract: a CDR is stored, handed over, posted, settled, in this
order and each at most once; posts follow the order of the stream; only what was never
handed over is trimmed, the oldest first; what is not to be billed has no course.  It
says nothing of when: a CDR that stays open for ever is within the contract, and the
run `event_lost` shows one.  The refinement (`CourseSpec`) tells an event's stage from
the stream, the group and the posts.

### ConnectionRegistry

One charger and the connections it opens over time (the registries are keyed by
charge point, so chargers do not interact).  `connections` and `handlers` are
the two dictionaries, each naming a connection; `status` is what Redis, the
database and the last event say.  `Leave` is the `finally` block: it pops both
entries by charge point id, whoever owns them, exactly as the code does.
`overlapped` remembers whether the charger ever opened a connection while a loop
of its was running, which is when that goes wrong.

### RemoteStart and PaidStart

`pay`, `started`, `stopped` are the columns of `ocpp.public_sessions`, `queue`
the Redis keys with their retry count.  API requests and queue tasks have their
own `pc` and `ctx`.  Whether `send_to` finds a connection is a free choice at
each send, which covers every behaviour of the registry.  `inbox` is what the
charger was sent and has not accepted, so a start that is refused or lost simply
stays there.  `txn` tells the session's own transaction from a `"stray"` second
one with the same tag, which the link (`started_at IS NULL`) passes over.

`sends`, `triggers`, `attempts`, `paid` and `overlaps` are history.  `overlaps` counts,
for each session, how often a task read the key while another one had it in hand: boot
and each heartbeat start a task, the tasks sleep two seconds between reading and acting,
and nothing keeps them apart.  Every overlap may send one start more
(`SentOncePerTrigger` counts it), and the code gives no bound on the retries then, as a
consumed key may be written back: `RetriesBounded` and `QueuedIsSettled` except these
sessions.

`PaidStart` is the contract, with no word on requests, queues, retries or crashes: a
payment makes one start due and whatever goes wrong excuses one more (`Pay`,
`Excuse`); a start is sent only for a session that was paid and one that is due
(`Send`); the connector charges only for what was sent (`Start`); the first transaction
of a session is its own and alone closes it (`Adopt`, `Stop`); a cancellation closes
only what has not started (`Cancel`); and only what was paid and never started may be
called failed (`Fail`).  In the refinement (`StartSpec`) the starts that are due are
`Due`, what was triggered, failed or overlapped less what was sent.  That they never
run out before a send is `SentOncePerTrigger`.

The webhook of the payment provider may name any status.  "authorized" has the same
effects as "paid", and any other the same as "cancelled", so the model has these two.

Not modelled: the driver's stop and unlock, the SoC parameters, the choice of a
tariff, the creation of the Stripe checkout beyond its outcome, the read-only
requests, and the rule that a second session of the same connector is refused
for two minutes (a session may be older, so a new one may come up at any time).

### AdminPages and AdminConsole

`AdminPages` is the table of the pages: for each query what it reads, whether it
polls and whether it hides a failure; for each mutation what it writes, which
queries its `onSuccess` invalidates and which dialogs it closes; for each piece of
markup which dialogs it opens and which mutations it sends.  `AdminConsole` is the
query cache as `App.tsx` configures it (one retry, refetch on focus), one mutation
in flight, the dialogs, the live events, and everybody else who writes.  The
content of an answer is only `"before"`, `"since"` or as of `"now"`, relative to the
user's last change.  The library TanStack Query is external: its rules (a request
under way is not doubled by a poll, but is cancelled by an invalidation) are taken
from how the pages use it.

`Forgotten` names the four pairs of a mutation and a query that the code does not
refetch (the cards of the fleet groups keep their counts, tokens keep the name of a
renamed group).  For all others `RefetchAssumption` says that the change is refetched
or the query polls; TLC evaluates it on the table, and the proof rests on it.

### FormValues, FormFields and RecordForms

A field is described by what can be entered, what the form makes of the record
(`x || ''`, `x || d`, `x ?? d`, not at all) and what it sends (as it is, trimmed,
`|| undefined`, `Number(x) || 0`, as an instant, not at all).  A form fills itself
when it is opened, when data arrives, or once; its save is a PATCH or replaces the
row.  The watched field is one of every kind, so that fields that behave alike are
checked once.

What the code does and the properties except, by name: the dates of a token move by
the user's offset from UTC at each save (`"moved"`), a site's guardrails replace its
name, address, configuration and buffer, the dialogs that are filled once
(replacement, blocking, override, telematics) send the last draft, and a token's
type and a tariff's currency are not sent at all (`NotSaved`).  "(None)" cannot be
chosen for a token's group once it has one: the form sends nothing then, and the
PATCH keeps what it has (`Trimmed`).

### SettingsFields, SettingsForms and SettingsCache

`SettingsFields` has every setting with its group, what the page holds before anything
is loaded, whether an empty value is taken over too (`!== undefined` instead of a test
for truth), and which saves send it.  `SettingsForms` is the page: one query fills all
drafts, and each tab saves its own group.  An answer may bring any value, as others
change the settings too.  A save sends of an untouched setting what was loaded, which
of a secret is its mask (`SavesWhatWasLoaded`).  That is about settings that were
loaded: a save while the load is still under way, or after it failed, does erase the
group, secrets included, because the page then holds blanks; and a refetch after one
tab's save overwrites the drafts of the others.

`SettingsCache` is the API: the row of a group, its entry in the process's cache, and
the requests that save it (`puts`), list it (`listing`) or restore a backup.  A PUT reads
the group from the cache or the row, merges what it was sent into that, with the
masked secrets as they are (`Merge`), writes the row, and only then refreshes the cache;
others go on at each of its awaits.  So the code does write old values back, and
`upset` says since when it may:

* a backup was restored, which leaves the cache as it is: for up to a minute a masked
  save brings the old secret back;
* two requests for the group overlap, of which one writes after the other has read; or
  a list that was read before a write puts what it read into the cache after it;
* the row could not be read, which `_load_from_db` only logs: the masked secrets are then
  merged into nothing and erased, and the request is answered with success;
* a write failed after it may have been committed, so the cache was not refreshed.

`api/settings.py:7-9` says that a masked secret "preserves the existing value"; in these
windows it is an earlier value that is preserved, or none.  Outside them what is not
sent stays (`KeptUnlessUpset`) and the cache says what the row says (`CacheCurrent`).
Once the minute has passed with nobody at work, the group is no longer upset.

### AdminSession

The tokens in localStorage, shared by the tabs; for each tab, `isRefreshing`, the
refresh under way, and requests with their steps.  The first 401 refreshes, the
others of the tab are parked.  What the code lets happen, and no property forbids:
the answer to one tab's refresh overwrites the newer login of another or undoes its
logout, and an upload answered 401 signs the user out without trying to refresh.

### AdminRegistration

Both sides of the registration: the two steps of the login page and `reg:pending`,
which every handler reads first and writes back later.  A late write of a wrong guess
brings a replaced code back, and every guess starts the lifetime anew; the bound on
the guesses at each code holds all the same, because the page verifies one at a time.

### LiveTelemetry

The ring buffer of `telemetry-processor.ts` with its wrap, and three charts on it:
their tickers, restarts, and the scope's hydration from stored readings.  `pushed` is
history.  A point holds the power and, for the scope, the current that is drawn;
zero voltage counts as missing and becomes 230, as in the code.

### SiteViews

The names of sites are typed by hand, so a name comes in capitals and with blanks
around it; `SiteContext`, dashboard, charger list and session list compare it each in
their own way.  The lists, counts, sums and the exported file of the three pages are
functions of what has been loaded.  A site whose name has blanks around it is counted
and not listed, which `CountsMatch` excepts.

Energies are watt-hours and costs thousandths of a penny, so that the rounding shows:
the table and each line of the exported file are rounded to the penny (`toFixed(2)`),
the revenue only once it has been summed.  The file therefore does not add up to the
revenue (three sessions of 1.234 kWh make 1.56 and 1.55).  `LedgerMatches` says what does
hold: each line says what the table says, and the two totals differ by half a penny a
line and half a penny more at most.  Costs are exact in the model; in the code they are
binary floating-point numbers, of which an exact half may be rounded either way.

### DriverMap and DriverScan

The map of the home page: centre, cached answer, scheduled fetch, requests under way;
the search with its timer and late answers; the sheet that comes after a flight.
`MovesFollowed` says that the stations drawn are those around the centre, or will be:
their fetch is scheduled or under way.  `behind` names where the code stops short of
that, which the property excepts: a cache that is still fresh is drawn although it is of
another place, the answer for an earlier place comes last, or the request fails.
While the driver is not located, drawing the stations moves the map to the first of
them, which schedules the next drawing: the page goes on fetching, as the model does.
The scan tab with its streams and intervals; the camera stays on if the tab was left
while the permission was still asked for (`leftWaiting`), which the property excepts.

## 4. The runs

| Run | Instance | Shows |
|---|---|---|
| `charging_overlap` | one charger with two overlapping loops, two sessions, register up to 3, one failure | types, single and correct billing, finality, the billing invariant, the refinement of the ledger |
| `charging_receipt` | two chargers, one loop each, two sessions, one driver, one failure | the driver's receipt is right, energy is the register delta, events and live state follow the session, and completed sessions are billed unless a handler failed |
| `charging_lost_cdr` | one session, one failure | violated: a failure after the commit leaves a completed session without CDR |
| `charging_cross_receipt` | two chargers, colliding transaction ids | violated: a receipt is closed with another session's energy |
| `event_delivery` | four events, stream of two, batches of two, two faults | no CDR twice or out of order, none lost without a trace, the refinement of the CDR's course, all billed without faults |
| `event_lost` | two events, one restart | violated: a pending CDR is not redelivered |
| `event_refused` | a refused CDR | violated: it is acknowledged all the same |
| `connection_registry` | three connections, one command, one failure or restart | the registries name live connections, answers are tracked, status follows the connection unless connections overlapped |
| `ghost_online` | two connections | violated: after an overlap a gone charger stays online |
| `remote_start` | one session, three requests (two at a time), two queue tasks, one fault | paid only, one send per trigger, bounded retries, queued starts settled, and all of it a course of `PaidStart` |
| `front_ends` | ten scenes: a page, a form, the settings page, the settings API with two requests, two tabs, a registration, a chart, the site filter, the map, the scanner | what was saved is shown and gets shown, what was not touched is kept, the cache of the settings is current, no request is stranded, guesses are bounded, charts and pages are faithful, the stations follow the map and the camera goes off |
| `start_forgotten` | two sessions, two requests, no fault | violated: a paid start is neither sent nor queued |

The runs that are violated show where the code departs from what its own
documents or comments say; `PROJECT.json` ("findings") quotes both sides.

**Bounds.**  Two loops are enough for every pair of handlers to interleave, and
the code compares only pairs; two sessions are the least that can be confused
with one another; a register up to 3 has a zero, a positive start, a sample
and a larger stop.  Three connections give a takeover of a takeover, which is
where the clean-up of an old connection meets a newer one.  Three requests allow
a session to be created pending, paid, and then paid again, cancelled or
refunded while its start is queued; two tasks make the queue race.  A queue with
keys of several sessions is worked off one key after the other without state
carried over, so one session suffices for the run; the proofs are for any number.
`MaxCount` (4) is one above what a counter of messages or failed attempts may reach
in a correct run, so that an excess is seen; three overlaps (`MaxOverlaps`) are more than two
tasks need to show one.  One failure is enough to break each property that can break.

In `charging_receipt` either one charger serves a driver or two chargers serve cards
(`SecondJoins`), and ids are given in order (`FirstIdFirst`); both restrict what
arrives and fails, never what a handler does with a message.  A driver
and a second charger together are the run `charging_cross_receipt`.

In `front_ends` a behaviour plays one scene, so the scenes' state spaces add up.  A
page watches one query and a form one field, as neither influences another; TLC
chooses which, so all pages and one field of every kind are covered.  Two tabs with two
requests each are the least in which one request refreshes, another parks, and another
tab interferes.  Two codes and two attempts are the least with a replaced code and an
exhausted one; one tick of lifetime makes a key expire between any two steps.  A
buffer of three with four pushes after three zero points wraps twice.  Two requests of
the map answer in both orders; three streams leave a tab, come back and leave again.
One word in the search field is enough, as late answers are told apart from the field
by its being empty.  Two requests that change a group are enough, as one of them can write
between any two steps of the other, and one listing and any number of restores come
between; a value and the default are enough to tell an old value from a new one.  One
energy (`Energies`) of which 42 pence a unit make a fraction of a penny is enough for the
sums to differ: an answer has three sessions that consumed it, one that consumed nothing
and one without an energy yet.

**Deadlock** is not checked: each system may stop, when the chargers send
nothing more, the bounded events, requests or connections are used up, or a scene is
played out.

**Symmetry** is used only in `charging_overlap`, without liveness: sessions and
the loops of the charger.  The refinement and the action properties of that run do
not tell sessions or loops apart.

**Fairness.**  Weak fairness of the continuation of each task: the event loop
resumes a task whose await has returned.  `Receive` in the models of the
chargers and the API is never fair, with one exception: `ConnectionRegistry`
assumes that a connected, idle charger goes on sending boots or heartbeats,
since BootNotification.conf gives it the interval.  `RemoteStart` assumes the
heartbeats that start the queue's tasks in the same way, on whatever connection
they come.  Faults are bounded and never fair; a property that a fault breaks
says so (`\/ faults > 0`).  In particular, "a completed session is billed"
holds only with this exception, and the run `charging_lost_cdr` shows why.
`AdminConsole` has weak fairness of `Poll` (the interval timer), and strong fairness
of `Read` and `Arrive`: requests may fail or be cancelled, but not for ever.  The
user, focus, live events and other writers are not fair.  The other scenes have only
safety properties.

## 5. What is proved

For all constants that satisfy the named assumptions (finite bounds are natural
numbers, null values are not names, every loop has a charger):

* `ChargingSession_proof`: types; at most one CDR per session; the CDR's energy
  is the row's; a completed row never changes; energy of an active row never
  falls; the refinement of `BillingLedger`.
  The billing properties are not inductive: a second handler that has already
  found the row active might bill it too.  `BillingInv` adds that the conditional
  UPDATE elects one handler (`OneSettler`), which finds the row completed and
  unbilled; that what it read stays current (`CdrReadIsCurrent`), as no action
  touches a completed row; and that a row about to be committed belongs to one
  handler (`ReservedRowsAbsent`).

  Three more properties have an invariant of their own, over `IdsInv` (a handler works
  on a session of its own charger, and a charger's ids differ).
  - Events and live state (`AnnouncementsCorrect`): `NewsInv` adds that a session whose
    id the charger was told, or whose handler is past the event, has been announced, and
    that what a stop deleted stays deleted while it ends.
  - The billed difference (`BilledIsMeterDelta`): `MeterInv` says that no reading of a
    row or a handler is above the charger's register, and that the energy a stop carries
    is the difference to its row's start.
  - The driver's receipt (`ReceiptsAreOwn`): `ReceiptInv` says that ids are distinct over
    all chargers and an id about to be committed is new, that a linked row names the
    session with its id, and that a stop carries what it wrote to its session.

  Of the liveness property `CompletedBilledUnlessFailed` the safety half is proved: a
  completed session has its CDR, or a handler on its way to insert it, or a handler has
  failed, or another session of the charger has the same transaction id
  (`CompletedIsBeingBilled`).  A step of the handler that closed the row takes it one
  step further (`SettlerGoesOn`), and rows that share an id go on sharing it.  With one
  connection for each charger the exception falls away (`SingleLoopIsBeingBilled`).
* `EventDelivery_proof`: types, no reposted CDR, no CDR without a trace, the refinement
  of `CdrCourse`.
  `DeliveryInv` adds that everything in memory is pending (a post is never of an
  acknowledged entry) and that posts lie behind the entry being handled, which
  gives both order and uniqueness.  The refinement needs besides that the stream is
  never trimmed past its newest entry (`FirstWithin`).
* `ConnectionRegistry_proof`: types, registered connections are served, answers
  find their call, and a charger without overlap is reachable while served.  The
  missing piece is `RegistriesAgree`: both dictionaries always name the same
  connection, since connect and clean-up change both without an await between.
  Of `GoneShownUnlessOverlapped` the safety half: when the last loop of a charger has
  ended, each of the three places says offline or a clean-up has still to write it there
  (`OfflineIsUnderWay`); so a charger that is gone, with no task left, is shown offline
  everywhere (`GoneIsSettled`), if it never overlapped its connections and nothing failed.
* `RemoteStart_proof`: types, only paid sessions are charged, started sessions
  are left alone, a start is sent once per trigger, its retries are bounded, and the
  refinement of `PaidStart`.
  Even the types need an argument: the retry count written back
  is one more than the one read, and in range only because a task that holds a
  key has a retry left (`RetryLeft`).  `WorkWasPaid` carries the payment from the
  webhook's UPDATE through the send, the queue, and the task that reads the key;
  payments are never forgotten, so it survives cancellations and webhooks in any
  order.  For the counts `CountInv` adds up, for every session: what was sent, what
  requests and tasks still owe (a cardinality) and the key, while nobody has it in hand,
  are no more than the triggers, failures and overlaps (`SendsCovered`).  So a key that a
  second task reads is paid for by the overlap, and one that is written back by what its
  writer owed.  Of a session without overlaps one task at most has the key, and the failed
  attempts are those counted in the key or in its hands (`AttemptsCovered`).
  The refinement (`ImplementsPaidStart`) takes each step to the contract's: the counts
  give `Send` its guard, `WorkWasPaid` and the condition of `_fail_pending_start` that of
  `Fail`; a failure or a restart is an excuse for every session, an overlap for one.
  Of `QueuedIsSettled` the safety half: a start leaves the queue only once it was sent,
  or as its task goes on to mark the session as failed, unless something failed or the
  key expired (`KeysLeaveSettled`), because a task that is about to delete a key has
  sent (`DeletesSent`).
* `AdminConsole_proof`: types (`DialogsAssumption`: a tariff's details lead to a dialog
  of the page); what the user was told has been saved is shown or on its
  way.  `OwnWritesShown` alone is not inductive, since an answer that was read before
  the change might still arrive; `NoLateAnswer` adds that there is none once the user
  has been told, because `Invalidate` replaces a request under way.  That the right
  query is invalidated is `RefetchAssumption`.
* `AdminSession_proof`: types, and no request waits for a refresh that does not come,
  for any tabs and slots.  `FlagTells` adds that the flag is up exactly while the
  refresh is in flight.
* `AdminRegistration_proof`: types, and the bound on guesses, for any number of attempts and
  codes.  The count written back may be of a code that was replaced, so the invariant
  is not about the stored key alone: `Counts` says, of the key and of what a
  verification has read, that the guesses at its code are among its attempts.
* `FrontEnds_proof`: the properties of the run `front_ends` as theorems of `FrontSpec`.
  A step of another scene leaves a scene as it was (`OneScene`), so each property
  needs only an invariant of its own scene:
  - the home page (`HomePageCorrect`): for the map `Followed`, which says that a centre
    where `fetchNearby` has not run is scheduled, and that what it ran for last is under
    way, drawn, or left behind in one of the three ways; for the scanner `ScanInv`, which adds to `CameraOff` that the page knows the stream and the interval
    that are on, and that there is none while the permission is asked for;
  - forms and settings (`EditsArrive`, `UntouchedIsKept`, `UntouchedSettingIsKept`):
    `DraftInv` says that a typed value stays in the draft and in what is sent, `KeepInv`
    that a record holds, and an untouched draft and request carry, only values that
    survive loading and sending; `SettingsInv` that an untouched draft is what was loaded.
    What they need of the tables of fields are the assumptions `FieldsRoundTrip`,
    `InputsAreSent` and `SettingsAreSaved`;
  - the API of the settings (`SettingsStayCurrent`, and the second half of
    `UntouchedSettingIsKept`), for any number of requests and values: `CacheInv` adds to
    `CacheCurrent` that, unless the group is upset, every request at work and the listing
    hold what the row says, or what a merge with it gives;
  - charts (`ChartsDrawTheLast`), for every capacity of the ring buffer: `ChartInv`
    says that the slots before the pointer hold the last points pushed, however often
    it has wrapped, that the chart draws their window, and that apart from the scope
    they are in the order of their times;
  - session and registration: the theorems of the two modules above, carried over;
  - the site filter (`SitesAgree`), for any energies: the types suffice, since what the
    pages show is computed from what they loaded.  Numbers of chargers are compared by
    the image of their positions in the list.  That the file's total stays near the
    revenue is a fact on sums over finite sets (`SumsNear`): what differs by half a penny
    at most in each element differs by that for each element in the sums;
  - the types of all ten scenes (`FrontTypesCorrect`).  Several are not inductive alone:
    a form's request must carry a value, there is no dialog without an open page, a chart's
    points are those of the ring, and the attempts at a code stay within their limit only
    because of what a verification has read.  The tables are assumed to speak of the
    form's values (`FormsAreTyped`, `SettingsAreSaved`).

**Hypotheses.**  The assumptions on constants and tables are evaluated by TLC in every
run that uses the module.  Some theorems on `ChargingSession` have a further
hypothesis, which the run that checks their property satisfies.  `OneLoopPerCharger`
(events and live state, billed difference, receipt) excludes overlapping connections of one
charger: there a late sample brings the live state of a closed session back, and a stop
may be handled beside a start or a sample of the same session.
`StartsAlone` (receipt): no two StartTransactions have their transactions open at once.
Otherwise they may be given the same id, which the run `charging_cross_receipt` shows to
end with another session's receipt; the theorem says that nothing else does.  In
`SingleConnectionReceipts` there is only one connection, and `StartsAlone` follows.

**Induction over data.**  What the recursive `PushAll` does to the ring, and the least
number that a minimum needs, are proved with `LeastElement`: a set of natural numbers that is not
empty has a least element, from the library's well-foundedness of `Nat`.  Its
theorems on induction take an operator as parameter and cannot be used.

Only model-checked: every liveness property (`CompletedBilledUnlessFailed`, `AnnouncedIsShown`,
`CdrBilledUnlessFault`, `GoneShownUnlessOverlapped`, `ServedShown`,
`QueuedIsSettled`), since fairness and ENABLED are beyond the prover.  Every invariant and
every action property that a passing run checks is a theorem.

## 6. What the models show of the code

Beside the findings in `PROJECT.json`, the modules describe behaviour that no document
rules out and that a maintainer should know.  It is in the models as the code has it,
and the properties except it where they would otherwise not hold.

* Forms and tables: see `RecordForms` and `SettingsForms` above.  Besides, the drafts
  of the cost basis are lost when the query is fetched again, restoring a backup reloads
  neither the page's settings nor the API's cache of them, and an organization's drafts are sent along with the
  branding.
* Console: no query is refetched when the event stream reconnects, so what happened
  meanwhile shows only with the next poll or focus; the stream does not carry
  `session.started`, `session.stopped` and `meter.values` under the names the console
  listens for.  A charger's stored status is only online or offline, so the
  "Charging" pill finds none.  A session's cost is always its energy times 0.42.
* Billing: when two connections of a charger overlap, two StartTransactions may be given
  the same id (the run `charging_cross_receipt`).  The UPDATE of one StopTransaction then
  closes both sessions, and the handler goes on with the first row it gets back: the
  other one stays completed without a CDR, although nothing has failed.  This is the
  exception `SharesId` of `CompletedIsBeingBilled`.
* Registration: if Keycloak does not answer, the account is made all the same
  (`RightCode`).
* Session list: the exported costs do not add up to the revenue shown, by up to half a
  penny a line (`LedgerMatches`).
* Home page: a late answer replaces a newer one, and a fresh cache is drawn wherever
  the map is; results appear for a field that was cleared; a code that is found after
  the tab was left still opens its page.  The page asks for `mollie_status`, which the
  answer does not have, and so forgets a running session at once.

## 7. Limits

* A crash is a failure of a handler at an await, or loses all memory at once;
  PostgreSQL and Redis are taken to keep what they acknowledged.
* Time is not modelled: the 120 seconds of a queued start, the two-second pause
  and the two-minute guard are steps that may happen at any moment.
* With overlapping loops, a late sample brings the Redis hash of a deleted
  session back; `AnnouncementsFit` is checked with one loop per charger.
* The models stop at the interfaces of Lago, Stripe, the chargers, the browser and
  TanStack Query, whose behaviour is whatever the code can meet.

## 8. Not modelled

* OCPP 2.0.1: a second server with its own handlers for the same tables.  It is the
  next candidate, against the same `BillingLedger`.
* The computation of limits from sites, schedules, overrides and bays: pure functions
  of rows, without a protocol.
* The setup wizard's changes of the settings, which alter the cached dictionary in place
  before they write it; the test mails; the driver's login (the same protocol as
  `AdminRegistration`); the API's statements on tokens.
* The stale session closer, which nothing starts.
* PKI, OCPI, setup, backup, update and deployment: cryptography, read-only views and
  external programs.
* Of the front ends: wording, layout, colours, read-only dialogs, the health page, and
  the other pages of the drivers' app.

`PROJECT.json` lists every component with its status and the reason.
