# TLA+ models of schedule-service

schedule-service is a Go HTTP API for the timetable of teachers: availability
templates describe when a teacher can be booked, slots are generated from them,
students book, move, confirm, cancel and delete bookings of slots, and attendance
is recorded for bookings. State lives in PostgreSQL; a Redis key per slot is the
only lock. This directory models the parts of it in which something can go wrong
between two steps, checks them with TLC on small instances and proves the most
important results with TLAPS for every value of the constants.

## 1. Inventory of the system

| Component | Code | State | Operations |
|---|---|---|---|
| bookings | `internal/service/service.go` 581-831, `internal/storage/postgres/postgres.go` 585-847, handlers `bookings/*` | tables `slots` (status, booking_id) and `bookings` (slot_id, status, cancelled_at) | create, get, cancel, confirm, reschedule, delete |
| slot lock | `internal/lock/redis.go` | a Redis key per slot, with a TTL | Lock (`SET NX`), Unlock (`DEL`), expiry |
| attendance | service 833-, postgres 849-, handlers `attendance/*` | table `attendance`, `booking_id` unique and `ON DELETE RESTRICT` | create, get, list |
| slot generation | service 418-577, postgres 563-583, `slots/generate` | a job's own uncommitted rows, then `slots` | generate |
| availability templates | service 77-210, postgres 41-160, handlers `availability_templates/*` | table `availability_templates` | create, get, update, delete |
| slot queries | service 340-417, postgres 331-561, `slots/get` | reads only | get, list, batch |
| time blocks | service 213-338, postgres 162-329, handlers `time_blocks/*` | table `time_blocks` | create, get, update, delete |
| server life cycle | `cmd/app/main.go`, `internal/config` | listener, connection pools, running handlers | start, serve, drain, close |
| HTTP layer, logging | `pkg/*`, `api/dto.go`, `mwLogger` | none | decode, answer, log |

**How they interact.** Each request runs in a goroutine of its own and reaches the
tables through `database/sql`. Nothing but the tables and the Redis keys is shared.
A handler calls one service method, and a service method sends one statement after the
other. Some statements go through the transaction it has opened and others, although a
transaction is open, through `s.db`: those are committed by themselves
(`GetSlotForBooking`, `UpdateBookingStatus`, `UpdateSlotStatus`, `DeleteBooking`).
Slot generation feeds bookings: its slots become visible to them in one commit.
`main` owns the pools and closes them when the server has drained or has run out of time.

**What is hard about it.**

* The check of a slot (`SELECT ... FOR UPDATE`) loses its row lock at the end of the
  statement, so between check and insert only the Redis lock keeps others away, and that
  lock has a TTL, no owner, and is not taken by reschedule, cancel or delete.
* Cancel and delete are two separate commits with a slot id read before both.
* A reschedule reads the new slot outside its transaction, and takes no lock for it.
* The transactions of create and reschedule lock rows in an order that depends on the
  request, so two reschedules can deadlock, and one of them is aborted.
* A request can be cut off between any two statements: the client goes away (the context
  of the request ends), a statement fails, or the process dies. A deferred `Unlock` then
  uses the context that is already cancelled.
* Most answers are a fresh read after the commit, in a statement of its own, also those of
  time blocks and attendance: others may have changed the row in between.
* Generation works with calendar dates in the zone of whichever end of the window it
  looks at, on a template that others may rewrite or delete meanwhile.
* The shutdown races its own timeout, and no statement has a deadline.

**What makes each component correct.** Bookings: no two live bookings on a slot; a live
booking has its slot and a slot booked for a booking has that booking; a cancelled or
deleted booking gives the slot back. Lock: creates of a slot exclude each other, and no key
blocks a slot for ever. Attendance: an attended booking is not deleted. Answers: a refusal
has changed nothing that is still there, a success shows what was asked for unless another
request overtook it, and a create repeated under its key is not refused for its own booking.
Generation: a job publishes exactly the slots of its template or none, none of them outside
the template's dates, no two overlapping, and it is told which unless it is cut off.
Templates: a slot never names a deleted one. Time blocks: the row is always one that a single
request asked for, a deleted block stays away, and an answer shows the caller's own write
unless another one overtook it. Transactions: seen by others they happen at their
commit or not at all, and nobody keeps a row locked. Life cycle: a handler that ends in time
keeps its pools; the process stops when told to. `PROJECT.json` lists the hazards one by one
with the properties that watch them.

## 2. The modules

| Module | What it is |
|---|---|
| `SlotLedger` | Abstract specification: book, move, release, each at one instant. |
| `Bookings` | The booking endpoints, attendance as far as it restrains them, the Redis lock, and slots that appear. |
| `MCBookings` | `Bookings` for TLC. |
| `BookingsProofs` | Theorems about `Bookings`, for careful clients and for any. |
| `BookingsUnmovedProofs` | Theorems about `Bookings` for any clients while nobody cancels or reschedules. |
| `Transactions` | The transactions of create and reschedule statement by statement, with row locks, deadlocks and failures; implements `Bookings`. |
| `MCTransactions` | `Transactions` for TLC. |
| `TransactionsProofs` | Theorems about `Transactions`, the refinement among them. |
| `BookingAnswers` | `Bookings` with the HTTP status of every request, the final read, and idempotency keys. |
| `MCBookingAnswers` | `BookingAnswers` for TLC. |
| `BookingAnswersProofs` | Theorems about `BookingAnswers`. |
| `SlotPlan` | Abstract specification: template edits, and jobs that decide at one instant what is due and publish it at another, in full or not at all. |
| `SlotGeneration` | Templates and generation jobs. |
| `MCSlotGeneration` | `SlotGeneration` for TLC. |
| `SlotGenerationProofs` | Theorems about `SlotGeneration`. |
| `Lifecycle` | `main`, the listener and the handlers. |
| `LifecycleProofs` | Theorems about `Lifecycle`. |
| `Server` | Time blocks, attendance and lookups, in the process of `Lifecycle`. |
| `MCServer` | `Server` for TLC. |
| `ServerProofs` | Theorems about `Server`. |

`Bookings` is the middle of the booking side: `SlotLedger` is what it promises,
`Transactions` is how it comes about, `BookingAnswers` is what clients see of it. In the
same way `SlotPlan` is what `SlotGeneration` promises. `Server`
composes the remaining handlers with the process that runs them.

### Bookings

A step is one SQL statement, one Redis command, or the writes of one transaction; that the
writes may be placed at the commit is what `Transactions` shows. `CreateInsert` is
the INSERT of the booking and the commit behind it. `RescheduleWrite` is the three UPDATEs
and the commit. `CancelStatus`, `CancelFree`, `DeleteRow` and `DeleteFree` are statements
that the code sends through `s.db`, committed one by one although a transaction is open;
that transaction is empty, and its rollback undoes nothing.

A request (`req`) holds the statement it sends next, and what it has read: for a cancel
and a delete `seen`, the slot id of the booking at the time of the first read. `Fail` cuts
a request in `Faulty` off between two statements. If it is a create that holds the lock it
either goes on to its deferred `Unlock`, or does not get there (dead process, cancelled
context). `LockExpire` drops the key; with `Prompt` it does so only when no create of that
slot is under way. `SlotsGenerated` is the commit of a generation job, as bookings see it.

The constants name the assumptions under which a property is stated:

* `Careful`: clients cancel, confirm, reschedule and delete only live bookings, and
  nobody sends a second such request for a booking before the first is over
  (`ClientMay`). Since a reschedule takes no lock for the slot it wants, they also do not
  ask for a slot that a reschedule wants, nor move a booking to a slot that anybody else
  wants (`CreateMay`, `RescheduleMay`). The API description promises more (it knows no
  such rules); the violation runs show what happens without them. A property under `Careful`
  says nothing of second cancels, of two reschedules of one booking, or of a create and a
  reschedule that want one slot: those it leaves out.
* `Prompt`: a create ends within the 10 seconds of its lock. Nothing in the code enforces
  it (`WriteTimeout` does not stop a handler).
* `Faulty`: the requests that may be cut off.
* `Ops`: the endpoints used.

`BookingId` is the set of UUIDs that may be drawn, and `minted` keeps one from being drawn
twice. So that no create ever waits for an id, `RoomForBooking` lets a create start only
while an id is left for it. This bounds the model, and it is why runs say
`CHECK_DEADLOCK FALSE`: when the ids are used up and no client wants anything, nothing
happens, as in the real system when no client calls.

Left out: student, teacher (copied, never compared) beyond the copy, timestamps other than
whether `cancelled_at` is set, the statuses `cancelled` and `blocked` of a slot, which no
statement writes.

### Transactions

Adds one variable to `Bookings`: `tx[r]`, the open transaction of a request, with the number
of writing statements sent, the rows it has written and the slots its foreign keys point to.
A statement of the transaction writes into `tx` only; `CommitCreate` and `CommitReschedule`
install the rows; `EndTx` forgets them. Everything else is an action of `Bookings` with the
condition under which PostgreSQL lets it go on: an UPDATE or DELETE waits for a row that
another open transaction has written, `SELECT ... FOR UPDATE` also for a row that such a
transaction's foreign key points to, plain reads and INSERTs for nothing. The rules of the
database are not in the repository and are marked external in `PROJECT.json`. `Deadlocked`
finds a circle of waiting transactions, of which `DeadlockAbort` ends one: the code rolls
back, and a create goes on to its `Unlock`. `TxFail` is any other error or a lost client.
Because the server may abort any transaction, `Faulty = Req` is assumed.

`ImplementsBookings` is `Bookings!Spec` itself with the same tables: statements of open
transactions are stutters, the commit is the one step.

### BookingAnswers

Extends `Bookings` with four variables. `call` is the exchange on each connection: endpoint,
key, slot, booking, status code (0 until decided), whether the request has committed
something, and the row its final `GetBooking` found. The others are history: `keyed`, which
bookings were made under each `Idempotency-Key`; `cut`, the bookings whose cancel or delete was
cut off between its two commits; and `writer`, the request that wrote the row of a booking
last, from which `own` tells whether an answer shows its own write. Each action conjoins an action of `Bookings` with
what it does to the call; requests refused by their first statement, which `Bookings` can
leave out because they change nothing, appear here with their code. `Reread` is the last
read, one statement after the commit: others may have written or deleted the row by then, and
a row that is gone is a 404 after a change. `Fails` has, besides a statement that fails, the
last read that fails and the COMMIT whose reply is lost, for which a 500 is answered although
the change is there. An answered 400 never reaches the service and is left out.

### SlotGeneration

A day has `DayLen` ticks; a moment is a calendar date, a time of day and a fixed offset
from UTC (no daylight saving inside a window). `Generate` is everything up to the
transaction: parsing, the read of the template, the intersection of the window with its
dates, the refusals and the nil dereference. Then each `InsertSlot` is one INSERT, each
`NextDay` one turn of the day loop that inserts nothing more, and `Commit` publishes.
`CommitReplyLost` publishes too, but `tx.Commit` returns an error, because the connection or
the context of the request ended on the way, and the client is answered 500. `Abort` is every
failure that the database rolls back. Both are for jobs in `Faulty`. The
uncommitted rows are `made`; they hold a key share lock on their template, so
`DeleteTemplate` waits for them (`KeyShared`) and `UpdateTemplate` does not. The foreign
key refuses an insert whose template is gone, and `ON DELETE SET NULL` clears the id in
published slots. Days of the week follow from the date, date 0 being a Sunday, and
`DaySpelling` keeps what `parseWeekdayFlexible` takes, the short forms standing with
the full names.

`Planned` defines the result independently: all days of the window, as dates in the zone of
`from`, that lie in the template's dates and on its weekdays, and all whole slots on them.
`Served` is the same with the last day as the code computes it, from `to` in its own zone.

`ImplementsPlan` maps a job to its `Stage` in `SlotPlan`: `Generate` that goes on is `Ask`,
where what is due (`Due`) is fixed by the template of that instant; the inserts and the turns
of the loop are stutters; `Commit` and `CommitReplyLost` are `Publish`, of which a job that is
cut off may not hear; a rollback is `GiveUp`, which `SlotPlan` allows only to a job that is cut
off or whose template is gone. A request that is refused,
and the one that panics, must be one for which nothing is due.

Left out: the teacher of a template, the status of the new slots (always free), 400s.

### Lifecycle

The main goroutine from opening the pools to its last statement, the listener, and a
handler per request. `os.Exit` at the start closes nothing. `Shutdown` is two steps,
closing the listener and waiting, and the wait ends when nobody runs or when the timeout
is over; closing the pools under running handlers makes their statements fail, and the end
of `main` ends them.

### Server

Every handler of `main.go` that is not in `Bookings` or `SlotGeneration`: the four of time
blocks, the three of attendance, the lookups of slots and bookings. Each request arrives
through `Accept` of `Lifecycle`, has a `call` with the statement it sends next (`at`), the
row it is about, the block it asks for and what it has read, and ends through `Complete`, so
that every step is one of `Lifecycle` or leaves its variables alone. A create or an update
of a time block and a create of attendance write in one statement and read the row back in
another. `Refuse` is a request whose body, fields or filters are refused before any
statement; `LoadBlock` refuses an update's fields only after it has found the block, as the
code does. `ReplyLost` is a statement that fails for a request in `Faulty` before or after
the database has done it; `PoolClosed` is a statement after `storage.Close`. `earlier` is
the table that former processes have left. `InsertMark` may be refused at any time: by UNIQUE
for a booking that has its row, by the foreign key for one that is not there, and since
`Bookings` owns that table, any may be missing here. A batch of slots is `GetSlotsByIDs`, a
list of attendance `ListMarks`, answered 200 also when its connection breaks, because
`rows.Err` is never asked; which rows it shows is left out.

A block has two columns, an interval and a type, so that columns of two updates could be mixed;
`Asks` are the blocks that requests ask for. `RoomForBlock` bounds the UUIDs as
`RoomForBooking` does.

## 3. Runs

All runs use `CHECK_DEADLOCK FALSE`: clients may fall silent, ids are finite, and a
stopped process stays stopped.

| Run | Bounds | Shows |
|---|---|---|
| `any_client` | `BookingAnswers`; 2 requests, 2 slots, 1 booking, all endpoints, faults, no assumption | Whatever clients send, the foreign keys are never violated and refuse only the deletion of an attended booking; which status codes can be trusted even then; and what a refusal and a success say although others cross them between commit and last read. |
| `careful` | `Bookings`; 3 requests, 2 slots, 3 bookings, all endpoints, faults | Slots and bookings agree, no booking has two slots, the invariant of the proofs holds, and the service implements `SlotLedger`. |
| `transactions` | `Transactions`; 2 requests, 2 slots, 2 bookings, any clients, faults, all endpoints but cancel | Transactions are atomic: what a commit installs is still current, nobody keeps a lock, and all steps are those of `Bookings`. |
| `answers` | `BookingAnswers`; 2 requests, 1 slot, 2 bookings, faults, create, cancel, confirm and delete, careful clients, fair | Requests are answered, locks left behind are dropped, and slots are given back unless the release was cut off. |
| `generation` | `SlotGeneration`; 2 jobs, one fallible, 1 template, 6 rows, 4 windows, fair | Exactly the planned slots or none, lost replies of a COMMIT included (so none outside the template's dates), no overlaps, the foreign key, the inductive invariant, jobs implement `SlotPlan`, and every job ends. |
| `server` | `Server`; 2 requests, one fallible, 1 id, 3 of the 4 possible blocks, 1 booking, fair | Rows are whole, deletes final, answers honest, the shutdown is graceful in time and comes to an end in any case, and everybody is answered. |

**Why the bounds are enough.** The conflicts in bookings are between two requests about one
slot or one booking; the third request in `careful` is there for two that conflict over what
a third releases. Two slots are needed for a reschedule and for a request that names a slot
which is not in the table; a second booking for a slot that is booked, released and booked
again, and a third for doing so once more while the first is still being released. In
`any_client` one booking is enough, since no property of that run relates two bookings, and
two requests, one that commits and reads again and one that crosses it. In
`transactions` two reschedules that go opposite ways deadlock, which takes two slots and two
bookings; cancel is left out there for TLC's time only, since its two UPDATEs meet the locks
that those of confirm and delete meet (the theorem has it). `answers` leaves out reschedules
for the same reason; `BookingAnswersProofs` has them. In `server` the hazards are between
two requests about one row, and the three blocks differ from each other in each column, so
that a mixed row would be the fourth; an update of one request, a delete of the other and
the signal may come in any order. In generation, conflicts are between a job and the
template it reads; the second job shows that jobs do not disturb each other. The rows cover
one and several slots per day, a slot that fills the day, weekdays spelt in every way and
one text that is no day, an end before the start, a zero duration and a disabled template;
the windows start before and inside the dates of the template and end after them, in UTC and
in another zone, or are in the wrong order, or do not parse. Requests, slots and bookings
are interchangeable, and `SYMMETRY` says so in the runs without liveness properties and
without keys. `ImplementsLedger` is a safety property and symmetric in them, so it may be
checked together with `SYMMETRY`.

**Runs that end in a violation.** Each checks one sentence of the documents, comments or
tests against the code; the sentence is quoted in `PROJECT.json`.

| Run | What happens |
|---|---|
| `double_cancel` | A booking is cancelled twice; the second cancel frees the slot of the next booking, which is then booked again. |
| `create_reschedule` | A create and a reschedule both find a slot free and both take it. |
| `lock_expires` | A create outlives its lock, a second one gets it, both insert. |
| `half_cancel` | A cancel fails at its second statement; its rollback undoes nothing and the slot stays booked for nobody. |
| `past_end` | `to` in a zone ahead of `from` gives slots after the template's end date. |
| `retry` | A create whose answer was lost is repeated with its key and refused because of its own booking. |

Further divergences are visible in the models and have no run of their own: a generate
request with a teacher only panics (`Generate`, outcome `panicked`; `src/api/openapi.yml:275`
describes it as supported); the API's own example dates are refused (`form = "date"`,
`openapi.yml:278-279`); a cancelled booking can be confirmed, and is then
confirmed without a slot (`ConfirmBooking`, `service.go:731`; `openapi.yml:1321` says of the
endpoint "меняет статус с pending на confirmed"); attendance
of a missing booking is answered 500, not 404 (`AttendanceArrives`, `openapi.yml:1401`); and
a create repeated under its key after the first booking was moved makes a second booking
(`CreateInserted`).

**Fairness.** `BookingAnswers`: weak fairness of each request's next step, since the Go runtime
runs every goroutine on and each statement ends, and of the expiry of each key, which
Redis sees to. Nothing makes a client call or a fault happen. `SlotGeneration`: weak fairness
of each job's steps. A job's steps are never blocked: an insert waits for no template,
because an update does not conflict with its lock and a delete takes one statement.
`Server`: weak fairness of the main goroutine after the signal, each step of which ends
by itself or by the timeout, of the select once the listener's error is in its channel,
and of the next step of each request that is not in `Faulty`: the database answers, or the pool
is closed. A request in `Faulty` may hang for ever, since no statement has a deadline; the
shutdown ends all the same.

## 4. Proofs

**`BookingsProofs`.** `AnyClientInv` (types, shape of requests, "a slot about to be written is
a row", the two foreign keys) is inductive without assumptions on the clients; the middle
conjuncts are needed because a create or reschedule names the slot one step after it looked
it up. From it come `TypeCorrect` and `ForeignKeysHold`. `LockExcludes` assumes `Prompt` only.
The main argument assumes `CarefulService` (`Careful` and `Prompt`; all endpoints, any faults)
and uses `CarefulInv`. "A live booking has its slot" is not inductive. One needs that
the slot of a create or reschedule is free from the check to the write (`TargetSafe`), which
in turn needs that nobody else wants it (`LockExclusion` among creates, `TargetAlone` for
reschedules); that a booking about to be released or moved is live and has the slot that was
read (`BookingSafe`); that a slot about to be freed is still booked for the released booking,
so for nobody else (`FreeSafe`); that no two requests work on one booking (`BookingAlone`); and
that a slot names only ids that were drawn (`SlotsMinted`), so that a new booking does not
find a slot in its name. From it follow `LiveBookingsHoldSlots`, `NoSlotBookedTwice`,
`MovedBookingsLeaveSlots` and, with the mapping `Held`, `BookingsImplementLedger`: every step is one step of `SlotLedger` or a stutter.
`NoSlotIsStranded` is the other direction of the agreement, that a booked slot has its live
booking or a release on its way; it assumes that no request is cut off, and `half_cancel`
shows why. It rests on two facts: a booking ends its life only in the first half of a release
(`LifeEnds`), and a release that goes on frees the slot (`ReleaseGoesOn`).

**`BookingsUnmovedProofs`.** How much of this is left if clients are not careful at all? The
violation runs say that double booking takes a cancel, a reschedule or an expired lock.
These theorems say that it takes nothing else: with `NothingMoves` (`Prompt`, and nobody calls
cancel or reschedule) no slot is booked twice and a live booking has its slot
(`UnmovedNeverDoubleBooked`), and `SlotLedger` is implemented (`UnmovedImplementLedger`), for
any clients, several deletes of one booking at once and any faults. The argument differs from
the careful one where deletes race. `DeleteKnows`: the slot id a delete has read stays right
as long as the booking exists, since bookings do not move. `FreesOwn` and `FreesAlone`: only
the delete that took the row away goes on to free the slot, and until then the slot is still
booked for the booking that is gone, so nobody else gets it. `InsertFree` is the part of
`TargetSafe` that the lock alone guarantees. `UnmovedInv` holds in TLC on the bounds of
`careful` with `Careful = FALSE` and the five endpoints; no run is kept for it.

**`TransactionsProofs`.** `TransactionsAtomic` is the refinement, for any clients. A commit
is the step of `Bookings` only if what the transaction has collected is what `Bookings`
would write at that moment. `TxInv` says so: a row is in one open transaction (`OneWriter`),
the rows are those of the statements sent so far (`CreateWrote`, `RescheduleWrote`), the
booking's row is still current (`ImageCurrent`), and only requests at work have a
transaction (`HoldersAtWork`). `CommitsLoseNothing`, `NoAbandonedLocks` and `TxTypeCorrect`
follow from it; `TransactionsBookOnce` takes two theorems of `Bookings` through the
refinement.

**`BookingAnswersProofs`.** Every step is one of `Bookings` or leaves its tables alone
(`AnswersImplementBookings`). For any clients `CallInv` ties the exchange of a connection to
the request behind it: which endpoint, slot and booking, that a code is given once and
agrees with what was written. It gives `AnswersTypeCorrect` and, with `DeletedAlone` (a
booking that somebody has deleted is gone, was drawn, and nobody else has deleted it; ids
are not drawn twice), `CodesAreHonest`. Still for any clients, `AnswersInv` adds what
lies between the commit of a request and its last read, when others may write the row.
`WriteSafe` says that the booking was drawn, so that it can go but not come back, that the
row, if it is there, has what nobody takes back (`Lasting`: `cancelled_at` stays set, and no
statement writes `pending`), and that it is as asked for if nobody else wrote it since.
`ToldTrue` says the same of what was answered. It gives `RefusalsLeaveNothing` and
`SuccessesShowWhatWasAsked`. For careful clients `SlotsAreLostOnlyWhenCut` rests on `OneSlotEach` and
`BookingSafe` besides.

**`SlotGenerationProofs`.** `GenerationInv` needs `LoopInv`: every row a job has made lies
before the place where its loops stand, so that the next one cannot overlap it. From it
`JobsDoNotOverlap` and `SlotTemplatesExist`, for all rows, windows and zones. What the two
loops compute is not proved by induction over their turns, but by an invariant of the steps:
`LoopServed` says that a job has made exactly those slots of `Served` that lie before its
place (`Passed`), and that the place is a whole number of durations after the start. An
INSERT adds one slot to both sides because nothing of `Served` fits in between
(`MultiplesApart`, `InsertPasses`), a new day adds none (`NextDayPasses`), and at the commit
everything has been passed (`CommitServes`), which is `JobServed`: a job whose COMMIT the
database carried out, whether or not it was told so, has published all of `Served`, any
other nothing. This part assumes nothing about zones.

The rest compares `Served` with `Planned`. If no window ends in a zone ahead of its start's
(`EndNotAhead`), `Served` is a part of `Planned`: `JobsAddNothing`, and `SlotsWithinDates`;
`past_end` is a window that breaks exactly this assumption. If both ends are in one zone
(`OneZoneEach`), the two are equal (`ServedIsPlanned`; this is where dates, instants and
offsets are compared): `JobsAreComplete`. For the same windows `GenerationIsAtomic` is the
refinement of `SlotPlan`. Its step lemmas need `JobServed` for the commit,
`TemplateOfSlotExists` for the template that a job with uncommitted slots relies on, and
`NothingDue` for refused requests: the tests of the code refuse only what has nothing due.
`JobsCannotRunForEver` is the part of `JobEnds` that needs no fairness: `TicksLeft`, the
time from the place of the loops to the end of the last day, is a number, every step of a
job makes it smaller, and nobody else's step makes it larger.
An end that lies behind its start's zone may lose slots of the last day, which is why
`JobComplete` and the refinement are not claimed for it.

**`LifecycleProofs`.** `LifecycleInv` (`LifecycleHolds`) adds to `NobodyCutInTime` that
connections are taken only while both pools are open, and that after a drain without a
timeout nobody runs; it gives `ShutdownIsGraceful`.

**`ServerProofs`.** `ServerImplementsLifecycle` maps each step to `Lifecycle`. `ServerInv`
has a conjunct per call (`CallInv`: what an operation may be about to send, and what its
answer says of what it has read) and one per row (`BlockInv`: whose block it is, and who
knows of it). Each step is described once by what it does to its own call (`Outcome`) and
what it leaves alone (`Frame`), from which each conjunct is shown. From it come
`ServerTypeCorrect`, `RowsAreWhole`, `DeletesAreFinal`, `AnswersShowOwnWrite` and
`OrphansExplained`.

TLC checks each inductive invariant of the model modules, too: `AnyClientInv` in
`any_client`, `CarefulInv` in `careful`, `GenerationInv` in `generation`, `LifecycleInv` in
`server`. Assumptions on constants (`BookingsAssumption`, `GenerationAssumption`,
`AnswersAssumption`, `ServerAssumption`) only type them; `TransactionsAssumption` is the one
named above. TLC evaluates them in the runs of their modules.

**Only model-checked:** liveness and everything else that needs fairness or ENABLED, which
TLAPS does not handle (`AnswerComes`, `LockReleased`, `SlotGivenBack`, `JobEnds`,
`StopsWhenTold`, `EveryoneAnswered`). Of `JobEnds` the safety part, a bound on the steps of a
job, is proved (`JobsCannotRunForEver`). Every invariant that a passing run checks is stated by
a theorem, with `TransactionsKeepForeignKeys` and the refinements carrying some of them to the
more detailed modules.

## 5. What is not modelled

* Routes that `main.go` does not mount: the list of bookings (its query would not parse: a
  trailing comma, postgres.go 697) and the list of time blocks.
* The query of `ListSlots`. The storage expects its filters in another type than the service
  hands it (postgres.go 392, service.go 372), so it refuses every call, which `Server` has;
  the text behind that line is never reached.
* The filters of the attendance list, which rows a list shows and in which order, the text of
  rows.
* Values that reach the database as text and are refused there, such as malformed UUIDs: an
  error like any other, answered 500. A time block whose end is before its start is accepted
  by the code and is a block like any other here.
* Decoding, 400s of the booking and generation handlers, the wording of answers, CORS,
  logging. The handlers assign the captured logger without synchronisation, which only log
  lines can show.
* Configuration files, the migration runner.
* A second job over days that have slots already inserts them again. Neither the schema nor
  a document forbids it, so there is nothing to check it against.

## 6. Plan

Done: `SlotLedger`, `Bookings`, `Transactions`, `BookingAnswers`, `SlotGeneration`,
`SlotPlan`, `Lifecycle`, `Server`, and the proofs of section 4. Open:

1. Composition of `SlotGeneration` with `Bookings`, replacing `SlotsGenerated`; a template
   deleted while its slots are booked.
2. What is left of `JobsAreComplete` for windows whose end lies in a zone behind its start's:
   which slots of the last day are lost.
