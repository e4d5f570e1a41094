# A verification development for barber_crm

TLA+ models of the services of barber_crm, TLC configurations that check them on
small instances, and TLAPS proofs of what matters most. All paths below are
relative to the repository root.

## 1. The system

| part | where | state it keeps | operations |
|---|---|---|---|
| API gateway | `services/api-gateway` | one token bucket per client address, in memory | HTTP handlers that check formats, authorise and forward to gRPC; `RateLimiter` |
| Booking service | `services/booking` | PostgreSQL `bookings`, `barber_settings` | create, reschedule, change status, delete, lists, slots, settings; publishes `bookings.events` |
| Staff service | `services/staff` | PostgreSQL `barbers`, `services`, `schedule`; Redis `session:<barber>` | login, refresh, logout, services, schedule; publishes `schedule.events` |
| Client service | `services/client` | PostgreSQL `clients`, `client_processed_events`; consumer offsets | consumes `bookings.events`; get, list, update, delete |
| Analytics service | `services/analytics` | ClickHouse `bookings`, `schedule_hours` (ReplacingMergeTree); consumer offsets | consumes both topics; aggregate queries |
| Migrators | `services/*/internal/migrator` | `schema_migrations` of each database | up, down |
| Shared packages | `pkg` | none | JWT, configuration, connections, logging |

The gateway calls the services over gRPC. The booking service asks the staff
service for barbers, services and schedules. The two producers write to Kafka
after their database has committed; the client and analytics services consume
with one consumer group each and at-least-once delivery. Nothing else is shared.

What is hard in it, and what would make each part correct:

- **Bookings table.** Requests run transactions at READ COMMITTED with row locks
  and a partial unique index. Correct means: what a transaction checked is still
  true when it writes, no two active bookings of a barber start together, each
  request is one atomic change or none, and nobody waits for ever.
- **Events of bookings.** Published after the commit, from a second read, stamped
  after that, retried in memory. Correct means: no change is forgotten but where
  the code gives it up, and an event never tells what the row is not.
- **Consumers.** Messages come again, late and in any order; a stop, a crash or a
  rebalance comes between the tables and the offset. Correct means: visits count
  once, the last visit is the latest, the latest state of a booking is read, no
  offset passes over a message that was not handled, and all are handled in the end.
- **Free slots.** Three reads, arithmetic on the borders of bookings, and a client
  that books later. Correct means: what is offered can be booked unless something
  came in between, and the compact mode leaves no gaps.
- **Schedules and working hours.** One statement and one attempt to publish.
  Correct means: the statistics count the hours the barber has set, once.
- **Sessions.** A check and a write of one Redis key, tokens that expire. Correct
  means: a refresh token that was exchanged is refused, a logout lasts, and the client
  holds the token that is kept; where the code cannot keep that, it is known when.
- **Migrators.** A migration and its record in one transaction or in two
  statements. Correct means: what is recorded is what is there, and `Up` can be run
  again; where it cannot, exactly which stop is to blame.
- **Rate limiter.** A bucket per address that is refilled and forgotten, by a goroutine
  of its own. Correct means: nobody gets more than the burst and the rate allow, although
  a bucket may be deleted while a request holds it.
- **Services.** A booking copies what a service is called, costs and takes, some calls
  after the client saw it. Correct means: the copy is of one moment and of the right
  barber, the client gets what was shown unless it changed, and pages of lists are whole.
- **Client cards.** The barber edits what the consumer writes. Correct means: no event
  loses his notes, and an edit does not reach the row of a client made anew.
- **Statistics.** Five statements over tables that grow and merge meanwhile. Correct
  means: no booking counts twice, and the parts of one answer agree.
- **Dates.** Three services compute weeks for themselves. Correct means: on every day
  of the calendar they mean the same one.

`PROJECT.json` lists every part under `components` and every hazard, with the line
where it bites, under `hazards`.

## 2. Modules

| module | models | code |
|---|---|---|
| `BookingLedger` | what the bookings table promises: one atomic change of one booking per step, unique active starts | abstract |
| `BookingRepo` | the transactions and statements of `BookingRepo`, row lock by row lock | `booking/internal/repo/repo.go`, migration 003 |
| `BookingRaces` | `BookingRepo` with a history of which scans were overtaken | same |
| `BookingProgress` | `BookingRepo` with the deadlock detector and fairness | same |
| `BookingEvents` | the handlers that change a booking and the events they publish | `booking/internal/bookingrpc`, `internal/services`, `internal/kafka`, `cmd/server`; the gateway's handlers |
| `Slots` | `GetSlots`, `GetFreeSlots`, `buildSlots`, `buildCompactSlots`, the compact setting and what happens while an answer is out | `booking/internal/bookingrpc`, `internal/services`; the gateway's public handlers |
| `Catalog` | barbers and services of staff, their lists, the client's way from a list to a booking, the status and the list of past bookings | `staff/internal/repository`, `internal/service`; `booking/internal/services`, `internal/repo`, `internal/staffclient`; the gateway's handlers |
| `ConsumerGroup` | a Kafka topic, one consumer of its group, offsets | how the services use `kafka-go` |
| `ClientConsumer` | the client service's consumer and tables | `client/internal/consumer`, `internal/repository` |
| `Clients` | `ClientConsumer` with the cards of the clients and the barber's requests to them | `client/internal/service`, `internal/grpc`, `internal/repository`; the gateway's handlers |
| `AnalyticsConsumer` | one of the two consumers of the analytics service and its table | `analytics/internal/consumer`, `internal/repository`, migrations |
| `StaffSchedule` | the schedule of one barber and the events of it | `staff/internal/repository`, `internal/service`, `internal/kafka` |
| `ScheduleHours` | `StaffSchedule` composed with the table `schedule_hours` | `analytics/internal/repository`, migration 002 |
| `Calendar` | Gregorian dates, ISO weeks, and the weeks and months of three services | `staff/internal/repository`, `booking/internal/services`, `analytics/internal/service` |
| `Statistics` | `GetBarberStats` over the two tables, statement by statement, while rows arrive and merge | `analytics/internal/repository`, `internal/service`, `internal/grpc`; the gateway's `GetAnalytics` |
| `Sessions` | the session of one barber: login, refresh, logout over one Redis key | `staff/internal/service`, `internal/grpc`, `internal/repository/redisStore.go`, `pkg/auth/jwt.go`, gateway `auth.go` |
| `Migrator` | `Up` and `Down` of the four services, over their migrations | `*/internal/migrator`, `*/cmd/migrate`, `*/migrations` |
| `TokenMeter` | what the rate limiter promises: a meter of each address that is never forgotten | abstract |
| `RateLimiter` | the middleware, its buckets and their cleanup | `api-gateway/internal/middleware/rate_limiter.go` |
| `Bookings` | the ids of bookings and the value for no row, which several modules share | |
| `BookingProofs` | theorems of `BookingRepo` and `BookingRaces` | |
| `BookingServiceProofs` | theorems of `Catalog`, `BookingEvents` and `Slots` | |
| `AnalyticsProofs` | theorems of `AnalyticsConsumer`, `Calendar` and `Statistics` | |
| other `*Proofs` | theorems of the module of that name | |
| `MC_*` | instances for TLC: model values, symmetry, sets of messages | |

How they fit together: `BookingRepo` implements `BookingLedger`
(`ImplementsLedger`, checked and proved), so `BookingEvents` and `Slots` may take a
committed change of a booking as one step. The topic that `BookingEvents` fills is
the log that `ConsumerGroup` starts from: any messages in any order.
`ClientConsumer` and `AnalyticsConsumer` extend `ConsumerGroup`; `Clients` adds the
requests of the barber to the first, step by step between those of the consumer.
`Catalog` and `Slots` share the booking of a client: the one has what is booked and for
how much, the other when. `Statistics` extends `Calendar` and reads tables such as
`AnalyticsConsumer` and `ScheduleHours` fill. `RateLimiter` implements `TokenMeter`
(`ImplementsMeter`, checked and proved). `ScheduleHours`
uses of `AnalyticsConsumer` only that an event may be inserted any number of times
and in any order. A definition called `…Anyway`, `…Forgotten` and the like, with a
comment that begins "Mutant", is a plausible mistake in the definition after it; the
specifications never use it. It is there to show that the property named for it in
`PROJECT.json` can fail. Modules whose theorems are in one module have names of their own
for their initial states, steps and variables (`EventsSpec`, `dayRows`, `statsVars`).

### BookingRepo

`rows` is the committed table, `owner` the row locks, `tx` what each request's
transaction has done. `BeginCreate` / `BeginReschedule` begin a transaction;
`PhoneRow`, `TargetRow` and `ScanRow` are one row each of a `SELECT … FOR UPDATE`,
whose snapshot of ids (`todo`) was taken when the statement began; `Insert`,
`Move` and `MoveRefused` are the write with its `COMMIT`; `Abort` is every other end.
Decisions:

- A row that changed after the snapshot is locked and the `WHERE` clause is
  evaluated on it again (EvalPlanQual); one that no longer matches stays locked.
  Rows are visited in any order, since no statement has an `ORDER BY`.
- The write and `COMMIT` are one step: between them an uncommitted index entry only
  makes a request with an equal key wait, and a lock that is held longer.
- `rows.Close` of pgx reads the result to its end, so all rows of a scan are locked
  even when the loop has left early with a conflict.
- Ids are never used again. A cancelled context, a crash, a deadlock victim and a
  `COMMIT` whose outcome nobody learns are `Abort` (with, in the last case, the write
  before it).

### BookingEvents

A request, which `task` holds, goes through `act` (the commit), `reread`, `stamp` and `send`; a failed
send becomes an element of `retries`. `dropped` is a history of changes the code
gives up: a lost answer, a failed second read, all retries used, a stop. `cmd/server/
main.go:123-143` waits for requests and not for the retries' goroutines, so a
shutdown drops those. The producer balances by least bytes, may write twice and
asks for no acknowledgement (`RequiredAcks` is left at zero, which is `RequireNone`
in kafka-go 0.4.50): `topic` is therefore the set of events that may be there.
`DeleteBooking` publishes nothing.

### Slots

One barber, one day, whose bookings are `dayRows`. `GetSlots`, `GetFreeSlots`, `ReadSchedule` and `ReadBookings` are
the steps of one answer; the compact setting is read when the answer begins, and the
schedule is read as any value it may have. Meanwhile
bookings are made (from slots: `Book`, or otherwise: `BookElsewhere`), moved,
reactivated, completed and released. `loose` notes that a booking was made other
than from a compact slot of the day as it was, `unseen` the bookings an answer does not
account for. No booking crosses midnight here. Cancelled bookings, no-shows and free ids
are all `NoRow`.

### Catalog

`services` is the table of staff, which only barbers write, one statement each; `barbers`
no code writes, so it is a constant. `req` is a client or a barber on the way to a
booking: `listed`, `offered`, `posted`, `priced`, `saved`, one call after the other, and
what happens to the service in between is kept in `during`. A booking is what was copied
(`terms`); its times are in `BookingRepo` and `Slots`. `walk` is somebody who leafs
through a list, with `clean` as long as nothing was written. Equal names come in any
order, and in another one for the next page.

### Calendar and Statistics

A date is a number of days, and `Date`, `Civil` and `ISOWeek` are the rules of the
Gregorian calendar as Go's `time` has them. An answer of `Statistics` takes five
statements, and `FINAL` is applied to the parts of a table that are read: ClickHouse may
leave out parts without a row of the asked days, so an old row of a booking that was moved
out of them may come back (`doubtful`). Stored rows of one month merge whenever the server
likes. Averages are pairs, for what is divided and by what.

### RateLimiter

`buckets` is the table, `heap` the objects: a request that has got its bucket keeps it
though `Cleanup` deletes it from the table. The two critical sections of the mutex
are `Get` and `Allow`. Tokens are counted in parts, so that fractions accrue as
in the code's `float64`; that rounding of the floats is not modelled. `mark` and `count` are the
histories of a span of time anybody may choose to count in.

### Clients

`card` holds of a client's row what `ClientConsumer` does not: id, name, notes. `TellCard` is
the upsert of a booking's event, `FindClient` and `WriteClient` are the two statements of
`UpdateClient`, between which the client may be deleted and made anew. `said` is the history of what
each row was given last.

### ConsumerGroup, ClientConsumer, AnalyticsConsumer

`log`, `next`, `committed`: the partitions, where the reader is, and the offsets. A
commit after a rebalance may move an offset back. A failed commit is only logged, as
in the code. `FetchMessage` and `CommitMessages` of kafka-go select at random
between a cancelled context and work that is ready, so both may go through after a
shutdown: `context` is `live`, `cancelling` (cancelled during a try) or `cancelled`.
An operation that returns an error may have been done all the same. Each service has
one reader for a topic.

The table of `AnalyticsConsumer` is what `FINAL` reads over all partitions: the row with the
greatest version in whole seconds, of equal ones the one inserted last. A message
whose tries are exhausted is left uncommitted there, against `consumer.go:152`; in
the client service it is committed.

### StaffSchedule and ScheduleHours

`schedule` is the table, `req` a change whose event is not sent yet: each of
`UpsertSchedule` and `DeleteSchedule` is one SQL statement, `Stamp` is
`timestamppb.Now()`, `Publish` the one attempt to write. `Lose` is what ends a request
without its event: a crash, a lost answer, a failed write. `UpsertWeekSchedule` changes
nothing, since its statement is not valid SQL (an `ORDER BY` after `RETURNING`,
`staff/internal/repository/repository.go:352`). `lost` and `mixed`
are histories: the rows of which an event is missing, and those two of whose changes
were stamped out of order or in one second.

### Sessions

`session` is the key in Redis with its expiry, `req` the requests between two calls:
`check` (the `GET`), `mint`, `save` (the `SET`), `answer`, `delete` (the `DEL`). Decisions:

- A token is the second it was made in, because `GenerateRefreshToken` puts nothing else
  into it that differs; two of one second are equal. `known` are the tokens clients hold.
- go-redis sends a command again when its answer does not come, so `Save` and `Delete`
  may happen more than once, and a failure (`Finish`) may come after they happened.
- The histories are the exceptions: `twins` (two tokens of one second), `cut` and
  `revived` (a logout between another request's check and its answer), `disturbed` (two
  requests crossed between writing and answering, or an answer was lost).

### Migrator

`schema` is the set of versions whose objects are in the database, `recorded` what
`schema_migrations` says, `run` the migrator that runs. Staff changes both in one step
(`InTransaction`), the others in two (`ByItself`, then `Record`); `Stop` is a crash or an
error at any point. What a migration needs, undoes and refuses to do twice is data
(`MC_Migrator` has the repository's). One migrator of a service runs at a time, as the
compose files have it, and ClickHouse's clock tells the records of two runs apart
(`applied_at` is in milliseconds and the latest direction counts). `torn` is the history
of stops between a migration and its record.

## 3. What the runs check

Every property is stated above its definition. All passing runs explore their state
space to the end, each within a few minutes.

| run | properties | shows |
|---|---|---|
| `booking_races` | `CheckStaysValid`, `TargetStaysLocked`, `UniqueActiveStart`, `OverlapNeedsRace`, `ScanIsComplete`, `SecondPendingNeedsRace`, `ImplementsLedger` | The transactions and single statements of repo.go, interleaved row lock by row lock, with two clients and starts so close that bookings of a day overlap without being equal: what a transaction locked stays true until it commits, it knows the whole day unless a row entered it after its snapshot, a double booking or a second pending one needs such a row or a status set back, and seen from outside each request changes one booking in one step. |
| `booking_progress` | `EveryTxEnds` | Under the fairness of the lock queue and of the deadlock detector every transaction that begins also ends, through commit, rollback or as a deadlock victim. |
| `booking_events` | `NoSilentLoss`, `StampsFollowChanges`, `LastChangeIsTold` | Two requests at a time, three changes of one booking, background retries, a running clock and every failure between commit and publish: no change is forgotten on an unknown path, stamps are out of order only when the changes raced, and the event of the last change tells the row as it is although the row is read in a second statement. |
| `client_consumer` | `VisitsMatch`, `LastVisitIsLatest`, `CommittedIsHandled`, `CardsAreTheirOwn`, `VisitsAreCounted` | Two messages out of four, a stop, crash or rebalance, tries that fail, and a barber who meanwhile edits and deletes the clients: each completed booking counts once, the last visit is the latest, no offset passes over a message that was neither handled nor given up, a card shows what was last said of it, and in the end every completed booking is counted or given up. |
| `analytics_consumer` | `ReadsLastSecond`, `CommittedIsInserted`, `EventsArrive` | Three messages with equal and different seconds, redelivery and two shutdowns or rebalances: what is read of a key is a row of its last second, no offset passes over a message that is neither inserted nor given up, and every event is in the end inserted or given up after its last try. |
| `slots` | `OffersAreBookable`, `NoGaps`, `SlotsKeepHours`, `BarberSeesBookings` | One answer, for a client in either mode or for the barber, while three bookings of two lengths are made, moved, completed, released and given back on a day of six units: a slot that is shown clashes only with a booking that came after the read or that the builder looked over, the compact mode leaves no gap, slots keep to the hours, and the barber is told who holds each quarter. |
| `schedule_hours` | `DayHoursMatch`, `DeletedStaysDeleted` | A day that is set, deleted and set again by two concurrent requests, with lost and reordered events: the statistics count the hours the barber has set, once, unless an event of that day was lost or its changes were stamped together, and a deletion is final. |
| `sessions` | `SpentIsRefused`, `LogoutStands`, `NotLockedOut` | Logins, refreshes and logouts of one barber that cross at every call: a refresh token is exchanged once, a logout ends the session and the client holds the token that is kept, and each exception (one second, two requests that crossed, an answer that was lost) is the only one. |
| `migrations` | `RecordsMatch`, `NoHoles`, `UpIsRefusedTornOnly`, `UpMeansComplete` | The repository's own migrations, up and down in any order and as often as one likes, with a stop before, between and after any two statements: only a stop between a migration and its record makes schema_migrations wrong, leaves a hole or makes a later Up fail. |
| `rate_limiter` | `RateBound`, `ImplementsMeter` | Two requests of an address at a time, between whose two locks the cleanup deletes the bucket they found: in any span of time no more get through a bucket than the burst and the refill pay for, and the table with its cleanup is a meter for each address that never forgets. |
| `catalog` | `BookedAsOffered`, `BookedAsShown`, `PagesAreWhole` | Barbers change and delete services while a client looks, is offered slots and books, or a barber gives a booking another service, call by call, and somebody leafs through a list of services, of barbers or of a client's past bookings, whose status barbers change: a booking says what was on offer by its own barber at one moment of the request, all of it at once, a client gets what was shown unless it changed since, and pages that nobody changes are whole. |
| `statistics` | `CountsAreTrue`, `AnswerAgrees`, `CalendarsAgree` | Every statement of an answer, with rows that arrive between two of them, bookings that change their day or status and parts that are merged or skipped: the totals are those of the newest rows, a booking counts once, and the parts of an answer nothing disturbed add up. On each of the 146097 days after which the calendar repeats itself the three services mean the same week, and analytics the whole month. |

Bounds, and why they are enough to meet the interesting cases:

- `booking_races`: two bookings, two requests, two clients, one barber, one length and
  four starts, one of them on another day: overlaps with equal and different starts, a
  scan that waits for the other's row, a move to another day. `booking_progress`: two
  requests are the smallest deadlock. All safety properties of these are also proved for
  any constants.
- `booking_events`: one booking (properties relate events of one booking), three
  changes by two requests, one retry, two instants, so that stamps may be equal. Also proved for any constants.
- `client_consumer`: one partition with two messages of four (a repeated, a later, a plain
  and an undecodable one), two tries, one stop, one edit and three rows:
  one client's row is deleted and made again. `analytics_consumer`: three messages, two tries and two stops. `MaxStops`
  bounds only stops and rebalances, not failures of a try. The safety properties of both are also proved for any constants.
- `slots`: a day of six units, two of which are a quarter of an hour, so that the grid is of four; lengths 2 and 3 (a multiple of
  the quarter, and one that is not), hours that begin on the quarter and off it, three
  bookings: what lies between two neighbours is where the compact rules decide. `Moments`
  are two instants: the day before, and one within the day and off the grid. Also proved for any
  constants.
- `catalog`: two services, two barbers, two bookings, one request at a time and three
  changes: create, create, then change or delete. Of the five bodies two have one name, one is refused by
  the gateway and one by staff. Who books and who leafs through a list take turns: neither
  looks at what the other does. Pages are of one row, the smallest that has an edge. Also proved
  for any constants.
- `statistics`: the calendar is followed through all 146097 days of its period, in five
  stretches of 80 years, since TLC's traces may not be longer than 32767 states; rows
  arrive and requests are made on the last day of one year and the first of the next, where
  day, week, month and year all end or do not. Two rows in each table: a newer one of the
  same or another second, day and month, or another barber's. `CountsAreTrue` and `CalendarsAgree` are
  also proved, the latter of every date.
- `rate_limiter`: two addresses, two requests, three buckets, a bucket of one request and a
  half, idle for longer than it takes to fill. Also proved for any constants with that relation.
- `sessions`: two requests, three seconds, tokens that live two and a key that lives one:
  equal tokens, an expired key with a valid token, an expired token, and a logout or a
  refresh inside another one. Also proved for any constants.
- `migrations`: the real migrations of the four services; runs, stops and directions
  without bound. Also proved for any migrations that refer to earlier ones.
- `schedule_hours`: a day, two rows for it, two requests, three seconds, and requests
  begin while fewer than three events were sent: set, delete and set again, with
  overlap. Also proved for any constants.

`CHECK_DEADLOCK FALSE` is said only of the two consumer runs, which come to rest when the
messages are all sent and handled. Symmetry is used in safety runs only.

Fairness is assumed in three modules. `BookingProgress`: strong fairness of each
transaction's own step, since PostgreSQL grants row locks in the order of the queue
and the handler goroutine runs on; weak fairness of choosing a victim of a deadlock, which
`deadlock_timeout` gives. `ClientConsumer` and `AnalyticsConsumer`: weak fairness of the
goroutine's own steps, and of coming back after a stop (`restart: unless-stopped` in
`docker-compose.prod.yml`); nothing is assumed of messages being sent, of tries succeeding or of stops.

### Disagreements found

Seen in the code while modelling. None is worth a run of its own; where a property of a
run is as weak as the code allows, it is named.

- `repo.go:28` says that `CreateBookingTx` "atomically checks availability". Two transactions may
  overlap all the same, when each inserts what the other's scan did not find and the
  starts differ: `OverlapNeedsRace` says that it takes such a race and nothing else does it.
- `services.go:459` has slots "within the working window". Those of today begin three hours
  from now, whether the barber works by then or not (`services.go:383`, `:488`);
  `SlotsKeepHours` is stated with that exception.
- The barber's day (`GetSlots`) leaves out a booking during which no quarter of his hours begins, and one
  that lies across an earlier booking; `BarberSeesBookings` has both exceptions.
- `SetCompactSlots` answers without the clients' step (`services.go:351`), so that the
  settings page shows 0 for it until it is loaded again.
- `grpc.go:76`: `UpdateBooking` does not ask, as `CreateBooking` does (`:46`), that the new
  time is to come.
- A client's past bookings are ordered by start alone (`repo.go:271`); a booking that was
  cancelled and one made in its place may change places between two pages, and one of them be left
  out. So may services and barbers of one name. `PagesAreWhole` excepts both.
- `public.go:98` calls the service of the free slots optional; without one the booking service
  refuses (`services.go:271`).
- `openapi.yaml:399` says slots come every 15 minutes and `services.go:457` "in steps of
  window"; both grids step by 30 minutes (`services.go:409`, `:506`).
- Slots overlook completed bookings (`services.go:394`) which `CreateBookingTx` counts
  (`repo.go:55`); `OffersAreBookable` has them among the ones looked over.
- `booking.proto:88` and `openapi.yaml:398` speak of the nearest day that is free when no
  date is given; the code takes today (`grpc.go:146`). A past date is answered with slots.
- `staff/internal/repository/repository.go:352`: the statement of the week request ends in
  `RETURNING … ORDER BY`, which PostgreSQL refuses, while `openapi.yaml:857-858` promises
  an atomic update of up to seven days.
- `model.go:12` calls three statuses final; `UpdateBookingStatus` (`repo.go:183`) sets any
  status over any other.
- The gateway's `UpdateBooking` leaves out a start that was not given
  (`handler/staff.go:454`), which the booking service then refuses (`grpc.go:80`): the
  service of a booking cannot be changed alone.
- `Down` of booking takes back every migration and stops at the first that is not there, so it
  cannot be run again after a stop in its middle; of analytics and staff it takes
  back one.
- Two refresh tokens of one second are the same string, so the first exchange of that
  second returns the token it was given.
- The setting of the clients' step is written and never used (`services.go:291-296`).
- `consumer.go:152` of analytics says a message without tries left is committed and
  skipped; it is left uncommitted.
- `repo.go:55`: the scan's day is the UTC date of the start, so two bookings on either
  side of midnight are not compared. `OverlapNeedsRace` is stated for one day.

## 4. What is proved

TLAPS checks every leaf. The theorems hold for every value of the constants under
the assumptions the modules name.

| theorem | module | establishes |
|---|---|---|
| `TypeCorrect` | `BookingProofs` | Every reachable table, lock table and transaction record has its type, for any bookings, requests and lengths. |
| `LocksCorrect` | `BookingProofs` | The inductive invariant of the row locks holds in every reachable state. |
| `CheckNotStale` (`CheckStaysValid`) | `BookingProofs` | The overlap check of a transaction is still true of every row it has locked when it writes. |
| `TargetNotStale` (`TargetStaysLocked`) | `BookingProofs` | A reschedule still holds the booking it read, of the same barber, when it updates it. |
| `UniqueStarts` (`UniqueActiveStart`) | `BookingProofs` | No two active bookings of a barber start together, however requests interleave. |
| `RepoImplementsLedger` (`ImplementsLedger`) | `BookingProofs` | Every step of the interleaved transactions is one atomic change of one booking or leaves the table as it is. |
| `RacesUnderstood` | `BookingProofs` | The inductive invariant relating scans to the rows that entered after their snapshot holds. |
| `DoubleBookingNeedsRace` (`OverlapNeedsRace`) | `BookingProofs` | Overlapping active bookings of one day come only from a scan that a row entered after its snapshot or from a reactivation. |
| `TwoPendingNeedRace` (`SecondPendingNeedsRace`) | `BookingProofs` | A second pending booking of a client comes only from a check that raced another one or from a status set back. |
| `ScansComplete` (`ScanIsComplete`) | `BookingProofs` | A transaction about to write whose scan nothing entered since has locked every active booking of the day, and none overlaps. |
| `EventsCorrect` | `BookingServiceProofs` | The inductive invariant of the publication of events, over any number of handlers, bookings and retries. |
| `ChangesAreNotLost` (`NoSilentLoss`) | `BookingServiceProofs` | A committed change is told, still carried, or lost on one of the recorded paths, however the handlers interleave. |
| `StampsAreInOrder` (`StampsFollowChanges`) | `BookingServiceProofs` | The events of a booking are stamped in the order of its changes, unless a change in between was committed before an earlier one was stamped. |
| `RowIsTold` (`LastChangeIsTold`) | `BookingServiceProofs` | The event of the last change of a booking tells the row as it is, although it was read after the commit and other handlers go on. |
| `ClientTypeCorrect` | `ClientsProofs` | The variables keep their types for every topic, number of tries and number of stops. |
| `VisitsCountOnce` (`VisitsMatch`) | `ClientsProofs` | Each client's counter is the number of its processed bookings, whatever is delivered how often and in which order. |
| `LastVisitCorrect` (`LastVisitIsLatest`) | `ClientsProofs` | The last visit is the greatest stamp of the visits counted. |
| `NothingPassedOver` (`CommittedIsHandled`) | `ClientsProofs` | No offset is committed over a message that is neither handled nor given up. |
| `CardsStayTheirOwn` (`CardsAreTheirOwn`) | `ClientsProofs` | However events, edits and deletions interleave, the card a barber opens is the one he picked and shows the last name and notes given to that row. |
| `AnalyticsCorrect` | `AnalyticsProofs` | The inductive invariant of the analytics consumer: the place in hand, every place handed out and every committed one are accounted for. |
| `LastSecondIsRead` (`ReadsLastSecond`) | `AnalyticsProofs` | For any topic and any redeliveries, what is read of a key is one of its events of the last second inserted. |
| `CommitsFollowInserts` (`CommittedIsInserted`) | `AnalyticsProofs` | No offset is committed over a fact that was not inserted, unless it was poisoned, or the shutdown cut it short and garbage was committed behind it. |
| `SlotsCorrect` | `BookingServiceProofs` | The inductive invariant of the free slots: rows of a day apart from one another, what is asked and shown, and where compact slots may begin. |
| `SlotsAreFree` (`OffersAreBookable`) | `BookingServiceProofs` | For any hours, lengths, step and number of clients, a slot that was shown clashes only with what came later or was looked over. |
| `DaysStayCompact` (`NoGaps`) | `BookingServiceProofs` | As long as every booking is made from compact slots of the day as it was, the bookings follow one another without a gap, for any lengths of services. |
| `HoursAreKept` (`SlotsKeepHours`) | `BookingServiceProofs` | A client's slot ends before the barber's work does and begins after it, or today after the notice that is given. |
| `BookingsAreSeen` (`BarberSeesBookings`) | `BookingServiceProofs` | The barber sees every booking at its quarters, but for one that lies across an earlier one. |
| `HoursTypeCorrect` | `ScheduleHoursProofs` | The variables keep their types for any days, rows, requests and number of events. |
| `HoursInvariant` | `ScheduleHoursProofs` | The inductive invariant on row ids, stamps and what is read of each id. |
| `HoursAreCounted` (`DayHoursMatch`) | `ScheduleHoursProofs` | The statistics count the hours the barber has set once the events of a day have all been sent in order and inserted. |
| `DeletionsStand` (`DeletedStaysDeleted`) | `ScheduleHoursProofs` | A deleted day is never counted again unless its changes were stamped together. |
| `TypeCorrect` | `SessionsProofs` | The variables keep their types, and every token that is known, kept or carried was made. |
| `SessionsCorrect` | `SessionsProofs` | The inductive invariant: who carries which token, what is spent and what a logout cut. |
| `ExchangedOnce` (`SpentIsRefused`) | `SessionsProofs` | For any number of requests and any lengths of a session, a token that was exchanged passes the check again only if it was made twice in one second. |
| `LogoutsStand` (`LogoutStands`) | `SessionsProofs` | A logout ends the session until a login, unless it overtook a request that had passed its check. |
| `ClientsGoOn` (`NotLockedOut`) | `SessionsProofs` | The token answered last is the one kept, unless requests crossed or an answer was lost. |
| `MigratorCorrect` | `MigratorProofs` | The inductive invariant on what a migrator has left to do, the schema and its records, for any services and migrations. |
| `RecordsAreTrue` (`RecordsMatch`) | `MigratorProofs` | schema_migrations tells the schema but for versions torn by a stop, and always where the two change in a transaction. |
| `VersionsAreAPrefix` (`NoHoles`) | `MigratorProofs` | No version is in the schema without those before it, unless one was torn. |
| `UpGoesThrough` (`UpIsRefusedTornOnly`) | `MigratorProofs` | An Up that is run again is refused only by a version that was torn or builds on one. |
| `UpIsComplete` (`UpMeansComplete`) | `MigratorProofs` | An Up that ends without an error leaves every version there, unless a Down was torn. |
| `MeterInvariant` | `RateLimiterProofs` | The inductive invariant: buckets are of one address, and what was drawn and what is left never exceed a full bucket and its refill. |
| `RateIsBounded` (`RateBound`) | `RateLimiterProofs` | For any burst, rate and idle time with a bucket full when it is deleted, an address gets no more through its bucket in any span of time than burst and refill. |
| `LimiterIsMeter` (`ImplementsMeter`) | `RateLimiterProofs` | The table of buckets with its cleanup implements the meter that never forgets. |
| `OffersCorrect` | `BookingServiceProofs` | The inductive invariant of what staff offers: what a request has seen was stored while it ran, and what a booking says is what its request saw. |
| `BookingsWereOffered` (`BookedAsOffered`) | `BookingServiceProofs` | For any barbers, services and requests, and whatever staff stores meanwhile, a booking says what was on offer while it was made. |
| `BookingsWereShown` (`BookedAsShown`) | `BookingServiceProofs` | A booking is of what the client was shown, unless staff changed it in between. |
| `PagesWhole` (`PagesAreWhole`) | `BookingServiceProofs` | For any tables, limits and ranks: whoever leafs through a list of services, barbers or past bookings that nobody changes, and whose order leaves nothing open, has each row once, and all there are. |
| `WeeksAlwaysAgree` | `AnalyticsProofs` | For every date, before or after any year, the week that booking names is turned by staff into the seven days that analytics calls this week, beginning on a Monday and holding the date. |
| `MonthAlwaysHolds` | `AnalyticsProofs` | For every date the month of analytics begins and ends where the name of the month changes, and holds the date. |
| `StatisticsCorrect` | `AnalyticsProofs` | The inductive invariant of the statistics: of each booking one stored row is the newest, whatever was inserted and merged, and an answer past its first statement holds its totals, and while nothing disturbs it each of its parts is what the same rows give. |
| `CountsTrue` (`CountsAreTrue`) | `AnalyticsProofs` | For any events, barbers, periods and number of rows, the totals are those of the newest rows of the period and of old rows of bookings moved out of it, at most one of each. |
| `AnswersAgree` (`AnswerAgrees`) | `AnalyticsProofs` | For any number of rows, services and days: where no row arrived between the statements and no booking had left the period, the days and the services add up to the totals, a page of them to no more, and the hours add up too. Rests on a theory of sums over finite sets, proved by descent. |
| `CalendarsAlwaysAgree` (`CalendarsAgree`) | `AnalyticsProofs` | On every day the calendar reaches, from any first day, the three services mean the same week, and analytics the whole month. |

**Bookings.** `TypeOK` is inductive. `TxInv` is `TypeOK`'s companion: a lock belongs
to a running transaction and an existing row, transactions go through their own
stages, a new id is private, the target stays locked, and of the locked rows that
conflict each is still to be looked at or noted. The last is why `CheckStaysValid`
needs more than itself: when the write begins there is nothing left to look at and
nothing noted, hence no conflict. The refinement takes from `TxInv` that the id is
free (`NewIdIsPrivate`), that the target exists, and that the length is positive; then each of
`Insert`, `Move`, `UpdateBookingStatus` and `DeleteBooking` is a step of the ledger and all
others stutter. `UniqueStarts` is the ledger's own invariant. In
`BookingRaces` the invariant adds `DayKnown`: as long as no row entered the day, each
active booking of it is locked or still to be visited; with `TxInv` an unraced write
overlaps nothing, and what overlaps later was late.

**Client service.** The counter equals the number of processed bookings because the
row of `client_processed_events` and the counter change in one step; the set is
finite, which is what the cardinality steps need. `CommittedIsHandled` needs that what
lies before the reader but the message in hand is handled, and that offsets never pass the
reader. All of it is proved of the consumer first and holds in `Clients` because the barber's requests
only delete rows. `CardInv`: an id is of one row and was issued, rows and cards are there
together, and each card says what its id was told last.

**Rate limiter.** `MeterInv`: a bucket is of one address and was seen before now, and what
is left in it with what was drawn since the mark is at most a full bucket and the refill
since. The last bears the deletion of a bucket because an idle one is full, which the assumption
`Burst <= IdleTime * Rate` gives (in the code 30 tokens, 10 a second, ten minutes). The refinement maps a
meter to the tokens the bucket in the table would have now, or a full one; `Allow` of a bucket
that is no longer in the table is an answer astray.

**Events.** `CarriedInv`: a change that a request carries was made. `StampedInv`: an event tells a
change that was made, with a stamp that has been. `RaceInv`: the first change that was made
while another was not stamped yet has raced it, which is what `StampsFollowChanges` needs when
the later one is stamped first. `RowInv`: what the request of the last change of a booking is
about to tell is the row as it is, although it was read after the commit; `LastChangeIsTold`
follows when it is stamped.

**Free slots.** `RowsInv`: a booking has some length. `AskedInv`: what each stage of an answer
knows, and that today's slots begin after the notice. `CompactInv`: a compact slot adjoins a
booking or the border of the hours as long as the bookings are those it was made from. A booking made
from such a slot leaves no gap. The rest is linear arithmetic on the borders of the slots, and on the rounding to quarters.

**Catalog.** `StoredInv`: a service that is stored takes some time, so that slots are as long as it.
`RequestsInv` says of each request in progress: at `posted`, `during` has the row that is stored; at
`priced`, its terms are of an active row of its barber in `during`; as long as the service was not
touched, it is as it was shown and the slots are as long. `BookedAsOffered` and `BookedAsShown` take
from it what `SaveBooking` writes. For pages, `OrderIsUnique`: where no two rows rank the same a
list comes out one way, since the place of a row is the number of rows that do not come after it.
`PagesInv` then says that what a reader has is the beginning of the list, and `PageExtendsCut`
that the next page makes it a longer one.

**Analytics consumer.** `PositionInv`: every place the reader has passed is inserted or given up,
or in hand, or was cut short by a shutdown: by the one that is under way, or with an undecodable
message behind it, which is committed without being inserted. `HeldInv` says the same of what lies before the
message in hand. `InsertedInv`: only facts of the topic are inserted, which `ReadsLastSecond` needs
of the row of the greatest version.

**Statistics.** `StoredInv`: rows are numbered as they arrive, and every booking has a newest row, which
no merge takes, since a merge takes a row that is older than one of the same partition. From it, what a
statement finds of the period is the newest row of each booking or an old row of one that was moved
(`CountsAreTrue`). `AnswerInv` keeps the fields of an answer through the later statements. `QuietInv`:
as long as no row has arrived, the rows the first statement found are still found by each, whatever
was merged or skipped, and every part of the answer is what those rows give. The hours are read twice;
that both find the same rests on an assumption, that rows of one working day have one date, which is
`IdsInv` of `ScheduleHours`. `AnswerAgrees` is then arithmetic: the completed bookings fall into parts
by day and by service, sums of parts add up (`SumOfParts`), and the days of a page, or the services on
top, are some of them and none twice (`SumRenamed`). The prices are whole numbers of any sign.

**Sums.** The sum over a set is a recursive function on its subsets, whose library definition is a
`CHOOSE`: that there is such a function is proved, by the size of the sets. The library's
induction needs an operator as a parameter; its theorem on least elements needs only a set, so each
lemma supposes a set of the least size that breaks it and finds a smaller one (`NoDescent`).

**Dates.** `WeeksAlwaysAgree`: for every date, staff's Monday of the week that booking
names is analytics' Monday of the day; it takes of the calendar only that a year has an integral
number and January 4 lies in week 1. `MonthAlwaysHolds`: an era of 400 years has 146097 days, and within
one the year of a day is found by counting the leap days that `Civil` leaves out; then the days of
the year by months of 30.6 days. `CalendarsAlwaysAgree` is both, on each day of `Statistics`.

**Sessions.** `TokensInv`: a request carries a token the barber had or a new one of its
own, and every token that is kept or known was made. `OnceInv`: a token that was made once
is carried by one request until it is answered, and leaves the session for good when it is
exchanged, which is what `SpentIsRefused` needs at `Check`. `AwayInv`: after a logout that
nothing revived, only the requests it cut may still write. `OwnerInv`: while nothing
crossed, one request is between writing and answering, and it carries what is kept.

**Migrators.** `RecordInv`: a record is written for the version whose statement was the
last. `UpInv`: an `Up` leaves behind only what is recorded. `DownInv`: above what a `Down` has left to do
nothing is both there and recorded. With `RecordsMatch` these give `NoHoles` at
each statement, and `UpMeansComplete` and `UpIsRefusedTornOnly` follow from them.

**Working hours.** `HoursInv` has four parts. `IdsInv`: an id was generated for one day.
`StampsInv`: unless changes of a row were mixed, at most one of them is unstamped
and it says what the table says, stamps only grow, and a deletion is the last of
all. `LastInv`: of a row that lost no event, the event stamped last says what the table
says. `FinalInv`: the statistics read an inserted event of the greatest stamp. `DayHoursMatch` is
the last two together; `DeletedStaysDeleted` follows from the part on deletions.

Only model-checked: liveness (`EveryTxEnds`, `VisitsAreCounted`, `EventsArrive`), which is out of
the prover's reach. Every invariant and action property of the runs is proved.

## 5. What is not modelled

- Conversions and formats of HTTP and gRPC, and the mapping of errors to codes: handlers
  are modelled by which requests they pass on.
- The `Auth` middleware and access tokens: the caller of a request is any barber, and the
  checks of ownership are in the services.
- Passwords of barbers and their hashes; `Sessions` begins with a login that was let in.
- The clients' step of the settings, which nothing but the settings page reads, and the reading of the settings.
- `GetBooking` and `GetClientByPhone`, which read one row and answer it.
- Start-up of the processes, configuration, connections, logging, metrics, the body limit,
  generated code and deployment.
- Rounding of floating-point numbers: tokens, averages and hours are exact here.
- Back-off times, gRPC timeouts, and whether an unacknowledged write reaches the broker.
- A booking that crosses midnight (`repo.go:55`): whatever is stated of one day is stated
  of bookings within it.

## 6. Plan

Done, in this order: the bookings table with its ledger, races and progress;
the events of bookings; the two consumers; free slots; schedules and working hours;
sessions; migrators; the rate limiter; client cards; the calendar and the statistics;
services, lists and past bookings; proofs of every safety property of the runs.

Next:

1. A composition of `BookingEvents` with the table of `AnalyticsConsumer` in the way of
   `ScheduleHours`: the statistics show the last state of a booking unless a change was
   dropped or raced. It would take the run of `booking_events` over.

A later property joins the run whose state space it is about, and a composition takes the
place of the run of its part.
