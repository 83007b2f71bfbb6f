# PinePods in TLA+

TLA+ models of the parts of PinePods whose outcome depends on the order of
steps: SQL statements of concurrent requests, records in Valkey that several
tasks write, HTTP fetches that fail or answer 304, channels behind websockets,
two installations that keep subscriptions and positions equal, a player that
asks the server what is next, and containers that bring the database up to date.
TLC checks them on small instances; TLAPS proves the main invariants for every
value of the constants.

Paths are relative to `src/`; `database.rs`, `refresh.rs` and so on are under
`src/rust-api/src/`. A number alone is a line of `database.rs`.

## Running

    tlc -workers 2 -config queue_serial.cfg MCEpisodeQueue.tla
    tlapm EpisodeQueue_proofs.tla

`PROJECT.json` lists every run with its module and configuration, every mutant
(a plausible bug in one definition that the run's property must catch), the
source lines each definition stands for, the hazards and the theorems. The
definitions commented `Mutant` in the modules are those mutants; nothing else
uses them.

---

## 1. Inventory

PinePods is a self-hosted podcast service. One Rust server (axum, tokio, sqlx),
or several replicas of it, keeps everything in PostgreSQL or MySQL and
short-lived state in Valkey; a Go server beside it speaks the gpodder protocol;
Python scripts bring the database up to date when a container starts; the web
application (Yew) and the mobile application (Flutter) are its clients.

### Components modelled

**Play queue** (`database.rs` 2040-2800, 26600-26720, the queue statement of
the removals around 1293).
*State*: rows of `EpisodeQueue`: item (numeric id and `is_youtube`) and
position. *Operations*: queue (top, bottom, under the playing item), bulk queue,
move to top, remove, clear, reorder, purge when a podcast goes. *Interactions*:
called by request handlers and by the refresh (auto-queue); the finish of an
episode removes it. *Hard*: positions are integers that every operation shifts;
some handlers open a transaction, others commit statement by statement; the
check for "already queued" runs before the transaction; row locks. *Correct
when*: no shift is lost, rows do not swap unasked, positions stay 1..n, and the
table is the listener's play order.

**Feed refresh** (`refresh.rs`, `database.rs` 7100-7800, 26174).
*State*: per podcast row the stored validator (ETag, Last-Modified), failure
backoff, cutoff; rows of `Episodes`; what was handed to auto-download and
auto-queue. *Operations*: scheduled refresh of all rows that share a feed URL,
a user's refresh of one row, the first fetch of a new subscription.
*Interactions*: publishers over HTTP; the queue and the downloads. *Hard*: jobs
overlap without a lock; which entries are new is decided once before a long
loop; a 304 stands for work done earlier, perhaps for another row; any
statement may fail. *Correct when*: a validator never claims episodes its row
lacks, success means served, an entry that stays in the feed arrives.

**Refresh websocket** (`refresh.rs` 40-60, 590-700; its reader in
`web/src/requests/pod_req.rs` 4380-4430).
*State*: `USER_LOCKS`, `ACTIVE_WEBSOCKETS`, a bounded channel and three tasks
per connection. *Hard*: look-up and insertion of the lock are two critical
sections; the first task to end triggers the clean-up while the others go on;
nobody stops a detached job. *Correct when*: one job per user, jobs end, the
lock is freed, a waiting browser gets the outcome and is let go.

**Task manager and progress websocket** (`services/task_manager.rs`,
`services/tasks.rs`, `handlers/websocket.rs`, `web/src/requests/task_reqs.rs`).
*State*: a key with a time to live per task, an index per user, a broadcast
channel per replica and a Valkey channel between replicas, what a browser shows.
*Operations*: create, report progress, complete, fail, list, connect. *Hard*: a
record is read, changed and written back without a lock, by a runner and by a
ticker; a listing prunes the index by what it saw; the first message races the
updates; updates are dropped in several places. *Correct when*: an ended task
stays ended, a live one is listed, a browser shows and learns what is stored.

**Notifications** (`services/task_manager.rs` 600-780, `handlers/notifications.rs`).
*State*: key and index as for tasks. *Hard*: five operations of single commands
meet in any order, and marking one as read writes back a copy. *Correct when*: a
notification is there until it is dismissed, and is gone after that.

**Now-playing sessions** (`handlers/nowplaying.rs`, `redis_client.rs`).
*State*: registry of sockets by device, snapshots with a time to live, an index.
*Hard*: the end of an old connection removes by name what the new one put there;
pruning races reports. *Correct when*: a device that stays and reports is listed.

**Listening history, completion and its announcement** (`handlers/podcasts.rs`,
`database.rs` 3060, 12746, 18604, 19412; `services/playback_notifications.rs`).
*State*: position, completion, a SET NX key. *Hard*: reports, marks, bulk marks,
syncs, the nightly job and the web player's start overlap, statement by
statement. *Correct when*: no reported position is lost; the end is announced
after playback only.

**Scheduled backups** (`services/scheduler.rs` 60-304).
*State*: schedules with `last_run`, files shared by all. *Hard*: one dump for
all that are due, retention over shared files, polls that overlap, failures and
restarts. *Correct when*: what was due has been dumped.

**gPodder sync, subscriptions** (`database.rs` 15755-16265, 16485-16733, 27779;
`gpodder-api/internal/api/subscriptions.go`; Nextcloud: 17292, 27986).
*State*: PinePods' podcasts, the snapshot of the last sync, its time; the
server's subscriptions and change log. *Operations*: incremental and full sync,
uploads of phones, edits on both sides. *Hard*: the time since which changes are
asked for, echoes, a snapshot that must agree with what was uploaded, answers
per device, stops at any point. *Correct when*: a difference between the sides
is always one that the next sync sees, and both converge.

**gPodder sync, episode actions** (`database.rs` 16780-17290;
`gpodder-api/internal/api/episode.go`).
*State*: the history, the time of the last sync, the server's log. *Hard*: pages
that end within a second, times given by clients, merging into one position.
*Correct when*: after a sync neither side hides a position from the other.

**Subscriptions** (`database.rs` 700-1425, 1781-2040).
*State*: podcast rows, `displaypodcast`, lists of merged podcasts, a counter.
*Operations*: add, remove by name or id, merge, unmerge. *Hard*: a check for
circles outside the transaction; statements that fail; requests from old pages.
*Correct when*: no podcast the user keeps is hidden for good, the counter is right.

**Server downloads** (`services/tasks.rs` 277-619, `database.rs` 2950-3060,
21330-21420).
*State*: file, row, counter. *Hard*: three steps, in different orders in
different places; two downloads share a path. *Correct when*: an episode shown
as downloaded can be played, the counter is right.

**Playlists being played** (`database.rs` 11970-12160, 30400-30720;
`web/src/components/audio.rs` 853-1010).
*State*: the rules, what is listened to, the player. *Hard*: the server has no
cursor and queries afresh, while the mark of the ended episode, reports and new
episodes change the answer. *Correct when*: nothing listed is left out, nothing
is played twice.

**Database migrations** (`database_functions/migrations.py`,
`migration_definitions.py`, `startup/startup.sh`).
*State*: the schema, the record of what was applied. *Hard*: each migration is
committed and only then recorded; MySQL commits every DDL statement; what was
there before the record is guessed from tables; containers are killed, and meet.
*Correct when*: what is recorded is there, and a later start completes.

### Components left out

| Component | Why |
|---|---|
| Scheduler | cron entries that call the other components; each is in the module it calls |
| Collections, shared episodes, settings | one or two statements on one user's rows |
| People and hosts | rows found by searching an external directory, then inserts as in a refresh without validators |
| Sign-in, API keys, password reset | judged by what it must refuse, which is not the subject here |
| Local podcasts, YouTube channels | a sequential scan, an external downloader, single inserts |
| RSS export, recommendations, search proxy | read and compute, or call others |
| Transcripts and ad detection | calls of a sidecar; their task side is in `TaskBoard` |
| Mobile application | a client with its own database and player |
| Pages of the web application | drawing and forms; what decides an outcome is in `RefreshSocket`, `TaskBoard`, `Playlists` |
| Deployment, tests, docs, assets | nothing that runs, or configuration |

---

## 2. Modules

| Module | Role |
|---|---|
| `PlayOrder` | abstract: a set of items with a strict total order, changed by indivisible steps |
| `EpisodeQueue` | the queue table and its handlers, statement by statement |
| `FeedRefresh` | one feed, its rows and the jobs that refresh them |
| `RefreshSocket` | one user's connections, lock, tasks and channels |
| `TaskLife` | abstract: the life of a task, seen from outside |
| `TaskBoard` | tasks in Valkey, their writers, listings and a browser on this or another replica |
| `Notices` | the notifications of one user |
| `NowPlaying` | one device, its sockets, snapshot and index |
| `Listening` | one user and one episode: position, completion, announcement |
| `Backups` | schedules, polls and files |
| `Migrations` | containers that set up one database |
| `SubscriptionSync` | PinePods, a gpodder or Nextcloud server, phones: subscriptions |
| `ActionSync` | the same for the position in an episode |
| `Library` | podcasts of one user: rows, merges, counter |
| `Downloads` | the server's copy of an episode |
| `Playlists` | a player that goes through a smart playlist |
| `MCEpisodeQueue`, `MCFeedRefresh` | sets of requests and symmetry for TLC |
| `MCServer` | what the server does by itself: `TaskBoard`, `Notices`, `NowPlaying`, `Listening`, `Backups`, `Migrations` |
| `MCLibrary` | what one user has: `SubscriptionSync`, `ActionSync`, `Library`, `Downloads`, `Playlists` |
| `EpisodeQueue_proofs`, `FeedRefresh_proofs`, `RefreshSocket_proofs`, `TaskBoard_proofs`, `Migrations_proofs` | theorems about the module of that name |
| `Sync_proofs` | theorems about `SubscriptionSync` and `ActionSync` |
| `Library_proofs` | theorems about `Library`, `Downloads`, `Playlists`, and about `MCLibrary` as a whole |
| `Server_proofs` | theorems about `Notices`, `Listening`, `NowPlaying`, `Backups`, and about `MCServer` as a whole |

The parts that `MCServer` and `MCLibrary` bring together share no key, row or
file, so a step of one neither enables nor disables a step of another. Each
behaviour moves one part (`moves`) and leaves the others in their first state;
the product of the parts is not explored.

Faults. Most modules have a variable, constant in a behaviour, that names what
else may happen in it (`faults`, `glitches`, `flaws`, ...). The properties are
stated for the behaviours in which they hold, and every configuration also runs
behaviours with faults, so that the actions are exercised and the properties
that survive are checked there. The tables below say what each fault breaks:
TLC finds the counterexample when the condition is taken out of the property.

### EpisodeQueue

`queue` is the committed table. A handler `w` is at statement `pc[w]`; its
locals are `req`, `todo` (the rest of a list) and `at` (`insert_pos`,
`removed_position` or `new_position`). `over[w]` holds the rows its open
transaction has written.

PostgreSQL runs at READ COMMITTED, its default. A write is two steps: `Scan`
finds the rows that satisfy the WHERE clause when the statement starts
(`seen[w]`); an `Apply...` action waits until no other transaction holds one of
them, checks the clause again on the newest version of each, and writes. Rows
that appear in between are missed, as in PostgreSQL. A handler without
transaction (`remove_queued_episode`, `clear_queue`, the purge) changes `queue`
at once. `Fail` ends a handler between any two statements: an open transaction
rolls back, the rest stays. `DeadlockAbort` is PostgreSQL's deadlock detector.

Abstracted: a statement takes its row locks at once rather than row by row, so
deadlocks within a pair of single statements are not seen, those across the
statements of transactions are. The MySQL backend (REPEATABLE READ with gap
locks) is not modelled. A failed INSERT inside a bulk add ends the request, as
PostgreSQL does at the next statement of an aborted transaction; the counts of
the reply are left out.

### PlayOrder

What the comment on `QueuePlacement` promises, a "now playing + up next" list.
`EpisodeQueue!Order` maps rows to items (`ItemsIn`) and positions to "plays
before" (`AheadIn`). That no item is queued twice and that "play next" lands
under its anchor are part of it. One operation, `Add(S, P)`, stands for queuing
one item and for a bulk add: the new items land together, behind a prefix `P`.

### FeedRefresh

`feed` is the sequence of versions the publisher has served; a validator is the
number of the version it was issued for (ETag and Last-Modified are one, 0 is
NULL). `job[j]` is a record: what kind it is, the rows it serves (`ids`,
`todo`, `at`), the validator sent, the version that answered, the entries still
to insert (`left`) and inserted (`new`). `Apply` decides which entries are new;
`Insert` adds one; `Applied` ends a row; `Store`, `Record` and `Hand` are what
follows. `Fails` lets any statement fail (`Skip`, `ApplyFails`, the failing
disjuncts of `Store`, `Record`, `RecordFailure`) and the server restart
(`Crash`); `Unreliable` lets fetches fail and bodies not parse. `lost` is no state of
the program: it records, for the properties, which entries of a row failed or had
their batch aborted when they were last tried.

An entry stands for what the three-way match of GUID, URL and title takes for
one episode. Feeds do not interact, so there is one. Left out: rows with
`refreshpodcast = false` (never selected), unsubscribing during a refresh, a
change of cutoff or URL, YouTube channels.

### RefreshSocket

`pc[c]` is the handler of a connection: `check` and `passed` are the two
critical sections on `USER_LOCKS`, `Start` spawns, `Unlock` and `Unregister`
clean up after `select!`. `job`, `sender` and `client` are the three tasks (the
listening task lives as long as the client's connection); `chan` is the bounded
channel. `Overlap` and `Leaves` say whether two connections may be between check
and lock at once and whether a browser may go away of itself. Other users do not
interact with the entry, so there is one.

`told` is the outcome that has reached the browser. A completion makes it hang up;
an error it only logs (`pod_req.rs` 4453-4455) and reads on, so that `told` says
nothing about its being let go: that is `ClientReleased`, which is violated.

### TaskLife and TaskBoard

A record is written by four commands (`Commands`): `get`, `set` with a time to
live, `index`, `emit`. `op[t][w]` is how far the runner's or the ticker's write
is, with the status it carries; a command of one may come between any two of the
other. `job` is the runner; `AbortTicker` is what becomes of its ticker before
the last write (`Finish`). The browser's connection subscribes, lists the index,
reads the records (`todo`, `seen`) and then gets what waited in `chan`; `near`
says whether it is connected to the replica that runs the tasks. `Read` also
prunes the index of a key that is gone; as a task is created once and a key
lives longer than any write takes, nothing can come between the two. `Expire`
is the time to live of a record that is not being written.

`TaskLife` is what an observer of a record may see: none, pending, running, one
terminal status, gone. `ImplementsTaskLife` maps the key and the runner to it.

| Fault | What happens | Breaks |
|---|---|---|
| `restart` | the runner's server is restarted; its record stays as it is until it expires (`tasks.rs:175`) | nothing stated; such tasks are left out of `Shows` |
| `preempt` | an aborted ticker is in the middle of a poll and finishes its write | `ImplementsTaskLife`: a completed task runs again |
| `valkey` | a command fails | `Shows`, `ClientLearns` |
| `bridge`, `burst` | the other replica misses an update; the forwarding task falls behind and ends | `Shows`, `ClientLearns` |

### Notices

`push`, `mark`, `dismiss`, `clear` and `listing` are how far each operation is
with each notification; an operation that goes through the index remembers
nothing from one notification to the next, so it has a place per notification.
`lapsed` and `answered` say which are past their time and which were dismissed.
Nothing keeps the operations apart: `Mark` may be between reading a record and
saving its copy while `Dismiss` or `Clear` removes it, as at `task_manager.rs:690`.
So `TillDismissed` says of a notification that was answered only that it never
counts as unread again: one that is dismissed while it is marked is listed again, as
read, for its whole time to live (a hazard `PROJECT.json` records at that line).

### NowPlaying

`entry` is the registry's socket, `socket` the handler of each connection,
`reader` those whose reading task lives, `report` the two commands of a report,
`look` the two of a listing. The end of an old connection removes entry,
snapshot and index by name. Snapshot and index recover with the next report
(`StaysListed`); the registry's entry does not, so that commands to a device
that reconnected are answered with "device offline" (`nowplaying.rs:94`).

### Listening

`call[c]` is a request between its statements: a report, a mark, a bulk mark, a
mark by a sync, the nightly completion, an unmark (the only transaction) or the
web player's start. `told` is the key that silences a second announcement.
Ghosts `best` and `ended` remember what was reported.

| Fault | What happens | Breaks |
|---|---|---|
| `overlap` | two reports read the position before either writes (12765) | `Resumes` |
| `web` | the web player's start stores position 0 (6551) | `Resumes` |
| `again` | what was marked within ten minutes is marked again | `FinishHeard`: announced though nobody listened |

### Backups

`row` is the table, `poll[p]` a poll that makes a baseline, dumps, notes and
prunes; `files` is the directory ordered by modification time, with files still
being written (`Written(p)`; writing makes a file the latest, `Touch`). Retention
takes the largest count of the schedules that are due
and looks at all files. `flawed` bounds the failures.

`slow` lets polls overlap: one that ends removes the file another is writing,
whose time is then noted as run, and `BackedUp` fails. `fail` and `restart`
break nothing.

### Migrations

Four migrations stand for all: 001, 004 (first users), 008 (gPodder client) and
100 (gPodder server); each brings `Parts`. `at[s]` is where a setup is, `work[s]`
what its transaction holds. On MySQL a statement of 001, 008 or 100 commits at
once (`Transactional`). `LooksApplied` and `DetectGpodder` are the two guesses of
what was there before anything was recorded.

| Fault | What happens | Breaks `Migrated` because |
|---|---|---|
| `users` | a container is killed, or fails, in 004 after its first INSERT | the id 1 is not given again, references to it fail, every later setup stops there, and the container goes on (`startup.sh:168`) |
| `sql` | a statement fails; some errors are hidden by `safe_execute_sql` | PostgreSQL has rolled back what came before, and the version is recorded |
| `rivals` | several setups at once | 100 is recorded though it never ran, since a table of 008 counts as its sign; the loser of a race for a table fails |

### SubscriptionSync

`local`, `snap`, `last` are PinePods' podcasts, snapshot and `LastSyncTime`;
`subs` and `log` the server's tables; `open` uploads of phones that have their
time stamp but have not committed. `sync` is the sync PinePods is in: `pull`
asks device by device and applies, `send`, `save` and `close` are upload,
snapshot and time. Time is in whole seconds, as on the server. `Stop` ends a
sync between any two steps. `kind` is "external" (a gpodder server elsewhere) or
"nextcloud", which is asked once and in nobody's name; the gpodder server beside
PinePods works on PinePods' own `Podcasts` table and has no sync.

| Fault | What the code does | Breaks |
|---|---|---|
| `meanwhile` | the time of the sync is taken at its end (16051-16052), after the answers were read; a change a phone makes in between is older than what the next sync asks for | `Reconciled` |
| `slow` | the server stamps an upload before it fetches the feeds it adds and commits later (`subscriptions.go` 992-1235); a sync in between does not see it | `Reconciled` |
| `again` | additions of all devices are applied before all removals, whatever their order in time | `Reconciled` |
| `edit` | a podcast the answer added and the user removes before the comparison is in neither list, so its removal is not uploaded | `Reconciled` |
| `full` | a full sync saves the snapshot and clears the time; the next sync asks from the beginning, which tells no removals, so one a phone made in between is lost | `Reconciled` |
| `first` | a first sync that stops after saving the snapshot and before its time leaves a snapshot and no time, with the same effect as a full sync | `Reconciled` |
| `upload` | a refused upload returns `Ok`, and the snapshot contains the change | `Reconciled`, `Repairable` (run `sync_upload`) |
| `add` | a feed that cannot be fetched is skipped, time moves on | `Reconciled` |
| `device` | an error for one device is skipped, time moves on | `Reconciled` |
| `Own` a phone | linking takes the first device the server lists (15231); the server leaves a device's own changes out of what it tells it | `Reconciled` |

### ActionSync

`heard` is the position and its time, `plays` the server's log, `pull` the sync
with the page it is at. Each of the six faults breaks `Exchanged`: `ties` (a
page ends within a second), `late` (a phone uploads an action of an earlier
time), `meanwhile` (an upload during the sync), `fetch` (a page cannot be had),
`unknown` (the episode is not in the tables yet, 16822), `upload` (the server
refuses).

### Library

`job[w]` is a request between its statements. Without faults requests to add
overlap, the others come one after the other from pages that are up to date.
Any shown podcast may be removed, one that others are merged into as well: its list
goes with its row, and the podcasts in it stay hidden for good, since nothing
offers to unmerge them and a request to add their feed finds the row. No comment
or doc promises otherwise, so this is no run that expects a violation:
`HiddenByRemoval` says that it is the only way for a podcast to get out of reach.
`overlap` and `stale` break `HiddenByRemoval` and `Counted`; `fail` breaks `Counted`.

### Downloads

`run[r]` is a download or deletion between its steps; `content` has the pieces a
file holds, so that a second download truncates the first. `twice`, `whole` and
`stop` each break `Served`.

### Playlists

An episode is in one of three `Classes`; `rules` says which a playlist takes.
`phase` and `sending` are the player's two requests, the mark and the question
what is next. The property is stated for rules that take all played episodes or
none. `gap` (some classes of played episodes), `fail`, `crowd` (a limit) and
`long` (more than the 500 episodes that are searched) each break `PlaysThrough`.

---

## 3. Runs

| Run | Instance | Shows |
|---|---|---|
| `queue_serial` | 1 handler, 3 items of which an episode and a video share the id 1, all requests with one item and with several at every placement, reorders list what is queued | `ImplementsPlayOrder`, `Contiguous` |
| `queue_concurrent` | 2 handlers, 9 requests chosen to meet on the same rows, stale and id-only reorders, failures | `TypeOK`, `PositionsPositive`, `NoLostShift`, `KeepsOrder` |
| `queue_finishes` | 2 handlers that lock rows in opposite orders, fair | `Finishes` |
| `feed_subscribers` | 2 rows, 2 jobs, 3 versions, failing statements and restarts | `ValidatorsHonest`, `RowsPerJob` |
| `feed_delivers` | 1 row with a cutoff, 2 jobs of any kind, unreliable fetches, fair | `TypeOK`, `ServesGroup`, `Delivered`, `HandedOver` |
| `feed_shared` | 2 rows, 1 job, nothing fails | `ServesGroup` is violated |
| `socket_ends` | 2 connections that overlap and leave, a channel of one message, fair | `TypeOK`, `EntryServed`, `JobEnds`, `LockFreed`, `OutcomeDelivered`, `OnlyLeftBehind` |
| `socket_leaves` | 2 connections one after the other | `OneJob` is violated |
| `socket_fails` | 1 connection whose browser stays, fair | `ClientReleased` is violated |
| `server` | the parts of `MCServer` | `TypeInvariant`, `Listed`, `Shows`, `TillDismissed`, `Resumes`, `Migrated`, `ClientLearns`, `ImplementsTaskLife`, `StaysListed`, `FinishHeard`, `BackedUp` |
| `library` | the parts of `MCLibrary` | `TypeInvariant`, `Reconciled`, `UploadsNews`, `Exchanged`, `Counted`, `Served`, `PlaysThrough`, `Converges`, `HiddenByRemoval` |
| `sync_upload` | 1 feed, refused uploads | `Repairable` is violated |

### Bounds

- Queue: `MaxPos` stops requests that move rows to higher positions once a row
  is there; positions may pass it by what running requests add. Three rows
  suffice for an item above, at and below the one an operation names. Two
  handlers suffice for every pair of statements to meet; `RowIds` has room for
  rows inserted while others are deleted, as ids of rows that are gone are used
  again once nothing refers to them.
- Feed: two rows make a group in which one was served and the other not; two
  versions make a validator stale and three let it be overwritten by an older
  one. One entry suffices: the properties compare rows and versions entry by
  entry, and an insertion that fails does so at the one there is.
- Socket: two connections, the second meeting the first at every point. A
  channel of one message is full at once; three messages overfill it.
- Tasks: tasks share nothing but the order of updates in the channel, so one
  with its two writers is enough; `Cap` 3 holds the updates of one task and is
  passed by the fault `burst`. One notification, as an operation treats one
  after the other. Two sockets are the old and the new connection of a device.
- Listening: two requests, a position that is near the end (2), one that
  completes (3) and one that is neither.
- Backups: two schedules with one or two times, polls that overlap (2),
  `MaxMinute` 3, retention of one file or all, two changes of a schedule, one
  failure (`MaxFlaws`).
- Migrations: two containers. Migrations with one and with two statements, with
  and without a requirement; the database starts empty or at any of the four.
- Sync: `MaxTime` 3 seconds, so that a change falls before, in and after
  the second of a sync; `MaxEvents` counts edits, uploads and stops, and
  `MaxFaulty` bounds them where a fault may happen. The last second stands for
  all later ones, and only syncs happen in it, so that convergence is not
  decided by the end of the clock. Positions: pages of two actions of which
  three users' deeds fill more than one (`MaxDeeds`), `MaxClock` 4.
- Library: three feeds, ids up to 3, two requests: a primary, a podcast merged
  into it and a third it could be merged into. Downloads: three runs, files of
  two pieces. Playlists: three episodes, limits 0 and 2, a window of 2 under
  the fault `long`.

The bounds of faulty behaviours are lower (`MaxFaulty`, `MaxWrong`,
`MaxTroubled`), as nothing but types and the properties above is asked of them.

Deadlock is checked in the runs of the queue and in `feed_shared`. Elsewhere the system may stop: every connection served, the
last version published and all jobs ended without a next one, or the last
second reached.

### Fairness

- Queue: the runtime polls every handler and PostgreSQL answers every statement
  (weak); statements that wait for a row are queued, so one that is free to go
  again and again goes (strong, on the writes).
- Feed: jobs are polled; the cron entry comes round again and again and finds a
  free job, the publisher answers again and again (strong); backoffs elapse.
- Socket: tasks that can go on are polled; a browser that stays reads.
- Tasks: a write that has begun goes on (weak); a runner ends and a record that
  is no longer renewed expires (strong); a connection is served (weak).
- Devices: the handler of a socket that ended cleans up, a listing goes on
  (weak). That the device reports again and again is the premise of the
  property, not an assumption.
- Backups: clock and polls go on while a schedule is enabled.
- Sync: the scheduler starts a sync every half hour, and a sync goes on. Users
  need not do anything.

No fairness is assumed of failures, edits, or of a browser leaving.

---

## 4. What the runs found

Each of these is a run that TLC must find violated; `PROJECT.json` quotes the
comment the code contradicts.

- **`feed_shared`**: a user's refresh stores a validator for its row alone. The
  scheduled refresh sends the first validator any row of the group has, gets 304
  and records success for all rows, including those that never had the episodes.
  They stay behind until the feed changes.
- **`socket_leaves`**: when the browser goes away, the handler frees the user's
  lock while the detached job goes on; the next connection starts a second job.
- **`socket_fails`**: a job that fails sends the error and drops its sender, but the
  socket is closed only when nobody holds a sender of the channel, and the copy in
  `ACTIVE_WEBSOCKETS` is dropped only when the channel is closed. The handler has
  returned, and the browser, which only logs the error, waits for ever.
- **`sync_upload`**: a refused upload is reported as done, so the snapshot hides
  the change from every later comparison.

The tables of section 2 are the rest: each fault is something the code lets
happen, and TLC shows what follows. Two more need a constant: with two handlers
an item can be queued twice (the check is outside the transaction, 2122; the
comments at 2112 and `refresh.rs` 232 promise otherwise) and "play next" can land
beside its anchor; with two jobs an episode can be inserted twice,
once by each (`RowsPerJob`; `Episodes` has no unique key); with `Overlap` two
connections can both find the lock free. An INSERT that fails is skipped or
aborts its batch and the validator is stored all the same, so 304 answers hide
that episode until the feed changes: `lost` records it, and `ValidatorsHonest`
and `ServesGroup` say that nothing else is missing. Removing a podcast leaves
those merged into it hidden (`HiddenByRemoval`), and a notification that is
dismissed while it is marked comes back as read (`Notices`).

Read in the code while modelling, and not part of any model:

- `bulk_mark_episodes_completed` (26399-26435) sets `Episodes.completed` only,
  though the comment at 3060-3063 says that completing removes from the queue.
- The purge of a removed podcast matches queue rows by id alone (1293), and
  episodes and videos number their ids apart.
- Raising a cutoff makes older entries due, and the validator still answers 304
  (26174).
- Nextcloud play actions write columns no migration creates (28470-28490); a
  failed Nextcloud upload is logged and its snapshot saved (28140-28151).
- Unmarking while an automatic completion is under way leaves an episode not
  completed with its position at the end.
- "Keep all" of a backup schedule is not kept when another due one has a count;
  enabling a schedule again fires for the time it was off.
- `get_playlist_episodes` (23766) names a column `episode_count` and reads
  `episodecount` (23803); `SELECT DISTINCT` with `ORDER BY` of progress or
  `RANDOM()` (30585, 30697) is refused by PostgreSQL. The rules that fill
  `PlaylistContents` differ from those of the view.

---

## 5. What is proved

For all values of the constants, under the assumptions named in the modules.
Every invariant a passing run checks is a theorem, and so are its action
properties and its two refinements, as far as they are about safety. Three
assumptions came out of proofs: a clock has at least one tick (`MaxMinute`,
`MaxTime`, `MaxClock`), and there are finitely many schedules.


**EpisodeQueue** (`Spec`, any number of handlers, rows, requests, with failures
and deadlocks): `TypeCorrect`, `PositionsStayPositive`, `ShiftsAreKept`,
`OrderIsKept`. The inductive invariant is
`IInv == TypeOK /\ \A w : Local(w) /\ OneWriter /\ PositionsPositive /\ NoLostShift`.
`Local` says which request each statement belongs to and that a handler holds no
row before its first write; without `OneWriter` (no row is held by two open
transactions) another handler's commit could change a row under a pending
shift; without the position bounds of `at` in `Local` the closing UPDATE of a
remove could take a row below 1. `OrderIsKept` needs `NoLostShift` and the
clause of `Down` and `Below`: rows below a threshold move together.

`QueueIsPlayOrder` is `ImplementsPlayOrder`: every step of a handler is one
operation of `PlayOrder` on the mapped table, or none. It assumes `Alone` (one
handler at a time; with two an item can be queued twice) and `TrueToList` (a
reorder names what is queued, with its types; one that does not gives two rows
one position), and it holds whatever fails and with purges. The invariant
`Serial` adds to `IInv` that no two rows share an item or a position
(`Distinct`) and relates, statement by statement, what the handler's transaction
sees to the committed table (`Committing`): rows up to a cut stay where they
are, those behind it have moved by as much as was added, and what was added fills
the gap in the order of the request. The cut is where the abstract operation
inserts, whichever statement made the room.

`PositionsContiguous` is `Contiguous` under the same assumptions and
`Undisturbed` (no failure, no purge). Both are needed: a failure inside a remove,
which has no transaction, and a purge, which does not renumber, leave a gap.
`Packing` says that the positions are an interval from 1, and while a remove has
still to close its gap, that they are one with that position left out; that the
interval is as long as the table has rows (`PackedCount`) follows from the map
from rows to positions being a bijection.

**FeedRefresh**: `TypeCorrect` and `ValidatorsStayHonest` hold whatever fails,
with no assumption. `SoleSubscriberServed` assumes one subscriber; with two it is
false (`feed_shared`). The invariant
`RefreshInv == TypeOK /\ ValidatorsHonest /\ \A j : JobInv(job[j])` says of each
job what its rows already hold: a row that was applied holds every due entry of
the answered version but for those in `lost`, a row in the loop all but `left` as
well. Lemma `ServedStays`
carries this over the steps of other jobs: versions, cutoffs and episodes only
grow.

`DuplicatesBounded` is `RowsPerJob` for any finite number of jobs, whatever
overlaps: what an entry has of rows, and the jobs that are still to insert it,
are together no more than the jobs there are, for a job that looks once the entry
is there leaves it alone. With one job there are no duplicates.

`RowsUnique` says that no entry has two rows (`NoDuplicateRows`), for any number of
jobs, under `[]Apart`: no two jobs insert into one row at the same time. `USER_LOCKS` sees to that among the
websockets of a user only; the scheduled refresh does not take it. `StillNew` says
that what a job has still to insert its row lacks.

**RefreshSocket**: `TypeCorrect` includes that no channel passes its capacity.
`EntryNeverLeftBehind` is `EntryServed`, with no assumption: the entry in
`USER_LOCKS` belongs to a handler that still waits for its tasks. This is the
safety half of `LockFreed`; `NotYet` (no handler before its connection) makes it
inductive. `StayersExclude` is `OnlyLeftBehind`, with no assumption: in a behaviour
with `[]OneArriving`, where no two handlers are between look-up and entry, browsers
may leave at any point, and two jobs still run at once only when one of them was
left behind. So the lock fails to exclude jobs (`OneJob`, `socket_leaves`) in that
case and when connections arrive at once, and in no other. The invariant
`SocketInv == TypeOK /\ \A c : ConnInv(c)`, kept by steps between states with
`OneArriving`, says that the handler of a running job whose browser stays is still
waiting (`Served`) and owns the entry (`Holds`).

**Migrations**: `SetupTypesKept` holds whatever fails and however many setups
meet; it needs `Lines`, which ties the statement to the migration a setup runs.
`MigrationsSafe` is `Migrated` for any number of containers. `QuietInv` adds:
one setup at a time; `Whole`, a transactional migration is there as a whole or
not at all, so that one table may stand for it (the detection of 001 and 004);
`AfterCore`, nothing that requires 001 comes before its record, so that the
tables of the gPodder server cannot be there when nothing is recorded; and
`Users`, the id 1 is free until the first user takes it.

**TaskBoard**: `BoardTypesKept` and `TasksListed` (`Listed`) hold for any number
of tasks, whatever commands fail and whenever the server is restarted.
`TasksLive` is the safety part of `ImplementsTaskLife`; it assumes that no ticker
outlives its abortion (no `preempt`), without which it is false. `Recorded(t)`
says that a key is there while a write that has read it is under way, and in the
index from the end of its creation on. `Living(t)` says that only one writer
may change the status at a time, that it writes back the status it read or the
next one, and that no end is reached before the last write. As a restart ends
several creations at once, `TaskLife` lets a set of tasks vanish in one step.

`BrowserShows` is `Shows`. `Known(t)` says of the updates that wait: the last one
about a task carries what Valkey holds, or there is none and what the browser
builds on (the record it has read, or will read) is that. It has to say this for
every stage of a connection, as the first message may be read before an update
that was sent earlier arrives.

**Notices** (`Server_proofs`): `NoticeTypesKept`, and `NoticesKept`, which is
`TillDismissed` for any number of notifications, however marks and removals meet.
`NoticeInv(n)` adds: one that is not pushed yet is known to nobody; one that was
answered does not count as unread or is about to be deleted, as all that may still
be written to it is the copy of a mark; one that is live has no removal past its
check.

**Listening** (`Server_proofs`): `ListenTypesKept`, whatever glitches.
`PositionsResume` is `Resumes` and `FinishIsHeard` is `FinishHeard`, for any
number of requests. `ListenInv` says that reports are alone, and so are
markings, except those of the night; that a report that is about to write either
carries the farthest position or lets it stand; and, for the announcement, that a
position near the end, while it is recent, was heard or belongs to an episode
that is already completed, which a mark does not announce.

**NowPlaying** (`Server_proofs`): `DeviceTypesKept`. Its other property is
temporal.

**Backups** (`Server_proofs`): `BackupTypesKept`, whatever fails or overlaps. For
it one needs that a poll at work knows its minute, and that the largest of the
retention counts exists (`LargestOf`). `DumpsStay` and `DueTillMade` are the
safety part of `BackedUp`, under its own hypothesis that no dump takes longer
than a minute (`Prompt`): a debt once owed is only ever lifted by a complete dump
as late, or by the administrator, and that dump is not pruned again. `BackupInv`
says that one poll is at work, in the minute of the clock; that a baseline is
given only to a schedule that never ran, so that none lifts a debt; and that who
notes runs and prunes has the latest file, complete and of this minute. That the
debt is lifted at some time is the part that stays with TLC.

**SubscriptionSync** (`Sync_proofs`): `SyncTypesKept`, whatever goes wrong.
`DifferencesFound` is `Reconciled` and `OnlyNewsUploaded` is `UploadsNews`, for
any number of feeds and devices, wherever syncs stop. Both assume `OtherDevice`,
a device the server does not take for PinePods itself: without one no answer
tells of a change, so that a sync that stopped between upload and snapshot would
leave the server changed and the snapshot old. `SyncInv` says, per phase:
a sync is in a later second than the last one; what the server has not changed
since the last sync is as the snapshot says, and what it has changed it has
changed in one direction (`Snapped`); what was told so far is applied
(`Pulling`); what is uploaded is the difference, and then there is none
(`Sending`).

**ActionSync** (`Sync_proofs`): `ActionTypesKept`, and `PositionsExchanged`,
which is `Exchanged` for any size of page. `Pulled` says of each phase which
actions the position here has reached (`Level`) and that the others are on the
page at hand. `FullPage` is the lemma on what a page leaves out: a page ends
after a whole second, so asking again from its last time loses nothing unless
two phones share a second (`Tied`, the fault `ties`).

**Library** (`Library_proofs`): `LibraryTypesKept`, whatever goes wrong.
`PodcastsReachable` is the action property `HiddenByRemoval`, and `PodcastsCounted`
is `Counted`, for any number of requests, feeds and ids. For the first there is a
lemma per statement that changes what is shown or listed (`MergeReach`,
`UnmergeReach`, `RemoveReach`, `InsertReach`). `Orderly` says that of the
requests that merge, unmerge or remove there is one at a time, and that it still
finds what it was asked for (`Pending`); without that a merge could write a list
that names a podcast already gone. `Tallied` is the counter with what the
requests have still to count, by cardinalities: each podcast added and not yet
counted, each one deleted and not yet discounted. It also keeps an id for each
request that adds, so that the bound on ids never turns an insertion into
nothing.

**Downloads** (`Library_proofs`): `DownloadTypesKept`, whatever mishaps. `DownloadsServed` is
`Served` for any number of runs and any length of file. `CalmInv` says that a
download is alone, that while a file is written no row shows the episode, that
the path names the file with all that was sent, and that the counter is off by
what one run has still to count.

**Playlists** (`Library_proofs`): `PlaylistTypesKept`, and
`PlaylistPlayedThrough`, which is `PlaysThrough` for any number of episodes and
any limit. `ToCome` says that an episode still to be played is behind the one in
the player, is listed and nobody marks it, and that never more is listed before
it than when it was chosen, so that a limit never cuts it off; `Settled` says
that what was played is, or will be, in a class the rules leave out.

**MCServer, MCLibrary**: `ServerParts` and `LibraryParts` say that a part behaves
beside the others as it does alone, so that each theorem above holds in the runs
`server` and `library` as well. `ServerTyped` and `PartsTyped` are their
`TypeInvariant`.

Two lemmas, `GreatestOf` and `LargestOf`, find the greatest of a finite set of
numbers. The library's induction takes an operator as a parameter, which cannot
be instantiated here; that the subsets of a finite set are well-founded can be
cited instead, and a set of the elements above one that is least is empty.

Only model-checked: everything under fairness (`Finishes`, `Delivered`,
`HandedOver`, `JobEnds`, `LockFreed`, `OutcomeDelivered`, `ClientLearns`,
`StaysListed`, `BackedUp`, `Converges`), and the fairness of `TaskLife` in
`ImplementsTaskLife`, as the prover has no rules for `ENABLED` and fairness in
reach; of `BackedUp` the safety part is proved. What holds only when nothing overlaps
(`Alone`, `Apart`, no faults) is proved under that hypothesis; that it fails without it is shown by TLC.

---

## 6. Hazards

`PROJECT.json` lists, line by line, what could go wrong in this code where a
test would hardly reach, and the properties that look there. The note of a
hazard says under which fault its property fails.

---

## 7. Plan

1. Proofs of the safety behind the temporal properties: that the two sides of a
   sync are equal when it ends undisturbed.
2. Theorems with weaker hypotheses: `RowsUnique` from the lock of a user's websockets
   rather than `[]Apart`; the queue's order with two handlers that add at different ends.
3. Extensions: unsubscribing and a change of cutoff during a refresh; refresh
   and queue composed through auto-queue; type "both" of the sync, which shares
   one time of last sync between two servers; the filters of playlists by
   progress.
4. Milestones of playback notifications, commands relayed between devices, the
   list of devices pushed to sockets.

### Not modelled

Section 1 lists the components left out. Within the modelled ones:
`PROJECT.json` says in the note of each component which of its operations have
no action, the main ones being the MySQL backend of the queue, YouTube channels
in the refresh, creation of devices and type "both" in the sync, episode actions
with Nextcloud, creating and editing playlists, and the relaying of commands
between devices.

The lines the map names are a small share of the repository (about one line in
twenty), and faithful modelling will not bring it far. Most of the rest are
pages and forms of the web and mobile applications, one statement per handler
over one user's rows, mappings between rows and JSON, every statement a second
time for the other kind of database, calls of external services, and table
definitions. They hold no state of their own between two steps, so nothing in
them can interleave, be lost or be left half done.
