# SortView: verification project

TLA+ models of SortView (`amh-analytics-dashboard`), the analytics service for automated
material-handling sorters in libraries: TLC checks them on small instances, TLAPS proves the
central ones for every instance. The reference throughout is the code of this repository; paths
below are relative to its root. `PROJECT.json` maps every definition of the models to the lines
it stands for and lists the runs, the mutants that show each property can fail, the hazards and
the findings.

Run `tlc -config X.cfg MCModule` for a run and `tlapm X.tla` for the proofs of each module `X` whose
name ends in `Proofs`.

## 1. The system

A library's sorter (Tech Logic) appends to plain text files. A client on the library's Windows
machine reads them and posts events; a FastAPI server stores the events in PostgreSQL and answers
the dashboards; a platform administration issues the credentials under which a client may post.

| component | state | operations | talks to |
|---|---|---|---|
| **Collector v2, delivery** (`collector/v2_run.py`, `v2_reader.py`, `v2_uploader.py`, `v2_quarantine.py`, `state.py`) | `state_v2.json` (a cursor per source: file identity and offset), `quarantine_v2.json`, `status_v2.json`; nothing else survives a run | one scheduled run: set up, for each source read a chunk, transform, post in batches, go round again after a refusal, commit the cache, save the cursor, report | files (read), `POST /v2/upload` |
| **Collector v2, hold ledger and patron cache** (`v2_transform.py`, `v2_patrons.py`, `v2_identity.py`) | SQLite tables `holds` (the ledger of holds already sent) and `patrons` (profiles) | transform a chunk (two passes), commit, purge | the run |
| **Continuous agent** (`agent/runtime/collector.py`, `agent/spool.py`, `agent/state.py`, `agent/tailer.py`, `agent/runtime/uploader.py`) | state file (cursor, generation), batch files of the spool, quarantine directory; buffers in memory | poll, flush, bootstrap in one thread; list, send, halve, quarantine, acknowledge in another | files (read), `POST /upload`; the threads share the spool only |
| Agent supervision (`agent/runtime/supervisor.py`, heartbeat, housekeeping, backoff) | threads, a stop flag, a first failure | start, stop, fail fast on a crashed worker | the service manager |
| Collector tools and configuration (`run_audit.py`, `preflight.py`, `identity_collision_diag.py`, `v2_config.py`, `v2_keys.py`, `v2_schedule.py`) | a configuration file and a protected key file | load, check, print | the run |
| **Legacy Collector v1 and scheduled pipeline** (`collector/run.py` with its reader, uploader and state; `agent/run_pipeline.py`, kept for validation) | a state file each | one scheduled run: read from the saved position, send batch by batch, save, post a status; bootstrap | files, `POST /upload`, `POST /pipeline/status` |
| **Ingest v2** (`main.upload_v2`, `ingest_v2_service.py`) | event tables with a unique key per `key_id` and `event_key`; `branches.onboarding_status` | one transaction per request: compare with the rows it would duplicate, insert the rest, turn the branch ready | Collector |
| **Ingest v1** (`main.upload`) | event tables, unique on `source_event_id` and on semantic fields | insert, `ON CONFLICT DO NOTHING`; refuse after the cutover | agent, Collector v1, pipeline |
| **Pipeline status** (`main.post_pipeline_status`, `main.get_pipeline_status`, `pipeline_state.py`) | one row per branch of the first contract, one report per key of the second | store what a client says, answer one state | every client, dashboards |
| **Enrollment and key ownership** (`collector_enrollment_service.py`, `admin_installation_service.py`, part of `ingest_v2_service.py`, three scripts) | installations, enrollment codes, tokens, v2 keys, cutovers | create and redeem a code, issue a recovery token, change status, revoke; take an inventory of who owns which key | administrators, operators, installer |
| **Library lifecycle** (`platform_admin_service.py`, `purge_tenant_data.py`) | organizations, branches, evidence of their end | create, suspend, offboard, purge | administrators, operators |
| **Accounts, sessions, members** (`auth_service.py`, `session_service.py`, `user_admin_service.py`) | accounts, session and reset tokens, memberships with roles | log in, change a password, reset it, add, remove, change a role, switch an account off | browsers |
| **Metrics and reports** (`operational_metrics_service.py`, `operational_report_service.py`, `organization_report_service.py`, `metrics_v2.py`, `hold_report_service.py`) | none | aggregate rows by local day and hour; split a period at the v1/v2 cutover; latest record per item | dashboards |
| **Settings** (`routing_settings*.py`, `efficiency_settings*.py`, `sortview_value*.py`, `settings_merge.py`, part of `tenant_service.py`) | a JSON document per organization and per branch | replace one key of it; provision a library, give it its identity; hand rules to a Collector; two estimates | customers, platform administrators, enrollment |
| Access and entitlements, HTTP routers, frontend, installer, migrations | none the rest relies on | | |

### Where it is hard

*The Collector* keeps no queue: the files are the queue and a cursor into them is the only memory
of what was delivered. The files are somebody else's; they grow, are replaced and are truncated
while a run looks at them, and it looks twice (identity, then size and content). The process may
be killed between any two writes (quarantine, cache in two transactions, cursor, status). A
request may be refused event by event, and carried out after its sender timed out. What makes it
correct: no cursor passes an event that was neither stored nor refused; only the server's verdict
gives an event up; neither a refused event nor a quarantine that forgets may stall the cursor.

*The hold ledger* makes a stream of single records, sent once and never withdrawn, say what a
dashboard that reads the whole log at once would say: a profile logged after a hold corrects it
by a new row that must outrank all earlier ones. What makes it correct: at the end of every
delivery the latest row of each item carries the dashboard's answer, whatever was interrupted.

*The agent* has two threads, a directory between them, and names events by a generation counter
that reaches the disk after the batches that carry it. What makes it correct: "the cursor may lag
durable capture, but must never lead durable capture"; names and lines correspond one to one
across crashes and rotations; the spool loses nothing and drains.

*The legacy clients* have one saved position for all batches of a run: whatever fails, nothing the
position passes may be missing on the server, and nothing sent twice may be stored twice. Two
programs may run side by side and write disjoint columns of one status row.

*Enrollment* has transactions at READ COMMITTED with row locks, in different orders. What makes it
correct: a code is used once; a branch has one active key whose owner is not retired; nothing stays
alive in a cancelled organization; no wait in a circle but the known ones. The key inventory reads
the traces these transactions leave and must not name the wrong owner.

*Accounts* must never leave an organization without an owner, nor a session or a reset token alive
past what was to end it, while each of them checks in one transaction and writes in another.

*The purge* deletes table by table while requests let in before the cutoff are still writing, from
tables some of which have no foreign keys. It must leave nothing of its library and touch nothing
of another.

*Reports* count rows of two eras, one stamped with a local clock and one with an instant, over days
of 23 and 25 hours, at a cutover anywhere, in several statements between which everything moves.

*Settings* are documents that several people write at once, each their own key. A Collector keeps
the rules it was handed at enrollment, so a destination must mean the same in both eras.

## 2. The modules

| module | models | extends / instantiates |
|---|---|---|
| `FileQueue` | what a Collector promises of each file, abstractly: a queue, a mark, events settled for good | |
| `CollectorDelivery` | a Collector v2 run, the files, the ingest transaction, crashes and lost answers | `FileQueue` through the refinement mapping `Queue` |
| `MCCollectorDelivery` | its instances | `CollectorDelivery` |
| `CollectorDeliveryProofs` | types, safety, forward movement of cursors and the refinement, proved | `CollectorDelivery`, `TLAPS` |
| `HoldLedger`, `MCHoldLedger` | the ACS transform, the ledger, the two commits, the server's rows, the report and the dashboard it must equal | |
| `HoldLedgerProofs` | the ledger follows the profiles, and the reports match after a log was sent again, proved | `HoldLedger`, `TLAPS` |
| `AgentSpool`, `MCAgentSpool` | one source of the continuous agent: both threads, the spool, the server's table | |
| `AgentProofs` | the cursor never leads, names and lines correspond, nothing is dropped: proved | `AgentSpool`, `TLAPS` |
| `PipelineStatus` | the status row of the first contract, the reports of the second, and the state that is shown | |
| `LegacyUploads`, `MCLegacyUploads` | the v1 Collector with its bootstrap, the scheduled pipeline, `/upload` and the cutover | `PipelineStatus` |
| `LegacyProofs` | what the position passed is stored once, and the last report is shown, proved | `LegacyUploads`, `TLAPS` |
| `Transactions` | transactions at READ COMMITTED with PostgreSQL's four row locks | |
| `TransactionProofs` | locks exclude each other, and what a transaction holds nobody else writes: lemmas about every module that uses it | `Transactions`, `TLAPS` |
| `Enrollment` | codes, tokens, keys, cutovers and installations of one branch | `Transactions` |
| `EnrollmentProofs` | one identity and a history that stays; codes spent once and nothing live after the end; only the known circles of waits; the inventory is right: proved | `KeyInventory`, `TransactionProofs` |
| `KeyInventory`, `MCEnrollment` | the inventory of ingest keys, a question to the database of `Enrollment` | `Enrollment` |
| `Accounts`, `MCAccounts` | accounts, sessions, resets, memberships and ownership | `Transactions` |
| `AccountsProofs` | no session and no token outlives what was to end it, an organization keeps an active owner, only resets wait in circles: proved | `Accounts`, `TransactionProofs` |
| `TenantPurge`, `MCTenantPurge` | the cutoff of a library and the purge of its rows | `Transactions` |
| `RangeReports`, `MCRangeReports` | the range reports and single-day reads over both eras | |
| `Routing` | destination labels, slugs and keys: pure operators | |
| `Estimates` | the Efficiency and SortView Value arithmetic: pure operators | |
| `LibrarySettings`, `MCLibrarySettings` | settings documents and their writers, provisioning, identities, the hand-out of rules | `Transactions`, `Routing`, `Estimates` |
| `SettingsProofs` | identities are one and a writer changes its own keys only, proved | `LibrarySettings`, `TransactionProofs` |

Operators whose names have an underscore (`Refuse_Unrecorded`) are the mutants of the operator
they are named for; no specification uses them.

### CollectorDelivery

State: `file` is what the path holds (present, identity, a content number that changes with every
replacement and truncation, lines); `durable` is `state_v2.json`; `cached` the lines whose profile
changes are in SQLite; `quarantine` the file of that name, oldest first; `stored`, `onboarding` the
server's; `stale` the requests whose sender has gone; `pc` and the variables after it the run.
`refused` is a history variable: all that was ever quarantined, since the file itself forgets.

One action per step the process can be killed after: `StartRun` (load and prune the quarantine),
`Identify` (first look), `ReadChunk` (second look, chunk, transform, first batch; or a cursor that
only moved), `Post`, `Delivered`, `Refuse` (quarantine, save, what is left goes round again),
`TooManyRounds`, `FailedReply`, `CommitCache`, `SaveCursor`, `LeaveSource`, `Finish` (status). The
server's transaction is one action (`ServerHandle`); it takes either the whole request or none of
it, and a request given up by its sender can be carried out at any later time
(`ServerHandleStale`). `Abort` is an exception in any step, `Crash` the end of the process.

Abstractions. A line is the event it is transformed into, or `Silent`. Offsets count lines; the
partial last line, which the reader leaves alone, does not exist. `Foreign` events are those the
server holds with other content, `Invalid` those its request models refuse; both belong to the
event, so that two events of one identity and different content in one request, which the reader
cannot produce from one line, do not occur. The status heartbeat that follows a run changes
nothing here.

Environment assumption, `CutIsVisible`: a truncated file is looked at before it grows back to the
offset held for it. The reader can see a truncation only as a size below its offset; without the
assumption lines are lost, and no client code could know. It is a guard of `AppendLine`, and a
hypothesis of all that is proved.

### HoldLedger

A record of the log is a patron profile, a hold, a non-hold code-101 record, or another code-10
record. `Transform` is `_transform_acs`: pass 1 takes the last profile of each patron in the chunk
and sends a correction, with the next revision, for each ledger hold whose flags change with it;
pass 2 goes through the item records in order. `Send` is a request and its transaction (new keys
become rows in order of their ids), `CommitHolds` and `CommitPatrons` the two SQLite transactions,
`SaveCursor` the state. `Interrupt` is a failure or a crash at any of these, `LoseCursor` the
deletion of the state file. Delivery is otherwise that of `CollectorDelivery` for one file and
accepted events.

The reference definitions are `Dashboard` (the latest record of an item, by time and place, of the
whole log under the latest profile of its patron) and `Answer` (the greatest `(event_time, id)`
among the stored rows); the report in its two forms looks at code-101 records (`Overview`) or at
all code-10 records (`LiveToday`).

`unsaved` is the end of the furthest chunk that was read and that no saved cursor covers: the log may
not grow before it is covered, unless `Regrowth`. `reread` remembers whether the cursor was ever lost,
and whether it was lost with a chunk half done (`torn`): the log is then cut into other chunks than
before, a profile in between can be collapsed as in `ledger_regrowth`, and `RereadMatches` says nothing.
After any lost cursor, `LedgerFollowsProfiles` speaks of the rows whose own hold is not still to be read
again (`Awaited`): a row may be of a later hold than the chunk at hand, and pass 1 sees a change
of a profile only against the profiles on disk. At the end of the log there is no such row.

Left out: destinations, patron cards scanned as items, the horizon purge (a documented limit), the
cache's time to live. Patron records are taken to be logged in order of their times.

Two hypotheses appear in the properties because the identity of an event resolves to a second.
`Crowded(i)` exempts an item with three records, or holds of two patrons, in one second: a record
repeated after a different one is stored once, under the first id. `Shadowed(i)` exempts, in
Overview only, a hold followed in its own second by another code-10 record, which the code takes
out of the ledger on purpose.

### AgentSpool

Collector thread: `Start` (state file or bootstrap, REPLAY or NORMAL), `Look` (the identity seen
first; `Misread` is the wrong identity that was seen on the real platform), then on the second look
`ReadOn`, or `Withhold` for a discontinuity seen the first time, or `Confirm` for the same one seen
the second time: the buffer is flushed under the old generation and the read takes effect under
the next. `WriteBatch` writes one chunk of the buffer as a durable file, `SaveState` the cursor and
generation after the last. `TimeIsUp` is the age of the buffer, `Stop` an orderly end
(`force_flush`), `CollectorFails` an exception caught by the loop, `Crash` the end of the process
(also what fail-fast supervision makes of a crashed worker).

Uploader thread: `Pick` the oldest batch by generation and offsets, whole or in halves (the byte
budget); `Accepted`, `Rejected` (halve, or give up a single record), `NoAnswer`, `SkipRequest` (the
request budget is spent); then `Quarantine` before `Acknowledge`, or `Retry`. The server keeps the
first row of a name.

Environment assumptions: `CutIsVisible`, now for two looks in a row; and, unless the constant
`Overtake` is true, `GenerationIsSaved`: the file is not replaced or cut while a generation in use
is not in the state file, nor replaced between the two looks of a poll that confirms a discontinuity
(if that poll's save fails and the process dies, the generation it began is in no state file). The
code counts on the second without saying so: see `agent_names`. A batch that needs more requests than
the budget is never resolved, so `SpoolDrains` speaks of budgets that isolate any batch.
A `torn` record was read after the path was replaced between the two looks of one poll; its line
is read again under the next generation, so it is exempt from `OneNamePerLine`.

Left out: the OFFSET bootstrap (a testing tool), unreadable batch files, the pause under disk
pressure, a size that is misread for one look (identities are), a change of the file between
`getsize` and `open` of one read, requests carried out after
their time-out when their batch is already acknowledged (their records are rows by then, so they
change nothing). Two batch files with the same records that differ in their time stamp count as
one.

### PipelineStatus and LegacyUploads

`row` is the `pipeline_status` row with its two signals (`run`, written by the pipeline and by
installers, and `health`, written by agents), `keys` the reports of the branch's active v2 keys,
the last reporter first. Of the stamps only the order matters, so a stamp is "the newest carried
this signal". `Shown` is `get_pipeline_status`.

In `LegacyUploads` a line has two halves and a position counts halves, so the sorter can be in the
middle of a line at every look. A file has an inode, and a second number for what it was before it
was emptied. `Begin`, `Read` (one source at a time), `Send` (one batch, with the answers stored,
refused, failed and stored-but-lost), `Save` and `Post` are a run of the Collector; `Bootstrap`
goes past what is in the files, `Damage` and `Quarantine` are a state file that cannot be read and
the operator who sets it aside. `StartPipeline`, `ReadPipeline`, `Send`, `SavePipeline` are the
scheduled pipeline, which skips a run if no file changed and keeps offsets without identities; it
is labelled "LEGACY / VALIDATION-ONLY" in the code, so nothing is claimed of its completeness, only
that what it does cannot hurt the Collector's. `Outgrown` is the assumption of `CutIsVisible`:
an emptied file does not outgrow a saved position unseen. A bootstrap happens once. The status of a
request that times out is not stored later. Left out: the look at a path is one, though the code
identifies, measures and opens it in turn, and the transport's own retries of a request, which the
server's keys make harmless.

### Transactions

The idiom of five modules. `db` is what is committed, `put` what a transaction wrote, `lock` its row
locks, 1 (KEY SHARE) to 4 (UPDATE), which conflict when they add up to more than 4. A step is one
statement that may wait, with the checks that follow it; a statement that waits tests its row again
when it gets it. A multi-row statement finds its rows first and takes them one by one, in the order
of their ids where the code asks for it (`Find`). Where a check fails `Fail` is all that is left.
What a request reads before its transaction begins is a condition of its beginning and may be false
by its next statement; that is how the models show checks that go stale.

### Enrollment and KeyInventory

One library, one branch, two installations and one that may be added. The transactions are
`redeem_enrollment_code`, `create_enrollment_code`, the recovery token, the revocation of a token,
an installation's status, a new installation, the library's status, offboarding, the scripts that
issue a token, issue or retire a key and record a cutover, the v1 and v2 heartbeats and the v2
upload. Each is a sequence of statements: `RedeemOrg`, `RedeemCode`, `RedeemScope`, `RedeemBranch`,
`RedeemToken`, `RedeemKey`, and so on. Sweeps (`SweepRow`) revoke row by row.

`KeyInventory` is `scripts/reconcile_ingest_keys.py`: `E1` classifies the evidence of a key's owner
(the redemption's cutover note, times that coincide), `BranchFlags` and `KeyFlags` are its
warnings. It is a snapshot of the committed database, so every state of `Enrollment` is one it may
be asked in. `InventoryIsRight` says that a confirmed owner is the installation the redemption
issued the key to, and that a flag is there exactly when what it warns of is. A heartbeat seen at
the same instant corroborates only while neither has reported since, and a candidate is no proof;
the tool says both. Not modelled: the v1 heartbeat of a token that is bound to no installation and
may name any of its branch; event counts, the comparison of the schema, the flags of a
suspended library, and forged cutover notes but for the past `Doubtful`.

Known, and outside the properties: the status of the library is read without a lock before
`insert_collector_installation` inserts, so an offboarding that commits in between leaves a
`provisioning` installation in a cancelled library, although `tenant_service.py:566-567` says it "can
never gain a new installation". `NothingLiveWhenCancelled` says what remains true: it never comes
into service and never has a credential. Two circles of waiting transactions are possible and
resolved by PostgreSQL (`GeneratesAndRedeems`, `OffboardsAndReports`); `OnlyKnownCircles` says there
are no others.

### Accounts

`Login` (with the lockout), `Logout`, `ChangePassword` (checked in one transaction, written in
another), `Request`, `ResetPassword`, `Switch` (an account off and on), and the members' transactions,
each under its organization's lock. Switching off reads what the account owns (`ReadOwned`), locks
those organizations in the order of their ids (`LockOwned`), and reads again (`Recheck`).
`TimePasses` ends a lock and lets a token expire.

History variables: `before[t]` are the transactions over when `t` began, so that `OldSecretsEnd` can
exempt a sign-in that overlaps a change (its session survives: nothing in the code orders the two);
`unseen` are the organizations an account came to own after `Recheck` had looked. With one of these
an organization may be left without an owner, although `user_admin_service.py:37-39` says "AN
ORGANIZATION ALWAYS HAS AN ACTIVE OWNER"; `OwnershipIsHandedOn` says that it is the only way. Two
resets of one person with two unused tokens can wait for each other (`OnlyResetCircles`).

### TenantPurge

Two libraries whose branch and customer ids are crossed, so that a predicate on the wrong id deletes
the wrong rows. `CutoffOrg`, `CutoffRow`, `CutoffNext`, `CutoffEnd` are `offboard_library` and,
backwards, a reversal by hand as `docs/data-lifecycle-offboarding.md:115-120` describes it; `PurgeOrg`
runs the gates (`EnvironmentAllows`, `CutoffComplete`, `Mapped`, `Attributed`), `PurgeRow` and
`PurgeNext` delete table by table in the code's order, `PurgeEnd` looks once more and writes the
evidence. Uploads and status posts were let in before the cutoff and go on. Left out: rows that
PostgreSQL deletes with their parents (ON DELETE CASCADE), the inventory the tool prints without
`--execute`, suspending and reactivating, and the gate that the branches' operational id is the
library's own. The gates are one step. A purge and a late status report can
wait for each other, which PostgreSQL resolves.

Known: an upload of the first contract that was let in before the cutoff and has not yet touched
its token finds no token to touch after the purge (its UPDATE matches nothing, which nobody checks)
and leaves a row in a table without foreign keys after "LIVE DATABASE PURGE COMPLETE". So
`PurgeTakesItsOwn` speaks of the moment the purge commits.

### RangeReports

A zone is an offset before and after one instant; an instant and a local reading are numbers of
ticks. Legacy rows carry the reading, current rows the instant; `Boundary` and `Span` are the share
of a day that each era owns, `CountsByDay`, `CountsByHour`, `BothEras` the statements of
`operational_metrics_service.py`, `Execute` one of them, `Open`, `LookAgain`, `Unresolved` the sites of an
organization's report. While a report runs, rows arrive, cutovers are recorded and a site gets its
operational id. The single-day reads are `CheckinCount`, `HourColumn`, `RejectCount`,
`RejectsByReason`, `CheckinsByDestination`.

`Unclear` exempts the rows of an hour that happens twice when the cutover itself lies in it, a limit
the code documents. Excluded: clocks that go back across midnight, and gaps that do not begin on an
hour. Uploads of the old era that are queued at a cutover are refused and counted by nobody: the
reports count what is stored.

### Routing, Estimates and LibrarySettings

A text is the sequence of its pieces: letters that are never apart in the texts of a run, and each
separator between them, upper and lower case being one. So `Within` is containment by characters, as
`normalize_destination` has it: "north-east", "north  east" and "north east" are three texts that do
not contain each other, and all of them, and "northeast", contain "north". `Match` is the Collector's
first rule whose text is contained in what the sorter wrote; `Slug` is `_slugify`, in which separators
become one underscore, a slug is cut at `KeySize` pieces and one that begins with a digit gets a "d_";
`DestinationKey` and `Class` are the server's; `Serialized`, `Valid` and `Config` what the API stores
and reads back. `Estimates` has the two reports with their rounding and their rules about
partial inputs, in exact integers of the fields' smallest units.

`LibrarySettings` has the writers of a document, each one statement that keeps every key but its
own (`Applied`); the customers' statements resolve their scope in the snapshot they began with
(`Issue`) and apply it to the row as it is when they get it (`Apply`), then read again for the answer
(`Answer`); a platform administrator's change is recorded in the same transaction (`Record`).
`Provision` creates a library whole, `IdentifyOrg` and `IdentifyBranch` assign a customer, `EnrollBranch`
hands out the rules (`HandOut`). A block written by the API carries the history field `by`.

`DestinationsStand` compares the two eras for texts the Collector can tell (`Told`): a built-in name,
the very characters of a label that was handed out and of no other, or a text nothing counts by
name. Those count alike in both. What it cannot tell counts differently, and then only as other or as
the key of a label that was handed out and whose characters the text has:

- with destinations NORTH and NORTH EAST the rule of NORTH, first in the list, takes what is sent to
  NORTH EAST, and the server counts it under NORTH, although `routing_destination.py:41-45` says "never
  under the wrong destination"; NORTHEAST goes there as well;
- with the destination North East, what is sent to NORTH-EAST or to NORTH with two blanks and EAST was
  counted as `north_east` when the text itself was stored, and is `unknown` to the Collector, so it is
  other now; `routing_destination.py:20-31` makes one key of such spellings, the Collector's rules do
  not;
- the destination Local! has the key `local`, which keyed again is `main`: it is a destination by its
  text and home by its slug, although `routing_destination.py:88-89` says of a key keyed again that it
  is unchanged (`Steady`).

Nor has every destination that is on a key to be counted under: "???", "Unknown" and a label without
a Latin letter have the key `unknown`, which `validate_routing_settings` accepts and
`build_routing_config` leaves out (`routing_destination.py:152-154`); its check-ins are other in both
eras. No two destinations share a key, that one included.

Other things the model shows and no property forbids: a
home label that is none of 1, LOCAL, MAIN counts as other in the second era; a destination added
after the enrollment is unknown to the Collector; replacing the internal lists after the review
keeps the review's mark, so an enrollment may hand out lists that nobody reviewed
(`docs/collector-v2.md:322`: "unreviewed lists are not, however full"); a write whose scope resolved is
stored but answered 404 if the scope is gone when the answer is read, although
`replace_organization_routing` says "with nothing written". Not modelled: plans, subscriptions and
entitlement checks, and `set_collector_site_settings`, which nothing calls.

## 3. The runs

Ten runs pass; the two marked "fails" check one claim of a document or a comment each and end in a
counterexample (section 5).

| run | shows | bounds, and why they are enough |
|---|---|---|
| `delivery` | all safety properties of `CollectorDelivery` and the refinement of `FileQueue`, under every interleaving of appends, a replacement or truncation, a fault, an abandoned request | one source (sources share only the budget and the quarantine; the proof is for any number), 2 events of which 1 is refused, 3 lines in chunks of 2 and batches of 2: a chunk behind and a chunk ahead of the saved cursor, a batch with a refused and a good event, the same event twice. `MaxRounds` 1 makes `TooManyRounds` happen, a chunk budget of 2 makes `LeaveSource` happen. Two contents, so that every discontinuity happens once at every point |
| `delivery_fair` | every event is settled and every cursor catches up, again and again | a good, a conflicting and an invalid event, 3 lines in one chunk and 2 batches, a quarantine of 1 entry, so that it evicts what is in the chunk, 1 fault |
| `ledger` | the report equals the dashboard, for every log of 5 records, with an interruption anywhere or a lost cursor | one item, one patron, two profiles, times 1 and 2, chunks of 2, batches of 1: five records are a hold, a profile, a change back, a retraction and one more; a correction needs three. Three faults, and six records and faults together (`MaxBoth`): a chunk interrupted between its two commits, a lost cursor, and one more. Items do not interact. `reread` tells a log that is being sent again after its cursor was lost; `RereadMatches` holds for it as well, the stronger `StreamMatches` for all others |
| `ledger_regrowth` (fails) | a chunk that grew before it was read again | 4 records, `Regrowth` |
| `agent` | names and lines correspond, nothing captured is dropped, batches leave oldest first, events reach the spool and the spool drains, in both bootstrap modes | a log of all three kinds of lines and one of two records the server refuses, batches of 2, and a budget of 3 requests, which isolates a batch of 2, or of 1, which runs out; two contents; one fault: two sightings, one of them a misreading, or one crash between batch and state |
| `agent_names` (fails) | one name for two lines | `Overtake`, one crash |
| `enrollment` | one identity, codes spent once, nothing live after the library ended, only the known circles of waiting, a history that stays, and an inventory that is right at any moment | six pasts (two codes for one branch; both contracts in service; an unowned key beside a code; suspended; enrolled with an unowned key, once with a record that names the other installation), and every three transactions overlapping statement by statement. Two transactions make every conflict of two rows, the third is one that finds what they left or closes a circle |
| `accounts` | what a new password or a switched-off account ends, who waits for whom, and how an organization may come to lose its owner | four pasts (one organization; two owners of two organizations; organizations without an owner; one person with a session and two tokens), three transactions, three people, a lockout at 2 attempts |
| `reports` | every stored event is counted once, and days agree with ranges | `Settled`: one item at any of 15 instants in both eras, a cutover at any instant or taken back, in 8 zones whose clocks stay, go forward or back by an hour, half an hour or a day; `Moving` and `Fresh`: rows, cutovers and operational ids that change between the statements of one report. Days of 3 hours of 2 ticks: a first, a middle and a last hour, and something within an hour; two days are an edge between them. Events are counted independently of each other, so one is enough |
| `legacy` | nothing the v1 Collector's position passes is missing or there twice, all of it arrives, and the customer is shown the last report | four pasts: the Collector alone from its bootstrap with replaced and emptied files; a line written in two halves across a cutover; the Collector beside the pipeline; everybody who reports. Batches of 1, up to two troubles (an unreachable server, an answer lost, a kill, a damaged state file), which may hit a run and its repetition |
| `purge` | a purge leaves nothing of its library and touches nothing of another, and only of a library that was cut off | in service on either contract, or cut off already, the last also with a row whose branch or customer is another's or nobody's, a credential alive again, or an incomplete organization; three transactions of all nine kinds |
| `settings` | identities are one to one, nobody's key is overwritten, destinations mean the same in both eras, the two estimates follow from what is stored | three libraries at work with three transactions, and about 7700 configurations that nobody works on (`over` is `MaxTx`), in which only the results are checked. One or two destinations now and at the enrollment, with labels that contain each other, differ in a separator or in blanks around them, are cut, are digits or hold nothing a key can, coincide with a built-in, with home or its aliases, or have a key that means home when keyed again; the texts are these labels and others between them. `KeySize` is 6 pieces, so that one label is cut, and at an underscore |

Every number is a constant of a cfg or a constant set in an MC module. `MaxLines`, `MaxGens`,
`MaxContents`, `MaxTime`, `MaxFaults`, `MaxTx`, `MaxCuts` and the `trouble` of a past are limits of the
instance and stand in guards of the environment, of faults or of beginnings only. Without the
deadlock check are the runs of `AgentSpool`, which rightly stops when the file is gone for good,
and of the modules in which a bounded number of transactions, reports or lines ends; a circle of
waiting transactions is there a property (`OnlyKnownCircles`, `OnlyResetCircles`) and not a state
without a successor, since PostgreSQL ends it. The runs of `CollectorDelivery` and `HoldLedger` have
no final state.

### Fairness

`CollectorDelivery!FairSpec` has `WF(RunStep)` and `WF(ServerHandle)`: the task scheduler starts
runs for ever, a process that is not killed continues, and a server that is reached answers. Weak
fairness is enough because each of the run's steps stays enabled until it is taken. Nothing makes
a file grow or an abandoned request be carried out.

`AgentSpool!Spec` has `WF(CollectorStep)`, `WF(UploaderStep)` and `WF(TimeIsUp)`: two loops that
catch and log every exception, a service manager that restarts the process, and a clock. Faults
are bounded by `MaxFaults`, so liveness says what happens once they stop; it does not hold, and is
not claimed, while every request fails.

`LegacyUploads!Spec` has `WF` of the Collector's steps where a Collector is installed: the task
scheduler again. The troubles of a past are bounded in the same way. The pipeline is not fair: its
operator may have stopped it.

The other modules claim safety only. A transaction of theirs may stay where it is for ever, which is
a client that hangs.

## 4. What is proved

For every value of the constants, from the named assumptions alone: sets of sources, items, patrons and
events, settings, any number of lines, faults and overlapping transactions, any databases to begin with.

| theorem | module | statement |
|---|---|---|
| `TypeCorrect` | `CollectorDeliveryProofs` | `Spec => []TypeOK`: types, the quarantine's cap, the chunk and round budgets |
| `DeliveryCorrect` | | `Spec => []DeliveryInv` |
| `CommittedIsSettledAlways` | | no saved cursor passes an event that was neither stored nor refused |
| `CacheCoversCursorAlways` | | the cache is never behind a cursor |
| `OnlyRefusableIsSkippedAlways` | | only what the server can never take is given up, and never stored |
| `PendingHasNoDataAlways` | | the branch is pending exactly while it has no event |
| `NeverGoesBackAlways` | | a saved cursor moves back only when its file was replaced or cut |
| `CollectorImplementsQueue` | | `Spec => Queue!Spec`: the Collector implements `FileQueue` |
| `LedgerIsGood` | `HoldLedgerProofs` | `~Regrowth`: the inductive invariant of the ledger, `LInv` |
| `LedgerFollowsProfilesAlways` | | `~Regrowth`: no row is under an outdated profile while no chunk is half done |
| `LedgerFollowsAtTheEnd` | | `~Regrowth`: at the end of the log that holds of every row, without exception |
| `LedgerIsSure` | | `~Regrowth`: the second inductive invariant, `SInv`, about what the server was sent |
| `RereadMatchesAlways` | | `~Regrowth`: both reports give the dashboard's answer for every item without two records in one second |
| `InvariantHolds` | `EnrollmentProofs` | `Spec => []IInv`: the inductive invariant of a branch's identity |
| `OneIdentityAlways` | | at most one active key, its owner not retired and with one active token |
| `HistoryStaysAlways` | | what was decided or used up is not undone by any overlapping transaction |
| `CredentialsHold` | | `Spec => []CInv`: the second layer, about codes and the end of a library |
| `CodeIsSpentOnceAlways` | | a used code has one token, an unused one none, an installation one unused code |
| `NothingLiveWhenCancelledAlways` | | nothing is alive in a cancelled library |
| `LocksAreInPlace` | | `Spec => []WInv`: the third layer, about which locks are held where |
| `OnlyKnownCirclesAlways` | | transactions wait in a circle only in the two ways that are known |
| `RecordsHold` | | `Spec => []RInv`: the fourth layer, about what one transaction leaves together |
| `InventoryIsRightAlways` | | whenever it is taken, the inventory of the keys names only who was issued the key |
| `SecretsHold` | `AccountsProofs` | `Spec => []AInv`: the inductive invariant of passwords, sessions and tokens |
| `OldSecretsEndAlways` | | no session and no token outlives what was to end it |
| `OwnersAreKept` | | `Spec => []BInv`: the second layer, about members and owners |
| `OwnershipIsHandedOnAlways` | | an organization keeps an active owner, but in the one known case |
| `LocksAreInPlace` | | `Spec => []WInv`: the third layer, about which locks are held where |
| `OnlyResetCirclesAlways` | | transactions wait in a circle only with a reset of a person with two unused tokens |
| `AgentHolds` | `AgentProofs` | `~Overtake`: the inductive invariant of collector, spool and uploader, `AInv` |
| `CursorNeverLeadsAlways` | | `~Overtake`: what lies below the saved cursor is spooled, stored or in quarantine |
| `NamesAreLinesAlways` | | `~Overtake`: a name is of one line, and a line has one name |
| `NothingDroppedAlways` | | `~Overtake`: a batch is deleted only when its very records are stored or in quarantine |
| `SettingsHold` | `SettingsProofs` | `Spec => []SInv`: the inductive invariant of libraries and their documents |
| `IdentitiesAreOneAlways` | | one library per customer and per slug, and a provisioned library is complete |
| `OneKeyOnlyAlways` | | a commit changes of a document its writer's keys, as asked, and no other |
| `UploadsHold` | `LegacyProofs` | `Spec => []UInv`: the inductive invariant of the uploads of the first contract |
| `UploadedOnceAlways` | | what the saved position has passed is on the server, once |
| `ShownIsLastReportAlways` | | the customer is shown the last accepted report of the era in force |

### The Collector

From `DeliveryAssumption`, that the constants are what their names say.

`CommittedIsSettled` is not inductive: `SaveCursor` moves the cursor to the end
of the chunk in flight, so something must be known of that chunk, and of the file, which may have
changed since it was read. `IInv` is `DeliveryInv /\ CommittedIsSettled /\ CacheCoversCursor`, where
`DeliveryInv` says: of the files, that a cursor whose content is gone is visibly so (`FilesInv`); of
the run, that the identity it saw is between the saved cursor's and the file's (`ReadInv`); of a
chunk in flight, that it continues the saved cursor or starts from nothing, that its lines are the
file's while the file is the one it was read from, and that each is silent, settled, or still in
`batch` or `todo` (`ChunkInv`); and that a refusal names refusable events (`AnswerInv`). The lines of
the chunk before its start are covered by `CommittedIsSettled` itself.

The environment's four actions go through one lemma about any cursor held for a file
(`CursorUnderEnvironment`): the owner of the file makes the cursor dead or leaves every line below
it in place. It is applied to the saved cursor and to the chunk's. Then there is a lemma per group of
steps: `ReadChunkInv`, `SaveCursorInv` and `RefuseInv` are the hard ones; steps that keep the chunk go
through `DeliveringInv`, steps that end it through `IdleInv`.

`NeverGoesBack` needs `ForwardInv` on top: a file replaced since the run looked at its path has
newer content than the saved cursor, and a chunk in flight is never behind that cursor. The
refinement maps `log` to the lines, `mark` to the offset of a cursor that names the present content
(0 otherwise), `settled` to what is stored or refused; with `IInv` and `ForwardInv` each step is one of
the queue's or a stutter.

### The hold ledger

From `LedgerAssumption`, which asks that the items be finitely many (pass 1 lists those to correct), and
`~Regrowth`: a chunk that grew before it was read again does break the
ledger (`ledger_regrowth`). The invariant `LInv` says of every row that it is a hold of the log before
the furthest line ever read, and that it is in step with a profile or its own hold is still ahead of
the cursor; in which state of the two commits, with the profile on disk or the chunk's. The transform is
a recursive function over a chunk of any length. That its result keeps `LInv` is proved without an
induction theorem: if some line broke it there would be a first one (the smallest number of a set of
naturals), and one line, `Pass2`, does not break it. The proof of pass 1 is where the interrupted commits
matter: the corrections are in the ledger and the old profiles on disk, and the chunk, read again,
must come to the same rows.

The attempt to prove this changed the model. The property first claimed too much: with two faults, an
interruption between the commits and a lost cursor, the first chunk of the log can be committed with a
row of a later hold still under an older profile, until that hold is read again. And a cursor lost while
a chunk is half done cuts the log differently, which is a regrowth by another way.

`RereadMatches` compares what the server answers with what the dashboard computes from the whole log,
and needs an invariant about the rows: `SInv`. It is about the log as far as it was ever read (`Upto`),
the interrupted chunk included (`End`, with the profiles it will leave, `New`). The profiles are those of that
part of the log (`ProfilesKnown`). Every ledger row, every row of the server and every event still to be sent
comes of one of its records (`RowsKnown`, `EventsKnown`), and every record before the cursor has a row of
the server (`Covered`). Of an item that has no two records in one second (`Alone`), whose newest
hold is not outdone by a 101 record (`Top`), the ledger's row, once the chunk is done, is the greatest revision the
server has of that hold; if the server has it already it is the last row of that hold; and if a run
is under way it is delivered or still ahead (`Settled`). The last is the difficult one: a revision
that was sent before an interruption is computed again from the ledger on disk, and from the ledger already
committed, and must be the same in both; a log sent again from its beginning must neither fall
back to an older revision nor repeat one with other flags. `ChunkSettles` carries it through both passes.
At the end of the log, `Settled` makes the flags of the greatest `(event_time, id)` those of the
latest profile (`RowSays`), and `RowCounts` and `RecordCounts` show that the row that counts and the record
that counts are of the same moment. TLC checked `SInv`, in an earlier form, on the run `ledger` before it was proved.

### The agent

From `AgentAssumption`, that the constants are what their names say, and `~Overtake`: a file replaced
before its generation is saved does give two lines one name (`agent_names`). The two threads, any number
of crashes, failed flushes and misread identities, logs and batches of any size.

`CursorNeverLeads` and `NamesAreLines` are about what is stored; what makes them inductive is about what is
in memory. `Now` is the generation of the file as it is, the saved one or the next, and `LiveOK` says that
the live cursor agrees with the saved one on it, whichever of the two is of a file that is gone.
`Named` says that the whole events of the file as it is are exactly those of the generation `Now`: so a
line that is read again gets the name it had, and every other name is another line's. `CoverOK` is the
cursor's promise three times: the saved cursor is covered by what is spooled, the live one by that and
the buffer, the one of a confirmed read by the events that wait for the flush; and the chunks counted in
`done` are spooled. `SaveState` moves the promise from one to the next.

The hard step is the read. It goes on from the cursor (`WholeReads`, `ReadCovers`), or the path was replaced
between its two looks (`TornReads`): then its names are of the generation before, and they are new because
`LookOK` keeps from the moment of the replacement that every event of that generation is of a line before
them, which is what `GenerationIsSaved` says of a poll under way. That a confirmed discontinuity is real
(`Confirmed`) also rests on `LookOK`: a misread identity is new every time, so it is never seen twice. What
a read returns is a recursive function over the lines; `EventsReadAre` says which events those are, by the
first line that were wrong, as for the ledger.

`NothingDropped` needs the names too. The server's `ON CONFLICT DO NOTHING` drops a record if there is a
row of its name; that it is that very record (`InsertStores`) is `Agree`, the half of `NamesOK` about two
events. `JobOK` accounts for each record of the batch in hand, through halving and refusal, until
`Acknowledge`.

### Transactions

`TransactionProofs` is about any module built on `Transactions`: `Take` with locks that are free leaves
no two conflicting locks on a row (`Exclusion`), a row somebody holds exclusively is written by nobody
else (`ExclusiveRow`), and a step changes the variables of its own transaction only.

### One branch

From `EnrollmentAssumption`: the databases to begin with have the schema's keys and references
(`Typed`), one identity (`Kept`), codes spent at most once (`Spent`) and nothing alive where the library
ended (`Closed`). Those four are what the theorems then show is kept, for ever and however many
transactions overlap. Nothing is assumed of who runs what when.

`OneIdentity` is far from inductive. A transaction that is to insert a key has looked for others some
statements ago; what makes its insert safe is the branch's row, which it has held since, and that
every other inserter needs. `IInv` has therefore a conjunct per kind of transaction (`RedeemInv`,
`GenerateInv`, and so on) that lists, for each value of its `pc`, the locks it has, what it has written
and what it knows, and `Mine`, that what it writes are new rows or rows it holds. A step of one
transaction is then two lemmas: its own conjunct holds at its next statement; and the others' are
not disturbed, since a commit changes only rows that its transaction had locked exclusively. Commit is
the step that moves the database: `Kept'` follows from what the committing transaction knows.

A second invariant, `CInv`, is on top of the first: whoever adds a credential works for a
library that is not cancelled and holds what keeps it so (`Serves`), and offboarding, which sweeps the
tables one by one, has ended what it has swept (`Sweeping`), for a credential that appears behind it
needs a lock on the library that offboarding has.

`OnlyKnownCircles` speaks of sets of transactions each of which waits for another of the set. The
third layer, `WInv`, says where each transaction has its locks and in which mode (`LockInv`), that a sweep
takes its rows in the order of their ids, and what a heartbeat and a redemption hold for certain
(`PlaceInv`). There is no one order of the tables in the code, but there nearly is: `Height` is how far
the row that a transaction waits for is in it. First the library and a request's own token, then
other tokens, then a key or a code that is to be redeemed, the branch, the branch once more to set it
ready, an installation, and last the codes of a sweep one by one. `Climbs` goes through the tables: whoever holds up
another, and is itself held up, waits further on than that. It leaves out two places, which are where
the code turns back. One is a redemption that waits for its installation with its code in hand: it can only be held up
by a `generate` for that installation (`RedeemWaits`), and at its last statement by nobody, since it has what it
wants (`RedeemEnds`). The other is offboarding among the keys with the installations in hand: only a
heartbeat between key and installation holds it up, and its token is not active, because the
active ones are locked by offboarding itself (`OffboardWaits`, with `Sweeping` of the second layer). So a circle
without the two ways would have no greatest height, and a finite set has one (`GreatestOf`). TLC checked `WInv` and
`Climbs` on the run `Enrollment` before they were proved.

`InventoryIsRight` is about one look at the database, but what it says rests on how the rows came to be. A redemption
writes the key, its cutover and the code's `used_at` in one transaction, so all have one instant
(`reconcile_ingest_keys.py:21-22`), and only an enrollment gives a key an owner (`ingest_v2_service.py:239-247`).
`InventoryAssumption` says that the past is of that kind: `Recorded`, and nothing was heard of after it ended. A
record made up by hand is allowed there, as in the past `Doubtful`, if the branch has no other and no owned key.
`RInv` says that `Recorded` stays, and of each transaction what it will leave: a token together with its code (`Dates`), an
owned key together with the record and the used code (`Records`), and the time of a heartbeat at the key and
the installation of one and the same token (`Hears`); nobody else has that time (`Unheard`). What is left
together stays together: a used code and a cutover are never written again, so `CommitLeaves`, and no
commit moves the time of anything but of what it heard of. From there it is three lemmas about any
database: a candidate is who was issued the key (`CandidatesIssued`), the owner of a key is its candidate
(`OwnersAreCandidates`), and the flags of tampering have nothing to point at (`RecordsMakeItRight`).

### Accounts

From `AccountsAssumption`: the rows to begin with are the schema's (`Typed`), with empty histories
(`Begins`) and organizations named by their numbers, which is what gives them an order. All 22
statements take part, those about members too.

A session is ended by a statement that sees the rows there are when it begins, and a sign-in is three
transactions. So between the password's change and its commit a session with the old password may
still be made; the property allows it only to a sign-in that was not over when the change began. What
makes it an invariant is `Sweeps`: at every statement of a transaction that ends sessions, each live
session of the account made by a transaction over before it is either still to be swept or among
what it has written. New sessions come only from transactions that were not (`Fresh`); so at the commit,
when nothing is left to sweep, each live session is younger than the change (`Row`). The reset's share
is a lock: from its first statement on, the token's row is held for update and unused (`Sweeps`), and
what another transaction may write of a row it does not hold is only what `Own` says: a session's
end. `Evolves` is what a step of anyone else can do to the database, and `Undisturbed` says that it
disturbs no one's share of the invariant.

The second layer of `AccountsProofs` adds who owns what (`BInv`). A change of a member holds its organization's row from
its first statement on, a switch-off the rows of every organization that it saw its account own; so
what either has counted is still true at its commit, because whoever else could take an owner away
needs one of those rows (`LockedKept`). What is not locked is the account of the acting owner: it may
be switched off meanwhile, by a transaction that looked before it became an owner. That is why the
clauses of `MemberInv` and `OffInv` end in `\/ Org(o) \in unseen`, and it is the exception the
property states. `PutInv` says what a commit can change at all: no organization, one membership, and
of an account that is there whether it is active only if that is what the transaction is for. The
count of `AnotherOwner` becomes a second owner by `TwoAreOther`. The attempt sharpened the property
twice: an owner is made by a commit about that very member of that very organization (`Gives`), and
of a cancelled organization nobody counts the owners (`_ACTIVELY_OWNED_ORGANIZATIONS_SQL` leaves it out), so the
first half is about the others.

`OnlyResetCircles` speaks of a set of transactions each of which waits for another of the set. The
third layer, `WInv`, says where each transaction has its locks: `LockInv` what it has for certain at each
statement and what it can be waiting for, `PlaceInv` what is still ahead of it, `TokensFit` and `IdsInv` that
the rows are of the accounts and numbers they say. Two kinds of wait cannot close a circle. Who has
locked an account or a session waits for nobody, unless it is a reset among the tokens of its person
(`AccountHolder`, `NobodyBefore`); so without such a reset every wait in the circle is for an
organization or a token. These are taken in ascending order, so whoever blocks such a wait waits
itself for a greater number (`CircleClimbs`), and a finite set has a greatest (`GreatestOf`, `NoClimb`).
So a circle has a reset at its tokens (`CircleHasReset`). It has the lock on its own token, which is
unused, and is waiting for another that is unused as well (`ResetHasTwo`): tokens are used up only
under the account's lock, which that reset has had since (`CommitIsSteady`).

### Libraries and their documents

From `SettingsAssumption`: each database to begin with has the schema's rows (`Typed`), its identities
are one (`Kept`) and its libraries' ids are among the first two; of the documents in it, the requests,
the routing and the estimates nothing is assumed.

`Kept` and `Complete` are what the database promises; `Writes` is what makes a commit keep them, row by
row of what a transaction has written. A row of a library that was there is locked for update and
keeps its slug; its customer stays or, if it had none, becomes the one this transaction makes
(`OwnOrg`), which is sound because what `IdentifyOrg` read is still so under the lock it took (`About`; with
the weaker lock of the mutant `IdentifyLock_Read` that clause is what fails). A new library comes with all its
rows at once (`NewOrg`). A slug is written only while its index entry is locked and absent. A document
is written under its own row's lock and is `Becomes` of what it is in the database at that moment
(`OwnDoc`): `Issue`, which resolves the scope earlier, carries nothing of the document along. So
`OneKeyOnly` follows at the commit from `BecomesAsAsked`, a lemma about the function that is put over
the old one, and from `ChangeKeys`, that no writer's change has keys that are not its own. The four
lemmas `LockedOrg`, `LockedDoc`, `LockedSlug` and `OthersAfterCommit` say that a commit leaves alone what
the other transactions rely on.

### The first contract

From `UploadsAssumption`: a batch has room for a row, the programs are the two there are, and the lines of
a past are lines. Any lines, in any order of times and barcodes, any batch size and number of troubles.

`NothingPassed` is about the saved position only. Before it is saved it is the position of a run, made
when the source was read, while the file may have been replaced, emptied or filled again since; so
`UInv` says the same of every position there is. `CursorOK`: it is of a file that was at that path, now or
before, stands at the end of a line, not behind the end of its own file, and not inside a file that was
emptied and filled again. `Covered`: what it has passed of the file as it is was sent, was skipped by the
bootstrap, or is of a key in `pending`, which is the records that this very run has yet to send
(`Reading`) and for a saved position nothing (`SentOK`). `FileMoves` is about any change of a file under any such
position; a batch moves keys from `pending` to the server (`BatchAndRest`, `BatchStored`); with no records
left the position may be saved (`SaveKeeps`), over the older ones of sources that were missing. What a read
makes of the lines is a recursive function, `RecordsUpTo`: `RecordsAre` says that every line with a usable
time is among the records, by the first line that were not. That the pipeline beside it disturbs
nothing is `PipelineKeeps`: it adds rows, and `BatchStored` is for any batch.

`ShownIsLastReport` needs, for the second contract, the order of two sequences: the keys as the server
sorts them, and the reports in the order they came. `SInv` says that a key shows its own last report or
has none (`KeyTold`), and that whoever stands before a key that has reported has reported after it
(`InOrder`). A heartbeat moves a key to the front of both, a retirement takes it from one of them;
`Kept` is that the others keep their order, position by position.

### Only model-checked

- Liveness (`EverythingSettles`, `EveryCursorCatchesUp`, `EventsAreSpooled`, `SpoolDrains`,
  `EverythingArrives`): this prover does not do it under fairness.
- `StreamMatches` and `LedgerIsLastSent` of `HoldLedger`, which include the items with two records in one
  second, where the order of the rows within that second decides. What is proved instead, `RereadMatches`,
  is for the items without, and for logs sent again as well.
- `DestinationsStand` and `FiguresStand`: what the matching of texts and the arithmetic of the reports
  compute, for the inputs enumerated.
- `OldestFirst` of `AgentSpool`, which compares the batch in hand with batches that appear after it was
  picked; and `OneLinePerName` when `Overtake` is true, which is false.
- All of `TenantPurge` and `RangeReports`.

## 5. Findings

Two places where the program does not do what its comments or documents say, each with a run that
fails on the quoted claim.

1. `agent_names`. Batches reach the disk before the generation they carry. If the process dies in
   between and the file is replaced before the restart, the restarted agent uses the generation for
   the new file as well; the server drops the new line as a duplicate of the old one.
   `agent/event_identity.py` calls the name unique, `agent/runtime/collector.py` says that data loss
   is not acceptable. The run `agent` excludes it (`Overtake` is FALSE).
2. `ledger_regrowth`. The document says that an interrupted chunk is read and sent again
   identically. It may have grown: an intermediate profile is then skipped, and the correction
   already stored for it stands. The run `ledger` excludes it (`Regrowth` is FALSE).

Further limits of the code that the models have as behaviours, and that the properties are stated
around:

- `CollectorDelivery`: the keys in quarantine are looked up once per chunk, so a refused event whose
  second copy is in a later batch of the chunk is sent again. The comment on `_MAX_ROUNDS` counts
  conflicting identities, but copies of one event in a batch are reported one round at a time
  (`TooManyRounds`).
- `HoldLedger`: after a lost state file a hold sent again with other flags is a new row, and outranks
  the retraction logged in its own second, which is a duplicate and keeps its id (`Alone` in
  `RereadMatches`).
- `AgentSpool`: the request budget of a batch starts anew in every cycle and the halving takes the
  same course, so a batch that needs more requests than the budget is never resolved and holds up
  its source. `SpoolDrains` therefore asks for a `budget` of twice the batch size less one.
- `Enrollment`: a library offboarded while an installation is being added has a provisioning
  installation in the end.
- `Accounts`: an organization can lose its last active owner (`unseen`).
- `TenantPurge`: an upload let in before the cutoff can store a row after the purge.
- `LibrarySettings`: a rule takes the labels that contain its own; other spellings of a label are one
  key to the server and unknown to the Collector; a label without a key is accepted and shown nowhere;
  a label of an alias of home and a mark is home in one era only (section 2). A review outlives the
  lists it reviewed.

## 6. Hazards no property covers

`PROJECT.json` lists each with its line. They are outside what a program can see, or were accepted
on purpose: the tail of a file that is rotated away between two runs; a truncation that outgrows the
offset before the next look, for the Collector and for the agent; uploads of the old era that are
queued when a cutover takes effect. A manual audit run beside a scheduled one is two processes on
one set of files: the model has one process.

## 7. Plan

Done, in the order of importance: delivery and its abstract queue, with proofs; the hold ledger; the
agent; enrollment with its inventory; accounts and members; the legacy clients with the status row;
the range reports; the purge; settings, routing and estimates.

Left:

1. Proofs for `TenantPurge`, and `OldestFirst` of `AgentSpool`.
2. An abstract specification of a key's life as one atomic object, implemented by `Enrollment`.
3. The horizon purge of the ledger and the OFFSET bootstrap of the agent.

### Not modelled

- **Access and entitlements**: decisions over rows of one snapshot, without state.
- **HTTP APIs**: routes, schemas and status codes over the services; the services are modelled.
- **Frontend**: pages without state the server relies on.
- **Agent supervision**: threads, a stop flag, log files. What it does to the event path, ending the
  process, is `Crash` and `Stop` of `AgentSpool`.
- **Collector tools and configuration**: they read and print; a configuration that does not load is
  `Abort` of `CollectorDelivery`.
- **Installer, migrations**: run once by an operator, and their text is the installer's or
  PostgreSQL's own.
- Of the modelled components: what the last sentences of their parts of section 2 and their notes in
  `PROJECT.json` name.
