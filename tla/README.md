# Verification of the Snipe-IT inventory mail gateway

TLA+ models of the gateway, TLC runs on small instances, and TLAPS proofs. Paths
below are relative to the repository; `gateway/` stands for
`src/snipeit_inventory_gateway/`. Everything is translated from the code; the
documents are used for what the properties ought to say.

## 1. The system

Windows agents collect an inventory and deliver it as an encrypted event, over
HTTPS or, when that fails, by mail. The gateway stores events in a durable queue
and applies each one to Snipe-IT.

    agent --HTTPS--> API --------------+                      +--> Snipe-IT (HTTP)
      |                                v                      |
      +--SMTP--> mailbox <--IMAP-- mail collector --> SQLite <--- worker daemon
                                                        |     |
                                       weekly report ---+     +--> report mailbox (SMTP)

Four processes of the gateway open the same SQLite file (WAL): the API, the worker
daemon (`worker.run_forever`, restarted by systemd on failure), the mail collector
(a one-shot started by a timer) and the weekly report (likewise). The connection is
opened with `isolation_level=None` (`queue.py`): the `with self.db` blocks open
no transaction, and **every SQL statement commits on its own**. That is the grain
of all models here: one step is one SQL statement, one HTTP request or one SMTP
session, and steps of different processes interleave freely.

### Inventory

| Component | State | Operations | Interacts with | What is hard | What makes it correct |
|---|---|---|---|---|---|
| Event queue (`gateway/queue.py`) | tables `events`, `watermarks` | enqueue, claim, stale_reason, finish, retry, purge | API and collector insert, daemon and collector claim | claim and finish are several statements; leases lapse; a crash between statements | one holder per event, no early dead letter, settled means reflected, newest wins |
| Worker daemon (`gateway/worker.py`) | the item in hand | process_item, retry_delay, the loop with its hourly purge | queue, Snipe-IT client, notifier | dies anywhere; slow calls outlive a lease | every event settles; old inventory never overwrites newer |
| Owner confirmation (`queue.decide_owner`) | table `owner_candidates` | decide_owner | called by process_item before Snipe-IT | read and write are separate commits; retried events come again | a new owner takes the configured evidence; nobody else gets the asset |
| Report delivery, incidents (`gateway/notifications.py`, `queue.reserve_report`, `queue.finish_report`) | tables `report_delivery`, `notification_state` | computer, owner_change, weekly, incident, recovered | called by daemon, collector, weekly report; SMTP | check, mail and remember are three steps; two processes; a session that failed or only seemed to | a content is mailed once, failures are throttled and recover |
| Snipe-IT client (`gateway/snipeit.py`) | none; the assets are in Snipe-IT | apply_inventory, list_assets | process_item; Snipe-IT | up to six requests, each may be lost before or after its effect; others write too; a listing is read in pages while it changes | one asset per serial number; a reported result is true; an asset taken from its owner is given on; the listing misses nothing |
| Mail collector (`gateway/mail.py`) | folders and flags of the mailbox | collect, ingest_message, classify, move_uid | IMAP, queue (it claims inline), notifier | COPY, STORE, EXPUNGE apart; its own deadline; a limit of messages per run | relay mail is moved when, and only when, its event is settled |
| Mail contract (`gateway/mail_contract.py`) | none | subjects, categories | notifier, agent, collector | names in subjects hold key words; the mailbox has mail of anybody | what is sent is recognised, mail of others is not touched |
| API (`gateway/api.py`) | none | POST /api/v1/events | agent, queue | an answer may be lost: the agent delivers again | duplicates are recognised |
| Envelope protocol (`gateway/protocol.py`) | none | decode_event | API, collector | freshness differs by transport; keys that may only decrypt | what one transport accepts is not stuck on another |
| Ownership policy (`gateway/policy.py`) | none | safe_owner | process_item | none: a pure function | only a valid user is proposed |
| Reports (`gateway/reports.py`) | none | computer report, weekly report | notifier | ages are taken against the start of a listing that takes a while; the table is cut off | equal state, equal hash; the computers that have gone silent are shown, the worst first |
| Configuration (`gateway/config.py`) | none | load | all | thresholds that contradict each other | bounds of the constants |
| Command line (`gateway/cli.py`) | none | starts the processes, runs the weekly report | all | none | - |
| Windows agent (`agent/SnipeIT.Inventory.Agent.ps1`) | local queue of envelopes, lock file | Send-LocalQueue, Send-Envelope, Save-QueuedEnvelope | API, SMTP | capped queue, the head blocks the rest, old `sent_at` | what was collected is delivered or replaced by something newer |
| Operations (`scripts/`, `deploy/`) | releases, the link `current`, `previous-release`, the configuration and the database | install, update, rollback, restore, backup | systemd | a script ends after any command; processes come and go under it | only checked releases run; there is one to roll back to; a rollback undoes |

`PROJECT.json` lists the same components with their status, and under `hazards` the
places in the code where a step of the above can go wrong.

## 2. Modules

| Module | Models | Runs | Proofs |
|---|---|---|---|
| `EventQueue` | one operator per SQL statement on `events` and `watermarks` | through `EventProcessing` | |
| `EventProcessing` | the processors that drain the queue: claim, process_item, finish, retry, crash, time, purge | `two_processors`, `sole_worker`, `watermark_race` | `EventProcessing_proof`, `SoleProcessor_proof` |
| `Gateway` | the abstract promise: newer and newer inventory is shown, nothing settled is sent again | refined by `EventProcessing` in `sole_worker` | `SoleProcessor_proof` |
| `OwnerCandidates` | decide_owner between the staleness check and Snipe-IT | `owner_stability`, `owner_recount` | `OwnerCandidates_proof` |
| `Notifier` | reports, incidents and recoveries of several processes, in the order process_item, run_forever and collect make them | `notifier`, `dead_letter_throttled` | `Notifier_proof` |
| `SnipeItApply` | apply_inventory request by request, against a Snipe-IT that others write | `snipeit_apply` | `SnipeItApply_proof` |
| `WeeklyReport` | the weekly report: paging through the assets, ageing, order and truncation | `weekly_report` | `WeeklyReport_proof` |
| `Operations` | install, update, rollback and restore, command by command, with the processes of systemd | `operations` | `Operations_proof` |
| `MailRouting` | the headers of what the gateway and its agents send, and `classify` | through `MailCollector` | `EventDelivery_proof` |
| `MailCollector` | a run of the collector over the folders of the mailbox, request by request | through `EventDelivery` | `EventDelivery_proof` |
| `EventDelivery` | the agent of a computer, the API, SMTP, and with `MailCollector` the way of an event into the queue | `event_delivery`, `errors_trashed` | `EventDelivery_proof` |
| `MC...` | instances: which events, users, times | | |

Operators named in a comment as mutated forms, each right before the definition it
mutates, are plausible bugs. They are used by no specification: substituted for that
definition they make a property fail, which shows that the property says something.

### EventQueue and EventProcessing

A row of `events` is its `status`, its `attempts`, the place of `received_at` among
the other rows (`earlier`) and one bit, `elapsed`: has the deadline that matters in
this status gone by (`next_attempt_at` of a pending or retried row, `lease_until` of
a row being processed, retention of a settled one)? `InsertRow`, `FirstDue`,
`LeaseRow`, `SetStatus`, `SetWatermark`, `PurgeRows` are the statements. `finish` and
`retry` have no condition on the status, and neither has `SetStatus`: a late writer
overwrites.

A processor walks `idle -> selected -> leased -> claimed -> fresh -> decided -> idle`,
after `processed` through `marking`. `ClaimSelect`, `ClaimUpdate`/`ClaimMissed` and
`ClaimRead` are the three statements of `claim`; `CheckStale` is `stale_reason`;
`Apply` the whole call of Snipe-IT with any outcome, whether or not the PUT arrived;
`Finish` and `MoveWatermark` the two statements of `finish`; `Retry` the other end.
`Crash` stands for a killed process and for an exception nobody catches: the item is
dropped, the row stays. `TimePasses` lets a deadline go by under the feet of a
processor, so leases lapse in hand and a second processor takes over.
`finished` and `lapsed` are history: events for which both statements of
`finish` ran, rows whose lease ran out.

`Gateway` says what all of this is for, in atomic steps: an event is accepted, sent
unless something settled covers it, answered, settled, forgotten. `EventProcessing` maps
its rows to the final answers (`AnswerTo`: what a repeated POST is told), what Snipe-IT
shows to `shown` and `finished` to `settled`; claims, checks, leases, retries and crashes
are stutters, and the one watermark per computer stands for the whole set of settled
events. With one processor this is a refinement (`KeepsPromise`); with two it is not
(`watermark_race`).

### OwnerCandidates

`row` is `owner_candidates`. `Present` is the claim of an event that is not stale,
`ReadRow` the SELECT, `RenewConfirmed`, `StartCandidate` and `CountCandidate` the
three branches that write, `ConfirmCandidate` the second UPDATE of the last one,
`Apply` the call of Snipe-IT with the decided owner. The queue is reduced to what the
decision can notice: one hand per event, at most `MaxAttempts` presentations, none
after a newer event was processed. `confirmations` saturates at the number it is
compared with. `streak` is history: the events that proposed the same user since
anybody else was proposed, which is what the documents count.

### Notifier

A job is a sequence of calls: `<<computer report, owner change>>` after `finish` in
`process_item`, an incident after `reject` or `retry`, a recovery after a turn of the
loop. `Duties` gives each process the jobs it may begin. `Return` goes on to the next call;
`Raise` ends the job with the calls it still owed (the one `try` around both mails,
`worker.py:83-97`); `Fail` is what the caller makes of an exception of `recovered`: the
collector takes an SMTP error of it for one of IMAP and reports an incident under the key
that was recovering (`mail.py:281`), the daemon does so for database errors and dies of
SMTP errors (`worker.py:138`). A report goes
`select -> reserve -> send -> sent | failed`, which is `reserve_report` (SELECT, then
UPSERT), the SMTP session, and `finish_report` with either answer. An incident goes
`select -> send -> record`, or `suppress` when it is throttled; a recovery likewise.
Faults are a session that failed (`smtp_down`), one that delivered and still raised
(`smtp_lost`), a refused write (`database`) and a death (`crash`). `Lapse` is 15
minutes after a reservation, `Cool` is `throttle_seconds` after a mail; `late` names
processes whose `current` was taken before that. `unsure` and `forgotten` are
history and name every exception the delivery promises have: a key on which a process
died, an answer or a write was lost, a reservation lapsed in hand or two processes
overlapped; a key whose row a failed session deleted. `owed` is the second mail of a job,
as long as no failure of the first has dropped it.

### SnipeItApply

The assets of one serial number, one step per request: `Lookup`, `Create`, `Put`,
`Search`, `Checkin`, `Checkout`. Each `Answer` is a success, a loss after the effect, a
failure before it, a refusal, or an error in the body of a 200. What the client does
with each (`Raises`, and the branches of the requests that look at the body or do not)
is the code's. `holder` is `assigned_to` of the lookup, used three requests later.
`Present` is the claim of an open event with the decision on its owner. Its lease may have
lapsed in the hand of the other process (`queue.py:238`, opened in `EventProcessing`): then
both apply it, and both write its status. Whom an event is applied for (`target`) is decided
anew at each claim: the user it proposes (`Proposed`) or nobody, since an owner may be
confirmed between two of them, and another one instead. The attempts are
not counted here: `Retry` leaves an event open or gives it up.
`Edit` is an administrator. `shared`, `alone`, `raced`, `freed`, `ignored` are history: the
event was in two hands at once; nobody else wrote the asset since the lookup; two processes
were about to create it; the event that took it from its owner; an error in a body was taken
for success.
A holder is a user or a place (a location, another asset); `NumericId` is unique among users
only, and `IsHolder` compares numbers, as the code does.
Assumed of Snipe-IT: a write takes effect before its answer (or the loss of the
answer) or not at all; an error without rows in the body of a lookup means an unknown
asset; nobody deletes assets.

### MailRouting, MailCollector and EventDelivery

`MailRouting` has no state. A header is what the rules tell apart: sender and recipients, the
prefix of the subject, the tag or key word after it, the key words that occur anywhere else
in it (in the name of a computer, say), the `X-SnipeIT` headers, the number of envelopes,
the length. `Notice` and `RelayMail` are what `_send` and `Send-FallbackMail` write,
`Classify` is `classify` with its rules in their order, `Route` adds the length test before
it, `FolderOf` is `FOLDERS`. `MeantFolder` is the table of `docs/MAIL-REPORTS-RU.md`, on
the side of the properties.

The mailbox is a set of copies, each in a folder under a UID, and a set of flags. A run
goes through `Sources`: `SelectFolder` is SELECT and SEARCH with the limit of messages,
`Fetch` FETCH (a message the server does not give out is passed over) and `classify`, `Store` the decoding and `enqueue` of relay mail and what
`ingest_message` does with a duplicate, `Await` its loop with all its ends (settled here,
settled by the daemon, a temporary failure, the deadline). `Copy`, `Flag`, `Expunge` are
the requests of `move_uid`; `AbortRun` cuts the run anywhere between. Of a message
there is its header. `Accepts` is the only part of `decode_event` that two
correct deliveries of one envelope can see differently: freshness and retired keys
count for HTTPS and not for mail.

A run of the agent goes `queue -> https -> smtp -> sent | save`: files of the local
queue first, then the event it has just collected. `Https` is the POST and the API behind
it, with the answer lost or not; `Smtp` likewise. `Sent` removes the file, `Save` writes
one and applies both limits; the order of the files is that of `nth`, the number of the
run that collected the event. `handed` is history: what the agent has taken for delivered.
`GrowOld` is the passing of `max_clock_skew_seconds` or a rotation of keys, `Connect` the
network of the computer. In these two modules the queue is one status per event:
`Settle` is everything that `EventProcessing` opens.

### WeeklyReport

`hardware` is the fleet in the order Snipe-IT lists it. `Start` takes `generated_at` and
begins the listing, `FetchPage` is one request of `list_assets` by offset, with the end
test of its loop: its answer is the page, or the body without rows by which Snipe-IT reports an
error, which is taken for the end of the listing (`snipeit.py:58-62`); the total may be missing.
`Mail` and `Fail` the two ends of the job. `Inventory`, `Create` and
`Delete` change the fleet while it is read, `TimePasses` moves the clock, over the end of a
week too. `IsReported`, `Reference`, `AgeDays`, `StatusOf`, `Precedes` and `Shown` are
`build_inventory_rows` and the truncation of `weekly_report`, applied to the rows read. The
table is said by the place of each row (`ComesBefore`): the sort is stable, so rows with
equal keys stay in the order they were listed in. A
day is the unit of all times. `kept`, `silent`, `created`, `deletions`, `short` are history: what
was there all along; the reported assets without data for `weekly_critical_days` when the listing
began, and with none since; what came and went; the listing ended at a body without rows.

### Operations

A script is a chain of its commands that change state (`Program`), run one script at a
time; `Abort` ends it after any of them (`set -e`, an interruption). A version is absent,
partial, built or checked; `current` is the link, replaced at once by `mv -T`. The
services and jobs run the version the link named when they were started. `checked` is said
of a release for good: `restore.sh:12` installs a `config.json` and starts the services without
a `check-config`, so a checked release may run with a configuration it was not checked with.
`replaced`, `unsure`, `cut` are history and name the exceptions: install switches
the link without restarting anything or recording what it replaced, and a script that is
cut short between two commands leaves its first half. What the database holds, and its log,
are left out.

## 3. Runs

Runs that hold:

| Run | Instance | Distinct states | Shows |
|---|---|---|---|
| `two_processors` | daemon and collector, 2 events of one computer, 2 attempts, 1 crash | 1.6 million | `ExclusiveUnlessLapsed`, `SettledIsReflected`, `DeadLetterEarned`, `SettledIsFinal`: what survives any stall, takeover and crash |
| `sole_worker` | daemon alone, 2 events, 2 attempts, 2 crashes, fair | 83 thousand | `FinishedIsCurrent`, `KeepsPromise` (the refinement of `Gateway`), `EveryEventSettles` |
| `owner_stability` | 4 reports of u and one of v at times 0..4, 3 confirmations of age 2 within 3, 2 presentations each, 1 crash | 4.0 million | `ConfirmsOnSpan`, `ConfirmsOnDistinctUnlessRetried`, `OnlyConfirmedAssigned` |
| `notifier` | daemon and collector, or two collectors; the report of a computer with 2 contents and the mail on its owner, a shared and two watched incident keys, 1 fault of any kind, fair | 0.2 million | `SentIsMailed`, `ReservationIsHeld`, `ReportsOnChange`, `OwedIsMailed`, `IncidentsSpaced`, `RecoveryFollowsIncident`, `IncidentsRecover` |
| `snipeit_apply` | two processes, 3 events (two users and an unknown one, or nobody), 1 event in both hands, a place with the number of a user, 1 fault, 1 edit, 1 crash | 8.7 million | `OneAssetUnlessRaced`, `FreedIsGivenOn`, `AppliedAsReported` |
| `event_delivery` | 2 events, and in the same inbox a notice that somebody else got too or the report of a computer named ERROR; 2 messages per run, a local queue of 1 file, 1 fault (agent, collector, a request, the network), fair | 0.5 million | `HandedIsKept`, `FiledAsMeant`, `MailIsKept`, `HandedIsStored`, `LocalQueueDrains` |
| `weekly_report` | 3 assets, 2 more to come (one of another category), pages of 2, a table of 2, 3 changes, any answer without rows or total, 2 days and the end of a week | 1.1 million | `ListsTheFleet`, `SilentAreShown`, `WorstAreShown`, `ListingEnds` |
| `operations` | 3 versions, 5 scripts, each may end anywhere | 0.9 million | `RunsChecked`, `ServicesRunCurrent`, `RollbackReady`, `RollbackUndoes` |

Runs in which the code does not do what a document says (`findings` of
`PROJECT.json` quotes the lines):

| Run | Property lost | How |
|---|---|---|
| `watermark_race` | `WatermarkNeverRegresses` | two processors check staleness, both apply, the older one writes last; no crash is needed |
| `owner_recount` | `ConfirmsOnDistinctEvents` | two events that are retried in turn count as three |
| `dead_letter_throttled` | `DeadLetterAnnounced` | a dead letter shares a throttled key with every temporary failure of its computer |
| `errors_trashed` | `ErrorsKept` | `LEGACY_REPORT_FOLDERS` has the names of the default destinations: a run files a message under Errors, comes to that folder and moves it to the trash |

Each of the holding runs carries the weaker property the code does keep, with the
exception named by a history variable (`lapsed`, `finished`, `unsure`, `ignored`...). More
disagreements with the documents are such exceptions, or lie outside the models, and have no run
of their own:

* `FinishedIsCurrent` speaks of events for which both statements of `finish` ran: a crash
  between them leaves an event processed without a watermark, and an older one overwrites it
  (against `docs/ARCHITECTURE-RU.md:49-50`). It is a counterexample of TLC when the exception is
  taken out of the property.
* `AppliedAsReported` excepts events whose check-in or checkout was answered with an error in
  the body of a 200, which only the PUT looks for (`snipeit.py:110`): `owner_changed` is then
  returned, and mailed, although nothing changed (against `docs/OWNERSHIP-SAFETY-RU.md:45-46`).
  Again TLC shows it without the exception.
* `FreedIsGivenOn` excepts events that were in two hands. Both processes looked up the old owner;
  one gives the asset to the new one and settles the event, the other, whose lease had lapsed,
  checks the asset in and dies: the event is settled and the asset is with nobody, although
  `README.md:44` promises protection from that. It also excepts an
  event that ends with `preserve`: its check-in took effect, its checkout failed, and before it
  came again another owner was confirmed, so that it is now applied without one. TLC shows both
  without the exceptions. An event that is given up between check-in and checkout
  (`rejected`, `dead_letter`) leaves its asset with nobody as well; that is an
  incident (which may be throttled, `dead_letter_throttled`), and the property speaks of events that end with a result.
* `ListsTheFleet` and `SilentAreShown` except a listing that a 200 without rows ended
  (`snipeit.py:58-62`): the report is mailed without the assets that follow, and the week is
  marked as mailed, so that no other report of it comes.
* `docs/OPERATIONS-RU.md:65` says that restore stops the writers. `restore.sh:11` stops the
  two services and the timer of the collector. A run of the collector that is under way, and the
  weekly report with its timer, go on while the database file is replaced under them; and a
  write-ahead log left by a killed worker stays beside the new file. No property is stated about
  it: it would have to except the very writers that are not stopped.
* `MailIsKept` and `FiledAsMeant` except mail of others longer than `max_message_bytes`: its
  length is tested before its sender (`mail.py:192`), and it is moved to Errors (against
  `docs/MAIL-REPORTS-RU.md:71`). Nor does `classify` leave a message alone whose category
  contradicts its tag (`mail.py:135`, against `docs/MAIL-REPORTS-RU.md:44-45`); the gateway sends
  none, and the properties are about what it sends and about mail of others.

What the watermark does in the instance of `sole_worker` is proved for all instances (section 4)
and not checked again there.

**Bounds.** `MaxAttempts`, `MaxCrashes`, `MaxFaults`, `MaxEdits`, `MaxShared` cut behaviours, and
the sets of events, users and contents are small. Two events of one computer are
enough for an order to be wrong; their `observed_at` contradicts their generation, so
that the comparison must look at the generation first. Two attempts distinguish retry
from dead letter, two crashes allow one during the recovery from another, two asset
ids allow a duplicate. The times of `owner_stability` lie on, inside and outside both
thresholds. One fault suffices in `notifier` and `snipeit_apply` because every property
there names what a fault leaves behind; `MaxShared` bounds the events that are
taken over, not how often one of them is. In `event_delivery` the limits are at their
smallest sizes that still let something through: a message of others and a limit of two
messages per run show that relay mail behind it is read (with a limit of one TLC refutes
`HandedIsStored`: as many foreign messages as the limit stop the relay for good); a local
queue of one file makes the second event push out the first. Its inbox is the only
folder, which is the case of a `parent_folder` of another name than that of
`LEGACY_REPORT_FOLDERS`; `errors_trashed` has the folders of the default configuration.
In `weekly_report` three changes during a listing of two or three requests allow a row to be
skipped, repeated, and the total to pass a page boundary both ways; the table is smaller than
the fleet, so that something is cut off; the fleet has one asset of each kind the rules tell apart (data of
today, silent for long and without a category, no data ever). Five scripts in `operations` are two updates (the
second of which may fail at each command) and two rollbacks, with an install or a restore between them.
The proofs of section 4 have no bounds.
Deadlock is checked in the runs of `Notifier`, `WeeklyReport` and `Operations`, where a
process or job can always begin again; elsewhere the instance stops when its events are settled.

**Symmetry** is used in `snipeit_apply` alone: the two processes run the same code, the
asset ids are alike, no definition names one of either, and no liveness is checked there.
In `EventDelivery` the event a run collects is always the same one of those left (`Named`):
events differ in nothing but their name.

**Fairness.** `EveryEventSettles` assumes that a processor that has started goes on
(weak fairness of its steps), that the daemon polls (its loop sleeps two seconds), and
that deadlines of rows in `retry` and `processing` come. It assumes nothing of
Snipe-IT: an outcome of `Apply` may always be a failure. Crashes are bounded: a crash
at every claim of a poison event would repeat forever, because `claim` does not look at
`attempts`. `IncidentsRecover` assumes that calls end, and strong fairness of beginning
a recovery call, because the daemon calls `recovered` after every turn of its loop.
`HandedIsStored` and `LocalQueueDrains` assume that the timer starts run after run of the
collector and the task scheduler run after run of the agent, that what was started goes
on, that accepted mail arrives and that a network that was lost comes back. They need SMTP
to be enabled: without it TLC refutes `LocalQueueDrains`, since an envelope that HTTPS has
begun to refuse stays at the head of the local queue. `ListingEnds` assumes that a request
ends, which the timeout of the HTTP client sees to, and that what others change is bounded.

## 4. Proofs

TLAPS proves, for every value of the constants that satisfies the named assumptions:

* `EventProcessing_proof`, any number of processors, crashes and events. `IInv` is
  `TypeOK` and: a lapsed lease is recorded; a processor that selected a row
  in `processing` selected a lapsed one; the row of an item in hand is in `processing`
  unless it lapsed; retention of a row in hand is not over; the attempts read back are at
  most those of the row; a watermark, and a verdict about to be written, are grounded in
  something sent to Snipe-IT. `Exclusion` is not inductive alone: that a second claim
  fails needs the status of the row the first holder relies on. From it:
  `TypeCorrect`, `Exclusion`, `DeadLetters`, `Reflection`, `SettledFinal`.
* `SoleProcessor_proof`, one processor, any crashes. Adds that an event carried past the
  staleness check is newer than the watermark, that finished events are covered by the
  watermark, and that Snipe-IT shows at least the watermark. From it:
  `WatermarkMonotone`, `NewestWins`, `AppliedOnce`. With two processors these are
  false (`watermark_race`), so the hypothesis is needed.
  The same module proves `PromiseKept`: `Spec => KeepsPromise`. `PromiseInv` says
  that the watermark of a computer is one of its settled events, that the row in hand is
  still open, that the row being marked is processed, and that an item about to be
  dismissed is behind the watermark. Each step then maps to one abstract step or to a
  stutter; that the single watermark covers every settled event comes from the invariant
  above.
* `OwnerCandidates_proof`. `TypeCorrect` for any number of processors; for one at a
  time and all thresholds, retries and crashes `ConfirmedOnSpan`,
  `ConfirmedOnDistinct`, `ConfirmedOnly`. The invariant relates the row to the streak
  of the documents: the candidate is the user of the streak, `first_seen` is the time
  of one of its events, and `confirmations` is at most its size unless one of its
  events was presented twice. With two processors at once the read and the write of
  `decide_owner` mix candidates: TLC refutes `ConfirmsOnSpan` and
  `ConfirmsOnDistinctUnlessRetried` for two processors without retries or crashes.
* `Operations_proof`, any versions, any number of scripts. The invariant ties the command a
  script is at to the state of the release it works on (from the check to the switch its
  target is checked), every running version and `current` and `previous` to checked
  releases, the services to the link outside the window between switch and restart,
  and `previous` to `replaced` unless `unsure`. From it: `TypeCorrect`, `OnlyCheckedRuns`,
  `ServicesFollowLink`, `RollbackFinds`, `RollbackReturns`.
* `EventDelivery_proof`, any mail, folders, limits and faults. First what `MailRouting` says of
  single messages: `RelaysRouted` and `NoticesFiled` (relay mail is recognised, a notice gets
  into the folder of its tag, whatever words the names in its subject are), `OthersLeft`
  (mail of others has no route). The invariant then ties the collector to its copy: the copy in
  hand is in the mailbox; the destination chosen for it is one the documents allow, Reports
  only for an event that is done, and a copy of others' mail in hand lies in an archived
  folder; between COPY and STORE a second copy exists that no EXPUNGE takes; the mail of an
  event is flagged only once the event is stored. Of the agent, that an answer it
  got stands for an event stored or mailed. From it:
  `HandedKept`, `MailFiledAsMeant`, `MailKept`. The assumption that a destination which is
  read again is archived (`MailAssumption`) holds for every `parent_folder`, since the
  sources other than the inbox and the relay folder are the archived ones.
  `TypeCorrect` is more than typing here: a run reads at most `MaxPerRun` messages and the
  local queue holds at most `MaxLocal` files. `Bounds` adds what these need: UIDs are unique in a
  folder, so the oldest k copies are k at most; the messages read and those still to be read
  together stay below the limit; `nth` numbers the collected events without a repetition.
* `Notifier_proof`, any processes, keys, contents and jobs. `IInv` is the six properties
  of the run and what makes them inductive. Outside `unsure` one process works on a key at a time
  (`OneWorks`), so the row a report is delivered under is the one its process wrote
  (`InHand`). `ReportsOnChange` speaks of the moment before a mail; it needs that a row outlives
  its delivery with the content mailed last (`Settled`), and that the check before the
  reservation still holds after it (`NewContent`). `IncidentsSpaced` needs that a key mailed a
  moment ago is throttled already or about to be (`FreshIsThrottled`), and that a verdict taken
  earlier is not about a fresh key (`NotFresh`); recoveries need that an open row is of a
  failure that was told (`OpenIsTold`, `Told`). From it: `TypeCorrect`, `SentWasMailed`, `Held`,
  `OncePerContent`, `OwedAreMailed`, `Spaced`, `RecoveriesFollow`.
* `SnipeItApply_proof`, any processors, events, users, assets, faults and edits. Without a race
  one process at most is about to create an asset, and then there is none (`SoleCreator`): the
  lookup of the other one comes later and finds it. An asset that an event freed is with
  nobody, and the event, unless it was in two hands, is on its way to give that asset on, or
  starts again with a lookup that finds it free (`Freed`): this is what a retry after a lost
  answer relies on. That an event in one hand is still open is part of `Hands`. What a processor
  knows of an asset nobody else wrote is still so (`AloneIsRight`). From it: `TypeCorrect`,
  `OneAsset`, `FreedGivenOn`, and the action property `Applied`.
* `WeeklyReport_proof`, any fleet, pages, limits and changes. What is missed and what is
  repeated is counted at every offset, not only at the end: the kept assets already gone past
  without a row are at most the deletions (`MissedAreDeletions`), and the repeated rows, together with those still
  to come that are listed already, at most the assets created (`RepeatedAreCreated`). A deletion
  before the offset moves one asset past it, a creation there moves one back. A listing that
  ended has gone past the whole fleet, or is `short`. `SilentAreListed` says that an asset in
  `silent` is reported and silent in Snipe-IT and in every row read of it. The rest is about the
  table alone: every row has a place, and the places are a permutation (`Places`), so the table is
  ordered (`TableSorted`) and what is cut off comes after what is shown (`CutAt`); what the order
  of the keys says of the data of two rows is `StatusSays`. A silent asset is then missed by the
  listing, which deletions pay for, or shown, or cut off behind rows that are silent themselves.
  From these: `TypeCorrect`, `FleetListed`, `SilenceShown`, `WorstFirst`.

The assumptions are the typing of the constants and the bounds `config.py` validates
(`max_attempts >= 1`, at least two confirmations, positive ages); `TLC` evaluates them
in every run. The sole processor is an assumption of the theorems that need it, never
of a module.

Only model-checked: liveness (`EveryEventSettles`, `IncidentsRecover`, `HandedIsStored`,
`LocalQueueDrains`, `ListingEnds`), which is out of the proof system's reach. Every other
property of every run that holds is a theorem.

## 5. Not modelled, and abstractions

* Cryptography, schema validation, HTML, the text of subjects after the tag, the string rules of `safe_owner`, the
  choice of custom fields: pure, sequential and unit-tested. What the hash of a computer
  report covers is its content in `Notifier`.
* `MailCollector` runs alone: two overlapping runs (timer and command line), mailbox users
  who move or flag mail, `create_folders` and `dry_run` are left out;
  the `Offline Relay` folder, handled like the inbox, holds nothing in the instances. Mail of
  the old subjects (`PCINV-`, `SNIPEIT-RELAY`...) is classified, and in no instance. FETCH of RFC822 also marks foreign mail as seen, although
  `docs/MAIL-REPORTS-RU.md:71` promises it no flags; the model has no such flag.
* Of the local queue, only files of followed events exist and count against its limit.
* One asset per computer: the watermark is kept per name and the asset per serial
  number, a rename is not modelled.
* The weekly report reserves its week as any report does (`Notifier`); `WeeklyReport` has one
  run of it at a time.
* Of the operations: two scripts at once, `backup.sh` (it reads, through SQLite's online
  backup), the dry run of the installer, `migrate-1.3.3.py` (it rewrites an old
  configuration once), the first installation, and `is-active` at the end of update and
  rollback, whose failure changes nothing.
  The write-ahead log beside the database is left out.
* Configuration: a file read once. The bounds
  `config.py` validates are assumptions on the constants.
* `event_generation` beyond 64 bits, and a `confirmation_hours` longer than
  `candidate_window_days`, are listed as hazards and have no property.
* A retention of at least seven days outlives any step on an item
  (`RetentionOutlivesWork`).
* `last_seen_at`, `updated_at`, `occurrences`, `last_failure_at`, error texts: nothing
  decides on them.

## 6. Plan

Done, in this order, the most important behaviour first: `EventQueue` and
`EventProcessing`, `OwnerCandidates`, `Notifier`, `SnipeItApply`, `MailCollector` with
`EventDelivery`, the proofs of the first three; then `Gateway` and the refinement with its
proof, the calls of the worker and the collector composed in `Notifier`, places as holders in
`SnipeItApply`, `WeeklyReport`, `Operations` with its proof, `MailRouting`, and the proof of
`EventDelivery`; then the proofs of `SnipeItApply`, `Notifier` and `WeeklyReport`, and the bounds of
`EventDelivery`.

Next:

1. An abstract delivery (an event is lost, kept or stored, never less than before) that
   `EventDelivery` implements, with its proof in `EventDelivery_proof`.
2. `OwnerCandidates` for two processors: which of its properties survive when the read and
   the write of `decide_owner` mix candidates.

## 7. Running

    tlc -workers 2 -config two_processors.cfg MCEventProcessing
    tlapm EventProcessing_proof.tla

Each `.cfg` belongs to the `MC` module named in `PROJECT.json` under `runs`. None takes
more than three minutes on two cores.
