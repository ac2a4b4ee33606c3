# Verification of pipette-mgmt

pipette-mgmt hands benchmark jobs to devices ("clients"), collects what they
submit, scores it and files it. This directory holds TLA+ modules that model its
protocols, the TLC configurations that model-check them, and TLAPS proofs of the
properties that matter most. `PROJECT.json` lists components, runs, mutants,
hazards, findings and theorems, and maps every definition to source lines.

## 1. The system

Several `serve` replicas answer clients; a few commands run as crons. They share
object storage (S3, a local file system, or SQL behind the same traits) and
almost no memory: what keeps them correct is the order of single-object calls.

| Part | State | Operations | Who races whom |
|---|---|---|---|
| Queue store (`pipette-store-s3`, `-sql`, `-fs`) | `avail/{job}.{expires_at}`, `leased/{client}/{job}.{expires_at}.{lease_expiry}` | `claim_job`, `renew_lease`, `recycle_lease`, deletions: one rename or delete each | every handler and cron |
| Device-facing handlers (`pipette-httpapi/src/client`) | one clock reading and one located key per request | claim, heartbeat, reclaim, submission, profile PATCH | each other, maintenance |
| Queue maintenance (`pipette-pipeline/src/queue_maintenance.rs`) | lost-lease and denial markers, `eligible/` markers, `pending-reindex` flags | settle lapsed leases, retire, escalate, rebuild, sweep | handlers |
| Submission records and score queue (`submission.rs`, `score.rs`) | `incoming/`, `score-queue/{to_do,parked,to_finalize,failures}`, `processed/` | record, score, stage, finalize, park, probe | `process-submissions`, `score-eval`, maintenance, clients |
| Storage locks (`pipette-store-init/src/storage_lock.rs`) | one lock object with a token and an expiry | acquire, take over, release, `unlock` | every batch command |
| Outcome index (`pipette-store-sql/src/submissions.rs`) | one row per job, a generation and a pending mark | invalidate, publish, put back, repair | record writers, the crons that move bodies, the repair pass |
| Eligible index (`queue_maintenance.rs`) | `eligible/` markers, the keys and workers indexed so far, `pending-reindex-jobs/`, staged orphans | index, re-date, rebuild, settle, sweep | claims, updates, approvals, the ends of leases |
| Plans (`plan_ingestion.rs`, `plan_maintenance.rs`) | manifests, content keys, membership and cancel markers | ingest, join, cancel, tear down, reconcile, GC | ingests, clients, maintenance |
| Campaigns, clients, vault, catalog, users, audit | records | compare-and-swap writes | operators |

What makes it hard: a job is a single entry that a rename moves, and keys carry
whole seconds, so a renewal in the second of its grant keeps its key; every
handler works from one clock reading and one listing, both stale by the time it
acts; any process may die between two calls; teardown after a submission is best
effort; crons decide from several listings taken at different times.

What correctness means: no client holds two jobs; no job disappears without a
record; a finished job is not handed out again; maintenance never takes a live
lease; a job nobody can finish is retired; a profile change leaves no lease
granted against the old profile; a submitted body is never lost on its way
through the score queue; one batch command mutates storage at a time; a waiting job
is offered to exactly the clients it matches; the outcome a run is listed with is
that of its last body; a plan keeps the job it shares until the job is recorded, and
a cancel is not forgotten.

## 2. The modules

Every call on a store is one step, so another process may run between any two
calls of a handler. A handler's locals (its clock reading, the key it located,
the listing it walks) are state of the model, because they are stale when used.

| Module | What it is |
|---|---|
| `LeaseQueue` | queue entries, device-facing handlers, one maintenance run |
| `JobLife` | the abstract life of a job, which `LeaseQueue` implements |
| `EligibleIndex` | the markers that offer jobs to clients, and the passes that keep them |
| `PlanLifecycle` | plans that share a job: ingestion, cancel, teardown, reconciliation |
| `SubmissionPipeline` | the places of a submitted body, the two crons, the lookups |
| `OutcomeIndex` | the SQL outcome row of a job, its writers and its repair |
| `StorageLock` | the S3 lock object and the commands that acquire, release or unlock it |
| `RenameStore` | the S3 renames of one entry, with retries, lost answers and late attempts |
| `AtomicEntry` | the abstract contract of those renames, which the queue modules assume |
| `MCLeaseQueue`, `MCEligibleIndex`, ... | model values, small constants and symmetry for TLC |
| `LeaseQueueProofs`, `LeaseQueueMaintenance` | theorems about `LeaseQueue`; the second about its maintenance runs |
| `EligibleIndexProofs`, `PlanLifecycleProofs`, `SubmissionPipelineProofs`, `OutcomeIndexProofs`, `StorageLockProofs`, `RenameStoreProofs` | theorems about the others |

How they fit. Every module takes a rename of the queue to be one atomic step;
`RenameStore` implements `AtomicEntry`, which says that of the S3 store, and says what
an answer promises. `LeaseQueue` and `EligibleIndex` both have claims, profile updates
and maintenance runs: the first looks at leases and records, with the index of a
client rebuilt in one step; the second at the index, key by key, with a lease that may
end at any time. `PlanLifecycle` keeps of the queue where a job is and who lists it.
`OutcomeIndex` keeps of `SubmissionPipeline` the moves of one body.

### LeaseQueue

`entry[j]` is the job's single `todo/` key: `avail`, `leased` to a client until a
whole second, or gone. `record[j]` says who wrote its submission record; `lost`,
`denied`, `suspended` are the marker objects; `flags`, `profile` and `eligible`
are what a profile update and the rebuild of the eligible index share. `req[p]`
holds the locals of each request slot and of the maintenance run.

| Code | Actions |
|---|---|
| `claim` (`plans.rs`) | `Start`, `ReadSuspension`, `ReadGate`, `ClaimList`, `ReadHeld`, `HeldGate`, `HandBack` (an idempotent claim), `Candidates`, `Pick`, `ClaimJob`, `Regate`, `SecondLease`, `Suspend`, `VaultCheck`, `Deny` |
| heartbeat, reclaim, claim-bound submission | `CheckReach`, `BindClaim`, `VerifyClaim`, `RenewLease`, `RecordSubmission` |
| `teardown_completed_job` | `TeardownLocate`, `TeardownLease`, `TeardownAvail`, `TeardownError` |
| `resolve_or_recycle_lease`, `handle_retriable_failure` | `OwnLease`, `ResolveLease`, `DropEntry`, `RecycleLease` |
| `update_own_client` | `FlagBefore`, `RelinquishList`, `NextLease`, `RecheckRecord`, `DropRecycled`, `ReplaceClient`, `FlagAfter` |
| `queue-maintenance` | `StartMaintenance`, `SettleList` … `LostBody`, `TerminalHasRecord`, `RecordSystemFailure`, `ListAvail` … `EscalateAllDenied`, `ListFlags` … `DeleteFlags` |
| operator, clock, death | `Unsuspend`, `Tick`, `Crash` |

Abstractions. A listing is one step. `Match` gives the jobs a profile is eligible
for. A rebuild writes all markers of a client at once; the deferral of jobs that are
leased during it, and re-dating with the retry of a claim at a job's current key, are
`EligibleIndex`'s. Unmatchable and
unrecordable bodies, held submissions and the cancelling of plans are left out.
`HasRecord` is one step here; its five probes are `SubmissionPipeline`'s subject.
`checked` is a history variable: the last rename of the lease passed the
one-lease check.

`JobLife` is what all this amounts to for one job: `Open`, `Held` by a client, or
`Left`, with `Take`, `GiveBack`, `Finish` and `Leave`. The mapping (`Place`, `Finished`)
keeps of an entry its prefix and its client, so a renewal is a stutter. It speaks of
jobs that no plan takes down: a teardown deletes unrecorded jobs and may restore them,
which is `PlanLifecycle`'s subject.

### StorageLock

`lock` is the object: a token and the ticks its lease has left (only the time left
matters, so there is no clock). The token stands for the ETag, because every write
has a fresh token. `Acquire`, `Create`, `ReadLock`, `CheckExpiry`, `Swap` and
`NextRound` are `acquire_s3`; `Finish`, `Release`, `DeleteLock` are the end of
`run_locked` with `release_s3`; `Unlock` and `UnlockRead` are `unlock_s3`, whose
delete is `DeleteLock` as well. A PUT whose answer is lost leaves what a process
that dies right after it leaves, so `Crash` covers it. A lock that cannot be parsed
(the branches at `storage_lock.rs`, 304-309 and 430-436) is not in the model: no code
of the repository writes one, and a PUT is whole or not at all. `orderly` is a history
variable: no run has outlived its lease, and no `unlock` has cleared a live one.
The first is what the configuration's comment asks of the operator, to set the
lease above the longest run (`pipette-core/src/config.rs`, 200-207); what happens
otherwise is part of the model. The local lock is a kernel `flock` and is not
modelled.

### SubmissionPipeline

`at[place][job]` is the body in `incoming`, `to_do`, `parked`, `to_finalize` or
`processed`; `failures` the attempt count; `warehouse` the bodies whose rows are
written. `mover` holds the locals of the two crons, which hold different locks and
therefore run at the same time.

| Code | Actions |
|---|---|
| `run_process_submissions`, `score_chunk`, `read_and_score` | `StartProcess`, `ReadAndScore`, `RouteEval`, `DeleteRouted` |
| `commit_chunk`, `mark_processed` | `CommitChunk`, `WriteRows`, `RowsWritten`, `MarkRead`, `MarkPut`, `MarkDelete`, `ListScored` |
| `finalize_scored_evals`, `finalize_one` | `FinalizeRead`, `FinalRows`, `Archive`, `Dequeue` |
| `run_score_eval`, `score_eval_one` | `StartScoreEval`, `CheckStaged`, `ReadToDo`, `CallScore`, `Stage`, `Dequeue` |
| `record_failed_attempt`, `clear_failed_attempts` | `ReadAttempts`, `WriteAttempts`, `ReadStage`, `Park`, `Unstage`, `ClearFailedAttempts` |
| `has_record`, `find_outcome`, `resolve_job_terminal` | `StartLookup`, `Probe`, `EndLookup`, `RecordSystemFailure` |
| client, failures | `RecordSubmission`, `StoreError`, `Crash` |

Abstractions. A listing fits in one chunk, and chunks are independent of each
other. The read of one submission (`incoming/`, then `processed/`) is one step:
the only command that moves a body between the two is the reader itself. A body
is a model value: an eval or not, with a day partition that is open or closed, or a
failure whose type intends no metric, which `commit_chunk` defers by itself
(`Rowless`). A client may supersede its body at any time. Left out: `find_job` (in
`OutcomeIndex`), held and unverified submissions (`write_submission_record` files them
elsewhere), runtime output, `requeue-eval`, and the operator's retry of a parked eval.
`was` (a record was there when the lookup began) and `back` (one was parked from
`to_finalize` since) are history.

### EligibleIndex

`entry[j]` is the job's key with its deadline; `eligible` the markers, each under the
deadline it was written for; `indexed`, `seen` and `candidates` the three files a run
leaves for the next one; `flags` and `jobFlags` what is owed a rebuild. `run` holds
what the run has listed and read so far.

| Code | Actions |
|---|---|
| promotion, clock, end of a lease | `Promote`, `Tick`, `EndLease` |
| `claim`, `claim_at_current_key`, `revert_claim_if_void` | `ListEligible`, `TakeMarker`, `ClaimAtCurrentKey`, `TakeCurrent`, `Regate` |
| `update_own_client`; approval, grant, revocation | `FlagBefore`, `RelinquishClientLeases`, `ReplaceClient`, `FlagAfter`; `ChangeWorkers` |
| `run`: start and listings | `StartRun`, `ListRecycled`, `ListAvail`, `ListLeased` |
| `settle_overdue_job`, `retire_unmatchable_jobs` | `SettleOverdueJob` (`RedateAvail`, `ExpireOneJob`), `FlagRedated`, `ReadBodies` |
| `track_worker_changes`, `index_new_jobs` | `TrackWorkerChanges`, `IndexJob`, `WriteEligibleIndexed` |
| `reindex_flagged_clients` | `ListPendingReindex`, `DeleteEligibleForClient`, `RebuildKey`, `RecheckClient`, `DeletePendingReindex`, `WriteEligibleWorkers` |
| `settle_pending_reindex_jobs` | `ListPendingReindexJobs`, `SettlePendingJob`, `DeletePendingReindexJob` |
| `reconcile_orphans` | `ReconcileOrphans`, `WriteGcCandidates` |
| death or store error | `Crash` |

Abstractions. The markers of one job are written or swept in one step, since only a
run writes them and runs hold a lock. A plan's jobs appear when the plan leaves
`creating`, because until then a run withholds them from every index pass. The body
cache of a run is kept (`bodies`), because it is why a job claimed during the run is
still indexed. A re-date goes to any deadline up to `MaxTime`, which stands for
whatever horizon a member plan holds. A claim lives no longer than two runs (the
scheduler's minute is longer than a request). Left out: deleted clients, the other
trees that `reconcile_orphans` sweeps the same way, `flag-reindex`.

`overlooked` is a history variable: the pairs of client and job that one of four named
gaps (section 4) has lost sight of.

### OutcomeIndex

One job. `body[place]` is the outcome of the body there; `row`, `gen` and `mark` are
its row, generation and pending mark in SQL. `writer` holds the writes under way,
`repair` the repair pass. A SQL transaction is one step; the object store is not part
of it.

| Code | Actions |
|---|---|
| `invalidate`, `replace`, `write_incoming_new` | `Invalidate`, `WriteBody`, `FailWrite` |
| `finalize_one`: `write_processed`, which replaces and so invalidates and publishes, then `dequeue` | `Finalize`, `WriteBody`, `FailWrite`, `Publish`, `Dequeue` |
| `publish` as writer, `put_back` | `Publish`, `PutBack` |
| a transaction whose answer is lost and that `retry` runs again | `LoseAnswer` |
| a process that dies, a request served after it | `Die`, `LandLate` |
| the moves that leave the index alone | `MarkProcessed`, `Enqueue`, `Score`, `Park` |
| the operator's retry (`docs/storage.md`, 1296-1298) | `Unpark` |
| `repair_outcomes_with`: page, `find_job`, `has_record`, `defer`, `publish` | `RepairPage`, `FindJob`, `HasRecord`, `FailRead`, `Defer`, `RepairPublish`, `FailRepair` |

Abstractions. A move other than finalizing is one step: its two calls and what may come
between them are `SubmissionPipeline`'s subject. `finalize_one` reads the body and
invalidates in one step; `process-submissions` holds its lock (`CronFree`), and a body
parked or staged again in between changes nothing that the write looks at. The minimal age of a repair is left out, because
nothing may rest on it. `slipped` is a history variable, set where the index loses
sight of the body written last; section 4 lists how.

### RenameStore and AtomicEntry

`objects` are the keys that hold the job's body; `call[i]` is one call of
`promote_avail`, `claim_job`, `renew_lease`, `recycle_lease` or `redate_avail`, from
`Begin` over `Send`, `Serve`, `Retry`, `GiveUp`, `ReadBack` to its answer. An attempt
that was given up may be served at once, later, repeatedly (a retry is another attempt)
or never (`ServeLate`). The endpoint moves, copies, loses or refuses; `Probe` is
`validate_backend`. The caller takes any key it may have listed before, so its source
may be gone by the time it sends. `DeleteKey` is a teardown at any moment. A leased key
names the call that made it; two leases of the same client and second would share one,
which only makes their objects fewer.

`AtomicEntry` is the promise: the entry is one object or none; a call takes effect in
one step (`Take`, perhaps after its answer); moved is answered only by a call that took
effect or found the entry at its destination; gone only by a call that found its source
gone and the destination empty; an error promises nothing. The refinement mapping shows
a call by what it has heard (`StateOf`).

### PlanLifecycle

Plans of one shared cell. A plan mints the job named after it, or joins the job the
content key names. `status` and `job` are the manifests, `members` and `cancels` the
markers, `key` the content-key record, `avail` and `leases` the queue with a fresh key
per lease, `run` what a maintenance run has listed.

| Code | Actions |
|---|---|
| `place`, `claim`, `resolve`, `try_join`, `replace_stale` | `Place`, `ClaimKey`, `OfficialState`, `WriteMarker`, `TargetSurvives`, `DropMarker`, `ReplaceStale` |
| `ingest_prepared` | `PutCreating`, `Stage`, `Promote`, `PutActive` |
| `request_cancel` | `RequestCancel` |
| clients | `Claim`, `Heartbeat`, `GiveBack`, `Submit`, `Finish` |
| `run`: listings and recycle | `ListCancelMarkers`, `ListManifests`, `ListForRecycle`, `SettleLease`, `ListAvail`, `ListLeased`, `ListMembers` |
| `end_membership`, `retire_job` | `DropMembership`, `ReadBody`, `DeleteAvail`, `DeleteLeases`, `ListJoiners`, `Restore` |
| `reconcile_one_plan`, `gc_plan_index` | `Reconcile`, `CollectMarker`, `GcPlanIndex` |
| time and failures | `Ages`, `IngestDies`, `RunFails` |

Abstractions. Deadlines never lapse, so member lapses and the carried, satisfied,
re-run and opted-out placements are left out; `pending_clients` is `active`. Any
waiting job may be claimed, which over-approximates the withholding of jobs whose plans
are all still `creating`. The age gate falls between runs, because it is long against
one. `lost` and `missed` are history variables (see the properties), and an ingest
that outlives the age gate makes its plan `slow`: the code assumes there is none.

## 3. What is checked

Passing runs; each property has a mutant in `PROJECT.json`, a plausible slip in the
mapped code that makes TLC find the property violated.

| Run | Properties | Instance and why it is enough |
|---|---|---|
| `one_lease` | `TypeOK`, `OneLiveLease`, `StaleIndexIsFlagged`, `StandingFlagCleansUp` | one client, two jobs, two requests at a time, one-second leases, two flags: requests arrive within a second, as many as fit, and their leases may lapse under them; grants, renewals, profile updates and rebuilds all interleave |
| `finish` | `NoJobLost`, `MaintenanceKeepsLiveLeases`, `FinishedStaysFinished`, `LostLimitRetires` | one client, one job, two requests at a time, one profile update: a late submission meets the recycling of a lapsed lease, a grant made after it, and an update's relinquish; limit 2, reached through both writers of lost markers |
| `settle` | `DeadlineSettles`, `RecordedLeaves` | one request at a time, one crash, a limit of one loss, one-second leases; clients go on for ever, so a lease may be renewed past the deadline or left to lapse at any point |
| `exhaust` | `ExhaustedSettles`, `ImplementsJobLife` | a closed roster of two, one of them out of the vault's reach; one crash; two clients that go on for ever, so that a job can change hands |
| `locks` | `TypeOK`, `MutualExclusion`, `NoLiveTakeover`, `StaleLockGoes` | two processes and one death: the one that died comes back and races the other for the stale lock; two rounds of the acquire loop |
| `drain` | `TypeOK`, `MissedOnlyByParking`, `ArchivedHasRows`, `NoRecordLost`, `Drains` | one job, all kinds of body, retirements at any time, and three submissions and faults of any kind: a body that is resubmitted while its predecessor is scored, staged or marked with a fault on top, or two faults, which park a body (limit 2). What the two crons share is per job; `TypeOK`, `MissedOnlyByParking`, `ArchivedHasRows` and `NoRecordLost` are proved for any number of jobs, and for `has_record` and `find_outcome` too |
| `index` | `TypeOK`, `WrongIsOwed`, `Converges`, `OrphansGo` | one client that matches or not, one job, two deadlines, two disturbances (claims, updates, worker changes, crashes) at any moment of a run: a wrong marker concerns one pair of client and job, and two pairs meet only in loops the model takes in any order |
| `outcome` | `TypeOK`, `RowIsLatest`, `Repaired` | any number of finalizings, one parking, and two writes and faults: two writes of either kind, a write and a fault, or two faults of a finalizer; enough for a writer to overtake a writer and for a repair to read between them |
| `rename` | `TypeOK`, `OneObject`, `IsAtomic`, `Answered` | three calls of any kind and two deadlines: two that race and a third that moves the entry on under a late attempt |
| `plans` | `TypeOK`, `HeldJobKept`, `CompleteIsFinished`, `CancelStands` | a filed plan, or none, and an ingest that joins it; both may be cancelled; two events out of leases and faults |

Bounds. `MaxTime`, `LastStart`, `MaxFlags`, `MaxCrashes`, `MaxFaults`, `MaxChurn`,
`MaxSubmits`, `MaxWrites`, `MaxParks` and `MaxEvents` cut behaviours short and appear
only in guards; the action constraints of `drain` and `outcome` bound sums of them.
In `settle` and `exhaust` requests start until the clock's last second (`LastStart =
MaxTime`) and go on without end in that second. In the two runs without liveness the
clock goes on after `LastStart`, so that every lease can lapse. The attempt
limit is 2 in the runs and 12 in the code, because its parts are "below" and
"reached". Two jobs and two requests suffice for the queue's hazards, which are
races of two; where three matter it is said below. Symmetry is used on request
slots, only in runs without liveness; `outcome` has liveness and breaks the symmetry
of its two writers instead: a write begins in the first one when both are idle. What is
proved does not depend on bounds. In `plans` one ingest is watched, so the branch of
`ClaimKey` in which a second ingest created the key first is not taken.

Deadlock is checked in the other runs, whose crons can always be started again. It is
not in `outcome`, `rename` and the plan runs: once the writes are settled, the calls
answered, or both plans latched and a job left behind, nothing more need happen.

Fairness. The clock runs; the scheduler starts each cron again and again; a
handler or run that nothing cuts short takes its next step; every S3 request of the
queue has a time limit (`queue_timeouts`), so `Answered` needs no fairness of the
endpoint. Nothing is assumed of clients: they may fall silent or go on for ever. The
code lets a client renew its lease without end, past the job's deadline too
(`docs/queue.md`, 211-214 and 383-387), so `DeadlineSettles`, `ExhaustedSettles` and
`RecordedLeaves` say what happens to a job that is not `Held`, on a lease that has not
lapsed. A crash is never fair, and faults are bounded, so `Drains` says that
records drain once faults stop, and `Converges` and `OrphansGo` that the index is right
once claims, updates and crashes stop. The basis is the cron schedule
(`docs/architecture.md`, 15-18) and the fact that no handler waits for another.

Timing. `MaxStall` bounds the ticks that fall inside one request. `finish` needs a
request to take no more than half a lease (`LeaseSecs = 2`, `MaxStall = 1`): a
submission that stalls for a whole lease after its renewal is one whose renewal has
lapsed. The other runs do not need it. The theorems state it as
`BriefRequests`, twice `MaxStall` is at most the shortest lease: with the default lease
of 300 seconds no request runs for 150. Single calls have time limits; nothing in the
code limits a whole request, so this stays a hypothesis about the deployment.

## 4. Where code and text disagree

Two runs are ones in which TLC must find a violation; the quoted lines are in
`PROJECT.json`.

`plan_complete` (`CompleteMeansDone`). A maintenance run builds its live set from three listings: `leased/` at
the recycle, `avail/`, `leased/` again. A job claimed after the first and given back
between the other two (a claim that is reverted, a profile update that relinquishes)
is in none of them, and its plan is latched `complete`. The listing comment promises
that a plan past `creating` "cannot miss its jobs and latch `complete`". Markers survive
such a miss because the sweep wants a second sighting; the latch wants one and is final.

`lookups` (`HasRecordFinds`). An eval whose finalizing keeps failing is parked:
`record_failed_attempt` writes it to `parked/` and then deletes it from `to_finalize/`.
`has_record` probes `parked/` before `to_finalize/`, so a lookup that has passed the
first before the write and reaches the second after the delete answers that there is no
record. The trait's comment (`pipette-store/src/lib.rs`, 833-836) gives the order of the
probes as the order a record moves in, "so a moving record is still found", and adds that
a `false` gets a job recycled. `MissedOnlyByParking` says that nothing else is missed.

Behaviours the models reach and the properties leave out by name.

Eligible index. `WrongIsOwed` and `Converges` except the pairs in `overlooked`:

- A run that dies between deleting the partition of a client that left the workers and
  writing the workers: if the client is back by the next run it is neither a leaver nor
  a joiner, and has no markers. `docs/queue.md` (82-83) says a change of the workers
  reaches the index within one cron interval.
- A run that dies between a re-date and its flag: the comment at
  `queue_maintenance.rs` (810-811) calls the flag the backstop for such a run. The
  next run indexes the new key, unless a claim in flight took the job under it first
  (`claim_at_current_key`): that run then keeps the leased key as indexed, without
  markers.
- A rebuild that runs while the job is in neither listing: the client's partition is
  rewritten without it and nothing is owed (`docs/queue.md`, 84).
- Two runs in a row that miss the job: the sweep deletes its markers at the second
  sighting (`docs/queue.md`, 276-278). The flag of a job goes the same way, and with it
  what was owed to every client; that takes more disturbances than `index` has, and came
  up in the proof.

A client that is no worker may keep dead markers after a run that died; `claim` refuses
it, so they do no harm.

Outcome index. `RowIsLatest` excepts what `slipped` marks:

- a body that lands after its writer's end (`docs/storage.md`, 4.3);
- a writer that ends unpublished while another writer or a repair may still settle;
- a create that failed though its body landed, whose `put_back` restores the old row;
  the comment at `submissions.rs` (170-171) has it run "after a create that wrote no body";
- an archived body that `find_job` reads ahead of a newer one in the score queue;
- an older body that is finalized, and published, after a newer one was written;
- a body parked from `to_finalize`, or un-parked, while `has_record` confirms its
  absence. `docs/storage.md` (1450) says a job with no row and no pending marker has no
  record.

`docs/storage.md` (1468-1470) says that a move of a record, `processed/` included,
"leaves the row and the pending marker as they are". The move of `finalize_one` does
not: it goes through `write_processed`, which on SQL marks the job pending, deletes its
row and publishes it again, so a finalizer that dies in between leaves a job that was
settled to the repair pass.

Leases and profile updates. `StandingFlagCleansUp` speaks of updates whose first flag
still stands. A rebuild that runs inside the update finds the record unchanged and
consumes that flag; a lease can then be granted unseen by both sides, though the comment
at `client/plans.rs` (77-78) says that exactly one party cleans up.

Submissions.

- `read_and_score` deletes the `incoming/` key after it copied the body it read; a body
  resubmitted in between exists nowhere, though `docs/queue.md` (269-270) says a
  resubmission supersedes.
- `mark_processed` reads `incoming/` again, so a body resubmitted after its
  predecessor was scored is archived without rows: the exception `ArchivedHasRows` names.
- A recorded failure whose type intends no metric stays in `incoming/` and is deferred by
  every run, loudly: the exception `Drains` names.
- A synthetic failure is exclusive in `incoming/` only. When a client's body lands
  after the check and moves on before the write, the failure is filed over it.
- After a death between staging and dequeueing, a finalize removes the entry that
  lets `score-eval` skip the call, and the eval is scored twice.
- One cron may clear the `failures/` entry of an eval that the other has parked.

Plans.

- A teardown that fails or dies after deleting a shared job and before restoring it, or
  whose copy of the body was gone, leaves a joiner without its job (`lost`; documented
  in `docs/plan-ingestion.md`, 834-838).
- A claim between the teardown's read of the body and its delete, with a joiner, leaves
  the job leased and restored to `avail/` at once.
- An ingest that outlives `plan_creating_max_age` can write over a cancel latch whose
  marker is gone (`slow`; a documented assumption).
- `docs/plan-ingestion.md` (1189) says no pass revisits a cancelled plan's jobs;
  `teardown_cause` does.

Renames and locks.

- An attempt served after its call has answered can leave a lease its client does not
  know of; it lapses and is recycled. A promotion may answer an error though its entry
  landed and was claimed: the ingest stops and its plan stays `creating`.
- `claim_job` notes that nothing can move a fresh lease before its body is read; a
  teardown can delete it, and the claim then answers an error.
- `release` and `unlock` read, compare and then delete unconditionally. A takeover
  in between loses its lock. `release` needs a run that outlives its lease.
- A failed vault check puts a lease back at the key it was granted with. A
  submission of the same second renewed it to the same key and may have been
  recorded since, so the finished job is in `avail/` again and may be handed out.
- A claim in flight when the deadline passes may take an entry that a maintenance
  run has already found overdue, and its holder may then renew it for ever; the second
  part of `DeadlineSettles` therefore waits for the requests begun before the deadline.

Most need a narrow window, and some are documented trade-offs of the design.

## 5. What is proved

The theorems hold for every number of clients, jobs, requests and processes and
for every value of the bounds, from the named assumptions of each module (positive
durations, distinct names, plans that are numbered, constants of the right type) and
nothing else unless stated. The inductive invariants of `EligibleIndex`,
`PlanLifecycle` and of the flags and the settling of `LeaseQueue` were checked by TLC on small instances
before they were proved.

| Theorem | States | Argument |
|---|---|---|
| `TypeCorrect` | `TypeOK` of `LeaseQueue` | one lemma per group of actions; `LeaseExpiry` is the only arithmetic |
| `Invariant` | `IInv` of `LeaseQueue` | below |
| `OneLeasePerClient` | `OneLiveLease` | from `IInv` |
| `JobsSurvive` | `NoJobLost` | from `IInv` |
| `JobsLiveOnce` | `ImplementsJobLife`: `LeaseQueue` implements `JobLife` | step simulation, from `OneWrite` and `IInv` |
| `LiveLeasesKept` | `MaintenanceKeepsLiveLeases` | from `CronSound` |
| `LimitRetires` | `LostLimitRetires`, if `BriefRequests` | from `IInv` and `SettleInv` |
| `FinishedStays` | `FinishedStaysFinished`, if `BriefRequests` | from `IInv` and `SettleInv` |
| `StaleIsFlagged` | `StaleIndexIsFlagged`, if `UpdatesFinish` | from `FlagInv` |
| `LockTypes`, `TakeoverOnlyWhenStale` | `TypeOK`, `NoLiveTakeover` of `StorageLock` | from `Fresh` |
| `LockExcludes` | `MutualExclusion` | from `Fresh` and `orderly => Held` |
| `RecordsAreKept` | `NoRecordLost` | from `Copied` |
| `Typed` | `TypeOK` of `SubmissionPipeline` | from `AInv` |
| `RowsBeforeArchive` | `ArchivedHasRows` | from `AInv` |
| `LookupsFind` | `MissedOnlyByParking` | from `AInv` |
| `IndexTyped`, `WrongsAreOwed` | `TypeOK`, `WrongIsOwed` of `EligibleIndex` | from `EInv` |
| `PlansTyped`, `JobsKept`, `CompletesFinished` | `TypeOK`, `HeldJobKept`, `CompleteIsFinished` of `PlanLifecycle` | from `PInv` |
| `CancelsStand` | `CancelStands` | from `PInv` |
| `OutcomeTypes`, `SettledRowIsLatest` | `TypeOK`, `RowIsLatest` of `OutcomeIndex` | from `WriterKnows` and `RepairKnows` |
| `RenameTypes`, `OneKey` | `TypeOK`, `OneObject` of `RenameStore` | from `OpenedMoves` |
| `RenamesAreAtomic` | `IsAtomic`: `RenameStore` implements `AtomicEntry` | step simulation, from `Knows` |

- `NoJobLost` is not inductive: a handler about to delete an entry must know that
  the record exists. `Sound` says so for every label in `Deleting`, and records are
  never taken back in that model. `OneLiveLease` needs that no handler's clock
  reading is ahead of the clock: the check after a rename compares with that
  reading, and a lease it took for dead is dead now.
- `JobsLiveOnce` maps an entry to where it is and whose it is, and forgets the key, the
  expiry, the markers and the handlers. `OneWrite` says that a step renames one entry or
  writes one record and never both, and under which guard; a renewal is a stutter. The
  deletion of an entry is a `Leave` because `NoJobLost` holds after the step, and a record
  written for a deleted entry is a stutter because `NoJobLost` held before it.
- `CronSound` says that every lease the run still means to settle had a key below
  the run's clock reading. A renewal changes the key, and the recycle names it.
- `SettleInv` says that a maintenance run settles a lease on facts that are still true.
  Between its count (or its record check) and its recycle, other requests run. While the
  lease is at its listed key, `Timely` keeps them from changing the answer: a request
  about to record a result has renewed the lease since its clock reading, and one about to
  count a loss saw this very lease, whose marker is already there, or a renewed one. A
  renewed lease outlasts the clock when requests are brief (`BriefRequests`), and the
  run's key is below its own clock reading, so the recycle misses it; and a rename never
  restores a key that has lapsed (`LapsedStays`). A count below the limit needs the markers
  to be finite (`LossesFinite`).
- `Fresh` says what tokens tell apart: a token belongs to one run and is on the
  lock only after that run wrote it, and a process about to swap read an expired
  lock or will lose. `Held` adds that a holder's own lock is still there with as
  much time as the holder counts; it is invariant as long as all is `orderly`.
- `Copied` says that a cron about to delete a body has left a copy in a later
  place, or that whoever removed that copy has left one later still. The order is
  incoming, to_do, to_finalize, then parked or processed. It is not enough to say
  "the copy is in the next place": the other cron may have moved it on.
- `FlagInv` adds to `StaleIndexIsFlagged` what a rebuild under way knows: the record it
  works from is current, or there is, or will be, a flag that it did not list, and it
  consumes only the flags it listed. `UpdatesFinish` says that no update dies between
  replacing the record and writing its second flag. It is needed: a rebuild inside the
  update may have consumed the first flag. The code names this gap, and `one_lease`
  meets the hypothesis because it has no crashes.
- `AInv` joins two facts to `Copied`, neither of which has a hypothesis. `Filing` says
  what `process-submissions` has written to the warehouse: between its rows and the end of
  its marking, the rows of every job it scored and commits, and before it archives a
  finalized body, that body's. A client that supersedes a body under it changes what
  `mark_processed` reads and not what was written, hence the exception in
  `ArchivedHasRows`. `Seeking` says that a lookup which began with a record and has not
  seen one parked from `to_finalize` still has a place ahead of it that holds one
  (`Ahead`); for each move this needs its copy, from `Copied`, to be in a place probed
  later, and parking from `to_finalize` is the one move for which it is not.
- `EInv` says why nothing is forgotten. A marker that should not be there belongs to a
  flagged client (`NoneWrong`): the flag of a job adds markers and removes none. A
  marker that is missing, of a client the rebuilds answer for, is that of a flagged
  client or job, of a job past its deadline, of an overlooked pair, or of a job no run
  has offered yet and nobody can have claimed (`NoneMissing`, `Fresh`). The rest says
  what a run may rely on in the middle: the keys it listed still have their deadlines or
  their job is late (`Listings`), a key it is about to record as indexed has been
  offered (`Indexing`), the records it read are current or flagged anew (`Records`),
  the client being rebuilt still has its flag, and the leased jobs have theirs
  (`Rebuild`), and a job's flag goes only when its markers are there (`Settle`). `Excused`
  names the two steps at which a death loses sight of a pair; `Crash` marks exactly these
  as overlooked, so the invariant holds after a death at any step.
- `PInv` follows one plan and one run. A plan that settled on a job wrote its marker
  before it looked whether the job is there, and a teardown deletes a job only when it
  saw no marker but its own and lists the joiners again afterwards: `Kept`. A plan without
  its marker is being cancelled, and the run under way knows (`Bound`). A latch that an
  ingest may still write over keeps its cancel marker (`Undone`). A run decides from a
  copy of the statuses, and `Sane` and `RunSane` say what of that copy still holds.
  The plans are numbered because a run takes them in order.

- `RowIsLatest` needs to know what those who may still settle the job know. A writer at
  the present generation would publish the latest outcome, or another write has landed
  and will reopen the repair (`WriterKnows`). A repair at the present generation has
  read the latest outcome, or nothing has come up in the places it has passed
  (`RepairKnows`), which rests on where the latest body can be (`BodyKept`) and on every
  write having a generation of its own (`Generations`). A finalizer takes a generation
  like any writer; what it publishes is in `processed/` by then and is the latest body
  unless something slipped (`Archiving`).
- `OneObject` holds because only an endpoint that moves is opened, and a move of a set
  of one leaves a set of one. For `RenamesAreAtomic` every action has a lemma that its
  step is one of `AtomicEntry` or leaves the view unchanged; `Knows` ties what a caller
  has heard to where it stands, so that no answer is given from a stale hearing.

Only model-checked: the liveness properties (`DeadlineSettles`, `ExhaustedSettles`,
`RecordedLeaves`, `StaleLockGoes`, `Drains`, `Converges`, `OrphansGo`, `Repaired`,
`Answered`), which are out of the prover's reach; and `StandingFlagCleansUp`, which
holds for two requests of a client at once and not for three (section 6). Every other
property that a passing run checks is proved.

## 6. Known limits and what is not modelled

- With three requests of one client at once, a heartbeat of the job being granted
  can keep a lease past a profile update; `StandingFlagCleansUp` is checked for two.
- `StaleIndexIsFlagged` allows no crash between the record and the second flag; the
  code names that gap and leaves it to `flag-reindex`.
- A client that reports a retriable failure and a success of one run at once races
  itself, and no property speaks of it.
- What a client holds is left out of the queue's liveness properties, because the code
  lets it hold a job for ever (section 3).
- `drain` has one job; that one job of a chunk does not hold up another is in the proofs
  for the safety properties, and is not checked for `Drains`.
- `index` has one client and one job; with two of either the liveness properties are
  out of reach of an exhaustive run.
- `plans` has no liveness property: that a cancelled plan is latched in the end would
  need runs without end against a bounded number of events.

Coarser than the code, by choice:

- `LeaseQueue`. A candidate whose marker names an old key is skipped; the retry at the
  current key is `EligibleIndex`'s. `RenewLease` has the listing, the rename and the second
  sweep of `renew_lease` as one step: a renewal that loses its key to another renewal of
  the same client in between answers "not found" in the code, and renews once more in the
  model. `RecheckRecord` asks `HasRecord` where `delete_recycled_entry_if_recorded` calls
  `find_job`, which can miss a record on its way from the score queue to `processed/`; the
  record this check is for has just landed in `incoming/`, its first probe. A store error
  at one item of a maintenance run ends the run (`Crash`), where the code skips the item
  and goes on: items do not depend on each other, and the next run lists again.
- `EligibleIndex`. The same holds of a flag that cannot be written after a re-date
  (`FlagRedated`, `Crash`). `TrackWorkerChanges` reads the records and the permissions and
  deletes the partitions of the leavers in one step; a change between the two reads counts
  as one after both.
- `PlanLifecycle`. `OfficialState` has the cached and the fresh listing of `leased/` as
  one read (a join from a stale one is undone by the check after the marker) and tells the
  age when it decides, not when the ingest began. `RequestCancel` reads the manifest and
  writes the marker at once. `GcPlanIndex` has the content-key arm and not the marker arm.
  `Retire` takes the job out of the run's listings, where the code keeps them; a second
  doomed plan that still has a marker on the job would have kept it from being retired.

Most of the repository's lines are not protocol, and the mapped share of them is small:
wire types, parsing and validation, the planner's rule tables, SQL and S3 plumbing,
HTTP handlers around one store call, command-line printing, OpenAPI, and the tests that
live in the same files. What a model checker can explore is the order of store calls
that several actors share, and the modules above cover the places where that order
carries the correctness of a job's life. Not modelled, component by component, in
`PROJECT.json`; in short:

- pure conversions (planner, matching, wire types, warehouse columns, metrics): no
  state and no interaction, and no second definition in the code to compare with;
- transport, request authentication, audit: one request at a time;
- campaigns, users, roles, catalog, vault uploads: record keeping with one conditional
  write per operation;
- member lapses, carried and re-run placements, starvation and progress snapshots of
  plans; deletion of clients; `requeue-eval`; the local file store.

Natural next steps are member lapses in `PlanLifecycle` and client deletion in
`EligibleIndex`.
