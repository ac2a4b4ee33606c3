---------------------------- MODULE PlanLifecycle ----------------------------
(* Plans that share one cell: ingestion joins the job that runs it or mints a  *)
(* new one, an operator cancels, queue-maintenance tears down and reconciles,  *)
(* clients claim, renew, give back and submit.  The job a plan mints is named  *)
(* after the plan.                                                             *)
EXTENDS Naturals, FiniteSets

CONSTANTS Plans,        \* numbers, in the order of their keys, which is that of their filing
          Ingesting,    \* the plans whose ingestion is watched; the others were filed before
          MaxEvents     \* leases made, and faults: runs and ingests that die, calls that fail

ASSUME PlanAssumption ==
    Plans \subseteq Nat \ {0} /\ Ingesting \subseteq Plans /\ MaxEvents \in Nat

VARIABLES status, job,      \* per plan, its manifest: the status and the one job it lists
          age,              \* "young", "old" past plan_creating_max_age, "slow" if then still ingested
          cancels,          \* cancel markers
          members,          \* membership markers <<job, plan>>
          key, sighted,     \* the content-key record of the cell: the job it names, or 0, and
                            \* "yes" once a run saw it orphaned
          avail, leases,    \* the queue: jobs, and <<job, n>> with n the n-th lease key made
          turn,             \* lease keys made
          records,          \* jobs with a submission record
          ingest, run, faults,
          lost, missed      \* history, see the properties

queue == <<avail, leases, turn, records>>
files == <<status, job, cancels, members, key, sighted>>
history == <<lost, missed>>
vars == <<files, queue, age, ingest, run, faults, history>>

Leased == {l[1] : l \in leases}
Live(j) == j \in avail \/ j \in Leased

\* A run: what it has listed (the queue views for the jobs of ending plans only, the jobs
\* seen live for the rest), the plans to take and what became of the ones it took.
NoRun == [pc |-> "idle", cancels |-> {}, status |-> [p \in Plans |-> "none"], expired |-> {},
          seen |-> {}, avail |-> {}, leases |-> {}, todo |-> {}, plan |-> 0, body |-> "gone",
          released |-> {}, perturbed |-> {}]

\* Of the other plans, one at most was filed: it minted the job of the cell and is active.
Init ==
    \E filed \in SUBSET (Plans \ Ingesting) :
       /\ Cardinality(filed) < 2
       /\ status = [p \in Plans |-> IF p \in filed THEN "active" ELSE "none"]
       /\ job = [p \in Plans |-> IF p \in filed THEN p ELSE 0]
       /\ age = [p \in Plans |-> "young"] /\ cancels = {}
       /\ members = {<<p, p>> : p \in filed} /\ avail = filed
       /\ key = IF filed = {} THEN 0 ELSE CHOOSE p \in filed : TRUE
       /\ sighted = "no" /\ leases = {} /\ turn = 0 /\ records = {}
       /\ ingest = [p \in Plans |-> [pc |-> IF p \in Ingesting THEN "idle" ELSE "done",
                                     target |-> 0, read |-> 0, second |-> "no"]]
       /\ run = NoRun /\ faults = 0
       /\ lost = {} /\ missed = {}

-----------------------------------------------------------------------------
(* Ingestion of a plan with one mergeable cell. *)

Go(p, r) == ingest' = [ingest EXCEPT ![p] = r]
To(p, pc) == Go(p, [ingest[p] EXCEPT !.pc = pc])
Mint(p) == Go(p, [ingest[p] EXCEPT !.pc = "creating", !.target = p, !.read = 0, !.second = "no"])
Join(p, j) == Go(p, [ingest[p] EXCEPT !.pc = "official", !.target = j, !.read = 1])

\* place: read the content key.
Place(p) ==
    /\ ingest[p].pc = "idle"
    /\ IF key = 0 THEN To(p, "claim") ELSE Join(p, key)
    /\ UNCHANGED <<files, queue, age, run, faults, history>>

\* claim: create the content key, or join the job of the ingest that got there first.
ClaimKey(p) ==
    /\ ingest[p].pc = "claim"
    /\ IF key = 0 THEN key' = p /\ Mint(p) ELSE Join(p, key) /\ UNCHANGED key
    /\ UNCHANGED <<status, job, cancels, members, sighted, queue, age, run, faults, history>>

\* official_state: avail/, leased/ (the snapshot and afresh), avail/ again.  A job in none
\* is unborn inside the age gate and its record stale past it (classify_absent).
OfficialState(p) ==
    LET c == ingest[p]
        j == c.target
        hits == <<j \in avail, j \in Leased, j \in avail>>
    IN /\ c.pc = "official"
       /\ IF hits[c.read] THEN Go(p, [c EXCEPT !.pc = "mark", !.read = 0])
          ELSE IF c.read < 3 THEN Go(p, [c EXCEPT !.read = @ + 1])
          ELSE IF age[j] # "young" /\ c.second = "no" THEN Go(p, [c EXCEPT !.pc = "replace", !.read = 0])
          ELSE Mint(p)
       /\ UNCHANGED <<files, queue, age, run, faults, history>>

\* try_join: the membership marker lands before the fresh liveness check.
WriteMarker(p) ==
    /\ ingest[p].pc = "mark"
    /\ members' = members \cup {<<ingest[p].target, p>>}
    /\ Go(p, [ingest[p] EXCEPT !.pc = "survive", !.read = 1])
    /\ UNCHANGED <<status, job, cancels, key, sighted, queue, age, run, faults, history>>

\* target_survives: avail/, leased/, avail/, the record.
TargetSurvives(p) ==
    LET c == ingest[p]
        j == c.target
        hits == <<j \in avail, j \in Leased, j \in avail, j \in records>>
    IN /\ c.pc = "survive"
       /\ IF hits[c.read] THEN Go(p, [c EXCEPT !.pc = "creating", !.read = 0, !.second = "no"])
          ELSE IF c.read < 4 THEN Go(p, [c EXCEPT !.read = @ + 1])
          ELSE Go(p, [c EXCEPT !.pc = "drop", !.read = 0])
       /\ UNCHANGED <<files, queue, age, run, faults, history>>

\* The target vanished: its marker is dropped, best effort, and the digest is stale.
DropMarker(p) ==
    LET c == ingest[p]
    IN /\ c.pc = "drop"
       /\ \/ members' = members \ {<<c.target, p>>} /\ UNCHANGED faults
          \/ turn + faults < MaxEvents /\ faults' = faults + 1 /\ UNCHANGED members
       /\ IF c.second = "no" THEN To(p, "replace") ELSE Mint(p)
       /\ UNCHANGED <<status, job, cancels, key, sighted, queue, age, run, history>>

\* replace_stale: compare and swap; a lost swap tries the new record once.
ReplaceStale(p) ==
    LET c == ingest[p]
    IN /\ c.pc = "replace"
       /\ \/ key = c.target /\ key' = p /\ Mint(p)
          \/ key # c.target /\ UNCHANGED key
             /\ IF key = 0 THEN Mint(p)
                ELSE Go(p, [c EXCEPT !.pc = "official", !.target = key, !.read = 1, !.second = "yes"])
       /\ UNCHANGED <<status, job, cancels, members, sighted, queue, age, run, faults, history>>

\* Mutant of PutCreating: the manifest is filed before the jobs are listed.
PutCreatingEmpty(p) ==
    /\ ingest[p].pc = "creating"
    /\ status' = [status EXCEPT ![p] = "creating"]
    /\ To(p, IF ingest[p].target = p THEN "stage" ELSE "final")
    /\ UNCHANGED <<job, cancels, members, key, sighted, queue, age, run, faults, history>>

\* The creating manifest lists the job before anything is claimable.
PutCreating(p) ==
    /\ ingest[p].pc = "creating"
    /\ status' = [status EXCEPT ![p] = "creating"] /\ job' = [job EXCEPT ![p] = ingest[p].target]
    /\ To(p, IF ingest[p].target = p THEN "stage" ELSE "final")
    /\ UNCHANGED <<cancels, members, key, sighted, queue, age, run, faults, history>>

\* A minted job: the minter's own marker, then write_tmp and promote_avail.
Stage(p) ==
    /\ ingest[p].pc = "stage"
    /\ members' = members \cup {<<p, p>>} /\ To(p, "promote")
    /\ UNCHANGED <<status, job, cancels, key, sighted, queue, age, run, faults, history>>

Promote(p) ==
    /\ ingest[p].pc = "promote"
    /\ avail' = avail \cup {p} /\ To(p, "final")
    /\ UNCHANGED <<files, leases, turn, records, age, run, faults, history>>

\* The final put_plan keeps no latch of the run's.
PutActive(p) ==
    /\ ingest[p].pc = "final"
    /\ status' = [status EXCEPT ![p] = "active"] /\ To(p, "done")
    /\ UNCHANGED <<job, cancels, members, key, sighted, queue, age, run, faults, history>>

\* An ingest that fails or dies stops where it is; before its first write it leaves nothing.
IngestDies(p) ==
    /\ ingest[p].pc \notin {"idle", "claim", "official", "mark", "done", "dead"} /\ turn + faults < MaxEvents
    /\ faults' = faults + 1
    /\ Go(p, [pc |-> "dead", target |-> 0, read |-> 0, second |-> "no"])
    /\ UNCHANGED <<files, queue, age, run, history>>

\* plan_creating_max_age passes; it is long against a run, which reads the clock once.
Ages(p) ==
    /\ age[p] = "young" /\ run.pc = "idle" /\ ingest[p].pc # "idle"
    /\ \A q \in Plans : q < p => age[q] # "young"
    /\ age' = [age EXCEPT ![p] = IF ingest[p].pc \in {"done", "dead"} THEN "old" ELSE "slow"]
    /\ UNCHANGED <<files, queue, ingest, run, faults, history>>

\* request_cancel.
RequestCancel(p) ==
    /\ status[p] \in {"creating", "active"}
    /\ cancels' = cancels \cup {p}
    /\ UNCHANGED <<status, job, members, key, sighted, queue, age, ingest, run, faults, history>>

-----------------------------------------------------------------------------
(* Clients.  Any waiting job may be claimed: that a run offers none whose plans *)
(* are all still creating (uncommitted_jobs) only narrows this.                 *)

Claim(j) ==
    /\ j \in avail /\ turn + faults < MaxEvents
    /\ avail' = avail \ {j} /\ leases' = leases \cup {<<j, turn + 1>>} /\ turn' = turn + 1
    /\ UNCHANGED <<files, records, age, ingest, run, faults, history>>

Heartbeat(l) ==
    /\ l \in leases /\ turn + faults < MaxEvents
    /\ leases' = (leases \ {l}) \cup {<<l[1], turn + 1>>} /\ turn' = turn + 1
    /\ UNCHANGED <<files, avail, records, age, ingest, run, faults, history>>

\* A void claim is reverted, or the client relinquishes the job.
GiveBack(l) ==
    /\ l \in leases
    /\ leases' = leases \ {l} /\ avail' = avail \cup {l[1]}
    /\ UNCHANGED <<files, turn, records, age, ingest, run, faults, history>>

\* A submission records before the job leaves the queue.
Submit(l) ==
    /\ l \in leases /\ l[1] \notin records
    /\ records' = records \cup {l[1]}
    /\ UNCHANGED <<files, avail, leases, turn, age, ingest, run, faults, history>>

Finish(l) ==
    /\ l \in leases /\ l[1] \in records
    /\ leases' = leases \ {l}
    /\ UNCHANGED <<files, avail, turn, records, age, ingest, run, faults, history>>

-----------------------------------------------------------------------------
(* A queue-maintenance run. *)

RunIs(r) == run' = r
RunTo(pc) == run' = [run EXCEPT !.pc = pc]
Quiet == UNCHANGED <<queue, files, age, ingest, faults, history>>

ListCancelMarkers ==
    /\ run.pc = "idle"
    /\ RunIs([NoRun EXCEPT !.pc = "manifests", !.cancels = cancels])
    /\ Quiet

ListManifests ==
    /\ run.pc = "manifests"
    /\ RunIs([run EXCEPT !.pc = "recycle", !.status = status])
    /\ Quiet

\* The jobs the listed manifests name, and the ones among them that are in the queue.
Listed == {job[p] : p \in {q \in Plans : run.status[q] # "none"}} \cup {key}
Queued(jobs) == jobs \cap Listed

\* settle_expired_leases lists leased/; some of the leases are overdue.
ListForRecycle ==
    /\ run.pc = "recycle"
    /\ \E overdue \in SUBSET leases :
          RunIs([run EXCEPT !.pc = "settle", !.seen = Queued(Leased), !.expired = overdue])
    /\ Quiet

\* An overdue lease goes back to avail/, or away when its job has a record; the job is then
\* terminal and no longer live for the run.
SettleLease(l) ==
    /\ run.pc = "settle" /\ l \in run.expired
    /\ RunIs([run EXCEPT !.expired = @ \ {l}, !.seen = IF l[1] \in records THEN @ \ {l[1]} ELSE @])
    /\ leases' = leases \ {l}
    /\ avail' = IF l \in leases /\ l[1] \notin records THEN avail \cup {l[1]} ELSE avail
    /\ UNCHANGED <<files, turn, records, age, ingest, faults, history>>

\* teardown_cause: a cancel latch, a cancel marker, or a stranded creating manifest.
Stranded(p) == run.status[p] = "creating" /\ p \notin run.cancels /\ age[p] # "young"

TeardownCause(p) ==
    \/ run.status[p] \in {"cancelling", "cancelled"}
    \/ run.status[p] \in {"creating", "active"} /\ p \in run.cancels
    \/ Stranded(p)

Doomed == {p \in Plans : TeardownCause(p)}
DoomedJobs == {job[p] : p \in Doomed}

ListAvail ==
    /\ run.pc = "settle" /\ run.expired = {}
    /\ RunIs([run EXCEPT !.pc = "leased", !.seen = @ \cup Queued(avail), !.avail = avail \cap DoomedJobs])
    /\ Quiet

ListLeased ==
    /\ run.pc = "leased"
    /\ RunIs([run EXCEPT !.pc = "members", !.seen = @ \cup Queued(Leased),
                         !.leases = {l \in leases : l[1] \in DoomedJobs}])
    /\ Quiet

HeldBy(j) == {l \in run.leases : l[1] = j}
Markers(j) == {q \in Plans : <<j, q>> \in members}

\* Membership::released_by: another plan's marker and none of this plan's.
ReleasedBy(j, p) == Markers(j) # {} /\ p \notin Markers(j)

\* Mutant of IngestMayOverwrite: only a creating manifest is taken to be an ingest's.
IngestMayOverwriteCreating(p) == run.status[p] = "creating" /\ age[p] = "young"

\* Whether an ingest could still overwrite the status this run writes.
IngestMayOverwrite(p) ==
    run.status[p] \in {"creating", "cancelling", "cancelled"} /\ age[p] = "young"

Ending(p) == p \in run.cancels \/ Stranded(p) \/ run.status[p] = "cancelling"
Collects(p) == p \in run.cancels /\ ~IngestMayOverwrite(p)

\* Mutant of Untouched: a creating manifest is reconciled like an active one.
UntouchedLatchOnly(p) == run.status[p] \in {"complete", "cancelled"}

\* A terminal latch is final, and a live creating manifest is ingestion's.
Untouched(p) ==
    \/ run.status[p] \in {"complete", "cancelled"}
    \/ run.status[p] = "creating" /\ ~Ending(p)

DecideStatus(ending, empty, retired) ==
    IF ending THEN IF empty /\ ~retired THEN "cancelled" ELSE "cancelling"
    ELSE IF empty THEN "complete" ELSE "active"

ReconcileAll(r) ==
    IF r.todo # {} THEN [r EXCEPT !.pc = "reconcile", !.plan = 0]
    ELSE [NoRun EXCEPT !.pc = "gc", !.seen = r.seen]

\* tear_down_plans takes the next plan whose job is in the queue and not released before;
\* after the last, reconcile_plans takes the ones it may change.
Least(set) == CHOOSE p \in set : \A q \in set : p <= q

TearDown(r) ==
    LET left == {p \in r.todo : /\ p \notin r.released
                                /\ job[p] \in r.avail \/ \E l \in r.leases : l[1] = job[p]}
        held == {p \in Plans : r.status[p] # "none" /\ (~Untouched(p) \/ Collects(p))}
    IN IF left # {}
       THEN [r EXCEPT !.pc = "drop", !.plan = Least(left), !.body = "gone", !.todo = left \ {Least(left)}]
       ELSE ReconcileAll([r EXCEPT !.plan = 0, !.body = "gone", !.avail = {}, !.leases = {}, !.todo = held,
                                          !.released = @ \cap held])

ListMembers ==
    /\ run.pc = "members"
    /\ RunIs(TearDown([run EXCEPT !.released = {p \in Doomed : ReleasedBy(job[p], p)}, !.todo = Doomed]))
    /\ Quiet

J == job[run.plan]
NextPlan == TearDown(run)
Release == TearDown([run EXCEPT !.released = @ \cup {run.plan}])
Retire == TearDown([run EXCEPT !.avail = @ \ {J}, !.leases = @ \ HeldBy(J), !.seen = @ \ {J},
                               !.perturbed = @ \cup {run.plan}])

\* end_membership, step by step: drop the plan's marker and list the others: one that is
\* left releases the job, ...
DropMembership ==
    /\ run.pc = "drop"
    /\ members' = members \ {<<J, run.plan>>}
    /\ IF Markers(J) \ {run.plan} # {} THEN RunIs(Release) ELSE RunTo("body")
    /\ UNCHANGED <<status, job, cancels, key, sighted, queue, age, ingest, faults, history>>

\* ... read the body at the listed key, ...
ReadBody ==
    /\ run.pc = "body"
    /\ RunIs([run EXCEPT !.pc = "delete avail",
                         !.body = IF IF J \in run.avail THEN J \in avail
                                     ELSE \E l \in HeldBy(J) : l \in leases
                                  THEN "read" ELSE "gone"])
    /\ Quiet

\* ... delete the avail/ entry by job id and the listed leases (retire_job), ...
DeleteAvail ==
    /\ run.pc = "delete avail"
    /\ avail' = IF J \in run.avail THEN avail \ {J} ELSE avail
    /\ RunTo("delete leases")
    /\ UNCHANGED <<files, leases, turn, records, age, ingest, faults, history>>

DeleteLeases ==
    /\ run.pc = "delete leases"
    /\ leases' = leases \ HeldBy(J) /\ RunTo("joiners")
    /\ UNCHANGED <<files, avail, turn, records, age, ingest, faults, history>>

\* Mutant of ListJoiners: the members are not read again.
ListJoinersNot ==
    /\ run.pc = "joiners"
    /\ IF run.body = "gone" THEN RunIs(Release) ELSE RunIs(Retire)
    /\ Quiet

\* ... and read the members again: a plan that joined meanwhile gets the job back.
ListJoiners ==
    /\ run.pc = "joiners"
    /\ IF run.body = "gone" THEN RunIs(Release)
       ELSE IF Markers(J) = {} THEN RunIs(Retire) ELSE RunTo("restore")
    /\ lost' = IF run.body = "gone" /\ ~Live(J) THEN lost \cup {J} ELSE lost
    /\ UNCHANGED <<files, queue, age, ingest, faults, missed>>

Restore ==
    /\ run.pc = "restore"
    /\ avail' = avail \cup {J} /\ RunIs(Release)
    /\ UNCHANGED <<files, leases, turn, records, age, ingest, faults, history>>

\* reconcile_one_plan settles the plan from the live set; the cancel marker goes once no
\* ingest can undo the latch.
Reconcile(p) ==
    LET outstanding == job[p] \in run.seen /\ ~(Ending(p) /\ p \in run.released)
        next == DecideStatus(Ending(p), ~outstanding, p \in run.perturbed)
    IN /\ run.pc = "reconcile" /\ run.todo # {} /\ p = Least(run.todo)
       /\ status' = IF Untouched(p) THEN status ELSE [status EXCEPT ![p] = next]
       /\ missed' = IF ~Untouched(p) /\ next = "complete" /\ Live(job[p])
                    THEN missed \cup {p} ELSE missed
       /\ IF Collects(p)
          THEN RunIs([run EXCEPT !.todo = @ \ {p}, !.pc = "collect", !.plan = p])
          ELSE RunIs(ReconcileAll([run EXCEPT !.todo = @ \ {p}]))
       /\ UNCHANGED <<job, cancels, members, key, sighted, queue, age, ingest, faults, lost>>

CollectMarker ==
    /\ run.pc = "collect"
    /\ cancels' = cancels \ {run.plan} /\ RunIs(ReconcileAll(run))
    /\ UNCHANGED <<status, job, members, key, sighted, queue, age, ingest, faults, history>>

\* gc_plan_index: the content key of a job that left the queue goes at the second sighting.
GcPlanIndex ==
    LET orphan == key # 0 /\ key \notin run.seen /\ age[key] # "young"
    IN /\ run.pc = "gc"
       /\ key' = IF orphan /\ sighted = "yes" THEN 0 ELSE key
       /\ sighted' = IF orphan /\ sighted = "no" THEN "yes" ELSE "no"
       /\ RunIs(NoRun)
       /\ UNCHANGED <<status, job, cancels, members, queue, age, ingest, faults, history>>

\* The window in which a retired job has no copy in the queue.
InWindow == run.pc \in {"delete leases", "joiners", "restore"}

\* A call about one plan fails, a marker's drop perhaps after it landed, and the plan is left
\* to the next run; or the run dies, and with it the sightings it cleared at its start.
RunFails ==
    /\ run.pc # "idle" /\ turn + faults < MaxEvents
    /\ faults' = faults + 1
    /\ \/ /\ \/ run.pc \in {"drop", "body", "delete avail", "delete leases", "joiners", "restore"}
                /\ RunIs(NextPlan)
             \/ run.pc = "reconcile" /\ RunIs(ReconcileAll([run EXCEPT !.todo = @ \ {Least(@)}]))
             \/ run.pc = "collect" /\ RunIs(ReconcileAll(run))
          /\ UNCHANGED sighted
       \/ RunIs(NoRun) /\ sighted' = "no"
    /\ members' \in {members, IF run.pc = "drop" THEN members \ {<<J, run.plan>>} ELSE members}
    /\ lost' = IF InWindow /\ ~Live(J) THEN lost \cup {J} ELSE lost
    /\ UNCHANGED <<status, job, cancels, key, queue, age, ingest, missed>>

Ingest(p) ==
    \/ Place(p) \/ ClaimKey(p) \/ OfficialState(p) \/ WriteMarker(p) \/ TargetSurvives(p)
    \/ DropMarker(p) \/ ReplaceStale(p) \/ PutCreating(p) \/ Stage(p) \/ Promote(p) \/ PutActive(p)

Run ==
    \/ ListCancelMarkers \/ ListManifests \/ ListForRecycle \/ (\E l \in run.expired : SettleLease(l))
    \/ ListAvail \/ ListLeased \/ ListMembers \/ (\E p \in Plans : Reconcile(p))
    \/ DropMembership \/ ReadBody \/ DeleteAvail \/ DeleteLeases \/ ListJoiners
    \/ Restore \/ CollectMarker \/ GcPlanIndex

Next ==
    \/ \E p \in Plans : Ingest(p) \/ IngestDies(p) \/ Ages(p) \/ RequestCancel(p) \/ Claim(p)
    \/ \E l \in leases : Heartbeat(l) \/ GiveBack(l) \/ Submit(l) \/ Finish(l)
    \/ Run \/ RunFails

Spec == Init /\ [][Next]_vars

-----------------------------------------------------------------------------

Statuses == {"none", "creating", "active", "cancelling", "cancelled", "complete"}

\* The manifests, markers and queue entries name plans and jobs that exist.
TypeOK ==
    /\ status \in [Plans -> Statuses] /\ job \in [Plans -> Plans \cup {0}]
    /\ \A p \in Plans : status[p] # "none" => job[p] # 0
    /\ cancels \subseteq Plans /\ members \subseteq Plans \X Plans /\ key \in Plans \cup {0}
    /\ avail \subseteq Plans /\ leases \subseteq Plans \X (1 .. MaxEvents) /\ records \subseteq Plans

\* An active plan that holds a membership of its job keeps the job until it has a record: the
\* join's marker before its re-check and the teardown's restore see to it (try_join,
\* end_membership).  `lost` are the jobs a teardown deleted and could not put back: it failed
\* or died in the window, or the body it would restore was gone.
HeldJobKept ==
    \A p \in Plans :
       status[p] = "active" /\ <<job[p], p>> \in members
         => \/ Live(job[p]) \/ job[p] \in records \cup lost
            \/ InWindow /\ J = job[p]

\* A plan is latched complete only when its job has a record (reconcile_one_plan).  `missed`
\* are the plans whose live job was in none of the run's three listings of the queue.  Left out
\* are the plans of a `slow` ingest, one still at work past plan_creating_max_age: it may
\* promote its job after a run has latched its plan.
CompleteIsFinished ==
    \A p \in Plans :
       status[p] = "complete" /\ age[p] # "slow" => p \in missed \/ job[p] \in records \cup lost

\* No plan is latched complete while its job is in the queue: what the run's order of listings
\* is said to give ("a plan read past `creating` cannot miss its jobs and latch `complete`").
CompleteMeansDone ==
    \A p \in Plans : status[p] = "complete" => ~Live(job[p])

\* A requested cancel is not forgotten: its marker goes only when the plan is latched and no
\* ingest can write over the latch (ingest_may_overwrite).  A `slow` ingest is one that
\* outlives the age gate.
CancelStands ==
    [][\A p \in cancels \ cancels' :
          \/ age[p] = "slow"
          \/ /\ status[p] \in {"cancelling", "cancelled", "complete"}
             /\ ingest[p].pc \in {"done", "dead"}]_vars

=============================================================================
