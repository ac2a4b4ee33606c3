--------------------------- MODULE EligibleIndex ---------------------------
(* The eligible/ markers of queue-maintenance: which client is offered which  *)
(* job.  One maintenance run at a time lists the queue, re-dates or retires   *)
(* what is overdue, indexes new keys, rebuilds flagged clients, settles the   *)
(* jobs owed a rewrite and sweeps orphans, while claims, profile updates,     *)
(* changes of the workers and ends of leases go on.                           *)
EXTENDS Naturals, FiniteSets

CONSTANTS Clients, Jobs,
          Profiles,      \* what matching looks at: device profile, capabilities, tags
          Match,         \* the jobs each profile matches (job_matches_client)
          Deadline,      \* the deadline a job is promoted with
          MaxTime, MaxChurn

\* The moments a deadline may name: the plans' horizons.
Times == 0 .. MaxTime

ASSUME IndexAssumption ==
    /\ Clients # {} /\ Jobs # {} /\ Profiles # {}
    /\ MaxTime \in Nat /\ MaxChurn \in Nat
    /\ Deadline \in [Jobs -> Times]
    /\ Match \in [Profiles -> SUBSET Jobs]

VARIABLES
    now,         \* the clock, in whole deadlines
    entry,       \* a job's key in todo/: where, under which deadline, held by whom
    eligible,    \* eligible/clients/{client}/{job}.{expires_at}
    indexed,     \* .eligible-indexed, the avail/ keys indexed so far
    seen,        \* .eligible-workers
    candidates,  \* .gc-candidates
    flags,       \* pending-reindex/{client}.{uuid}
    jobFlags,    \* pending-reindex-jobs/{job}
    profile, workers,
    claim,       \* the claim request of each client
    patch,       \* the profile update of each client
    run,         \* the maintenance run
    churn,       \* the claims, updates, worker changes and crashes so far
    overlooked   \* history: the pairs a run lost sight of, see WrongIsOwed

queue == <<now, entry>>
index == <<eligible, indexed, seen, candidates>>
debts == <<flags, jobFlags>>
roster == <<profile, workers>>
requests == <<claim, patch>>
vars == <<queue, index, debts, roster, requests, run, churn, overlooked>>

Key(j, e) == [job |-> j, exp |-> e]
Marker(c, j, e) == [client |-> c, job |-> j, exp |-> e]
AvailAt(k) == entry[k.job].at = "avail" /\ entry[k.job].exp = k.exp
AvailKeys == {Key(j, entry[j].exp) : j \in {i \in Jobs : entry[i].at = "avail"}}
LeasedKeys == {Key(j, entry[j].exp) : j \in {i \in Jobs : entry[i].at = "leased"}}
JobsOf(keys) == {k.job : k \in keys}
Partition(c) == {m \in eligible : m.client = c}
Unstaged == [markers |-> {}, jobs |-> {}]
Nobody == [c \in Clients |-> {}]
NoClaim == [pc |-> "idle", job |-> CHOOSE j \in Jobs : TRUE, exp |-> 0, t |-> 0, old |-> FALSE]
NoRun == [pc |-> "idle", t |-> 0, prior |-> Unstaged, held |-> {}, avail |-> {}, leased |-> {},
          missed |-> {}, gone |-> {}, bodies |-> {}, todo |-> {}, jobs |-> {}, workers |-> {}, joined |-> {},
          prof |-> [c \in Clients |-> CHOOSE p \in Profiles : TRUE], captured |-> Nobody,
          clients |-> {}, c |-> CHOOSE c \in Clients : TRUE, j |-> CHOOSE j \in Jobs : TRUE]

Init ==
    /\ now = 0
    /\ entry = [j \in Jobs |-> [at |-> "none", exp |-> Deadline[j], by |-> "none"]]
    /\ eligible = {} /\ indexed = {} /\ seen = {} /\ candidates = Unstaged
    /\ flags = Nobody /\ jobFlags = {}
    /\ profile \in [Clients -> Profiles] /\ workers = Clients
    /\ claim = [c \in Clients |-> NoClaim] /\ patch = [c \in Clients |-> "idle"]
    /\ run = NoRun
    /\ churn = 0 /\ overlooked = {}

Disturb == churn < MaxChurn /\ churn' = churn + 1
Move(j, where, by) == entry' = [entry EXCEPT ![j].at = where, ![j].by = by]

-----------------------------------------------------------------------------
(* The queue and the clients.                                                 *)

\* A plan's jobs are promoted and the plan leaves creating; until it does a run withholds
\* them from every index pass.  The clock; a lease that lapses or is given back (the key
\* keeps its deadline), or that a submission ends.
Promote(j) ==
    /\ entry[j].at = "none"
    /\ Move(j, "avail", "none")
    /\ UNCHANGED <<now, index, debts, roster, requests, run, churn, overlooked>>

Tick ==
    /\ now < MaxTime
    /\ now' = now + 1
    /\ UNCHANGED <<entry, index, debts, roster, requests, run, churn, overlooked>>

EndLease(j) ==
    /\ entry[j].at = "leased"
    /\ Move(j, "avail", "none") \/ Move(j, "done", "none")
    /\ UNCHANGED <<now, index, debts, roster, requests, run, churn, overlooked>>

\* The gates of a claim, the listing of its markers and the choice of one.
ListEligible(c) ==
    /\ claim[c].pc = "idle" /\ c \in workers /\ flags[c] = {}
    /\ \E m \in Partition(c) :
          /\ m.exp >= now
          /\ claim' = [claim EXCEPT ![c] = [NoClaim EXCEPT !.pc = "take", !.job = m.job,
                                                           !.exp = m.exp, !.t = now]]
    /\ Disturb
    /\ UNCHANGED <<queue, index, debts, roster, patch, run, overlooked>>

\* claim_job: the rename wins the key it names or misses.
ClaimJob(c, label, miss) ==
    /\ claim[c].pc = label
    /\ IF AvailAt(claim[c])
       THEN /\ Move(claim[c].job, "leased", c)
            /\ claim' = [claim EXCEPT ![c] = [@ EXCEPT !.pc = "regate", !.exp = 0, !.t = 0]]
       ELSE /\ claim' = [claim EXCEPT ![c] = IF miss = "idle" THEN NoClaim
                                              ELSE [@ EXCEPT !.pc = miss]]
            /\ UNCHANGED entry
    /\ UNCHANGED <<now, index, debts, roster, patch, run, churn, overlooked>>

TakeMarker(c) == ClaimJob(c, "take", "current")
TakeCurrent(c) == ClaimJob(c, "retake", "idle")

\* claim_at_current_key: a miss is tried once more under the key the job has now.
ClaimAtCurrentKey(c) ==
    LET j == claim[c].job
    IN /\ claim[c].pc = "current"
       /\ claim' = [claim EXCEPT ![c] =
             IF entry[j].at = "avail" /\ entry[j].exp # claim[c].exp /\ entry[j].exp >= claim[c].t
             THEN [@ EXCEPT !.pc = "retake", !.exp = entry[j].exp]
             ELSE NoClaim]
       /\ UNCHANGED <<queue, index, debts, roster, patch, run, churn, overlooked>>

\* revert_claim_if_void: a flag that rose since the gate puts the grant back.
Regate(c) ==
    LET j == claim[c].job
    IN /\ claim[c].pc = "regate"
       /\ IF flags[c] # {} /\ entry[j].at = "leased" /\ entry[j].by = c
          THEN Move(j, "avail", "none") ELSE UNCHANGED entry
       /\ claim' = [claim EXCEPT ![c] = NoClaim]
       /\ UNCHANGED <<now, index, debts, roster, patch, run, churn, overlooked>>

\* The uuid of a new flag: no name in use, nor one that a run still remembers.
FreshName(used) == CHOOSE n \in 0 .. Cardinality(used) : n \notin used

\* update_own_client: a flag, the relinquished leases, the record, a second flag.
WritePendingReindex(c, from, to) ==
    /\ patch[c] = from
    /\ flags' = [flags EXCEPT ![c] = @ \cup {FreshName(@ \cup run.captured[c])}]
    /\ patch' = [patch EXCEPT ![c] = to]
    /\ UNCHANGED <<queue, index, jobFlags, roster, claim, run, overlooked>>

FlagBefore(c) == WritePendingReindex(c, "idle", "relinquish") /\ Disturb
FlagAfter(c) == WritePendingReindex(c, "flag", "idle") /\ UNCHANGED churn

RelinquishClientLeases(c) ==
    /\ patch[c] = "relinquish"
    /\ entry' = [j \in Jobs |-> IF entry[j].at = "leased" /\ entry[j].by = c
                                THEN [entry[j] EXCEPT !.at = "avail", !.by = "none"]
                                ELSE entry[j]]
    /\ patch' = [patch EXCEPT ![c] = "replace"]
    /\ UNCHANGED <<now, index, debts, roster, claim, run, churn, overlooked>>

ReplaceClient(c) ==
    /\ patch[c] = "replace"
    /\ \E p \in Profiles \ {profile[c]} : profile' = [profile EXCEPT ![c] = p]
    /\ patch' = [patch EXCEPT ![c] = "flag"]
    /\ UNCHANGED <<queue, index, debts, workers, claim, run, churn, overlooked>>

\* A grant or a revocation of perform_work; it raises no flag.
ChangeWorkers(c) ==
    /\ Disturb
    /\ workers' = IF c \in workers THEN workers \ {c} ELSE workers \cup {c}
    /\ UNCHANGED <<queue, index, debts, profile, requests, run, overlooked>>

-----------------------------------------------------------------------------
(* The maintenance run.                                                       *)

At(label) == run.pc = label
Step(r) == run' = r
Goto(label) == Step([run EXCEPT !.pc = label])
Overdue(keys) == {k \in keys : k.exp < run.t}
Present(k) == k \in run.bodies \/ AvailAt(k)          \* cached_body
QueueAlone == UNCHANGED <<queue, debts, roster, requests, churn, overlooked>>

\* The run clears the staged orphans at once.  The scheduler's minute is longer than
\* a request: no claim outlives the run it started in and the next start.
StartRun ==
    /\ At("idle") /\ \A c \in Clients : ~ claim[c].old
    /\ Step([NoRun EXCEPT !.pc = "leases", !.t = now, !.prior = candidates])
    /\ candidates' = Unstaged
    /\ UNCHANGED <<queue, eligible, indexed, seen, debts, roster, requests, churn, overlooked>>

\* settle_expired_leases lists leased/; the leases it gives back are EndLease's.
ListRecycled ==
    /\ At("leases")
    /\ Step([run EXCEPT !.pc = "avail", !.held = JobsOf(LeasedKeys)])
    /\ UNCHANGED index /\ QueueAlone

\* collect_all_avail, then leased/.
ListAvail ==
    /\ At("avail")
    /\ Step([run EXCEPT !.pc = "leased", !.avail = AvailKeys])
    /\ UNCHANGED index /\ QueueAlone

ListLeased ==
    /\ At("leased")
    /\ Step([run EXCEPT !.pc = "expire", !.leased = LeasedKeys,
                        !.missed = JobsOf(AvailKeys) \ JobsOf(run.avail)])
    /\ UNCHANGED index /\ QueueAlone

\* Mutant of RedateAvail: past the latest horizon.
RedateAvailPastHorizon(k, to) ==
    /\ to.exp >= run.t
    /\ IF AvailAt(k)
       THEN /\ entry' = [entry EXCEPT ![k.job].exp = to.exp + 1]
            /\ Step([run EXCEPT !.pc = "flag job", !.j = k.job, !.avail = (@ \ {k}) \cup {to}])
       ELSE /\ Step([run EXCEPT !.avail = @ \ {k}])
            /\ UNCHANGED entry
    /\ UNCHANGED <<now, index, debts, roster, requests, churn, overlooked>>

\* settle_overdue_job: re-date to the latest horizon that the job's plans still hold,
\* or retire it when no plan holds one; an entry that was claimed meanwhile is dropped
\* from the listing either way.
RedateAvail(k, to) ==
    /\ to.exp >= run.t
    /\ IF AvailAt(k)
       THEN /\ entry' = [entry EXCEPT ![k.job].exp = to.exp]
            /\ Step([run EXCEPT !.pc = "flag job", !.j = k.job, !.avail = (@ \ {k}) \cup {to}])
       ELSE /\ Step([run EXCEPT !.avail = @ \ {k}])
            /\ UNCHANGED entry
    /\ UNCHANGED <<now, index, debts, roster, requests, churn, overlooked>>

ExpireOneJob(k) ==
    /\ IF AvailAt(k)
       THEN /\ Move(k.job, "done", "none")
            /\ Step([run EXCEPT !.avail = @ \ {k}, !.gone = @ \cup {k.job}])
       ELSE /\ Step([run EXCEPT !.avail = @ \ {k}])
            /\ UNCHANGED entry
    /\ UNCHANGED <<now, index, debts, roster, requests, churn, overlooked>>

SettleOverdueJob ==
    /\ At("expire")
    /\ \E k \in Overdue(run.avail) :
          \/ \E e \in Times : RedateAvail(k, Key(k.job, e))
          \/ ExpireOneJob(k)

FlagRedated ==
    /\ At("flag job")
    /\ jobFlags' = jobFlags \cup {run.j}
    /\ Goto("expire")
    /\ UNCHANGED <<queue, index, flags, roster, requests, churn, overlooked>>

\* retire_unmatchable_jobs reads every body still there; ingestion lets no
\* unmatchable body in.
ReadBodies ==
    /\ At("expire") /\ Overdue(run.avail) = {}
    /\ Step([run EXCEPT !.pc = "workers", !.t = 0, !.bodies = {k \in run.avail : AvailAt(k)}])
    /\ UNCHANGED index /\ QueueAlone

\* One snapshot of the records and the workers for the index passes; a client that
\* left the workers loses its partition.
TrackWorkerChanges ==
    /\ At("workers")
    /\ eligible' = {m \in eligible : m.client \notin seen \ workers}
    /\ Step([run EXCEPT !.pc = "index", !.prof = profile, !.workers = workers,
                        !.joined = workers \ seen, !.todo = run.avail \ indexed])
    /\ UNCHANGED <<indexed, seen, candidates>> /\ QueueAlone

\* index_new_jobs: the markers of one new key.
IndexJob ==
    /\ At("index")
    /\ \E k \in run.todo :
          /\ eligible' = eligible \cup
                (IF Present(k)
                 THEN {Marker(c, k.job, k.exp) :
                          c \in {w \in run.workers : k.job \in Match[run.prof[w]]}}
                 ELSE {})
          /\ Step([run EXCEPT !.todo = @ \ {k},
                              !.bodies = @ \cup (IF Present(k) THEN {k} ELSE {})])
    /\ UNCHANGED <<indexed, seen, candidates>> /\ QueueAlone

\* The set keeps the leased keys and is written after the markers.
WriteEligibleIndexed ==
    /\ At("index") /\ run.todo = {}
    /\ indexed' = run.avail \cup run.leased
    /\ Goto("flags")
    /\ UNCHANGED <<eligible, seen, candidates>> /\ QueueAlone

\* Mutant of ListPendingReindex: leased jobs are forgotten.
ListPendingReindexAvailOnly ==
    /\ At("flags")
    /\ Step([run EXCEPT !.pc = "client", !.captured = flags,
                        !.clients = run.joined \cup {c \in Clients : flags[c] # {}}])
    /\ UNCHANGED <<queue, index, debts, roster, requests, churn, overlooked>>

\* reindex_flagged_clients: the flags it captures; leased jobs are owed a rewrite
\* when some client will be rebuilt without them.
ListPendingReindex ==
    LET due == run.joined \cup {c \in Clients : flags[c] # {}}
    IN /\ At("flags")
       /\ Step([run EXCEPT !.pc = "client", !.captured = flags, !.clients = due,
                           !.joined = {}])
       /\ jobFlags' = jobFlags \cup
             (IF due \cap run.workers # {} THEN JobsOf(run.leased) ELSE {})
       /\ UNCHANGED <<queue, index, flags, roster, requests, churn, overlooked>>

\* The record is read, the partition deleted and rewritten key by key.
DeleteEligibleForClient ==
    /\ At("client")
    /\ \E c \in run.clients :
          /\ eligible' = eligible \ Partition(c)
          /\ Step([run EXCEPT !.pc = IF c \in run.workers THEN "rebuild" ELSE "unflag",
                              !.c = c, !.prof[c] = profile[c], !.todo = run.avail,
                              !.clients = @ \ {c}])
          /\ overlooked' = overlooked \cup ({c} \X run.missed)
    /\ UNCHANGED <<queue, indexed, seen, candidates, debts, roster, requests, churn>>

RebuildKey ==
    /\ At("rebuild")
    /\ \E k \in run.todo :
          /\ eligible' = eligible \cup
                (IF Present(k) /\ k.job \in Match[run.prof[run.c]]
                 THEN {Marker(run.c, k.job, k.exp)} ELSE {})
          /\ jobFlags' = jobFlags \cup (IF Present(k) THEN {} ELSE {k.job})
          /\ Step([run EXCEPT !.todo = @ \ {k},
                              !.bodies = @ \cup (IF Present(k) THEN {k} ELSE {})])
    /\ UNCHANGED <<queue, indexed, seen, candidates, flags, roster, requests, churn, overlooked>>

\* The captured flags are kept when the record changed during the rebuild.
RecheckClient ==
    /\ At("rebuild") /\ run.todo = {}
    /\ Goto(IF profile[run.c] = run.prof[run.c] THEN "unflag" ELSE "client")
    /\ UNCHANGED index /\ QueueAlone

DeletePendingReindex ==
    /\ At("unflag")
    /\ flags' = [flags EXCEPT ![run.c] = @ \ run.captured[run.c]]
    /\ Goto("client")
    /\ UNCHANGED <<queue, index, jobFlags, roster, requests, churn, overlooked>>

\* Written after every joiner's rebuild.
WriteEligibleWorkers ==
    /\ At("client") /\ run.clients = {}
    /\ seen' = run.workers
    /\ Step([run EXCEPT !.pc = "jobs", !.captured = Nobody, !.prof = NoRun.prof])
    /\ UNCHANGED <<eligible, indexed, candidates>> /\ QueueAlone

\* settle_pending_reindex_jobs: fresh records, then job by job.
ListPendingReindexJobs ==
    /\ At("jobs")
    /\ Step([run EXCEPT !.pc = "settle", !.jobs = jobFlags, !.prof = profile])
    /\ UNCHANGED index /\ QueueAlone

\* Mutant of SettlePendingJob: a job back in avail/ is not rewritten.
SettlePendingJobDoneOnly ==
    /\ At("settle")
    /\ \E j \in run.jobs :
          Step([run EXCEPT !.jobs = @ \ {j}, !.j = j,
                !.pc = IF j \notin JobsOf(run.avail) /\ entry[j].at = "done"
                       THEN "unflag job" ELSE "settle"])
    /\ UNCHANGED index /\ QueueAlone

SettlePendingJob ==
    /\ At("settle")
    /\ \E j \in run.jobs :
          LET key == {k \in run.avail : k.job = j}
              wanted == {Marker(c, k.job, k.exp) : k \in key, c \in
                           {w \in run.workers : j \in Match[run.prof[w]]}}
              all == {Marker(c, k.job, k.exp) : k \in key, c \in Clients}
              there == \E k \in key : Present(k)
          IN /\ eligible' = IF there THEN (eligible \ all) \cup wanted ELSE eligible
             /\ Step([run EXCEPT !.jobs = @ \ {j}, !.j = j,
                   !.pc = IF there \/ (key = {} /\ entry[j].at = "done")
                          THEN "unflag job" ELSE "settle"])
    /\ UNCHANGED <<indexed, seen, candidates>> /\ QueueAlone

DeletePendingReindexJob ==
    /\ At("unflag job")
    /\ jobFlags' = jobFlags \ {run.j}
    /\ Goto("settle")
    /\ UNCHANGED <<queue, index, flags, roster, requests, churn, overlooked>>

\* reconcile_orphans: a marker whose deadline is not the key's goes at once, one of
\* a job retired in this run too; any other orphan, a flagged job included, goes on
\* its second sighting.  Only a run writes markers, so the sweep is one step.
ReconcileOrphans ==
    LET live == JobsOf(run.avail \cup run.leased) \cup (run.held \ run.gone)
        stale == {m \in eligible : \E k \in run.avail : k.job = m.job /\ k.exp # m.exp}
        markers == {m \in eligible \ stale : m.job \notin live}
        owed == jobFlags \ live
        confirmed == {m \in markers : m \in run.prior.markers \/ m.job \in run.gone}
        settled == owed \cap (run.prior.jobs \cup run.gone)
    IN /\ At("settle") /\ run.jobs = {}
       /\ eligible' = eligible \ (stale \cup confirmed)
       /\ jobFlags' = jobFlags \ settled
       /\ Step([NoRun EXCEPT !.pc = "stage", !.prior = [markers |-> markers \ confirmed,
                                                       jobs |-> owed \ settled]])
       /\ overlooked' = overlooked \cup (Clients \X (settled \cap run.missed)) \cup
             {<<m.client, m.job>> : m \in {n \in confirmed : n.job \in run.missed
                                                          /\ n \in run.prior.markers}}
       /\ UNCHANGED <<queue, indexed, seen, candidates, flags, roster, requests, churn>>

\* Mutant of WriteGcCandidates: the sightings are not carried to the next run.
WriteGcCandidatesForgotten ==
    /\ At("stage")
    /\ candidates' = Unstaged
    /\ Step(NoRun)
    /\ claim' = [c \in Clients |-> [claim[c] EXCEPT !.old = claim[c].pc # "idle"]]
    /\ UNCHANGED <<queue, eligible, indexed, seen, debts, roster, patch, churn, overlooked>>

WriteGcCandidates ==
    /\ At("stage")
    /\ candidates' = run.prior
    /\ Step(NoRun)
    /\ claim' = [c \in Clients |-> [claim[c] EXCEPT !.old = claim[c].pc # "idle"]]
    /\ UNCHANGED <<queue, eligible, indexed, seen, debts, roster, patch, churn, overlooked>>

\* A store error ends the run, and so does a death; the next one starts afresh.  Two
\* cuts lose sight of pairs: between a re-date and its flag, and between deleting a
\* leaver's partition and writing the workers.
Crash ==
    /\ ~ At("idle")
    /\ Disturb
    /\ Step(NoRun)
    /\ claim' = [c \in Clients |-> [claim[c] EXCEPT !.old = claim[c].pc # "idle"]]
    /\ overlooked' = overlooked \cup
          (IF At("flag job") THEN Clients \X {run.j} ELSE {}) \cup
          (IF run.pc \in {"index", "flags", "client", "rebuild", "unflag"}
           THEN (seen \ run.workers) \X Jobs ELSE {})
    /\ UNCHANGED <<queue, index, debts, roster, patch>>

-----------------------------------------------------------------------------

ClaimStep(c) == TakeMarker(c) \/ TakeCurrent(c) \/ ClaimAtCurrentKey(c) \/ Regate(c)
PatchStep(c) == RelinquishClientLeases(c) \/ ReplaceClient(c) \/ FlagAfter(c)
RunStep == \/ ListRecycled \/ ListAvail \/ ListLeased \/ SettleOverdueJob \/ FlagRedated
           \/ ReadBodies \/ TrackWorkerChanges \/ IndexJob
           \/ WriteEligibleIndexed \/ ListPendingReindex
           \/ DeleteEligibleForClient \/ RebuildKey \/ RecheckClient \/ DeletePendingReindex
           \/ WriteEligibleWorkers \/ ListPendingReindexJobs \/ SettlePendingJob
           \/ DeletePendingReindexJob \/ ReconcileOrphans \/ WriteGcCandidates

Next ==
    \/ \E j \in Jobs : Promote(j) \/ EndLease(j)
    \/ Tick
    \/ \E c \in Clients : ListEligible(c) \/ ClaimStep(c) \/ FlagBefore(c) \/ PatchStep(c)
                           \/ ChangeWorkers(c)
    \/ StartRun \/ RunStep \/ Crash

Spec == Init /\ [][Next]_vars

\* Requests under way and the run go on, and the scheduler starts the run again.
Fairness ==
    /\ WF_vars(StartRun) /\ WF_vars(RunStep)
    /\ \A c \in Clients : WF_vars(ClaimStep(c)) /\ WF_vars(PatchStep(c))

FairSpec == Spec /\ Fairness

-----------------------------------------------------------------------------

Keys == [job : Jobs, exp : Times]
Markers == [client : Clients, job : Jobs, exp : Times]
Staged == [markers : SUBSET Markers, jobs : SUBSET Jobs]

\* Every store and every local state has the shape the code gives it; deadlines stay
\* within the horizon of the plans.
TypeOK ==
    /\ now \in Times
    /\ entry \in [Jobs -> [at : {"none", "avail", "leased", "done"}, exp : Times,
                            by : Clients \cup {"none"}]]
    /\ eligible \subseteq Markers /\ indexed \subseteq Keys /\ seen \subseteq Clients
    /\ candidates \in Staged /\ run.prior \in Staged
    /\ flags \in [Clients -> SUBSET Nat] /\ jobFlags \subseteq Jobs
    /\ profile \in [Clients -> Profiles] /\ workers \subseteq Clients
    /\ claim \in [Clients -> [pc : {"idle", "take", "current", "retake", "regate"}, job : Jobs,
                              exp : Times, t : Times, old : BOOLEAN]]
    /\ patch \in [Clients -> {"idle", "relinquish", "replace", "flag"}]
    /\ run.avail \cup run.leased \cup run.bodies \cup run.todo \subseteq Keys
    /\ run.jobs \cup run.held \cup run.gone \cup run.missed \subseteq Jobs
    /\ overlooked \subseteq Clients \X Jobs

Offered(c, j) == Marker(c, j, entry[j].exp) \in eligible
Matches(c, j) == j \in Match[profile[c]]

\* Something will make a run look at the pair again.
Owed(c, j) == \/ entry[j].exp < now
              \/ Key(j, entry[j].exp) \notin indexed
              \/ j \in jobFlags
              \/ flags[c] # {} \/ patch[c] = "flag"
              \/ c \notin seen
              \/ ~ At("idle")

\* Between two runs a waiting job is offered to exactly the workers it matches, or
\* something on record makes a later run look at the pair again: a key not indexed, a
\* flag of the client or of the job, a worker not seen.  The pairs in overlooked are the
\* exceptions: a rebuild or a second sweep that ran while a job moved between the two
\* listings, and two places where a run may be cut short (queue_maintenance::run,
\* index_new_jobs, reindex_flagged_clients, reconcile_orphans).
WrongIsOwed ==
    \A c \in workers, j \in Jobs :
        entry[j].at = "avail" /\ (Offered(c, j) # Matches(c, j))
        => Owed(c, j) \/ <<c, j>> \in overlooked

IndexRight == \A c \in workers, j \in Jobs :
                  entry[j].at = "avail" /\ <<c, j>> \notin overlooked
                  => (Offered(c, j) <=> Matches(c, j))
NoOrphans == /\ \A m \in eligible : /\ entry[m.job].at # "done"
                                    /\ entry[m.job].at = "avail" => entry[m.job].exp = m.exp
             /\ \A j \in jobFlags : entry[j].at # "done"

\* Once claims, updates, worker changes and crashes stop, every waiting job is offered to
\* exactly the workers it matches, for good (the index passes of queue_maintenance::run).
Converges == <>[]IndexRight

\* Once they stop, no marker and no flag of a finished job and no marker under an old
\* deadline stays (reconcile_orphans: the second sighting comes).
OrphansGo == <>[]NoOrphans
=============================================================================
