----------------------------- MODULE LeaseQueue -----------------------------
(***************************************************************************)
(* The job queue of pipette-mgmt: the `todo/` entries, the client-facing   *)
(* handlers that lease them (claim, heartbeat, reclaim, submission, profile *)
(* update) and the queue-maintenance run that settles them.                *)
(*                                                                         *)
(* A job is one entry that a rename moves: `avail/`, `leased/{client}` with *)
(* the lease expiry in its key, or deleted.  Every call on a store is one   *)
(* step, so any other process may run between two calls of a handler.  A    *)
(* handler reads the clock once and keeps it in `t`; it keeps the lease key *)
(* it located in `key`, which a renewal may have renamed since.             *)
(***************************************************************************)
EXTENDS Integers, FiniteSets

CONSTANTS
    Clients, Jobs,
    Slots,          \* requests the `serve` replicas run at the same time
    Cron,           \* the queue-maintenance run; one at a time
    Ops,            \* what clients and operators send, and whether vault checks fail
    Passes,         \* the passes of a maintenance run that find work
    Second,         \* clock ticks in a second, the resolution of a key
    LeaseSecs,      \* plan_lease_duration_secs
    LostLimit,      \* plan_lost_lease_limit; 0 turns the count off
    Deadline,       \* expires_at of each job
    Roster,         \* closed `clients` roster of each job; {} when it is open
    Profiles,       \* the device profiles a client may report
    Match,          \* the jobs a profile is eligible for
    Fetchable,      \* <<client, job>> whose vault resources the client may fetch
    MaxStall,       \* ticks that may fall inside one request
    LastStart,      \* bound: no request starts after this tick
    MaxTime,        \* bound: the clock stops at this tick
    MaxFlags,       \* bound: pending-reindex flags ever written
    MaxCrashes      \* bound: handlers cut short by an error, a crash, a lost caller

Procs == Slots \cup {Cron}
AllOps == {"claim", "heartbeat", "reclaim", "success", "failure", "retriable", "patch"}
AllPasses == {"settle", "retire", "reindex"}

ASSUME LeaseQueueAssumption ==
    /\ Second \in Nat \ {0}
    /\ LeaseSecs \in Nat \ {0}
    /\ LostLimit \in Nat
    /\ MaxStall \in Nat
    /\ LastStart \in Nat
    /\ MaxTime \in Nat
    /\ MaxFlags \in Nat
    /\ MaxCrashes \in Nat
    /\ Cron \notin Slots
    /\ Ops \subseteq AllOps \cup {"unsuspend", "vault fault"}
    /\ Passes \subseteq AllPasses
    /\ Clients # {} /\ Jobs # {} /\ Profiles # {}
    /\ {"none", "system"} \cap Clients = {}
    /\ Deadline \in [Jobs -> Nat]
    /\ Roster \in [Jobs -> SUBSET Clients]
    /\ Match \in [Profiles -> SUBSET Jobs]
    /\ Fetchable \subseteq Clients \X Jobs

VARIABLES
    now,        \* the clock, in ticks
    entry,      \* the queue entry of each job
    checked,    \* history: the last rename of the job's lease passed the one-lease check
    record,     \* who wrote the job's submission record: "none", a client, or "system"
    lost,       \* lost/ markers of each job: <<client, lease_expiry>>
    denied,     \* denied/ markers: <<job, client>>
    suspended,  \* suspended/ markers
    flags,      \* pending-reindex/ flags of each client
    flagged,    \* number of flags written so far; names the next one
    profile,    \* the device profile in each client record
    eligible,   \* eligible/ markers of each client
    req,        \* the local state of every request and of the maintenance run
    crashes     \* handlers cut short so far

queue == <<entry, checked>>
markers == <<lost, denied, suspended>>
gate == <<flags, flagged, profile, eligible>>
vars == <<now, queue, record, markers, gate, req, crashes>>

AnyClient == CHOOSE c \in Clients : TRUE
AnyJob == CHOOSE j \in Jobs : TRUE
AnyProfile == CHOOSE p \in Profiles : TRUE

\* The local variables of a handler; `ret` is where the shared tail of several
\* handlers returns to, and `key` = 0 names the job's avail/ entry.
Idle == [pc |-> "idle", op |-> "claim", c |-> AnyClient, j |-> AnyJob, t |-> 0, key |-> 0,
         jobs |-> {}, bodies |-> {}, leases |-> {}, body |-> FALSE, pass |-> 0, ret |-> "idle",
         grant |-> FALSE, prof |-> AnyProfile, seen |-> [c \in Clients |-> {}]]

Avail == [at |-> "avail", by |-> "none", until |-> 0]
Gone == [at |-> "gone", by |-> "none", until |-> 0]
Lease(c, u) == [at |-> "leased", by |-> c, until |-> u]

\* Mutant of LeaseExpiry: the lease duration subtracted.
LeaseExpiryInThePast(t) == ((t - LeaseSecs * Second) \div Second) * Second

\* lease_expiry_from, truncated to the whole second that leased_key writes.
LeaseExpiry(t) == ((t + LeaseSecs * Second) \div Second) * Second

IsAvail(j) == entry[j].at = "avail"
LeasedTo(j, c) == entry[j].at = "leased" /\ entry[j].by = c
Live(j, c, t) == LeasedTo(j, c) /\ entry[j].until > t
Expired(j, t) == Deadline[j] < t
HasRecord(j) == record[j] # "none"

At(p, label) == req[p].pc = label
Set(p, r) == req' = [req EXCEPT ![p] = r]
Goto(p, label) == Set(p, [req[p] EXCEPT !.pc = label])
Done(p) == Set(p, Idle)
Return(p) == IF req[p].ret = "idle" THEN Done(p) ELSE Goto(p, req[p].ret)
Rename(j, e) == /\ entry' = [entry EXCEPT ![j] = e]
                /\ checked' = [checked EXCEPT ![j] = FALSE]

Init ==
    /\ now = 0
    /\ entry = [j \in Jobs |-> Avail]
    /\ checked = [j \in Jobs |-> FALSE]
    /\ record = [j \in Jobs |-> "none"]
    /\ lost = [j \in Jobs |-> {}]
    /\ denied = {}
    /\ suspended = {}
    /\ flags = [c \in Clients |-> {}]
    /\ flagged = 0
    /\ profile = [c \in Clients |-> AnyProfile]
    /\ eligible = [c \in Clients |-> Match[AnyProfile]]
    /\ req = [p \in Procs |-> Idle]
    /\ crashes = 0

-----------------------------------------------------------------------------
\* The gates at the head of every handler.

\* A client sends a request.  A claim names no job; a submission reads its clock
\* only when it verifies the claim (VerifyClaim), so `t` is set again there.
Start(p, op, c, j) ==
    /\ At(p, "idle")
    /\ now <= LastStart
    /\ op \in Ops
    /\ op = "claim" => j = AnyJob
    /\ op = "patch" =>
          /\ j = AnyJob
          /\ flagged + 2 * Cardinality({q \in Slots : req[q].op = "patch"}) + 2 <= MaxFlags
    /\ Set(p, [Idle EXCEPT !.op = op, !.c = c, !.j = j, !.t = now, !.prof = profile[c],
                           !.pc = CASE op \in {"claim", "heartbeat", "reclaim"} -> "suspension"
                                    [] op \in {"success", "failure", "retriable"} -> "bind"
                                    [] op = "patch" -> "flag before"])
    /\ UNCHANGED <<now, queue, record, markers, gate, crashes>>

ReadSuspension(p) ==
    /\ At(p, "suspension")
    /\ IF req[p].c \in suspended THEN Done(p) ELSE Goto(p, "gate")
    /\ UNCHANGED <<now, queue, record, markers, gate, crashes>>

\* has_pending_reindex: a flagged client gets no work and renews no lease.
ReadGate(p) ==
    /\ At(p, "gate")
    /\ IF flags[req[p].c] # {} THEN Done(p)
       ELSE Goto(p, IF req[p].op = "claim" THEN "list" ELSE "reach")
    /\ UNCHANGED <<now, queue, record, markers, gate, crashes>>

-----------------------------------------------------------------------------
\* POST /plans/claim

OwnLive(p) == {j \in Jobs : Live(j, req[p].c, req[p].t)}
Taken(p) == {j \in Jobs : \E c \in Clients \ {req[p].c} : Live(j, c, req[p].t)}

\* list_leased: the client's own live leases, and the jobs other clients hold.
ClaimList(p) ==
    /\ At(p, "list")
    /\ \/ /\ Cardinality(OwnLive(p)) > 1
          /\ Set(p, [req[p] EXCEPT !.pc = "suspend", !.ret = "idle"])
       \/ /\ Cardinality(OwnLive(p)) = 1
          /\ \E j \in OwnLive(p) :
                Set(p, [req[p] EXCEPT !.pc = "held", !.j = j, !.key = entry[j].until,
                                      !.jobs = Taken(p)])
       \/ /\ OwnLive(p) = {}
          /\ Set(p, [req[p] EXCEPT !.pc = "candidates", !.jobs = Taken(p)])
    /\ UNCHANGED <<now, queue, record, markers, gate, crashes>>

\* get_leased at the listed key: gone means the lease moved, and the claim goes on.
ReadHeld(p) ==
    /\ At(p, "held")
    /\ Goto(p, IF entry[req[p].j] = Lease(req[p].c, req[p].key) THEN "held gate" ELSE "candidates")
    /\ UNCHANGED <<now, queue, record, markers, gate, crashes>>

HeldGate(p) ==
    /\ At(p, "held gate")
    /\ IF flags[req[p].c] # {} THEN Done(p)
       ELSE Set(p, [req[p] EXCEPT !.pc = "vault", !.ret = "idle"])
    /\ UNCHANGED <<now, queue, record, markers, gate, crashes>>

\* The held job is handed back, or withheld at the limit; either way the lease
\* is not renewed, and it counts as lost.
HandBack(p) ==
    /\ At(p, "hand back")
    /\ lost' = IF LostLimit > 0
               THEN [lost EXCEPT ![req[p].j] = @ \cup {<<req[p].c, req[p].key>>}]
               ELSE lost
    /\ Done(p)
    /\ UNCHANGED <<now, queue, record, denied, suspended, gate, crashes>>

\* list_eligible_for_client; a reclaim looks only for the job it names.
Candidates(p) ==
    /\ At(p, "candidates")
    /\ LET named == IF req[p].op = "claim" THEN Jobs ELSE {req[p].j}
       IN  Set(p, [req[p] EXCEPT !.pc = "pick", !.key = 0,
                     !.jobs = {j \in (eligible[req[p].c] \cap named) \ req[p].jobs :
                                  ~ Expired(j, req[p].t)}])
    /\ UNCHANGED <<now, queue, record, markers, gate, crashes>>

\* is_denied for the next candidate: soonest deadline first, ties at random.
Pick(p) ==
    /\ At(p, "pick")
    /\ \/ req[p].jobs = {} /\ Done(p)
       \/ \E j \in req[p].jobs :
             /\ \A i \in req[p].jobs : Deadline[j] <= Deadline[i]
             /\ Set(p, [req[p] EXCEPT !.j = j, !.jobs = @ \ {j},
                          !.pc = IF <<j, req[p].c>> \in denied THEN "pick" ELSE "take"])
    /\ UNCHANGED <<now, queue, record, markers, gate, crashes>>

\* claim_job: the rename avail/ -> leased/.  A lease already under the very key
\* counts as taken; any other miss tries the next candidate.
ClaimJob(p) ==
    /\ At(p, "take")
    /\ LET j == req[p].j
           u == LeaseExpiry(req[p].t)
       IN  \/ /\ IsAvail(j) \/ entry[j] = Lease(req[p].c, u)
              /\ Rename(j, Lease(req[p].c, u))
              /\ Set(p, [req[p] EXCEPT !.pc = "regate", !.key = u, !.grant = TRUE])
           \/ /\ ~ IsAvail(j) /\ entry[j] # Lease(req[p].c, u)
              /\ Goto(p, "pick")
              /\ UNCHANGED queue
    /\ UNCHANGED <<now, record, markers, gate, crashes>>

\* Mutant of Regate: the flag is not read again after the rename.
RegateSkipped(p) ==
    /\ At(p, "regate")
    /\ Goto(p, "second")
    /\ UNCHANGED <<now, queue, record, markers, gate, crashes>>

\* revert_claim_if_void, first half: a flag that rose since the gate.
Regate(p) ==
    /\ At(p, "regate")
    /\ IF flags[req[p].c] # {}
       THEN Set(p, [req[p] EXCEPT !.pc = "resolve", !.ret = "idle"])
       ELSE Goto(p, "second")
    /\ UNCHANGED <<now, queue, record, markers, gate, crashes>>

\* Mutant of SecondLease: a renewal is answered without the listing.
SecondLeaseOnGrantsOnly(p) ==
    /\ At(p, "second")
    /\ LET me == req[p]
       IN  \/ /\ me.grant
              /\ \E j \in Jobs \ {me.j} : Live(j, me.c, me.t)
              /\ Set(p, [me EXCEPT !.pc = "suspend", !.ret = "resolve"])
              /\ UNCHANGED checked
           \/ /\ ~ me.grant \/ ~ \E j \in Jobs \ {me.j} : Live(j, me.c, me.t)
              /\ checked' = [checked EXCEPT ![me.j] = LeasedTo(me.j, me.c)]
              /\ IF me.grant THEN Set(p, [me EXCEPT !.pc = "vault", !.ret = "pick"]) ELSE Done(p)
    /\ UNCHANGED <<now, entry, record, markers, gate, crashes>>

\* suspend_if_holding_another_lease: the listing after the rename.
SecondLease(p) ==
    /\ At(p, "second")
    /\ LET me == req[p]
       IN  \/ /\ \E j \in Jobs \ {me.j} : Live(j, me.c, me.t)
              /\ Set(p, [me EXCEPT !.pc = "suspend", !.ret = IF me.grant THEN "resolve" ELSE "idle"])
              /\ UNCHANGED checked
           \/ /\ ~ \E j \in Jobs \ {me.j} : Live(j, me.c, me.t)
              /\ checked' = [checked EXCEPT ![me.j] = LeasedTo(me.j, me.c)]
              /\ IF me.grant
                 THEN Set(p, [me EXCEPT !.pc = "vault",
                                        !.ret = IF me.op = "claim" THEN "pick" ELSE "idle"])
                 ELSE Done(p)
    /\ UNCHANGED <<now, entry, record, markers, gate, crashes>>

\* write_suspension; a grant is then reverted, a renewal is left to lapse.
Suspend(p) ==
    /\ At(p, "suspend")
    /\ suspended' = suspended \cup {req[p].c}
    /\ IF req[p].ret = "idle" THEN Done(p)
       ELSE Set(p, [req[p] EXCEPT !.pc = "resolve", !.ret = "idle"])
    /\ UNCHANGED <<now, queue, record, lost, denied, gate, crashes>>

\* revert_claim_if_out_of_vault_reach: in reach, the job is answered; out of
\* reach, it is denied and put back; a failed check puts it back undenied.
VaultCheck(p) ==
    /\ At(p, "vault")
    /\ \/ /\ <<req[p].c, req[p].j>> \in Fetchable
          /\ IF req[p].grant THEN Done(p) ELSE Goto(p, "hand back")
       \/ /\ <<req[p].c, req[p].j>> \notin Fetchable
          /\ Goto(p, "deny")
       \/ /\ "vault fault" \in Ops
          /\ Goto(p, "resolve")
    /\ UNCHANGED <<now, queue, record, markers, gate, crashes>>

\* write_denied, durable before the lease is put back.
Deny(p) ==
    /\ At(p, "deny")
    /\ denied' = denied \cup {<<req[p].j, req[p].c>>}
    /\ IF req[p].op # "retriable" THEN Goto(p, "resolve")
       ELSE IF ~ req[p].grant THEN Goto(p, "own lease")
       ELSE IF req[p].key = 0 THEN Done(p) ELSE Goto(p, "recycle")
    /\ UNCHANGED <<now, queue, record, lost, suspended, gate, crashes>>

-----------------------------------------------------------------------------
\* Renewals: heartbeat, reclaim and the binding of a submission.

\* refuse_renewal_out_of_vault_reach, before the rename.
CheckReach(p) ==
    /\ At(p, "reach")
    /\ LET me == req[p]
       IN  IF LeasedTo(me.j, me.c) /\ <<me.c, me.j>> \notin Fetchable
           THEN Set(p, [me EXCEPT !.pc = "deny", !.key = entry[me.j].until, !.ret = "idle"])
           ELSE Goto(p, "renew")
    /\ UNCHANGED <<now, queue, record, markers, gate, crashes>>

\* bind_claim: the job body is read before the claim is verified.  A success
\* needs the vault check; a failure does not, and survives a failed read.
BindClaim(p) ==
    /\ At(p, "bind")
    /\ LET me == req[p]
           held == LeasedTo(me.j, me.c)
       IN  IF me.op = "success" /\ held /\ <<me.c, me.j>> \notin Fetchable
           THEN Done(p)
           ELSE Set(p, [me EXCEPT !.pc = "verify", !.body = held])
    /\ UNCHANGED <<now, queue, record, markers, gate, crashes>>

\* verify_claim: the flag is read after the clock, and before the renewal.
VerifyClaim(p) ==
    /\ At(p, "verify")
    /\ IF flags[req[p].c] # {} THEN Done(p)
       ELSE Set(p, [req[p] EXCEPT !.pc = "renew", !.t = now])
    /\ UNCHANGED <<now, queue, record, markers, gate, crashes>>

\* Mutant of AfterRenewal: the job is torn down without its record.
AfterRenewalTeardownFirst(me) ==
    CASE me.op \in {"heartbeat", "reclaim"} -> "second"
      [] me.op = "retriable" -> "deny"
      [] OTHER -> "teardown"

AfterRenewal(me) ==
    CASE me.op \in {"heartbeat", "reclaim"} -> "second"
      [] me.op = "success" -> IF me.body THEN "record" ELSE "idle"
      [] me.op = "failure" -> "record"
      [] OTHER -> "deny"

\* Mutant of RenewLease: a submission is authorized by reading the lease.
RenewLeaseReadOnly(p) ==
    /\ At(p, "renew")
    /\ LET me == req[p]
           u == LeaseExpiry(me.t)
       IN  \/ /\ LeasedTo(me.j, me.c)
              /\ IF me.op \in {"heartbeat", "reclaim"}
                 THEN Rename(me.j, Lease(me.c, u)) ELSE UNCHANGED queue
              /\ IF AfterRenewal(me) = "idle" THEN Done(p)
                 ELSE Set(p, [me EXCEPT !.pc = AfterRenewal(me), !.key = u])
           \/ ~ LeasedTo(me.j, me.c) /\ Done(p) /\ UNCHANGED queue
    /\ UNCHANGED <<now, record, markers, gate, crashes>>

\* Mutant of RenewLease: a lease is renewed for whoever names the job.
RenewLeaseOfAnyone(p) ==
    /\ At(p, "renew")
    /\ LET me == req[p]
           u == LeaseExpiry(me.t)
       IN  \/ /\ entry[me.j].at = "leased"
              /\ Rename(me.j, Lease(me.c, u))
              /\ IF AfterRenewal(me) = "idle" THEN Done(p)
                 ELSE Set(p, [me EXCEPT !.pc = AfterRenewal(me), !.key = u])
           \/ /\ entry[me.j].at # "leased"
              /\ IF me.op = "reclaim" THEN Goto(p, "candidates") ELSE Done(p)
              /\ UNCHANGED queue
    /\ UNCHANGED <<now, record, markers, gate, crashes>>

\* renew_lease: the lease may have lapsed, it only has to be there.
RenewLease(p) ==
    /\ At(p, "renew")
    /\ LET me == req[p]
           u == LeaseExpiry(me.t)
       IN  \/ /\ LeasedTo(me.j, me.c)
              /\ Rename(me.j, Lease(me.c, u))
              /\ IF AfterRenewal(me) = "idle" THEN Done(p)
                 ELSE Set(p, [me EXCEPT !.pc = AfterRenewal(me), !.key = u])
           \/ /\ ~ LeasedTo(me.j, me.c)
              /\ IF me.op = "reclaim" /\ entry[me.j].at # "leased"
                 THEN Goto(p, "candidates") ELSE Done(p)
              /\ UNCHANGED queue
    /\ UNCHANGED <<now, record, markers, gate, crashes>>

-----------------------------------------------------------------------------
\* POST /benchmarks

\* record_submission: the body supersedes whatever the key holds.
RecordSubmission(p) ==
    /\ At(p, "record")
    /\ record' = [record EXCEPT ![req[p].j] = req[p].c]
    /\ Set(p, [req[p] EXCEPT !.pc = "teardown", !.body = FALSE])
    /\ UNCHANGED <<now, queue, markers, gate, crashes>>

\* teardown_completed_job runs two branches at once: one locates the client's
\* lease and deletes it at that key, the other deletes the avail/ entry; `body`
\* says the second is over.
EndLeaseBranch(p) == IF req[p].body THEN Done(p) ELSE Goto(p, "teardown avail")
EndAvailBranch(p) == IF At(p, "teardown avail") THEN Done(p)
                     ELSE Set(p, [req[p] EXCEPT !.body = TRUE])
InLeaseBranch(p) == At(p, "teardown") \/ At(p, "teardown lease")
InAvailBranch(p) == (InLeaseBranch(p) /\ ~ req[p].body) \/ At(p, "teardown avail")

TeardownLocate(p) ==
    /\ At(p, "teardown")
    /\ IF LeasedTo(req[p].j, req[p].c)
       THEN Set(p, [req[p] EXCEPT !.pc = "teardown lease", !.key = entry[req[p].j].until])
       ELSE EndLeaseBranch(p)
    /\ UNCHANGED <<now, queue, record, markers, gate, crashes>>

\* delete_lease and delete_avail act on the key they were given and nothing else.
DeleteLease(p) ==
    IF entry[req[p].j] = Lease(req[p].c, req[p].key) THEN Rename(req[p].j, Gone) ELSE UNCHANGED queue
DeleteAvail(p) ==
    IF IsAvail(req[p].j) THEN Rename(req[p].j, Gone) ELSE UNCHANGED queue

TeardownLease(p) ==
    /\ At(p, "teardown lease")
    /\ DeleteLease(p)
    /\ EndLeaseBranch(p)
    /\ UNCHANGED <<now, record, markers, gate, crashes>>

TeardownAvail(p) ==
    /\ InAvailBranch(p)
    /\ DeleteAvail(p)
    /\ EndAvailBranch(p)
    /\ UNCHANGED <<now, record, markers, gate, crashes>>

\* Best effort: a branch that fails is logged, and the other goes on.
TeardownError(p) ==
    /\ crashes < MaxCrashes
    /\ crashes' = crashes + 1
    /\ \/ InLeaseBranch(p) /\ EndLeaseBranch(p)
       \/ InAvailBranch(p) /\ EndAvailBranch(p)
    /\ UNCHANGED <<now, queue, record, markers, gate>>

\* handle_retriable_failure locates the lease while it writes the denial, then
\* recycles it at that key without a record check.  `grant` says the lease was
\* looked for before the denial landed; `key` = 0 that it was not there.
OwnLease(p) ==
    /\ LET me == req[p]
           held == LeasedTo(me.j, me.c)
       IN  \/ /\ At(p, "own lease")
              /\ IF held THEN Set(p, [me EXCEPT !.pc = "recycle", !.key = entry[me.j].until])
                 ELSE Done(p)
           \/ /\ At(p, "deny") /\ me.op = "retriable" /\ ~ me.grant
              /\ Set(p, [me EXCEPT !.grant = TRUE, !.key = IF held THEN entry[me.j].until ELSE 0])
    /\ UNCHANGED <<now, queue, record, markers, gate, crashes>>

-----------------------------------------------------------------------------
\* resolve_or_recycle_lease, shared by the reverts, the relinquish and the
\* maintenance run.

\* Mutant of ResolveLease: the leftover of a recorded job stays where it is.
ResolveLeaseKeepsLeftover(p) ==
    /\ At(p, "resolve")
    /\ IF HasRecord(req[p].j) THEN Return(p) ELSE Goto(p, "recycle")
    /\ UNCHANGED <<now, queue, record, markers, gate, crashes>>

ResolveLease(p) ==
    /\ At(p, "resolve")
    /\ Goto(p, IF HasRecord(req[p].j) THEN "drop" ELSE "recycle")
    /\ UNCHANGED <<now, queue, record, markers, gate, crashes>>

DropEntry(p) ==
    /\ At(p, "drop")
    /\ IF req[p].key = 0 THEN DeleteAvail(p) ELSE DeleteLease(p)
    /\ Return(p)
    /\ UNCHANGED <<now, record, markers, gate, crashes>>

\* Mutant of RecycleLease: the lease is matched by job and client, whatever its key.
RecycleLeaseAnyKey(p) ==
    /\ At(p, "recycle")
    /\ IF LeasedTo(req[p].j, req[p].c) THEN Rename(req[p].j, Avail) ELSE UNCHANGED queue
    /\ IF req[p].op = "patch" /\ entry'[req[p].j].at = "avail"
       THEN Goto(p, "recheck record") ELSE Return(p)
    /\ UNCHANGED <<now, record, markers, gate, crashes>>

\* recycle_lease: leased/ -> avail/ at the given key.  An entry another process
\* already recycled counts as recycled.
RecycleLease(p) ==
    /\ At(p, "recycle")
    /\ IF entry[req[p].j] = Lease(req[p].c, req[p].key)
       THEN Rename(req[p].j, Avail) ELSE UNCHANGED queue
    /\ IF req[p].op = "patch" /\ entry'[req[p].j].at = "avail"
       THEN Goto(p, "recheck record") ELSE Return(p)
    /\ UNCHANGED <<now, record, markers, gate, crashes>>

-----------------------------------------------------------------------------
\* PATCH /clients/me with a change of a matching input

\* write_pending_reindex; an update remembers which flag is its own, for the properties.
WriteFlag(p, next) ==
    /\ flagged' = flagged + 1
    /\ flags' = [flags EXCEPT ![req[p].c] = @ \cup {flagged'}]
    /\ IF next = "idle" THEN Done(p)
       ELSE Set(p, [req[p] EXCEPT !.pc = next, !.seen = [c \in Clients |-> {flagged'}]])
    /\ UNCHANGED <<now, queue, record, markers, profile, eligible, crashes>>

FlagBefore(p) == At(p, "flag before") /\ WriteFlag(p, "relinquish")

FlagAfter(p) == At(p, "flag after") /\ WriteFlag(p, "idle")

LeaseItem(j) == [j |-> j, c |-> entry[j].by, key |-> entry[j].until]
RelinquishPasses == 2

\* relinquish_client_leases: list, resolve each, list again; the last pass only
\* verifies, and a lease still there fails the update.
RelinquishList(p) ==
    /\ At(p, "relinquish")
    /\ LET mine == {j \in Jobs : LeasedTo(j, req[p].c)}
       IN  \/ mine = {} /\ Goto(p, "replace")
           \/ mine # {} /\ req[p].pass = RelinquishPasses /\ Done(p)
           \/ /\ mine # {} /\ req[p].pass < RelinquishPasses
              /\ Set(p, [req[p] EXCEPT !.pc = "next lease", !.pass = @ + 1,
                                       !.leases = {LeaseItem(j) : j \in mine}])
    /\ UNCHANGED <<now, queue, record, markers, gate, crashes>>

\* The passes run in this order; a pass outside Passes has nothing to do.
PassAfter(done) ==
    IF done = "start" /\ "settle" \in Passes THEN "settle"
    ELSE IF done \in {"start", "settle"} /\ "retire" \in Passes THEN "list avail"
    ELSE IF done # "reindex" /\ "reindex" \in Passes THEN "reindex"
    ELSE "idle"
EndPass(done) == IF PassAfter(done) = "idle" THEN Done(Cron) ELSE Goto(Cron, PassAfter(done))

\* The next lease of the pass; a maintenance run goes on to the avail/ entries.
NextLease(p) ==
    /\ At(p, "next lease")
    /\ \/ /\ req[p].leases = {}
          /\ IF p = Cron THEN EndPass("settle") ELSE Goto(p, "relinquish")
       \/ \E l \in req[p].leases :
             Set(p, [req[p] EXCEPT !.j = l.j, !.c = l.c, !.key = l.key, !.leases = @ \ {l},
                       !.ret = "next lease",
                       !.pc = IF p = Cron /\ LostLimit > 0 THEN "has record" ELSE "resolve"])
    /\ UNCHANGED <<now, queue, record, markers, gate, crashes>>

\* delete_recycled_entry_if_recorded
RecheckRecord(p) ==
    /\ At(p, "recheck record")
    /\ Goto(p, IF HasRecord(req[p].j) THEN "drop recycled" ELSE "next lease")
    /\ UNCHANGED <<now, queue, record, markers, gate, crashes>>

DropRecycled(p) ==
    /\ At(p, "drop recycled")
    /\ DeleteAvail(p)
    /\ Goto(p, "next lease")
    /\ UNCHANGED <<now, record, markers, gate, crashes>>

\* replace_client: a compare-and-swap on the record read at the start.
ReplaceClient(p) ==
    /\ At(p, "replace")
    /\ IF profile[req[p].c] # req[p].prof
       THEN Done(p) /\ UNCHANGED profile
       ELSE \E new \in Profiles \ {req[p].prof} :
               /\ profile' = [profile EXCEPT ![req[p].c] = new]
               /\ Goto(p, "flag after")
    /\ UNCHANGED <<now, queue, record, markers, flags, flagged, eligible, crashes>>

-----------------------------------------------------------------------------
\* pipette-mgmt queue-maintenance: one run at a time, one clock reading per run.

StartMaintenance ==
    /\ At(Cron, "idle")
    /\ Passes # {}
    /\ Set(Cron, [Idle EXCEPT !.pc = PassAfter("start"), !.op = "maintenance", !.t = now])
    /\ UNCHANGED <<now, queue, record, markers, gate, crashes>>

\* Mutant of SettleList: the job's deadline stands in for the lease's expiry.
SettleListByDeadline ==
    /\ At(Cron, "settle")
    /\ Set(Cron, [req[Cron] EXCEPT !.pc = "next lease",
                    !.leases = {LeaseItem(j) : j \in {i \in Jobs : /\ entry[i].at = "leased"
                                                                  /\ Deadline[i] > req[Cron].t}}])
    /\ UNCHANGED <<now, queue, record, markers, gate, crashes>>

\* settle_expired_leases lists every lease that lapsed before the run began.
SettleList ==
    /\ At(Cron, "settle")
    /\ Set(Cron, [req[Cron] EXCEPT !.pc = "next lease",
                    !.leases = {LeaseItem(j) : j \in {i \in Jobs : /\ entry[i].at = "leased"
                                                                  /\ entry[i].until < req[Cron].t}}])
    /\ UNCHANGED <<now, queue, record, markers, gate, crashes>>

\* settle_expired_lease: a loss is counted only for a job without a record.
SettleHasRecord ==
    /\ At(Cron, "has record")
    /\ Goto(Cron, IF HasRecord(req[Cron].j) THEN "resolve" ELSE "write lost")
    /\ UNCHANGED <<now, queue, record, markers, gate, crashes>>

WriteLost ==
    /\ At(Cron, "write lost")
    /\ lost' = [lost EXCEPT ![req[Cron].j] = @ \cup {<<req[Cron].c, req[Cron].key>>}]
    /\ Goto(Cron, "count lost")
    /\ UNCHANGED <<now, queue, record, denied, suspended, gate, crashes>>

\* Mutant of CountLost: one loss more than the limit.
CountLostAboveLimit ==
    /\ At(Cron, "count lost")
    /\ Goto(Cron, IF Cardinality(lost[req[Cron].j]) > LostLimit THEN "lost body" ELSE "resolve")
    /\ UNCHANGED <<now, queue, record, markers, gate, crashes>>

\* list_lost_leases: at the limit the job is retired instead of recycled.
CountLost ==
    /\ At(Cron, "count lost")
    /\ Goto(Cron, IF Cardinality(lost[req[Cron].j]) >= LostLimit THEN "lost body" ELSE "resolve")
    /\ UNCHANGED <<now, queue, record, markers, gate, crashes>>

LostBody ==
    /\ At(Cron, "lost body")
    /\ Goto(Cron, IF entry[req[Cron].j] = Lease(req[Cron].c, req[Cron].key)
                  THEN "terminal" ELSE "next lease")
    /\ UNCHANGED <<now, queue, record, markers, gate, crashes>>

\* resolve_job_terminal: record first, exclusively, then delete the entry.
TerminalHasRecord ==
    /\ At(Cron, "terminal")
    /\ Goto(Cron, IF HasRecord(req[Cron].j) THEN "drop" ELSE "system failure")
    /\ UNCHANGED <<now, queue, record, markers, gate, crashes>>

RecordSystemFailure ==
    /\ At(Cron, "system failure")
    /\ record' = [record EXCEPT ![req[Cron].j] = IF @ = "none" THEN "system" ELSE @]
    /\ Goto(Cron, "drop")
    /\ UNCHANGED <<now, queue, markers, gate, crashes>>

\* collect_all_avail, the listing both retirement passes work from.
ListAvail ==
    /\ At(Cron, "list avail")
    /\ Set(Cron, [req[Cron] EXCEPT !.pc = "expire", !.key = 0, !.ret = "expire",
                                   !.jobs = {j \in Jobs : IsAvail(j)}])
    /\ UNCHANGED <<now, queue, record, markers, gate, crashes>>

\* expire_overdue_jobs: an overdue entry still in avail/ is retired.
ExpireOverdue ==
    /\ At(Cron, "expire")
    /\ LET overdue == {j \in req[Cron].jobs : Expired(j, req[Cron].t)}
       IN  \/ overdue = {} /\ Goto(Cron, "bodies")
           \/ \E j \in overdue :
                 Set(Cron, [req[Cron] EXCEPT !.j = j, !.jobs = @ \ {j},
                              !.pc = IF IsAvail(j) THEN "terminal" ELSE "expire"])
    /\ UNCHANGED <<now, queue, record, markers, gate, crashes>>

\* retire_unmatchable_jobs reads every body left into the run's cache.
ReadBodies ==
    /\ At(Cron, "bodies")
    /\ Set(Cron, [req[Cron] EXCEPT !.pc = "denials", !.bodies = {j \in req[Cron].jobs : IsAvail(j)}])
    /\ UNCHANGED <<now, queue, record, markers, gate, crashes>>

\* Mutant of AllDenied: a denial outside the roster is waited for.
AllDeniedByMore(j) == Roster[j] # {} /\ Cardinality({c \in Roster[j] : <<j, c>> \in denied}) > Cardinality(Roster[j])

AllDenied(j) == Roster[j] # {} /\ \A c \in Roster[j] : <<j, c>> \in denied

\* list_all_denied, then the jobs whose closed roster is denied to the last client.
ListDenials ==
    /\ At(Cron, "denials")
    /\ Set(Cron, [req[Cron] EXCEPT !.pc = "escalate", !.ret = "escalate",
                                   !.jobs = {j \in @ : AllDenied(j)}])
    /\ UNCHANGED <<now, queue, record, markers, gate, crashes>>

\* escalate_all_denied_jobs: a cached body is not read again.
EscalateAllDenied ==
    /\ At(Cron, "escalate")
    /\ \/ req[Cron].jobs = {} /\ EndPass("retire")
       \/ \E j \in req[Cron].jobs :
             Set(Cron, [req[Cron] EXCEPT !.j = j, !.jobs = @ \ {j},
                          !.pc = IF j \in req[Cron].bodies \/ IsAvail(j)
                                 THEN "terminal" ELSE "escalate"])
    /\ UNCHANGED <<now, queue, record, markers, gate, crashes>>

\* reindex_flagged_clients: list the flags once, then rebuild client by client.
ListFlags ==
    /\ At(Cron, "reindex")
    /\ Set(Cron, [req[Cron] EXCEPT !.pc = "next client", !.seen = flags, !.bodies = {}])
    /\ UNCHANGED <<now, queue, record, markers, gate, crashes>>

NextClient ==
    /\ At(Cron, "next client")
    /\ \/ (\A c \in Clients : req[Cron].seen[c] = {}) /\ Done(Cron)
       \/ \E c \in Clients :
             /\ req[Cron].seen[c] # {}
             /\ Set(Cron, [req[Cron] EXCEPT !.pc = "rebuild", !.c = c, !.prof = profile[c]])
    /\ UNCHANGED <<now, queue, record, markers, gate, crashes>>

\* The client's markers are wiped and written anew from the record just read.
RebuildClient ==
    /\ At(Cron, "rebuild")
    /\ eligible' = [eligible EXCEPT ![req[Cron].c] = Match[req[Cron].prof]]
    /\ Goto(Cron, "reread")
    /\ UNCHANGED <<now, queue, record, markers, flags, flagged, profile, crashes>>

\* A record that changed during the rebuild keeps the client's flags.
RereadClient ==
    /\ At(Cron, "reread")
    /\ LET me == req[Cron]
       IN  IF profile[me.c] = me.prof THEN Goto(Cron, "unflag")
           ELSE Set(Cron, [me EXCEPT !.pc = "next client", !.seen[me.c] = {}])
    /\ UNCHANGED <<now, queue, record, markers, gate, crashes>>

\* Mutant of DeleteFlags: every flag of the client goes, a newer one included.
DeleteAllFlags ==
    /\ At(Cron, "unflag")
    /\ LET me == req[Cron]
       IN  /\ flags' = [flags EXCEPT ![me.c] = {}]
           /\ Set(Cron, [me EXCEPT !.pc = "next client", !.seen[me.c] = {}])
    /\ UNCHANGED <<now, queue, record, markers, flagged, profile, eligible, crashes>>

\* Only the flags listed before the rebuild are deleted.
DeleteFlags ==
    /\ At(Cron, "unflag")
    /\ LET me == req[Cron]
       IN  /\ flags' = [flags EXCEPT ![me.c] = @ \ me.seen[me.c]]
           /\ Set(Cron, [me EXCEPT !.pc = "next client", !.seen[me.c] = {}])
    /\ UNCHANGED <<now, queue, record, markers, flagged, profile, eligible, crashes>>

-----------------------------------------------------------------------------
\* The environment: the clock, the operator, and whatever cuts a handler short.

Tick ==
    /\ now < MaxTime
    /\ \A p \in Slots : At(p, "idle") \/ now < req[p].t + MaxStall
    /\ now' = now + 1
    /\ UNCHANGED <<queue, record, markers, gate, req, crashes>>

\* pipette-mgmt clients unsuspend
Unsuspend(c) ==
    /\ "unsuspend" \in Ops
    /\ c \in suspended
    /\ suspended' = suspended \ {c}
    /\ UNCHANGED <<now, queue, record, lost, denied, gate, req, crashes>>

\* A store error, a lost connection or a killed process ends the handler where it is.
Crash(p) ==
    /\ ~ At(p, "idle")
    /\ crashes < MaxCrashes
    /\ crashes' = crashes + 1
    /\ Done(p)
    /\ UNCHANGED <<now, queue, record, markers, gate>>

ClaimStep(p) == ReadSuspension(p) \/ ReadGate(p) \/ ClaimList(p) \/ ReadHeld(p) \/ HeldGate(p)
                \/ HandBack(p) \/ Candidates(p) \/ Pick(p) \/ ClaimJob(p) \/ Regate(p)
                \/ SecondLease(p) \/ Suspend(p) \/ VaultCheck(p) \/ Deny(p)
SubmitStep(p) == CheckReach(p) \/ BindClaim(p) \/ VerifyClaim(p) \/ RenewLease(p)
                 \/ RecordSubmission(p) \/ TeardownLocate(p) \/ TeardownLease(p)
                 \/ TeardownAvail(p) \/ TeardownError(p) \/ OwnLease(p)
SettleStep(p) == ResolveLease(p) \/ DropEntry(p) \/ RecycleLease(p) \/ NextLease(p)
PatchStep(p) == FlagBefore(p) \/ RelinquishList(p) \/ RecheckRecord(p) \/ DropRecycled(p)
                \/ ReplaceClient(p) \/ FlagAfter(p)
CronStep == SettleList \/ SettleHasRecord \/ WriteLost \/ CountLost \/ LostBody
            \/ TerminalHasRecord \/ RecordSystemFailure \/ ListAvail \/ ExpireOverdue
            \/ ReadBodies \/ ListDenials \/ EscalateAllDenied \/ ListFlags \/ NextClient
            \/ RebuildClient \/ RereadClient \/ DeleteFlags

Next ==
    \/ Tick
    \/ StartMaintenance
    \/ CronStep
    \/ \E c \in Clients : Unsuspend(c)
    \/ \E p \in Slots, op \in AllOps, c \in Clients, j \in Jobs : Start(p, op, c, j)
    \/ \E p \in Slots : ClaimStep(p) \/ SubmitStep(p) \/ PatchStep(p)
    \/ \E p \in Procs : SettleStep(p) \/ Crash(p)

Spec == Init /\ [][Next]_vars

\* The clock runs, the scheduler starts a run again and again, and a handler or a
\* run that nothing cuts short takes its next step.
Fairness ==
    /\ WF_vars(Tick)
    /\ WF_vars(StartMaintenance)
    /\ WF_vars(CronStep \/ SettleStep(Cron))
    /\ \A p \in Slots : WF_vars(ClaimStep(p) \/ SubmitStep(p) \/ PatchStep(p) \/ SettleStep(p))

FairSpec == Spec /\ Fairness

-----------------------------------------------------------------------------
Labels == {"idle", "suspension", "gate", "list", "held", "held gate", "hand back", "candidates",
           "pick", "take", "regate", "second", "suspend", "vault", "deny", "reach", "bind",
           "verify", "renew", "record", "teardown", "teardown lease", "teardown avail",
           "own lease", "resolve", "drop", "recycle", "flag before", "relinquish", "next lease",
           "recheck record", "drop recycled", "replace", "flag after", "settle", "has record",
           "write lost", "count lost", "lost body", "terminal", "system failure", "list avail",
           "expire", "bodies", "denials", "escalate", "reindex", "next client", "rebuild",
           "reread", "unflag"}

LeaseItems == [j : Jobs, c : Clients, key : Nat]
Request == [pc : Labels, op : AllOps \cup {"maintenance"}, c : Clients, j : Jobs, t : Nat,
            key : Nat, jobs : SUBSET Jobs, bodies : SUBSET Jobs, leases : SUBSET LeaseItems,
            body : BOOLEAN, pass : 0 .. RelinquishPasses, ret : Labels, grant : BOOLEAN,
            prof : Profiles, seen : [Clients -> SUBSET Nat]]
Entries == {Avail, Gone} \cup [at : {"leased"}, by : Clients, until : Nat]

\* Every store and every handler's local state has the shape the code gives it.
TypeOK ==
    /\ now \in Nat
    /\ entry \in [Jobs -> Entries]
    /\ checked \in [Jobs -> BOOLEAN]
    /\ record \in [Jobs -> Clients \cup {"none", "system"}]
    /\ lost \in [Jobs -> SUBSET (Clients \X Nat)]
    /\ denied \subseteq Jobs \X Clients
    /\ suspended \subseteq Clients
    /\ flags \in [Clients -> SUBSET Nat]
    /\ flagged \in Nat
    /\ profile \in [Clients -> Profiles]
    /\ eligible \in [Clients -> SUBSET Jobs]
    /\ req \in [Procs -> Request]
    /\ crashes \in Nat

\* One lease per client: a client never holds two live leases whose last renames
\* both passed the check that a claim, a heartbeat and a reclaim make after their
\* rename (suspend_if_holding_another_lease), whatever the handlers race or crash.
OneLiveLease ==
    \A c \in Clients, j, k \in Jobs :
        j # k /\ Live(j, c, now) /\ Live(k, c, now) => ~ (checked[j] /\ checked[k])

\* No job is lost: a job leaves the queue only with a submission record, written
\* by a client or by resolve_job_terminal, wherever a handler is cut short.
NoJobLost == \A j \in Jobs : entry[j] = Gone => HasRecord(j)

\* A maintenance run leaves alone every lease that had not lapsed when the run
\* began, a renewal of a lease it already listed included (settle_expired_leases).
MaintenanceKeepsLiveLeases ==
    [][\A j \in Jobs : entry[j].at = "leased" /\ entry'[j] # entry[j] /\ req'[Cron] # req[Cron]
                       => entry[j].until < req[Cron].t]_vars

\* A maintenance run never puts a job back in avail/ once its losses reach
\* plan_lost_lease_limit (settle_expired_lease).
LostLimitRetires ==
    [][\A j \in Jobs : LostLimit > 0 /\ req'[Cron] # req[Cron]
                       /\ entry[j].at = "leased" /\ entry'[j].at = "avail"
                       => Cardinality(lost[j]) < LostLimit]_vars

\* No maintenance run brings a job with a record back to avail/: the renewal that
\* authorizes a submission moves the lease out of reach of a recycle already under
\* way (verify_claim, resolve_or_recycle_lease).  Only a request of the holder may,
\* within the second of its last rename, and a profile update that does so looks at
\* the record again (delete_recycled_entry_if_recorded).
FinishedStaysFinished ==
    [][\A j \in Jobs : HasRecord(j) /\ ~ IsAvail(j) /\ entry'[j].at = "avail" =>
          \E p \in Slots : /\ req'[p] # req[p] /\ req[p].j = j /\ LeasedTo(j, req[p].c)
                           /\ req[p].op = "patch" => req'[p].pc = "recheck record"]_vars

\* On a lease that has not lapsed: its holder may renew it for ever, by design
\* (docs/queue.md, 211-214), so the three properties below promise nothing of a job
\* while it is held.
Held(j) == entry[j].at = "leased" /\ now <= entry[j].until

\* A job past its deadline never stays without a record and a lease; and once it is
\* in avail/, and no request is under way that began before the deadline, it ends with a
\* record, whatever the clients go on sending: the deadline bounds assignment, not
\* running (expire_overdue_jobs, claim, reclaim).
DeadlineSettles ==
    \A j \in Jobs :
        /\ (Deadline[j] < now) ~> (HasRecord(j) \/ Held(j))
        /\ (/\ Deadline[j] < now /\ IsAvail(j)
            /\ \A p \in Slots : At(p, "idle") \/ Deadline[j] < req[p].t) ~> HasRecord(j)

\* A job whose closed roster is denied to the last client ends with a record, or on
\* a lease that is held (escalate_all_denied_jobs is the sole owner of this rule).
ExhaustedSettles ==
    \A j \in Jobs :
        (Roster[j] # {} /\ {j} \X Roster[j] \subseteq denied) ~> (HasRecord(j) \/ Held(j))

\* A recorded job leaves the queue, or is held: what a failed teardown, or a
\* renewal that raced a retirement, leaves behind is deleted once it lapses
\* (teardown_completed_job, resolve_or_recycle_lease).
RecordedLeaves == \A j \in Jobs : HasRecord(j) ~> (entry[j] = Gone \/ Held(j))

\* When a profile change becomes durable, every lease its client still holds is a grant that
\* has yet to re-check the flag or is being reverted: the relinquish resolved the others, and
\* nothing slips past the flag the update wrote first as long as no rebuild has consumed it
\* (update_own_client, revert_claim_if_void, reindex_flagged_clients).
StandingFlagCleansUp ==
    [][\A p \in Slots, j \in Jobs :
          LET c == req[p].c
          IN At(p, "replace") /\ profile'[c] # profile[c] /\ LeasedTo(j, c)
             => \/ req[p].seen[c] \cap flags[c] = {}
                \/ \E q \in Slots : /\ req[q].c = c /\ req[q].j = j /\ req[q].grant
                                    /\ req[q].pc \in {"regate", "resolve", "recycle", "drop"}]_vars

\* The eligible markers of a client whose record moved on are always flagged for a
\* rebuild: a rebuild never consumes a flag newer than the record it evaluated
\* (reindex_flagged_clients, update_own_client).
StaleIndexIsFlagged ==
    \A c \in Clients :
        eligible[c] # Match[profile[c]]
        => \/ flags[c] # {}
           \/ \E p \in Slots : req[p].c = c /\ At(p, "flag after")

-----------------------------------------------------------------------------
\* The queue seen as the life of its jobs, whatever key an entry is at.
Place == [j \in Jobs |-> [at |-> entry[j].at, by |-> entry[j].by]]
Finished == {j \in Jobs : HasRecord(j)}
Life == INSTANCE JobLife WITH place <- Place, finished <- Finished

\* The handlers and a run's settling and retiring together keep JobLife: a lease never
\* passes from one client to another without a recycle, no entry goes before its job has
\* a record, and nothing, a late renewal or recycle included, restores a deleted entry
\* (renew_lease, recycle_lease, resolve_or_recycle_lease, teardown_completed_job).
ImplementsJobLife == Life!Spec
=============================================================================
