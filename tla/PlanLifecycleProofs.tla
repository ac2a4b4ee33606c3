------------------------- MODULE PlanLifecycleProofs -------------------------
(***************************************************************************)
(* Proofs about PlanLifecycle, for any number of plans, leases and faults.   *)
(*                                                                         *)
(* A plan that settled on a job left its marker before it looked whether the *)
(* job is there, and a teardown deletes a job only when it saw no marker but  *)
(* its own, and looks again before it leaves the job deleted: Kept.  A plan   *)
(* without its marker was cancelled, and every run knows, until no ingest can *)
(* write over the latch: Bound and Undone.  What a run decides about a plan,  *)
(* it decides from a status that only the run itself, or an ingest that is    *)
(* not over, may have changed since: Sane and RunSane.                        *)
(***************************************************************************)
EXTENDS PlanLifecycle, NaturalsInduction, WellFoundedInduction, TLAPS

\* First-order leaves go to Zenon; those that need arithmetic or set encodings name SMT.
USE ZenonT(30)

\* The labels of an ingest before its manifest is filed, and after its end.
Early == {"idle", "claim", "official", "mark", "survive", "drop", "replace", "creating"}
Over == {"done", "dead"}
IngestLabels == Early \cup {"stage", "promote", "final"} \cup Over

\* The labels of a run: between two runs or after the plans, while one plan is torn
\* down, and from the listing of the manifests to the last teardown.
Apart == {"idle", "gc"}
Taking == {"drop", "body", "delete avail", "delete leases", "joiners", "restore"}
Before == {"recycle", "settle", "leased", "members"} \cup Taking
Settling == {"reconcile", "collect"}
RunLabels == Apart \cup {"manifests"} \cup Before \cup Settling

Reads == 0 .. 4
IngestType == [pc : IngestLabels, target : Plans \cup {0}, read : Reads, second : {"no", "yes"}]
Keys == Plans \X (1 .. MaxEvents)
RunType ==
    [pc : RunLabels, cancels : SUBSET Plans, status : [Plans -> Statuses],
     expired : SUBSET Keys, seen : SUBSET Plans, avail : SUBSET Plans, leases : SUBSET Keys,
     todo : SUBSET Plans, plan : Plans \cup {0}, body : {"gone", "read"},
     released : SUBSET Plans, perturbed : SUBSET Plans]

FilesType ==
    /\ status \in [Plans -> Statuses] /\ job \in [Plans -> Plans \cup {0}]
    /\ age \in [Plans -> {"young", "old", "slow"}]
    /\ cancels \subseteq Plans /\ members \subseteq Plans \X Plans /\ key \in Plans \cup {0}
    /\ ingest \in [Plans -> IngestType] /\ run \in RunType
QueueType ==
    /\ avail \subseteq Plans /\ leases \subseteq Keys /\ records \subseteq Plans
    /\ turn \in Nat /\ faults \in Nat

\* A cancel marker of which the run, if there is one, knows.
Marked(p) == p \in cancels /\ (run.pc \in Apart \/ p \in run.cancels)
Excused(p) == age[p] = "slow" \/ Marked(p)

\* What a plan's manifest and the run's copy of its status say about its ingest.
Sane(p) ==
    LET pc == ingest[p].pc
        listed == run.status[p]
    IN  /\ pc \in Early => status[p] = "none"
        /\ pc \in Early \ {"idle", "claim"} => ingest[p].target \in Plans
        /\ pc = "survive" => ingest[p].read # 0
        /\ pc \in {"stage", "promote"} => job[p] = p
        /\ status[p] # "none" \/ pc = "final" => job[p] # 0
        /\ status[p] = "creating" => pc # "done"
        /\ status[p] \in {"active", "complete"} => pc = "done"
        /\ age[p] = "old" => pc \in Over
        /\ listed # "none" => status[p] # "none"
        /\ listed = "creating" /\ age[p] = "old" => pc = "dead"
        /\ listed \in {"active", "complete"} => pc = "done"
        /\ listed = "complete" => status[p] = "complete"
        /\ listed = "cancelled" /\ age[p] = "old" => status[p] = "cancelled"

\* A plan on its way to its job has its marker, unless it is being cancelled.
Bound(p) ==
    LET c == ingest[p]
    IN  /\ c.pc = "survive" \/ (c.pc = "creating" /\ c.target # p) => <<c.target, p>> \in members
        /\ c.pc \in {"promote", "final"} \/ status[p] = "active"
             => <<job[p], p>> \in members \/ Excused(p)

\* A latch that an ingest may still write over, or did, keeps the cancel marker.
Undone(p) ==
    LET flying == ingest[p].pc \notin Over
        ends == {"cancelling", "cancelled"}
    IN  /\ status[p] \in ends /\ flying => Excused(p)
        /\ run.status[p] \in ends /\ (status[p] = "active" \/ flying) => Excused(p)

\* The job j is where a plan with a marker expects it.
There(j) == Live(j) \/ j \in records \cup lost \/ (InWindow /\ J = j)
Kept(p) ==
    LET c == ingest[p]
    IN  /\ c.pc = "creating" /\ c.target # p /\ <<c.target, p>> \in members => There(c.target)
        /\ c.pc \in {"final", "done"} /\ <<job[p], p>> \in members => There(job[p])

\* A plan that is latched complete is finished.
Finished(p) == status[p] = "complete" /\ age[p] # "slow" => p \in missed \/ job[p] \in records \cup lost

\* The cancel marker of the plan may go.
Collectable(p) ==
    age[p] = "slow" \/ (status[p] \in {"cancelling", "cancelled", "complete"} /\ ingest[p].pc \in Over)

\* What the run will rely on about the plan p that it has yet to reconcile.
Pending(p) ==
    /\ run.status[p] = "active" => status[p] = "active"
    /\ p \in run.cancels => p \in cancels

RunSane ==
    /\ run.pc = "idle" => run = NoRun
    /\ run.pc \in Apart \cup {"manifests"} => \A p \in Plans : run.status[p] = "none"
    /\ run.pc = "manifests" => run.cancels \subseteq cancels
    /\ run.pc \in Before => \A p \in Plans : Pending(p)
    /\ run.pc \in Taking => run.plan \in Plans /\ \A p \in run.todo \cup {run.plan} : TeardownCause(p)
    /\ run.pc \in Settling => \A p \in run.todo : run.status[p] # "none" /\ Pending(p)
    /\ run.pc = "collect" => /\ run.plan \in Plans \ run.todo /\ run.status[run.plan] # "none"
                             /\ Collectable(run.plan)

PInv == /\ FilesType /\ QueueType /\ RunSane
        /\ \A p \in Plans : Sane(p) /\ Bound(p) /\ Undone(p) /\ Kept(p) /\ Finished(p)

\* The plan that is taken next is one of those that are left.
LEMMA LeastOne ==
  ASSUME NEW S \in SUBSET Plans, S # {}
  PROVE  Least(S) \in S
  <1>1. \E p \in S : \A q \in S : p <= q
    <2>1. PICK p \in S : \A q \in S : <<q, p>> \notin OpToRel(<, Nat)
      BY NatLessThanWellFounded, WFMin, PlanAssumption
    <2>2. \A q \in S : ~ (q < p)
      BY <2>1, PlanAssumption DEF OpToRel
    <2> QED
      BY SMT, <2>2, PlanAssumption
  <1> QED
    BY <1>1 DEF Least

\* No run is a run.
LEMMA NoRunTyped == NoRun \in RunType
  BY DEF NoRun, RunType, RunLabels, Apart, Statuses

\* Where reconcile_plans goes when it has a plan to take, and when it has none.
LEMMA ReconcileTo ==
  ASSUME NEW r \in RunType
  PROVE  /\ ReconcileAll(r) \in RunType
         /\ \/ /\ ReconcileAll(r).pc = "reconcile" /\ ReconcileAll(r).todo = r.todo
               /\ ReconcileAll(r).status = r.status /\ ReconcileAll(r).cancels = r.cancels
            \/ /\ ReconcileAll(r).pc = "gc"
               /\ ReconcileAll(r).status = [p \in Plans |-> "none"]
  <1>1. CASE r.todo # {}
    BY <1>1 DEF ReconcileAll, RunType, RunLabels, Settling
  <1>2. CASE r.todo = {}
    <2>1. [NoRun EXCEPT !.pc = "gc", !.seen = r.seen] \in RunType
      BY NoRunTyped DEF RunType, RunLabels, Apart
    <2>2. /\ [NoRun EXCEPT !.pc = "gc", !.seen = r.seen].pc = "gc"
          /\ [NoRun EXCEPT !.pc = "gc", !.seen = r.seen].status = [p \in Plans |-> "none"]
      BY DEF NoRun
    <2> QED
      BY <1>2, <2>1, <2>2 DEF ReconcileAll
  <1> QED
    BY <1>1, <1>2

\* Where tear_down_plans goes: to a plan of those it was given, or on to reconcile_plans.
LEMMA TearDownTo ==
  ASSUME NEW r \in RunType
  PROVE  /\ TearDown(r) \in RunType
         /\ \/ /\ TearDown(r).pc = "drop" /\ TearDown(r).plan \in r.todo
               /\ TearDown(r).todo \subseteq r.todo
               /\ TearDown(r).status = r.status /\ TearDown(r).cancels = r.cancels
            \/ /\ TearDown(r).pc = "reconcile"
               /\ \A p \in TearDown(r).todo : r.status[p] # "none"
               /\ TearDown(r).status = r.status /\ TearDown(r).cancels = r.cancels
            \/ /\ TearDown(r).pc = "gc"
               /\ TearDown(r).status = [p \in Plans |-> "none"]
  <1> DEFINE left == {p \in r.todo : /\ p \notin r.released
                                     /\ job[p] \in r.avail \/ \E l \in r.leases : l[1] = job[p]}
             held == {p \in Plans : r.status[p] # "none" /\ (~Untouched(p) \/ Collects(p))}
             one == [r EXCEPT !.pc = "drop", !.plan = Least(left), !.body = "gone",
                              !.todo = left \ {Least(left)}]
             rest == [r EXCEPT !.plan = 0, !.body = "gone", !.avail = {}, !.leases = {},
                               !.todo = held, !.released = @ \cap held]
  <1>1. TearDown(r) = IF left # {} THEN one ELSE ReconcileAll(rest)
    BY DEF TearDown
  <1>2. left \subseteq r.todo /\ left \in SUBSET Plans /\ held \in SUBSET Plans
    BY DEF RunType
  <1>3. CASE left # {}
    <2>1. Least(left) \in left
      BY <1>2, <1>3, LeastOne
    <2> HIDE DEF left
    <2>2. /\ one \in RunType /\ one.pc = "drop" /\ one.plan = Least(left)
          /\ one.todo = left \ {Least(left)} /\ one.status = r.status /\ one.cancels = r.cancels
      BY <2>1, <1>2 DEF RunType, RunLabels, Before, Taking
    <2> QED
      BY <1>1, <1>3, <2>1, <2>2, <1>2
  <1>4. CASE left = {}
    <2>1. \A p \in held : r.status[p] # "none"
      OBVIOUS
    <2> HIDE DEF held, left
    <2>2. /\ rest \in RunType /\ rest.todo = held
          /\ rest.status = r.status /\ rest.cancels = r.cancels
      BY <1>2 DEF RunType
    <2> HIDE DEF rest
    <2>3. TearDown(r) = ReconcileAll(rest)
      BY <1>1, <1>4
    <2> QED
      BY <2>1, <2>2, <2>3, ReconcileTo
  <1> QED
    BY <1>3, <1>4

\* What a step of the run that takes the next plan, or goes on to the reconciliation,
\* leaves of the run's knowledge.
LEMMA TakesNext ==
  ASSUME PInv, run.pc \in Before, UNCHANGED <<status, cancels, age>>,
         NEW r \in RunType, r.status = run.status, r.cancels = run.cancels,
         \A p \in r.todo : TeardownCause(p),
         run' = TearDown(r)
  PROVE  /\ run' \in RunType /\ RunSane' /\ ~InWindow'
         /\ \A p \in Plans : run'.status[p] \in {run.status[p], "none"}
         /\ \A p \in Plans : Marked(p) => Marked(p)'
  <1>1. /\ run' \in RunType
        /\ \/ /\ run'.pc = "drop" /\ run'.plan \in r.todo /\ run'.todo \subseteq r.todo
              /\ run'.status = run.status /\ run'.cancels = run.cancels
           \/ /\ run'.pc = "reconcile" /\ \A p \in run'.todo : run.status[p] # "none"
              /\ run'.status = run.status /\ run'.cancels = run.cancels
           \/ run'.pc = "gc" /\ run'.status = [p \in Plans |-> "none"]
    BY TearDownTo
  <1>2. run.pc \notin Apart /\ \A p \in Plans : Pending(p)
    BY DEF PInv, RunSane, Apart, Before, Taking
  <1>3. r.todo \subseteq Plans /\ run'.todo \subseteq Plans
    BY <1>1 DEF RunType
  <1>4. CASE run'.pc = "gc"
    BY <1>1, <1>2, <1>4 DEF RunSane, Apart, Before, Taking, Settling, InWindow, Marked
  <1>5. ASSUME run'.status = run.status, run'.cancels = run.cancels
        PROVE  \A p \in Plans : /\ Pending(p)' /\ (Marked(p) => Marked(p)')
                                /\ TeardownCause(p) => TeardownCause(p)'
    BY <1>2, <1>5 DEF Pending, Marked, TeardownCause, Stranded
  <1>6. CASE run'.pc = "drop"
    BY <1>1, <1>3, <1>5, <1>6 DEF RunSane, Apart, Before, Taking, Settling, InWindow
  <1>7. CASE run'.pc = "reconcile"
    BY <1>1, <1>3, <1>5, <1>7 DEF RunSane, Apart, Before, Taking, Settling, InWindow
  <1> QED
    BY <1>1, <1>4, <1>6, <1>7

\* The same for the step that takes the next plan to reconcile.
LEMMA ReconcilesNext ==
  ASSUME PInv, run.pc \in Settling, UNCHANGED age,
         NEW r \in RunType, r.status = run.status, r.cancels = run.cancels,
         r.todo \subseteq run.todo,
         \A p \in r.todo : status'[p] = status[p] /\ (p \in cancels => p \in cancels'),
         run' = ReconcileAll(r)
  PROVE  /\ run' \in RunType /\ RunSane' /\ ~InWindow'
         /\ \A p \in Plans : run'.status[p] \in {run.status[p], "none"}
         /\ run'.pc \in Apart \/ run'.cancels = run.cancels
  <1>1. /\ run' \in RunType
        /\ \/ /\ run'.pc = "reconcile" /\ run'.todo = r.todo
              /\ run'.status = run.status /\ run'.cancels = run.cancels
           \/ run'.pc = "gc" /\ run'.status = [p \in Plans |-> "none"]
    BY ReconcileTo
  <1>2. \A p \in run.todo : run.status[p] # "none" /\ Pending(p)
    BY DEF PInv, RunSane
  <1>3. CASE run'.pc = "gc"
    BY <1>1, <1>3 DEF RunSane, Apart, Before, Taking, Settling, InWindow
  <1>4. CASE run'.pc = "reconcile"
    <2>1. \A p \in r.todo : Pending(p)'
      BY <1>1, <1>2, <1>4 DEF Pending
    <2> QED
      BY <1>1, <1>2, <1>4, <2>1 DEF RunSane, Apart, Before, Taking, Settling, InWindow
  <1> QED
    BY <1>1, <1>3, <1>4

\* A step of the run that leaves the manifests and the cancel markers alone keeps the
\* invariant when it forgets no cancel and takes from the queue no job that a marker is for.
LEMMA RunKeeps ==
  ASSUME PInv, UNCHANGED <<status, job, cancels, age, ingest, missed>>,
         run' \in RunType, RunSane', QueueType', key' \in Plans \cup {0},
         \/ members' = members
         \/ run.pc = "drop" /\ members' = members \ {<<J, run.plan>>},
         \A p \in Plans : run'.status[p] \in {run.status[p], "none", status[p]},
         \A p \in Plans : Marked(p) => Marked(p)',
         \A j \in Plans : There(j) => There(j)' \/ \A p \in Plans : <<j, p>> \notin members',
         records \subseteq records', lost \subseteq lost'
  PROVE  PInv'
  <1>1. FilesType'
    BY DEF PInv, FilesType
  <1>2. members' \subseteq members
    OBVIOUS
  <1> SUFFICES ASSUME NEW p \in Plans
               PROVE  Sane(p)' /\ Bound(p)' /\ Undone(p)' /\ Kept(p)' /\ Finished(p)'
    BY <1>1 DEF PInv
  <1>3. Sane(p) /\ Bound(p) /\ Undone(p) /\ Kept(p) /\ Finished(p)
    BY DEF PInv
  <1>4. Excused(p) => Excused(p)'
    BY DEF Excused
  <1>5. Sane(p)'
    BY <1>3, Zenon DEF Sane, PInv, FilesType, Statuses, Over
  <1>6. Undone(p)'
    BY <1>3, <1>4, Zenon DEF Undone
  <1>7. ASSUME run.pc = "drop", p = run.plan,
               ingest[p].pc \in {"promote", "final"} \/ status[p] = "active"
        PROVE  Excused(p)
    <2>1. TeardownCause(p) /\ Pending(p) /\ run.pc \notin Apart
      BY <1>7 DEF PInv, RunSane, Before, Taking, Apart
    <2>2. CASE run.status[p] \in {"cancelling", "cancelled"}
      BY <1>3, <1>7, <2>2 DEF Undone, Over
    <2>3. CASE p \in run.cancels
      BY <2>1, <2>3 DEF Pending, Excused, Marked
    <2>4. CASE Stranded(p)
      <3>1. age[p] \in {"old", "slow"}
        BY <2>4 DEF Stranded, PInv, FilesType
      <3>2. age[p] # "old"
        BY <1>3, <1>7, <2>4 DEF Stranded, Sane
      <3> QED
        BY <3>1, <3>2 DEF Excused
    <2> QED
      BY <2>1, <2>2, <2>3, <2>4 DEF TeardownCause
  <1>8. Bound(p)'
    <2>1. run.pc = "drop" => status[run.plan] # "none" /\ run.plan \in Plans
      <3> SUFFICES ASSUME run.pc = "drop" PROVE status[run.plan] # "none" /\ run.plan \in Plans
        OBVIOUS
      <3>1. run.plan \in Plans /\ TeardownCause(run.plan)
        BY DEF PInv, RunSane, Taking
      <3>2. Sane(run.plan)
        BY <3>1 DEF PInv
      <3> QED
        BY <3>1, <3>2 DEF TeardownCause, Stranded, Sane
    <2>2. ingest[p].pc \in {"survive", "creating"} => status[p] = "none"
      BY <1>3 DEF Sane, Early
    <2>3. \A j : <<j, p>> \in members => <<j, p>> \in members' \/ (run.pc = "drop" /\ p = run.plan)
      OBVIOUS
    <2> QED
      BY <1>3, <1>4, <1>7, <2>1, <2>2, <2>3, Zenon DEF Bound
  <1>9. Kept(p)'
    <2>1. ingest[p].pc = "creating" => ingest[p].target \in Plans
      BY <1>3 DEF Sane, Early
    <2>2. <<job[p], p>> \in members => job[p] \in Plans
      BY DEF PInv, FilesType
    <2> QED
      BY <1>2, <1>3, <2>1, <2>2, Zenon DEF Kept
  <1>10. Finished(p)'
    BY <1>3 DEF Finished
  <1> QED
    BY <1>5, <1>6, <1>8, <1>9, <1>10

\* What a step of the run before the reconciliation leaves of its knowledge when it stays
\* with the plan it has, if it has one.
LEMMA StaysOn ==
  ASSUME PInv, run.pc \in Before, UNCHANGED <<status, cancels, age>>,
         run'.pc \in Before, run'.status = run.status, run'.cancels = run.cancels,
         run'.pc \in Taking => run.pc \in Taking /\ run'.plan = run.plan /\ run'.todo = run.todo
  PROVE  /\ RunSane'
         /\ \A p \in Plans : run'.status[p] \in {run.status[p], "none"}
         /\ \A p \in Plans : Marked(p) => Marked(p)'
  <1>1. run.pc \notin Apart /\ \A p \in Plans : Pending(p)
    BY DEF PInv, RunSane, Apart, Before, Taking
  <1>2. \A p \in Plans : /\ Pending(p)' /\ (Marked(p) => Marked(p)')
                         /\ TeardownCause(p) => TeardownCause(p)'
    BY <1>1 DEF Pending, Marked, TeardownCause, Stranded
  <1>3. run.pc \in Taking => run.plan \in Plans /\ \A p \in run.todo \cup {run.plan} : TeardownCause(p)
    BY DEF PInv, RunSane
  <1>4. run.todo \subseteq Plans
    BY DEF PInv, FilesType, RunType
  <1>5. run'.pc \notin Apart \cup Settling \cup {"idle", "manifests", "collect"}
    BY DEF Apart, Before, Taking, Settling
  <1> QED
    BY <1>2, <1>3, <1>4, <1>5 DEF RunSane

\* A step that leaves the queue alone leaves every job where it is, outside the window.
LEMMA SameThere ==
  ASSUME UNCHANGED <<avail, leases, records, lost>>, ~InWindow
  PROVE  \A j \in Plans : There(j) => There(j)'
  BY DEF There, Live, Leased

\* list_cancel_markers begins a run: every cancel marker there is known to it.
LEMMA ListsCancels ==
  ASSUME PInv, ListCancelMarkers
  PROVE  PInv'
  <1>1. run = NoRun /\ run' = [NoRun EXCEPT !.pc = "manifests", !.cancels = cancels]
    BY DEF ListCancelMarkers, RunIs, PInv, RunSane
  <1>2. cancels \subseteq Plans /\ UNCHANGED <<queue, files, age, ingest, faults, history>>
    BY DEF ListCancelMarkers, Quiet, PInv, FilesType
  <1>3. /\ run' \in RunType /\ run'.pc = "manifests" /\ run'.cancels = cancels
        /\ run'.status = run.status /\ run.pc = "idle" /\ \A p \in Plans : run.status[p] = "none"
    BY <1>1, <1>2, NoRunTyped DEF NoRun, RunType, RunLabels
  <1>4. RunSane'
    BY <1>2, <1>3 DEF RunSane, Before, Taking, Settling, Apart, files
  <1>5. \A p \in Plans : Marked(p) => Marked(p)'
    BY <1>2, <1>3 DEF Marked, files
  <1>6. \A j \in Plans : There(j) => There(j)'
    BY <1>2, <1>3, SameThere DEF queue, history, InWindow
  <1> QED
    BY <1>2, <1>3, <1>4, <1>5, <1>6, RunKeeps DEF queue, files, history, QueueType, PInv, FilesType

\* The listing of the manifests: what the run knows of a status is then the status.
LEMMA ListsManifests ==
  ASSUME PInv, ListManifests
  PROVE  PInv'
  <1>1. run.pc = "manifests" /\ run' = [run EXCEPT !.pc = "recycle", !.status = status]
    BY DEF ListManifests, RunIs
  <1>2. run \in RunType /\ status \in [Plans -> Statuses] /\ UNCHANGED <<queue, files, age, ingest, faults, history>>
    BY DEF ListManifests, Quiet, PInv, FilesType
  <1>3. /\ run' \in RunType /\ run'.pc = "recycle" /\ run'.cancels = run.cancels
        /\ run'.status = status
    BY <1>1, <1>2 DEF RunType, RunLabels, Before
  <1>4. RunSane'
    <2>1. run.cancels \subseteq cancels
      BY <1>1 DEF PInv, RunSane
    <2>2. \A p \in Plans : Pending(p)'
      BY <2>1, <1>2, <1>3 DEF Pending, files
    <2> QED
      BY <1>3, <2>2 DEF RunSane, Before, Taking, Settling, Apart
  <1>5. \A p \in Plans : Marked(p) => Marked(p)'
    BY <1>1, <1>2, <1>3 DEF Marked, files, Apart
  <1>6. \A j \in Plans : There(j) => There(j)'
    BY <1>1, <1>2, <1>3, SameThere DEF queue, history, InWindow
  <1> QED
    BY <1>2, <1>3, <1>4, <1>5, <1>6, RunKeeps DEF queue, files, history, QueueType, PInv, FilesType

\* The listings of leased/ and avail/ before the first teardown.
LEMMA ListsQueue ==
  ASSUME PInv, ListForRecycle \/ ListAvail \/ ListLeased
  PROVE  PInv'
  <1>1. run \in RunType /\ leases \subseteq Keys /\ avail \subseteq Plans
    BY DEF PInv, FilesType, QueueType
  <1>2. key \in Plans \cup {0} /\ job \in [Plans -> Plans \cup {0}]
    BY DEF PInv, FilesType
  <1>3. UNCHANGED <<queue, files, age, ingest, faults, history>>
    BY DEF ListForRecycle, ListAvail, ListLeased, Quiet
  <1>4. Queued(Leased) \subseteq Plans /\ Queued(avail) \subseteq Plans /\ avail \cap DoomedJobs \subseteq Plans
    <2>1. Leased \subseteq Plans
      BY <1>1 DEF Leased, Keys
    <2> QED
      BY <2>1, <1>1 DEF Queued
  <1>5. /\ run' \in RunType /\ run.pc \in {"recycle", "settle", "leased"}
        /\ run'.pc \in {"settle", "leased", "members"}
        /\ run'.status = run.status /\ run'.cancels = run.cancels
    <2>1. CASE ListForRecycle
      <3>1. PICK overdue \in SUBSET leases :
               run' = [run EXCEPT !.pc = "settle", !.seen = Queued(Leased), !.expired = overdue]
        BY <2>1 DEF ListForRecycle, RunIs
      <3>2. run.pc = "recycle" /\ overdue \in SUBSET Keys
        BY <2>1, <1>1 DEF ListForRecycle
      <3> QED
        BY <3>1, <3>2, <1>1, <1>4 DEF RunType, RunLabels, Before
    <2>2. CASE ListAvail
      BY <2>2, <1>1, <1>4 DEF ListAvail, RunIs, RunType, RunLabels, Before
    <2>3. CASE ListLeased
      <3>1. {l \in leases : l[1] \in DoomedJobs} \in SUBSET Keys
        BY <1>1
      <3> QED
        BY <2>3, <3>1, <1>1, <1>4 DEF ListLeased, RunIs, RunType, RunLabels, Before
    <2> QED
      BY <2>1, <2>2, <2>3
  <1>6. /\ RunSane' /\ \A p \in Plans : run'.status[p] \in {run.status[p], "none"}
        /\ \A p \in Plans : Marked(p) => Marked(p)'
    BY <1>3, <1>5, StaysOn DEF files, Before, Taking
  <1>7. \A j \in Plans : There(j) => There(j)'
    BY <1>3, <1>5, SameThere DEF queue, history, InWindow
  <1> QED
    BY <1>2, <1>3, <1>5, <1>6, <1>7, RunKeeps DEF queue, files, history, QueueType, PInv

\* settle_expired_leases: a lease that goes leaves its job in avail/ or has its record.
LEMMA SettlesLease ==
  ASSUME PInv, NEW l \in run.expired, SettleLease(l)
  PROVE  PInv'
  <1>1. run \in RunType /\ leases \subseteq Keys /\ avail \subseteq Plans /\ l \in Keys
    BY DEF PInv, FilesType, QueueType, RunType
  <1>2. key \in Plans \cup {0} /\ l[1] \in Plans
    BY <1>1 DEF PInv, FilesType, Keys
  <1>3. /\ UNCHANGED <<files, turn, records, age, ingest, faults, history>>
        /\ leases' = leases \ {l}
        /\ avail' = IF l \in leases /\ l[1] \notin records THEN avail \cup {l[1]} ELSE avail
        /\ run' = [run EXCEPT !.expired = @ \ {l}, !.seen = IF l[1] \in records THEN @ \ {l[1]} ELSE @]
        /\ run.pc = "settle"
    BY DEF SettleLease, RunIs
  <1>4. /\ run' \in RunType /\ run'.pc = "settle"
        /\ run'.status = run.status /\ run'.cancels = run.cancels
    BY <1>1, <1>3 DEF RunType
  <1>5. /\ RunSane' /\ \A p \in Plans : run'.status[p] \in {run.status[p], "none"}
        /\ \A p \in Plans : Marked(p) => Marked(p)'
    BY <1>3, <1>4, StaysOn DEF files, Before, Taking
  <1>6. \A j \in Plans : There(j) => There(j)'
    BY <1>3, <1>4 DEF There, Live, Leased, InWindow, history
  <1>7. QueueType'
    BY <1>1, <1>2, <1>3 DEF QueueType, PInv
  <1> QED
    BY <1>2, <1>3, <1>4, <1>5, <1>6, <1>7, RunKeeps DEF files, history

\* The listing of members, after which the first plan is taken.
LEMMA ListsMembers ==
  ASSUME PInv, ListMembers
  PROVE  PInv'
  <1> DEFINE r == [run EXCEPT !.released = {p \in Doomed : ReleasedBy(job[p], p)}, !.todo = Doomed]
  <1>1. run \in RunType /\ Doomed \in SUBSET Plans /\ key \in Plans \cup {0}
    BY DEF PInv, FilesType, Doomed
  <1>2. run' = TearDown(r) /\ run.pc = "members" /\ UNCHANGED <<queue, files, age, ingest, faults, history>>
    BY DEF ListMembers, RunIs, Quiet
  <1>3. /\ r \in RunType /\ r.status = run.status /\ r.cancels = run.cancels
        /\ r.todo = Doomed
    BY <1>1 DEF RunType
  <1>4. \A p \in Doomed : TeardownCause(p)
    BY DEF Doomed
  <1> HIDE DEF r
  <1>5. /\ run' \in RunType /\ RunSane' /\ ~InWindow'
        /\ \A p \in Plans : run'.status[p] \in {run.status[p], "none"}
        /\ \A p \in Plans : Marked(p) => Marked(p)'
    BY <1>2, <1>3, <1>4, TakesNext DEF files, Before
  <1>6. \A j \in Plans : There(j) => There(j)'
    BY <1>2, SameThere DEF queue, history, InWindow
  <1> QED
    BY <1>1, <1>2, <1>5, <1>6, RunKeeps DEF queue, files, history, QueueType, PInv

\* The teardown goes on to the next plan, whatever became of this one.
LEMMA LeavesPlan ==
  ASSUME PInv, run.pc \in Taking, UNCHANGED <<status, cancels, age>>,
         run' \in {NextPlan, Release, Retire}
  PROVE  /\ run' \in RunType /\ RunSane' /\ ~InWindow'
         /\ \A p \in Plans : run'.status[p] \in {run.status[p], "none"}
         /\ \A p \in Plans : Marked(p) => Marked(p)'
  <1> DEFINE a == [run EXCEPT !.released = @ \cup {run.plan}]
             b == [run EXCEPT !.avail = @ \ {J}, !.leases = @ \ HeldBy(J), !.seen = @ \ {J},
                              !.perturbed = @ \cup {run.plan}]
  <1>1. /\ run \in RunType /\ run.plan \in Plans /\ run.pc \in Before
        /\ \A p \in run.todo : TeardownCause(p)
    BY DEF PInv, FilesType, RunSane, Before
  <1>2. /\ a \in RunType /\ a.status = run.status /\ a.cancels = run.cancels
        /\ a.todo = run.todo
    BY <1>1 DEF RunType
  <1>3. /\ b \in RunType /\ b.status = run.status /\ b.cancels = run.cancels
        /\ b.todo = run.todo
    BY <1>1 DEF RunType
  <1>4. run' \in {TearDown(run), TearDown(a), TearDown(b)}
    BY DEF NextPlan, Release, Retire
  <1> HIDE DEF a, b
  <1>5. CASE run' = TearDown(run)
    BY <1>1, <1>5, TakesNext
  <1>6. CASE run' = TearDown(a)
    BY <1>1, <1>2, <1>6, TakesNext
  <1>7. CASE run' = TearDown(b)
    BY <1>1, <1>3, <1>7, TakesNext
  <1> QED
    BY <1>4, <1>5, <1>6, <1>7

\* A step within end_membership that stays with its plan.
LEMMA StaysWithPlan ==
  ASSUME PInv, run.pc \in Taking, UNCHANGED <<status, cancels, age>>,
         NEW pc \in Taking, NEW body \in {"read", "gone"},
         run' = [run EXCEPT !.pc = pc, !.body = body]
  PROVE  /\ run' \in RunType /\ RunSane' /\ run'.pc = pc /\ run'.plan = run.plan
         /\ \A p \in Plans : run'.status[p] \in {run.status[p], "none"}
         /\ \A p \in Plans : Marked(p) => Marked(p)'
  <1>1. run \in RunType
    BY DEF PInv, FilesType
  <1>2. /\ run' \in RunType /\ run'.pc = pc /\ run'.plan = run.plan /\ run'.todo = run.todo
        /\ run'.status = run.status /\ run'.cancels = run.cancels
    BY <1>1 DEF RunType, RunLabels, Before
  <1> QED
    BY <1>2, StaysOn DEF Before

\* remove_membership: the plan whose marker goes has a cause to be torn down.
LEMMA DropsMembership ==
  ASSUME PInv, DropMembership
  PROVE  PInv'
  <1>1. /\ run.pc = "drop" /\ members' = members \ {<<J, run.plan>>}
        /\ UNCHANGED <<status, job, cancels, key, sighted, queue, age, ingest, faults, history>>
        /\ run' = Release \/ run' = [run EXCEPT !.pc = "body"]
    BY DEF DropMembership, RunIs, RunTo
  <1>2. run \in RunType /\ key \in Plans \cup {0}
    BY DEF PInv, FilesType
  <1>3. /\ run' \in RunType /\ RunSane'
        /\ \A p \in Plans : run'.status[p] \in {run.status[p], "none"}
        /\ \A p \in Plans : Marked(p) => Marked(p)'
    <2>1. CASE run' = Release
      BY <1>1, <2>1, LeavesPlan DEF Taking
    <2>2. CASE run' = [run EXCEPT !.pc = "body"]
      <3>1. run' = [run EXCEPT !.pc = "body", !.body = run.body] /\ run.body \in {"read", "gone"}
        BY <1>2, <2>2 DEF RunType
      <3> QED
        BY <1>1, <3>1, StaysWithPlan DEF Taking
    <2> QED
      BY <1>1, <2>1, <2>2
  <1>4. \A j \in Plans : There(j) => There(j)'
    BY <1>1, SameThere DEF queue, history, InWindow
  <1> QED
    BY <1>1, <1>2, <1>3, <1>4, RunKeeps DEF queue, history, QueueType, PInv

\* The body is read, the avail/ entry and the listed leases are deleted: from there on the
\* job may be in the window.
LEMMA DeletesJob ==
  ASSUME PInv, ReadBody \/ DeleteAvail \/ DeleteLeases
  PROVE  PInv'
  <1>1. /\ run \in RunType /\ key \in Plans \cup {0} /\ run.plan \in Plans
        /\ run.pc \in {"body", "delete avail", "delete leases"}
    BY DEF PInv, FilesType, RunSane, ReadBody, DeleteAvail, DeleteLeases, Taking
  <1>2. /\ UNCHANGED <<files, turn, records, age, ingest, faults, history>>
        /\ \E pc \in Taking, body \in {"read", "gone"} : run' = [run EXCEPT !.pc = pc, !.body = body]
    <2>1. CASE ReadBody
      BY <2>1 DEF ReadBody, RunIs, Quiet, queue, Taking
    <2>2. CASE DeleteAvail
      <3>1. run' = [run EXCEPT !.pc = "delete leases", !.body = run.body] /\ run.body \in {"read", "gone"}
        BY <1>1, <2>2 DEF DeleteAvail, RunTo, RunType
      <3> QED
        BY <2>2, <3>1 DEF DeleteAvail, Taking
    <2>3. CASE DeleteLeases
      <3>1. run' = [run EXCEPT !.pc = "joiners", !.body = run.body] /\ run.body \in {"read", "gone"}
        BY <1>1, <2>3 DEF DeleteLeases, RunTo, RunType
      <3> QED
        BY <2>3, <3>1 DEF DeleteLeases, Taking
    <2> QED
      BY <2>1, <2>2, <2>3
  <1>3. /\ run' \in RunType /\ RunSane' /\ run'.plan = run.plan
        /\ \A p \in Plans : run'.status[p] \in {run.status[p], "none"}
        /\ \A p \in Plans : Marked(p) => Marked(p)'
    BY <1>1, <1>2, StaysWithPlan DEF files, Taking
  <1>4. \A j \in Plans : There(j) => There(j)'
    <2>1. CASE ReadBody
      BY <2>1, SameThere DEF ReadBody, Quiet, queue, history, InWindow
    <2>2. CASE DeleteAvail
      <3>1. avail \ {J} \subseteq avail' /\ leases' = leases /\ InWindow' /\ J' = J
        BY <2>2, <1>1, <1>2, <1>3 DEF DeleteAvail, RunTo, RunType, InWindow, J, files
      <3> QED
        BY <2>2, <3>1, <1>2 DEF There, Live, Leased, history, InWindow, DeleteAvail
    <2>3. CASE DeleteLeases
      <3>1. avail' = avail /\ leases' = leases \ HeldBy(J) /\ InWindow' /\ J' = J
        BY <2>3, <1>1, <1>2, <1>3 DEF DeleteLeases, RunTo, RunType, InWindow, J, files
      <3>2. \A l \in leases : l \in leases' \/ l[1] = J
        BY <3>1 DEF HeldBy
      <3> QED
        BY <3>1, <3>2, <1>2 DEF There, Live, Leased, history
    <2> QED
      BY <2>1, <2>2, <2>3
  <1>5. QueueType'
    BY <1>2 DEF ReadBody, DeleteAvail, DeleteLeases, Quiet, queue, QueueType, PInv
  <1> QED
    BY <1>1, <1>2, <1>3, <1>4, <1>5, RunKeeps DEF files, history

\* restore_if_joined: the run leaves the window with no marker at the job, with the job put
\* back, or with the job lost.
LEMMA LeavesWindow ==
  ASSUME PInv, ListJoiners \/ Restore
  PROVE  PInv'
  <1>1. /\ run \in RunType /\ key \in Plans \cup {0} /\ run.plan \in Plans
        /\ run.pc \in {"joiners", "restore"} /\ J \in Plans
    <2>1. run.pc \in {"joiners", "restore"} /\ run \in RunType
      BY DEF PInv, FilesType, ListJoiners, Restore
    <2>2. run.plan \in Plans /\ TeardownCause(run.plan)
      BY <2>1 DEF PInv, RunSane, Taking
    <2>3. run.status[run.plan] # "none" /\ Sane(run.plan) /\ job \in [Plans -> Plans \cup {0}]
      BY <2>2 DEF TeardownCause, Stranded, PInv, FilesType
    <2>4. J # 0
      BY <2>3 DEF Sane, J
    <2> QED
      BY <2>1, <2>2, <2>3, <2>4 DEF J, PInv, FilesType
  <1>2. /\ UNCHANGED <<files, leases, turn, records, age, ingest, faults, missed>>
        /\ avail \subseteq avail' /\ avail' \subseteq avail \cup {J} /\ lost \subseteq lost'
    BY DEF ListJoiners, Restore, queue, history
  <1>3. \/ run' = Release /\ J \in avail' \cup lost' \cup Leased
        \/ run' = Retire /\ Markers(J) = {}
        \/ run' = [run EXCEPT !.pc = "restore", !.body = run.body]
    <2>1. CASE Restore
      BY <2>1 DEF Restore, RunIs
    <2>2. CASE ListJoiners /\ run.body = "gone"
      BY <2>2 DEF ListJoiners, RunIs, Live, queue
    <2>3. CASE ListJoiners /\ run.body # "gone"
      BY <2>3, <1>1 DEF ListJoiners, RunIs, RunTo, RunType
    <2> QED
      BY <2>1, <2>2, <2>3
  <1>4. CASE run' = Release \/ run' = Retire
    <2>1. /\ run' \in RunType /\ RunSane' /\ ~InWindow'
          /\ \A p \in Plans : run'.status[p] \in {run.status[p], "none"}
          /\ \A p \in Plans : Marked(p) => Marked(p)'
      BY <1>1, <1>2, <1>4, LeavesPlan DEF files, Taking
    <2>2. \A j \in Plans : There(j) => There(j)' \/ \A p \in Plans : <<j, p>> \notin members'
      <3> SUFFICES ASSUME NEW j \in Plans, There(j), ~There(j)'
                   PROVE  \A p \in Plans : <<j, p>> \notin members'
        OBVIOUS
      <3>1. j = J
        BY <1>2 DEF There, Live, Leased
      <3>2. J \notin avail' \cup lost' \cup Leased
        BY <1>2, <3>1 DEF There, Live, Leased
      <3>3. Markers(J) = {}
        BY <1>1, <1>3, <1>4, <3>2, <2>1 DEF InWindow, RunType
      <3> QED
        BY <1>2, <3>1, <3>3 DEF Markers, files
    <2>3. QueueType'
      BY <1>1, <1>2 DEF QueueType, PInv
    <2> QED
      BY <1>1, <1>2, <2>1, <2>2, <2>3, RunKeeps DEF files
  <1>5. CASE run' = [run EXCEPT !.pc = "restore", !.body = run.body]
    <2>1. /\ run' \in RunType /\ RunSane' /\ run'.pc = "restore" /\ run'.plan = run.plan
          /\ \A p \in Plans : run'.status[p] \in {run.status[p], "none"}
          /\ \A p \in Plans : Marked(p) => Marked(p)'
      <3>1. run.body \in {"read", "gone"}
        BY <1>1 DEF RunType
      <3> QED
        BY <1>1, <1>2, <1>5, <3>1, StaysWithPlan DEF files, Taking
    <2>2. \A j \in Plans : There(j) => There(j)'
      BY <1>2, <2>1 DEF There, Live, Leased, InWindow, J, files
    <2>3. QueueType'
      BY <1>1, <1>2 DEF QueueType, PInv
    <2> QED
      BY <1>1, <1>2, <2>1, <2>2, <2>3, RunKeeps DEF files
  <1> QED
    BY <1>3, <1>4, <1>5

\* gc_plan_index ends the run.
LEMMA CollectsKeys ==
  ASSUME PInv, GcPlanIndex
  PROVE  PInv'
  <1>1. /\ run' = NoRun /\ run.pc = "gc" /\ key' \in {0, key}
        /\ UNCHANGED <<status, job, cancels, members, queue, age, ingest, faults, history>>
    BY DEF GcPlanIndex, RunIs
  <1>2. run'.pc = "idle" /\ run'.status = [p \in Plans |-> "none"]
    BY <1>1 DEF NoRun
  <1>3. RunSane'
    BY <1>1, <1>2 DEF RunSane, Before, Taking, Settling
  <1>4. \A p \in Plans : Marked(p) => Marked(p)'
    BY <1>1, <1>2 DEF Marked, Apart
  <1>5. \A j \in Plans : There(j) => There(j)'
    BY <1>1, SameThere DEF queue, history, InWindow
  <1> QED
    BY <1>1, <1>2, <1>3, <1>4, <1>5, NoRunTyped, RunKeeps DEF queue, history, QueueType, PInv, FilesType

\* A call about a plan fails, or the run dies: a job caught in the window is lost.
LEMMA FailsRun ==
  ASSUME PInv, RunFails
  PROVE  PInv'
  <1>1. /\ run \in RunType /\ key \in Plans \cup {0} /\ run.pc # "idle"
        /\ faults' = faults + 1
        /\ members' = members \/ (run.pc = "drop" /\ members' = members \ {<<J, run.plan>>})
        /\ lost' = IF InWindow /\ ~Live(J) THEN lost \cup {J} ELSE lost
        /\ UNCHANGED <<status, job, cancels, key, queue, age, ingest, missed>>
    BY DEF PInv, FilesType, RunFails
  <1>2. \/ run.pc \in Taking /\ run' = NextPlan
        \/ run.pc = "reconcile" /\ run' = ReconcileAll([run EXCEPT !.todo = @ \ {Least(@)}])
        \/ run.pc = "collect" /\ run' = ReconcileAll(run)
        \/ run' = NoRun
    BY DEF RunFails, RunIs, Taking
  <1>3. /\ run' \in RunType /\ RunSane' /\ ~InWindow'
        /\ \A p \in Plans : run'.status[p] \in {run.status[p], "none"}
        /\ \A p \in Plans : Marked(p) => Marked(p)'
    <2>1. CASE run.pc \in Taking /\ run' = NextPlan
      BY <1>1, <2>1, LeavesPlan
    <2>2. CASE run.pc = "reconcile" /\ run' = ReconcileAll([run EXCEPT !.todo = @ \ {Least(@)}])
      <3> DEFINE r == [run EXCEPT !.todo = @ \ {Least(@)}]
      <3>1. /\ r \in RunType /\ r.status = run.status /\ r.cancels = run.cancels
            /\ r.todo \subseteq run.todo
        BY <1>1 DEF RunType
      <3>3. run' = ReconcileAll(r)
        BY <2>2
      <3> HIDE DEF r
      <3>2. /\ run' \in RunType /\ RunSane' /\ ~InWindow'
            /\ \A p \in Plans : run'.status[p] \in {run.status[p], "none"}
            /\ run'.pc \in Apart \/ run'.cancels = run.cancels
        BY <1>1, <2>2, <3>1, <3>3, ReconcilesNext DEF Settling
      <3> QED
        BY <1>1, <2>2, <3>2 DEF Marked, Apart
    <2>3. CASE run.pc = "collect" /\ run' = ReconcileAll(run)
      <3>2. /\ run' \in RunType /\ RunSane' /\ ~InWindow'
            /\ \A p \in Plans : run'.status[p] \in {run.status[p], "none"}
            /\ run'.pc \in Apart \/ run'.cancels = run.cancels
        BY <1>1, <2>3, ReconcilesNext DEF Settling
      <3> QED
        BY <1>1, <2>3, <3>2 DEF Marked, Apart
    <2>4. CASE run' = NoRun
      <3>1. run'.pc = "idle" /\ run'.status = [p \in Plans |-> "none"]
        BY <2>4 DEF NoRun
      <3> QED
        BY <1>1, <2>4, <3>1, NoRunTyped DEF Marked, Apart, RunSane, Before, Taking, Settling, InWindow
    <2> QED
      BY <1>2, <2>1, <2>2, <2>3, <2>4
  <1>4. \A j \in Plans : There(j) => There(j)'
    BY <1>1 DEF There, Live, Leased, queue
  <1> QED
    BY SMTT(40), <1>1, <1>3, <1>4, RunKeeps DEF queue, QueueType, PInv

\* A step of the reconciliation that changes the status of one plan only keeps what holds
\* of the others.
LEMMA OthersKept ==
  ASSUME PInv, ~InWindow, ~InWindow', run' \in RunType, UNCHANGED <<job, age, ingest, members, avail, leases, records, lost>>,
         missed \subseteq missed',
         NEW p \in Plans, status'[p] = status[p], p \in cancels => p \in cancels',
         run'.status[p] \in {run.status[p], "none"},
         run'.pc \in Apart \/ (run.pc \notin Apart /\ run'.cancels = run.cancels)
  PROVE  Sane(p)' /\ Bound(p)' /\ Undone(p)' /\ Kept(p)' /\ Finished(p)'
  <1>1. Sane(p) /\ Bound(p) /\ Undone(p) /\ Kept(p) /\ Finished(p)
    BY DEF PInv
  <1>2. Excused(p) => Excused(p)'
    BY DEF Excused, Marked
  <1>3. \A j \in Plans : There(j) => There(j)'
    BY SameThere
  <1>4. Sane(p)'
    BY <1>1, Zenon DEF Sane
  <1>5. Bound(p)' /\ Undone(p)' /\ Finished(p)'
    BY <1>1, <1>2 DEF Bound, Undone, Finished
  <1>6. Kept(p)'
    <2>1. ingest[p].pc = "creating" => ingest[p].target \in Plans
      BY <1>1 DEF Sane, Early
    <2>2. <<job[p], p>> \in members => job[p] \in Plans
      BY DEF PInv, FilesType
    <2> QED
      BY <1>1, <1>3, <2>1, <2>2, Zenon DEF Kept
  <1> QED
    BY <1>4, <1>5, <1>6

\* remove_cancel_marker: no ingest will write over the latch of the plan whose marker goes.
LEMMA CollectsMarker ==
  ASSUME PInv, CollectMarker
  PROVE  PInv'
  <1>1. /\ run.pc = "collect" /\ cancels' = cancels \ {run.plan} /\ run' = ReconcileAll(run)
        /\ UNCHANGED <<status, job, members, key, sighted, queue, age, ingest, faults, history>>
    BY DEF CollectMarker, RunIs
  <1>2. /\ run.plan \in Plans \ run.todo /\ Collectable(run.plan)
        /\ run \in RunType
    BY <1>1 DEF PInv, FilesType, RunSane
  <1>3. /\ run' \in RunType /\ RunSane' /\ ~InWindow' /\ ~InWindow
        /\ \A p \in Plans : run'.status[p] \in {run.status[p], "none"}
        /\ run'.pc \in Apart \/ (run.pc \notin Apart /\ run'.cancels = run.cancels)
    BY <1>1, <1>2, ReconcilesNext DEF Settling, Apart, InWindow
  <1>4. \A p \in Plans \ {run.plan} : Sane(p)' /\ Bound(p)' /\ Undone(p)' /\ Kept(p)' /\ Finished(p)'
    BY <1>1, <1>3, OthersKept DEF queue, history
  <1>5. ASSUME NEW p \in Plans, p = run.plan
        PROVE  Sane(p)' /\ Bound(p)' /\ Undone(p)' /\ Kept(p)' /\ Finished(p)'
    <2>1. Sane(p) /\ Bound(p) /\ Undone(p) /\ Kept(p) /\ Finished(p) /\ Collectable(p)
      BY <1>2, <1>5 DEF PInv
    <2>2. Sane(p)'
      BY <1>1, <1>3, <2>1, Zenon DEF Sane
    <2>3. Bound(p)' /\ Undone(p)' /\ Finished(p)'
      BY <1>1, <1>3, <2>1 DEF Bound, Undone, Finished, Collectable, Excused, Over, history, queue
    <2>4. Kept(p)'
      <3>1. \A j \in Plans : There(j) => There(j)'
        BY <1>1, <1>3, SameThere DEF queue, history
      <3>2. ingest[p].pc = "creating" => ingest[p].target \in Plans
        BY <2>1 DEF Sane, Early
      <3>3. <<job[p], p>> \in members => job[p] \in Plans
        BY DEF PInv, FilesType
      <3> QED
        BY <1>1, <2>1, <3>1, <3>2, <3>3, Zenon DEF Kept
    <2> QED
      BY <2>2, <2>3, <2>4
  <1>6. FilesType' /\ QueueType'
    BY <1>1, <1>3 DEF PInv, FilesType, QueueType, queue
  <1> QED
    BY <1>3, <1>4, <1>5, <1>6 DEF PInv

\* reconcile_one_plan: a plan it latches complete is finished, one it lets go of is over.
LEMMA Reconciles ==
  ASSUME PInv, NEW p \in Plans, Reconcile(p)
  PROVE  PInv'
  <1> DEFINE outstanding == job[p] \in run.seen /\ ~(Ending(p) /\ p \in run.released)
             next == DecideStatus(Ending(p), ~outstanding, p \in run.perturbed)
             r == [run EXCEPT !.todo = @ \ {p}]
  <1>1. /\ run.pc = "reconcile" /\ run.todo # {} /\ p = Least(run.todo)
        /\ status' = IF Untouched(p) THEN status ELSE [status EXCEPT ![p] = next]
        /\ missed' = IF ~Untouched(p) /\ next = "complete" /\ Live(job[p])
                     THEN missed \cup {p} ELSE missed
        /\ \/ Collects(p) /\ run' = [run EXCEPT !.todo = @ \ {p}, !.pc = "collect", !.plan = p]
           \/ ~Collects(p) /\ run' = ReconcileAll(r)
        /\ UNCHANGED <<job, cancels, members, key, sighted, queue, age, ingest, faults, lost>>
    BY DEF Reconcile, RunIs
  <1>2. /\ run \in RunType /\ status \in [Plans -> Statuses] /\ p \in run.todo
        /\ run.status[p] # "none" /\ Pending(p)
    <2>1. run \in RunType /\ status \in [Plans -> Statuses] /\ run.todo \in SUBSET Plans
      BY DEF PInv, FilesType, RunType
    <2>2. p \in run.todo
      BY <1>1, <2>1, LeastOne
    <2> QED
      BY <1>1, <2>1, <2>2 DEF PInv, RunSane, Settling
  <1>3. /\ next \in {"cancelling", "cancelled", "complete", "active"}
        /\ next \in {"cancelling", "cancelled"} <=> Ending(p)
    BY DEF DecideStatus
  <1>4. Sane(p) /\ Bound(p) /\ Undone(p) /\ Kept(p) /\ Finished(p)
    BY DEF PInv
  <1>5. /\ r \in RunType /\ r.status = run.status /\ r.cancels = run.cancels
        /\ r.todo = run.todo \ {p}
    BY <1>2 DEF RunType
  <1> HIDE DEF next, outstanding, r
  <1>6. \A q \in Plans \ {p} : status'[q] = status[q]
    BY <1>1, <1>2
  <1>7. Untouched(p) => status'[p] = status[p]
    BY <1>1
  <1>8. ~Untouched(p) => status'[p] = next
    BY <1>1, <1>2
  <1>9. status' \in [Plans -> Statuses]
    BY <1>1, <1>2, <1>3 DEF Statuses
  <1>10. run.status[p] \in Statuses /\ age[p] \in {"young", "old", "slow"} /\ run.pc \notin Apart
    BY <1>1, <1>2 DEF RunType, PInv, FilesType, Apart
  <1>11. Collects(p) => Collectable(p)'
    <2> SUFFICES ASSUME p \in run.cancels, ~IngestMayOverwrite(p), age[p] # "slow"
                 PROVE  status'[p] \in {"cancelling", "cancelled", "complete"} /\ ingest[p].pc \in Over
      BY <1>1 DEF Collects, Collectable
    <2>1. run.status[p] \in {"creating", "cancelling", "cancelled"} => age[p] = "old"
      BY <1>10 DEF IngestMayOverwrite
    <2>2. Ending(p)
      BY DEF Ending
    <2>3. CASE Untouched(p)
      BY <1>4, <1>7, <2>1, <2>2, <2>3 DEF Untouched, Sane, Over
    <2>4. CASE ~Untouched(p)
      BY <1>2, <1>3, <1>4, <1>8, <1>10, <2>1, <2>2, <2>4 DEF Untouched, Sane, Over, Statuses
    <2> QED
      BY <2>3, <2>4
  <1>12. /\ run' \in RunType /\ RunSane' /\ ~InWindow' /\ ~InWindow
         /\ \A q \in Plans : run'.status[q] \in {run.status[q], "none"}
         /\ run'.pc \in Apart \/ (run.pc \notin Apart /\ run'.cancels = run.cancels)
    <2>1. CASE ~Collects(p)
      <3>1. \A q \in r.todo : status'[q] = status[q] /\ (q \in cancels => q \in cancels')
        BY <1>1, <1>2, <1>5, <1>6 DEF RunType
      <3> QED
        BY <1>1, <1>5, <1>10, <2>1, <3>1, ReconcilesNext DEF Settling, InWindow
    <2>2. CASE Collects(p)
      <3>1. /\ run' \in RunType /\ run'.pc = "collect" /\ run'.todo = run.todo \ {p} /\ run'.plan = p
            /\ run'.status = run.status /\ run'.cancels = run.cancels
        <4> DEFINE c == [run EXCEPT !.todo = @ \ {p}, !.pc = "collect", !.plan = p]
        <4>1. /\ c \in RunType /\ c.pc = "collect" /\ c.todo = run.todo \ {p} /\ c.plan = p
              /\ c.status = run.status /\ c.cancels = run.cancels
          BY <1>2 DEF RunType, RunLabels, Settling
        <4>2. run' = c
          BY <1>1, <2>2
        <4> HIDE DEF c
        <4> QED
          BY <4>1, <4>2
      <3>2. \A q \in run.todo : q \in Plans /\ run.status[q] # "none" /\ Pending(q)
        BY <1>1, <1>2 DEF PInv, RunSane, Settling, RunType
      <3>3. \A q \in run.todo \ {p} : Pending(q)'
        BY <1>1, <1>6, <3>1, <3>2 DEF Pending
      <3>4. RunSane'
        BY <1>2, <1>11, <2>2, <3>1, <3>2, <3>3 DEF RunSane, Settling, Before, Taking, Apart
      <3> QED
        BY <1>1, <1>10, <3>1, <3>4 DEF InWindow
    <2> QED
      BY <2>1, <2>2
  <1>13. missed \subseteq missed'
    BY <1>1
  <1>14. \A q \in Plans \ {p} : Sane(q)' /\ Bound(q)' /\ Undone(q)' /\ Kept(q)' /\ Finished(q)'
    BY <1>1, <1>6, <1>12, <1>13, OthersKept DEF queue
  <1>15. Sane(p)' /\ Bound(p)' /\ Undone(p)' /\ Kept(p)' /\ Finished(p)'
    <2>1. CASE Untouched(p)
      BY <1>1, <1>7, <1>12, <1>13, <2>1, OthersKept DEF queue
    <2>2. CASE ~Untouched(p)
      <3>1. /\ run.status[p] \in {"creating", "cancelling", "active"}
            /\ run.status[p] # "active" => Ending(p)
        BY <1>2, <1>10, <2>2 DEF Untouched, Statuses, Ending
      <3>2. status[p] # "none" /\ ingest[p].pc \notin Early
        BY <1>2, <1>4 DEF Sane
      <3>3. status'[p] \in {"active", "complete"} => run.status[p] = "active" /\ ~Ending(p) /\ status[p] = "active"
        BY <1>2, <1>3, <1>8, <2>2, <3>1 DEF Pending
      <3>4. Excused(p) => Excused(p)'
        BY <1>1, <1>12 DEF Excused, Marked
      <3>5. Sane(p)'
        BY <1>1, <1>2, <1>3, <1>4, <1>8, <1>12, <2>2, <3>1, <3>2, <3>3 DEF Sane
      <3>6. Bound(p)'
        BY <1>1, <1>4, <3>2, <3>3, <3>4 DEF Bound, Early
      <3>7. Undone(p)'
        <4>1. status'[p] \in {"cancelling", "cancelled"} /\ ingest[p].pc \notin Over => Excused(p)
          <5> SUFFICES ASSUME Ending(p), ingest[p].pc \notin Over PROVE Excused(p)
            BY <1>3, <1>8, <2>2
          <5>1. CASE p \in run.cancels
            BY <5>1, <1>2 DEF Pending, Excused, Marked
          <5>2. CASE Stranded(p)
            BY <5>2, <1>4, <1>10 DEF Stranded, Excused, Sane
          <5>3. CASE run.status[p] = "cancelling"
            BY <5>3, <1>4 DEF Undone
          <5> QED
            BY <5>1, <5>2, <5>3 DEF Ending
        <4>2. run'.status[p] \in {"cancelling", "cancelled"} => run.status[p] \in {"cancelling", "cancelled"}
          BY <1>12
        <4> QED
          BY <1>1, <1>4, <3>3, <3>4, <4>1, <4>2 DEF Undone
      <3>8. \A j \in Plans : There(j) => There(j)'
        BY <1>1, <1>12, SameThere DEF queue
      <3>9. <<job[p], p>> \in members => job[p] \in Plans
        BY DEF PInv, FilesType
      <3>10. Kept(p)'
        BY <1>1, <1>4, <3>2, <3>8, <3>9 DEF Kept, Early
      <3>11. Finished(p)'
        <4> SUFFICES ASSUME next = "complete", age[p] # "slow"
                     PROVE  p \in missed' \/ job[p] \in records \cup lost
          BY <1>1, <1>8, <2>2 DEF Finished, queue
        <4>1. run.status[p] = "active" /\ ~Ending(p) /\ status[p] = "active"
          BY <1>8, <2>2, <3>3
        <4>2. <<job[p], p>> \in members /\ ingest[p].pc = "done"
          BY <1>4, <1>10, <4>1 DEF Bound, Excused, Marked, Ending, Sane
        <4>3. There(job[p])
          BY <1>4, <4>2 DEF Kept
        <4> QED
          BY <1>1, <1>12, <2>2, <4>3 DEF There
      <3> QED
        BY <3>5, <3>6, <3>7, <3>10, <3>11
    <2> QED
      BY <2>1, <2>2
  <1>16. FilesType' /\ QueueType'
    BY <1>1, <1>9, <1>12 DEF PInv, FilesType, QueueType, queue
  <1> QED
    BY <1>12, <1>14, <1>15, <1>16 DEF PInv

\* Clients: what they take from the queue they put back, or has its record.
LEMMA QueueKeeps ==
  ASSUME PInv, QueueType', UNCHANGED <<files, age, ingest, run, history>>,
         \A j \in Plans : Live(j) => Live(j)' \/ j \in records', records \subseteq records'
  PROVE  PInv'
  <1>1. \A j \in Plans : There(j) => There(j)'
    BY DEF There, files, history, InWindow, J
  <1>2. RunSane' /\ FilesType'
    BY DEF PInv, RunSane, Pending, Collectable, TeardownCause, Stranded, FilesType, files
  <1> SUFFICES ASSUME NEW p \in Plans
               PROVE  Sane(p)' /\ Bound(p)' /\ Undone(p)' /\ Kept(p)' /\ Finished(p)'
    BY <1>2 DEF PInv
  <1>3. Sane(p) /\ Bound(p) /\ Undone(p) /\ Kept(p) /\ Finished(p)
    BY DEF PInv
  <1>4. Sane(p)' /\ Bound(p)' /\ Undone(p)'
    BY SMTT(40), <1>3 DEF Sane, Bound, Undone, Excused, Marked, files
  <1>5. Kept(p)'
    <2>1. ingest[p].pc = "creating" => ingest[p].target \in Plans
      BY <1>3 DEF Sane, Early
    <2>2. <<job[p], p>> \in members => job[p] \in Plans
      BY DEF PInv, FilesType
    <2> QED
      BY <1>1, <1>3, <2>1, <2>2, Zenon DEF Kept, files
  <1>6. Finished(p)'
    BY <1>3 DEF Finished, files, history
  <1> QED
    BY <1>4, <1>5, <1>6

\* A claim, a heartbeat, a submission, the end of a lease.
LEMMA ClientSteps ==
  ASSUME PInv,
         \/ \E p \in Plans : Claim(p)
         \/ \E l \in leases : Heartbeat(l) \/ GiveBack(l) \/ Submit(l) \/ Finish(l)
  PROVE  PInv'
  <1>1. /\ avail \subseteq Plans /\ leases \subseteq Keys /\ records \subseteq Plans
        /\ turn \in Nat /\ faults \in Nat /\ MaxEvents \in Nat
    BY PlanAssumption DEF PInv, QueueType
  <1>2. ASSUME turn + faults < MaxEvents PROVE turn + 1 \in 1 .. MaxEvents
    BY SMT, <1>1, <1>2
  <1>3. \A l \in leases : l \in Keys /\ l[1] \in Plans
    BY <1>1 DEF Keys
  <1>4. CASE \E p \in Plans : Claim(p)
    <2>1. PICK p \in Plans : Claim(p)
      BY <1>4
    <2>2. QueueType'
      <3>1. <<p, turn + 1>> \in Keys
        BY <1>2, <2>1 DEF Claim, Keys
      <3> QED
        BY SMT, <1>1, <2>1, <3>1 DEF Claim, QueueType
    <2>3. Leased \cup {p} \subseteq Leased'
      <3>1. <<p, turn + 1>>[1] = p /\ leases' = leases \cup {<<p, turn + 1>>}
        BY <2>1 DEF Claim
      <3> QED
        BY <3>1, Zenon DEF Leased
    <2> QED
      BY <2>1, <2>2, <2>3, QueueKeeps DEF Claim, Live
  <1>5. CASE \E l \in leases : Heartbeat(l)
    <2>1. PICK l \in leases : Heartbeat(l)
      BY <1>5
    <2>2. QueueType'
      <3>1. <<l[1], turn + 1>> \in Keys
        BY <1>2, <1>3, <2>1 DEF Heartbeat, Keys
      <3> QED
        BY SMT, <1>1, <2>1, <3>1 DEF Heartbeat, QueueType
    <2>3. Leased \subseteq Leased'
      <3>1. /\ <<l[1], turn + 1>>[1] = l[1]
            /\ leases' = (leases \ {l}) \cup {<<l[1], turn + 1>>}
        BY <2>1 DEF Heartbeat
      <3> QED
        BY <3>1, Zenon DEF Leased
    <2> QED
      BY <2>1, <2>2, <2>3, QueueKeeps DEF Heartbeat, Live
  <1>6. CASE \E l \in leases : GiveBack(l)
    <2>1. PICK l \in leases : GiveBack(l)
      BY <1>6
    <2>2. QueueType'
      BY <1>1, <1>3, <2>1 DEF GiveBack, QueueType
    <2>3. Leased \subseteq Leased' \cup {l[1]}
      BY <2>1 DEF GiveBack, Leased
    <2> QED
      BY <2>1, <2>2, <2>3, QueueKeeps DEF GiveBack, Live
  <1>7. CASE \E l \in leases : Submit(l)
    <2>1. PICK l \in leases : Submit(l)
      BY <1>7
    <2>2. QueueType'
      BY <1>1, <1>3, <2>1 DEF Submit, QueueType
    <2> QED
      BY <2>1, <2>2, QueueKeeps DEF Submit, Live, Leased
  <1>8. CASE \E l \in leases : Finish(l)
    <2>1. PICK l \in leases : Finish(l)
      BY <1>8
    <2>2. QueueType'
      BY <1>1, <1>3, <2>1 DEF Finish, QueueType
    <2>3. Leased \subseteq Leased' \cup {l[1]}
      BY <2>1 DEF Finish, Leased
    <2> QED
      BY <2>1, <2>2, <2>3, QueueKeeps DEF Finish, Live
  <1> QED
    BY <1>4, <1>5, <1>6, <1>7, <1>8

\* plan_creating_max_age passes between two runs.
LEMMA AgesKeeps ==
  ASSUME PInv, NEW a \in Plans, Ages(a)
  PROVE  PInv'
  <1>1. /\ age' = [age EXCEPT ![a] = IF ingest[a].pc \in Over THEN "old" ELSE "slow"]
        /\ run = NoRun /\ run.pc = "idle" /\ UNCHANGED <<files, queue, ingest, run, faults, history>>
        /\ age[a] = "young" /\ \A p \in Plans : run.status[p] = "none"
    BY DEF Ages, PInv, RunSane, Over, Apart
  <1>2. /\ age \in [Plans -> {"young", "old", "slow"}]
        /\ \A p \in Plans : age[p] = "slow" => age'[p] = "slow"
        /\ \A p \in Plans : age'[p] = "old" => age[p] = "old" \/ ingest[p].pc \in Over
    BY <1>1 DEF PInv, FilesType
  <1>3. FilesType' /\ QueueType'
    BY <1>1, <1>2 DEF PInv, FilesType, QueueType, files, queue
  <1>4. RunSane'
    BY <1>1 DEF PInv, RunSane, files, Before, Taking, Settling
  <1> SUFFICES ASSUME NEW p \in Plans
               PROVE  Sane(p)' /\ Bound(p)' /\ Undone(p)' /\ Kept(p)' /\ Finished(p)'
    BY <1>3, <1>4 DEF PInv
  <1>5. Sane(p) /\ Bound(p) /\ Undone(p) /\ Kept(p) /\ Finished(p)
    BY DEF PInv
  <1>6. Excused(p) => Excused(p)'
    BY <1>1, <1>2 DEF Excused, Marked, files
  <1>7. Sane(p)'
    BY <1>1, <1>2, <1>5 DEF Sane, files
  <1>8. Bound(p)' /\ Undone(p)'
    BY <1>1, <1>5, <1>6 DEF Bound, Undone, files
  <1>9. Kept(p)' /\ Finished(p)'
    BY <1>1, <1>2, <1>5 DEF Kept, Finished, There, Live, Leased, InWindow, files, queue, history
  <1> QED
    BY <1>7, <1>8, <1>9

\* request_cancel adds a marker.
LEMMA CancelKeeps ==
  ASSUME PInv, NEW a \in Plans, RequestCancel(a)
  PROVE  PInv'
  <1>1. /\ cancels' = cancels \cup {a}
        /\ UNCHANGED <<status, job, members, key, sighted, queue, age, ingest, run, faults, history>>
    BY DEF RequestCancel
  <1>2. FilesType' /\ QueueType'
    BY <1>1 DEF PInv, FilesType, QueueType, queue
  <1>3. RunSane'
    <2>1. \A p \in Plans : (Pending(p) => Pending(p)') /\ (TeardownCause(p) => TeardownCause(p)')
      BY <1>1 DEF Pending, TeardownCause, Stranded
    <2>2. run.todo \subseteq Plans
      BY DEF PInv, FilesType, RunType
    <2> QED
      BY <1>1, <2>1, <2>2 DEF PInv, RunSane, Collectable
  <1> SUFFICES ASSUME NEW p \in Plans
               PROVE  Sane(p)' /\ Bound(p)' /\ Undone(p)' /\ Kept(p)' /\ Finished(p)'
    BY <1>2, <1>3 DEF PInv
  <1>4. Sane(p) /\ Bound(p) /\ Undone(p) /\ Kept(p) /\ Finished(p)
    BY DEF PInv
  <1>5. Excused(p) => Excused(p)'
    BY <1>1 DEF Excused, Marked
  <1>6. Sane(p)' /\ Bound(p)' /\ Undone(p)'
    BY SMTT(40), <1>1, <1>4, <1>5 DEF Sane, Bound, Undone
  <1>7. Kept(p)' /\ Finished(p)'
    BY <1>1, <1>4 DEF Kept, Finished, There, Live, Leased, InWindow, J, queue, history
  <1> QED
    BY <1>6, <1>7

\* A job stays where it is when jobs are only added to the queue and no manifest changes
\* its job.
LEMMA StaysThere ==
  ASSUME PInv, UNCHANGED <<run, leases, records, lost>>, avail \subseteq avail',
         \A p \in Plans : status[p] # "none" => job'[p] = job[p]
  PROVE  \A j \in Plans : There(j) => There(j)'
  <1>1. run.pc \in Taking => J' = J
    <2> SUFFICES ASSUME run.pc \in Taking PROVE J' = J
      OBVIOUS
    <2>1. run.plan \in Plans /\ TeardownCause(run.plan)
      BY DEF PInv, RunSane
    <2>2. status[run.plan] # "none"
      BY <2>1 DEF TeardownCause, Stranded, PInv, Sane
    <2> QED
      BY <2>1, <2>2 DEF J
  <1> QED
    BY <1>1 DEF There, Live, Leased, InWindow, Taking

\* A step of one ingest leaves the rest of the invariant alone.
LEMMA IngestKeeps ==
  ASSUME PInv, NEW a \in Plans, NEW c \in IngestType,
         ingest' = [ingest EXCEPT ![a] = c], ingest[a].pc \notin Over,
         FilesType', QueueType',
         UNCHANGED <<run, age, cancels, leases, records, lost, missed>>,
         avail \subseteq avail',
         \A p \in Plans \ {a} : /\ status'[p] = status[p] /\ job'[p] = job[p]
                                /\ \A j \in Plans : <<j, p>> \in members <=> <<j, p>> \in members',
         status[a] # "none" => job'[a] = job[a],
         Sane(a)', Bound(a)', Undone(a)', Kept(a)', Finished(a)'
  PROVE  PInv'
  <1>1. \A p \in Plans \ {a} : ingest'[p] = ingest[p]
    BY DEF PInv, FilesType
  <1>3. \A j \in Plans : There(j) => There(j)'
    BY StaysThere
  <1>4. RunSane'
    <2>1. \A p \in Plans : (Pending(p) => Pending(p)') /\ (TeardownCause(p) => TeardownCause(p)')
      <3>1. run.status[a] # "active"
        BY DEF PInv, Sane, Over
      <3> QED
        BY <3>1 DEF Pending, TeardownCause, Stranded
    <2>2. \A p \in Plans : Collectable(p) => Collectable(p)'
      BY <1>1 DEF Collectable
    <2>3. run.todo \subseteq Plans
      BY DEF PInv, FilesType, RunType
    <2> QED
      BY <2>1, <2>2, <2>3 DEF PInv, RunSane
  <1> SUFFICES ASSUME NEW p \in Plans \ {a}
               PROVE  Sane(p)' /\ Bound(p)' /\ Undone(p)' /\ Kept(p)' /\ Finished(p)'
    BY <1>4 DEF PInv
  <1>5. Sane(p) /\ Bound(p) /\ Undone(p) /\ Kept(p) /\ Finished(p)
    BY DEF PInv
  <1>6. /\ ingest[p].pc \in Early \ {"idle", "claim"} => ingest[p].target \in Plans
        /\ job[p] \in Plans \cup {0} /\ members \subseteq Plans \X Plans
        /\ members' \subseteq Plans \X Plans
    BY <1>5 DEF Sane, PInv, FilesType
  <1>7. \A j : <<j, p>> \in members <=> <<j, p>> \in members'
    BY <1>6
  <1>8. Sane(p)' /\ Undone(p)' /\ Finished(p)'
    <2>1. status'[p] = status[p] /\ job'[p] = job[p]
      OBVIOUS
    <2>2. Sane(p)'
      BY <1>1, <1>5, <2>1, Zenon DEF Sane
    <2>3. Undone(p)'
      BY <1>1, <1>5, <2>1 DEF Undone, Excused, Marked
    <2>4. Finished(p)'
      BY <1>5, <2>1 DEF Finished
    <2> QED
      BY <2>2, <2>3, <2>4
  <1>9. Bound(p)'
    BY <1>1, <1>5, <1>7, Zenon DEF Bound, Excused, Marked
  <1>10. Kept(p)'
    <2>1. ingest[p].pc = "creating" => ingest[p].target \in Plans
      BY <1>6 DEF Early
    <2>2. <<job[p], p>> \in members => job[p] \in Plans
      BY <1>6
    <2> QED
      BY <1>1, <1>3, <1>5, <1>7, <2>1, <2>2, Zenon DEF Kept
  <1> QED
    BY <1>8, <1>9, <1>10

\* An ingest that has filed nothing and goes on to anything but the manifest: nothing is
\* claimed of it but its marker and its target.
LEMMA EarlyStep ==
  ASSUME PInv, NEW a \in Plans, NEW c \in IngestType,
         ingest' = [ingest EXCEPT ![a] = c], ingest[a].pc \in Early, c.pc \in Early,
         c.pc \notin {"idle", "claim"} => c.target \in Plans,
         c.pc = "survive" => c.read # 0,
         UNCHANGED <<status, job, age, cancels, queue, run, history>>,
         faults' \in Nat, key' \in Plans \cup {0}, members' \subseteq Plans \X Plans,
         \A p \in Plans \ {a} : \A j \in Plans : <<j, p>> \in members <=> <<j, p>> \in members',
         c.pc = "survive" \/ (c.pc = "creating" /\ c.target # a) => <<c.target, a>> \in members',
         c.pc = "creating" /\ c.target # a => There(c.target)
  PROVE  PInv'
  <1>1. /\ FilesType /\ QueueType /\ Sane(a) /\ Undone(a) /\ Finished(a)
    BY DEF PInv
  <1>2. /\ ingest'[a] = c /\ ingest' \in [Plans -> IngestType] /\ c.pc \notin Over
        /\ ingest[a].pc \notin Over /\ status[a] = "none"
    BY <1>1 DEF FilesType, Early, Over, Sane
  <1>3. FilesType' /\ QueueType'
    BY <1>1, <1>2 DEF FilesType, QueueType, queue
  <1>4. /\ run.status[a] = "none" /\ age[a] # "old"
    BY <1>1, <1>2 DEF Sane
  <1>5. Sane(a)'
    BY <1>2, <1>4 DEF Sane, Early, Over
  <1>6. Bound(a)'
    BY <1>2 DEF Bound, Early
  <1>7. Undone(a)' /\ Finished(a)'
    BY <1>2, <1>4 DEF Undone, Finished
  <1>8. Kept(a)'
    <2>1. There(c.target) => There(c.target)'
      BY DEF There, Live, Leased, InWindow, J, queue, history
    <2> QED
      BY <1>2, <2>1 DEF Kept, Early
  <1> QED
    BY <1>2, <1>3, <1>5, <1>6, <1>7, <1>8, IngestKeeps DEF queue, history

\* Mint: the ingest will file a job of its own.
LEMMA MintStep ==
  ASSUME PInv, NEW a \in Plans, Mint(a), ingest[a].pc \in Early,
         UNCHANGED <<status, job, age, cancels, queue, run, history>>,
         faults' \in Nat, key' \in Plans \cup {0}, members' \subseteq Plans \X Plans,
         \A p \in Plans \ {a} : \A j \in Plans : <<j, p>> \in members <=> <<j, p>> \in members'
  PROVE  PInv'
  <1> DEFINE c == [ingest[a] EXCEPT !.pc = "creating", !.target = a, !.read = 0, !.second = "no"]
  <1>1. c \in IngestType /\ c.pc = "creating" /\ c.target = a
    <2>1. ingest[a] \in IngestType /\ "creating" \in IngestLabels /\ 0 \in Reads /\ 1 \in Reads
      BY SMT DEF PInv, FilesType, IngestLabels, Early, Reads
    <2> QED
      BY <2>1 DEF IngestType
  <1>2. ingest' = [ingest EXCEPT ![a] = c]
    BY DEF Mint, Go
  <1> HIDE DEF c
  <1> QED
    BY <1>1, <1>2, EarlyStep DEF Early

\* Join: the ingest looks at the job a content key names.
LEMMA JoinStep ==
  ASSUME PInv, NEW a \in Plans, NEW j \in Plans, Join(a, j), ingest[a].pc \in Early,
         UNCHANGED <<files, age, queue, run, faults, history>>
  PROVE  PInv'
  <1> DEFINE c == [ingest[a] EXCEPT !.pc = "official", !.target = j, !.read = 1]
  <1>1. c \in IngestType /\ c.pc = "official" /\ c.target = j
    <2>1. ingest[a] \in IngestType /\ "official" \in IngestLabels /\ 0 \in Reads /\ 1 \in Reads
      BY SMT DEF PInv, FilesType, IngestLabels, Early, Reads
    <2> QED
      BY <2>1 DEF IngestType
  <1>2. ingest' = [ingest EXCEPT ![a] = c]
    BY DEF Join, Go
  <1>3. key \in Plans \cup {0} /\ members \subseteq Plans \X Plans /\ faults \in Nat
    BY DEF PInv, FilesType, QueueType
  <1> HIDE DEF c
  <1> QED
    BY <1>1, <1>2, <1>3, EarlyStep DEF Early, files

\* The steps of an ingest up to the choice of its job.
LEMMA PlaceKeeps ==
  ASSUME PInv, NEW a \in Plans, Place(a) \/ ClaimKey(a)
  PROVE  PInv'
  <1>1. /\ ingest[a] \in IngestType /\ key \in Plans \cup {0} /\ members \subseteq Plans \X Plans
        /\ faults \in Nat /\ ingest[a].pc \in Early
    BY DEF PInv, FilesType, QueueType, Place, ClaimKey, Early
  <1>2. CASE Place(a) /\ key = 0
    <2> DEFINE c == [ingest[a] EXCEPT !.pc = "claim"]
    <2>1. c \in IngestType /\ c.pc = "claim"
      BY <1>1 DEF IngestType, IngestLabels, Early
    <2>2. ingest' = [ingest EXCEPT ![a] = c]
      BY <1>2 DEF Place, To, Go
    <2> HIDE DEF c
    <2> QED
      BY <1>1, <1>2, <2>1, <2>2, EarlyStep DEF Early, Place, files
  <1>3. CASE (Place(a) \/ ClaimKey(a)) /\ key # 0
    <2>1. Join(a, key) /\ key \in Plans /\ UNCHANGED <<files, age, queue, run, faults, history>>
      BY <1>1, <1>3 DEF Place, ClaimKey, files
    <2> QED
      BY <1>1, <2>1, JoinStep
  <1>4. CASE ClaimKey(a) /\ key = 0
    BY <1>1, <1>4, MintStep DEF ClaimKey
  <1> QED
    BY <1>2, <1>3, <1>4

\* official_state.
LEMMA OfficialKeeps ==
  ASSUME PInv, NEW a \in Plans, OfficialState(a)
  PROVE  PInv'
  <1>1. /\ ingest[a] \in IngestType /\ key \in Plans \cup {0} /\ members \subseteq Plans \X Plans
        /\ faults \in Nat /\ ingest[a].pc = "official" /\ ingest[a].target \in Plans
    BY DEF PInv, FilesType, QueueType, OfficialState, Sane, Early
  <1>2. UNCHANGED <<files, queue, age, run, faults, history>>
    BY DEF OfficialState
  <1>3. \/ Go(a, [ingest[a] EXCEPT !.pc = "mark", !.read = 0])
        \/ ingest[a].read < 3 /\ Go(a, [ingest[a] EXCEPT !.read = @ + 1])
        \/ Go(a, [ingest[a] EXCEPT !.pc = "replace", !.read = 0])
        \/ Mint(a)
    BY DEF OfficialState
  <1>4. ASSUME NEW c \in IngestType, Go(a, c), c.pc \in {"mark", "official", "replace"},
               c.target = ingest[a].target
        PROVE  PInv'
    BY <1>1, <1>2, <1>4, EarlyStep DEF Early, Go, files
  <1>5. 0 \in Reads /\ \A n \in Reads : n < 3 => n + 1 \in Reads
    BY SMT DEF Reads
  <1>6. CASE Go(a, [ingest[a] EXCEPT !.pc = "mark", !.read = 0])
    <2> DEFINE c == [ingest[a] EXCEPT !.pc = "mark", !.read = 0]
    <2>1. c \in IngestType /\ c.pc = "mark" /\ c.target = ingest[a].target
      BY <1>1, <1>5 DEF IngestType, IngestLabels, Early
    <2> HIDE DEF c
    <2> QED
      BY <1>4, <1>6, <2>1 DEF c
  <1>7. CASE Go(a, [ingest[a] EXCEPT !.pc = "replace", !.read = 0])
    <2> DEFINE c == [ingest[a] EXCEPT !.pc = "replace", !.read = 0]
    <2>1. c \in IngestType /\ c.pc = "replace" /\ c.target = ingest[a].target
      BY <1>1, <1>5 DEF IngestType, IngestLabels, Early
    <2> HIDE DEF c
    <2> QED
      BY <1>4, <1>7, <2>1 DEF c
  <1>8. CASE ingest[a].read < 3 /\ Go(a, [ingest[a] EXCEPT !.read = @ + 1])
    <2> DEFINE n == ingest[a].read + 1
               c == [ingest[a] EXCEPT !.read = n]
    <2>1. n \in Reads
      BY <1>1, <1>5, <1>8 DEF IngestType
    <2>2. Go(a, c)
      BY <1>8
    <2> HIDE DEF n
    <2>3. c \in IngestType /\ c.pc = "official" /\ c.target = ingest[a].target
      BY <1>1, <2>1 DEF IngestType
    <2> HIDE DEF c
    <2> QED
      BY <1>4, <2>2, <2>3
  <1>9. CASE Mint(a)
    BY <1>1, <1>2, <1>9, MintStep DEF Early, files
  <1> QED
    BY <1>3, <1>6, <1>7, <1>8, <1>9

\* try_join: the marker lands, ...
LEMMA WriteMarkerKeeps ==
  ASSUME PInv, NEW a \in Plans, WriteMarker(a)
  PROVE  PInv'
  <1> DEFINE c == [ingest[a] EXCEPT !.pc = "survive", !.read = 1]
  <1>1. /\ ingest[a] \in IngestType /\ key \in Plans \cup {0} /\ members \subseteq Plans \X Plans
        /\ faults \in Nat /\ ingest[a].pc = "mark" /\ ingest[a].target \in Plans /\ 1 \in Reads
    BY SMT DEF PInv, FilesType, QueueType, WriteMarker, Sane, Early, Reads
  <1>2. /\ c \in IngestType /\ c.pc = "survive" /\ c.target = ingest[a].target
        /\ c.read # 0
    <2>1. c \in IngestType /\ c.pc = "survive" /\ c.target = ingest[a].target
      BY <1>1 DEF IngestType, IngestLabels, Early
    <2>2. c.read = 1
      BY <1>1 DEF IngestType
    <2> QED
      BY SMT, <2>1, <2>2
  <1>3. /\ ingest' = [ingest EXCEPT ![a] = c] /\ members' = members \cup {<<ingest[a].target, a>>}
        /\ UNCHANGED <<status, job, cancels, key, sighted, queue, age, run, faults, history>>
    BY DEF WriteMarker, Go
  <1> HIDE DEF c
  <1>4. /\ members' \subseteq Plans \X Plans /\ <<c.target, a>> \in members'
        /\ \A p \in Plans \ {a} : \A j \in Plans : <<j, p>> \in members <=> <<j, p>> \in members'
    BY SMT, <1>1, <1>2, <1>3
  <1> QED
    BY <1>1, <1>2, <1>3, <1>4, EarlyStep DEF Early

\* ... and then the ingest looks whether the job is there (target_survives).
LEMMA SurvivesKeeps ==
  ASSUME PInv, NEW a \in Plans, TargetSurvives(a)
  PROVE  PInv'
  <1> DEFINE j == ingest[a].target
             hits == <<j \in avail, j \in Leased, j \in avail, j \in records>>
  <1>1. /\ ingest[a] \in IngestType /\ key \in Plans \cup {0} /\ members \subseteq Plans \X Plans
        /\ faults \in Nat /\ ingest[a].pc = "survive" /\ ingest[a].target \in Plans
        /\ ingest[a].read \in 1 .. 4 /\ <<ingest[a].target, a>> \in members
    <2>1. /\ ingest[a] \in IngestType /\ key \in Plans \cup {0} /\ members \subseteq Plans \X Plans
          /\ faults \in Nat /\ ingest[a].pc = "survive" /\ Sane(a) /\ Bound(a)
      BY DEF PInv, FilesType, QueueType, TargetSurvives
    <2>2. ingest[a].target \in Plans /\ ingest[a].read # 0 /\ <<ingest[a].target, a>> \in members
      BY <2>1 DEF Sane, Bound, Early
    <2>3. ingest[a].read \in Reads
      BY <2>1 DEF IngestType
    <2> QED
      BY SMTT(40), <2>1, <2>2, <2>3 DEF Reads
  <1>2. UNCHANGED <<files, queue, age, run, faults, history>>
    BY DEF TargetSurvives
  <1>3. \/ hits[ingest[a].read] /\ Go(a, [ingest[a] EXCEPT !.pc = "creating", !.read = 0, !.second = "no"])
        \/ ingest[a].read < 4 /\ Go(a, [ingest[a] EXCEPT !.read = @ + 1])
        \/ Go(a, [ingest[a] EXCEPT !.pc = "drop", !.read = 0])
    BY DEF TargetSurvives
  <1>4. hits[ingest[a].read] => There(ingest[a].target)
    <2>1. ingest[a].read \in {1, 2, 3, 4}
      BY SMT, <1>1
    <2>2. hits[1] = (j \in avail) /\ hits[2] = (j \in Leased) /\ hits[3] = (j \in avail) /\ hits[4] = (j \in records)
      OBVIOUS
    <2> HIDE DEF hits
    <2> QED
      BY <2>1, <2>2, Zenon DEF There, Live
  <1> HIDE DEF hits, j
  <1>5. ASSUME NEW c \in IngestType, Go(a, c), c.pc \in {"creating", "survive", "drop"},
               c.target = ingest[a].target, c.pc = "creating" => There(ingest[a].target),
               c.pc = "survive" => c.read # 0
        PROVE  PInv'
    BY <1>1, <1>2, <1>5, EarlyStep DEF Early, Go, files
  <1>6. 0 \in Reads /\ \A n \in 1 .. 4 : n < 4 => n + 1 \in Reads /\ n + 1 # 0
    BY SMT DEF Reads
  <1>7. CASE hits[ingest[a].read] /\ Go(a, [ingest[a] EXCEPT !.pc = "creating", !.read = 0, !.second = "no"])
    <2> DEFINE c == [ingest[a] EXCEPT !.pc = "creating", !.read = 0, !.second = "no"]
    <2>1. c \in IngestType /\ c.pc = "creating" /\ c.target = ingest[a].target
      BY <1>1, <1>6 DEF IngestType, IngestLabels, Early
    <2>2. Go(a, c)
      BY <1>7
    <2> HIDE DEF c
    <2> QED
      BY <1>4, <1>5, <1>7, <2>1, <2>2
  <1>8. CASE Go(a, [ingest[a] EXCEPT !.pc = "drop", !.read = 0])
    <2> DEFINE c == [ingest[a] EXCEPT !.pc = "drop", !.read = 0]
    <2>1. c \in IngestType /\ c.pc = "drop" /\ c.target = ingest[a].target
      BY <1>1, <1>6 DEF IngestType, IngestLabels, Early
    <2>2. Go(a, c)
      BY <1>8
    <2> HIDE DEF c
    <2> QED
      BY <1>5, <2>1, <2>2
  <1>9. CASE ingest[a].read < 4 /\ Go(a, [ingest[a] EXCEPT !.read = @ + 1])
    <2> DEFINE n == ingest[a].read + 1
               c == [ingest[a] EXCEPT !.read = n]
    <2>1. n \in Reads /\ n # 0
      BY <1>1, <1>6, <1>9
    <2>2. Go(a, c)
      BY <1>9
    <2> HIDE DEF n
    <2>3. c \in IngestType /\ c.pc = "survive" /\ c.target = ingest[a].target /\ c.read = n
      BY <1>1, <2>1 DEF IngestType
    <2> HIDE DEF c
    <2> QED
      BY <1>5, <2>1, <2>2, <2>3
  <1> QED
    BY <1>3, <1>7, <1>8, <1>9

\* A target that vanished: its marker goes, and the content key is swapped or followed.
LEMMA ReplaceKeeps ==
  ASSUME PInv, NEW a \in Plans, DropMarker(a) \/ ReplaceStale(a)
  PROVE  PInv'
  <1>1. /\ ingest[a] \in IngestType /\ key \in Plans \cup {0} /\ members \subseteq Plans \X Plans
        /\ faults \in Nat /\ ingest[a].pc \in {"drop", "replace"} /\ ingest[a].target \in Plans
    BY DEF PInv, FilesType, QueueType, DropMarker, ReplaceStale, Sane, Early
  <1>2. /\ UNCHANGED <<status, job, cancels, sighted, queue, age, run, history>>
        /\ key' \in Plans \cup {0} /\ faults' \in Nat
        /\ members' \in {members, members \ {<<ingest[a].target, a>>}}
    BY SMT, <1>1 DEF DropMarker, ReplaceStale
  <1>3. /\ members' \subseteq Plans \X Plans
        /\ \A p \in Plans \ {a} : \A j \in Plans : <<j, p>> \in members <=> <<j, p>> \in members'
    BY <1>1, <1>2
  <1>4. \/ Mint(a)
        \/ To(a, "replace")
        \/ key # 0 /\ Go(a, [ingest[a] EXCEPT !.pc = "official", !.target = key, !.read = 1, !.second = "yes"])
    BY DEF DropMarker, ReplaceStale
  <1>5. ASSUME NEW c \in IngestType, Go(a, c), c.pc \in {"replace", "official"}, c.target \in Plans
        PROVE  PInv'
    BY <1>1, <1>2, <1>3, <1>5, EarlyStep DEF Early, Go
  <1>6. CASE Mint(a)
    BY <1>1, <1>2, <1>3, <1>6, MintStep DEF Early
  <1>7. CASE To(a, "replace")
    <2> DEFINE c == [ingest[a] EXCEPT !.pc = "replace"]
    <2>1. c \in IngestType /\ c.pc = "replace" /\ c.target = ingest[a].target
      BY <1>1 DEF IngestType, IngestLabels, Early
    <2>2. Go(a, c)
      BY <1>7 DEF To
    <2> HIDE DEF c
    <2> QED
      BY <1>1, <1>5, <2>1, <2>2
  <1>8. CASE key # 0 /\ Go(a, [ingest[a] EXCEPT !.pc = "official", !.target = key, !.read = 1, !.second = "yes"])
    <2> DEFINE c == [ingest[a] EXCEPT !.pc = "official", !.target = key, !.read = 1, !.second = "yes"]
    <2>1. 1 \in Reads
      BY SMT DEF Reads
    <2>2. c \in IngestType /\ c.pc = "official" /\ c.target = key
      BY <1>1, <2>1 DEF IngestType, IngestLabels, Early
    <2>3. Go(a, c)
      BY <1>8
    <2> HIDE DEF c
    <2> QED
      BY <1>1, <1>5, <1>8, <2>2, <2>3
  <1> QED
    BY <1>4, <1>6, <1>7, <1>8

\* The creating manifest: the plan lists the job it settled on.
LEMMA PutCreatingKeeps ==
  ASSUME PInv, NEW a \in Plans, PutCreating(a)
  PROVE  PInv'
  <1> DEFINE pc == IF ingest[a].target = a THEN "stage" ELSE "final"
             c == [ingest[a] EXCEPT !.pc = pc]
  <1>1. /\ FilesType /\ QueueType /\ Sane(a) /\ Bound(a) /\ Kept(a)
        /\ ingest[a] \in IngestType /\ ingest[a].pc = "creating"
    BY DEF PInv, FilesType, PutCreating
  <1>2. /\ ingest[a].target \in Plans /\ status[a] = "none" /\ run.status[a] = "none"
        /\ age[a] # "old" /\ 0 \notin Plans
    BY <1>1, PlanAssumption DEF Sane, Early, Over
  <1>3. /\ status' = [status EXCEPT ![a] = "creating"] /\ job' = [job EXCEPT ![a] = ingest[a].target]
        /\ ingest' = [ingest EXCEPT ![a] = c]
        /\ UNCHANGED <<cancels, members, key, sighted, queue, age, run, faults, history>>
    BY DEF PutCreating, To, Go
  <1>4. c \in IngestType /\ c.pc = pc /\ c.target = ingest[a].target /\ pc \in {"stage", "final"}
    BY <1>1 DEF IngestType, IngestLabels
  <1>5. (pc = "stage" <=> ingest[a].target = a) /\ (pc = "final" <=> ingest[a].target # a)
    OBVIOUS
  <1> HIDE DEF c, pc
  <1>6. /\ status'[a] = "creating" /\ job'[a] = ingest[a].target /\ ingest'[a] = c
        /\ \A p \in Plans \ {a} : status'[p] = status[p] /\ job'[p] = job[p]
        /\ FilesType' /\ QueueType'
    BY <1>1, <1>2, <1>3, <1>4 DEF FilesType, QueueType, queue, Statuses
  <1>7. Sane(a)'
    BY <1>2, <1>3, <1>4, <1>5, <1>6 DEF Sane, Early
  <1>8. Bound(a)'
    BY SMTT(40), <1>1, <1>3, <1>4, <1>5, <1>6 DEF Bound
  <1>9. Undone(a)' /\ Finished(a)'
    BY <1>2, <1>3, <1>6 DEF Undone, Finished
  <1>10. Kept(a)'
    <2>1. \A j \in Plans : There(j) => There(j)'
      BY <1>2, <1>3, <1>6, StaysThere DEF queue, history
    <2> QED
      BY SMTT(40), <1>1, <1>2, <1>3, <1>4, <1>5, <1>6, <2>1 DEF Kept
  <1> QED
    BY <1>1, <1>2, <1>3, <1>4, <1>6, <1>7, <1>8, <1>9, <1>10, IngestKeeps DEF queue, history, Over

\* Of a minted job the marker is staged first, then the job is promoted.
LEMMA MintedKeeps ==
  ASSUME PInv, NEW a \in Plans, Stage(a) \/ Promote(a)
  PROVE  PInv'
  <1> DEFINE pc == IF ingest[a].pc = "stage" THEN "promote" ELSE "final"
             c == [ingest[a] EXCEPT !.pc = pc]
  <1>1. /\ FilesType /\ QueueType /\ Sane(a) /\ Bound(a) /\ Undone(a) /\ Finished(a)
        /\ ingest[a] \in IngestType /\ ingest[a].pc \in {"stage", "promote"}
    BY DEF PInv, FilesType, Stage, Promote
  <1>2. /\ job[a] = a /\ status[a] \notin {"active", "complete"} /\ age[a] # "old" /\ 0 \notin Plans
        /\ run.status[a] \notin {"active", "complete"}
    BY <1>1, PlanAssumption DEF Sane, Over
  <1>3. /\ ingest' = [ingest EXCEPT ![a] = c]
        /\ UNCHANGED <<status, job, cancels, key, sighted, leases, turn, records, age, run, faults, history>>
        /\ ingest[a].pc = "stage" => members' = members \cup {<<a, a>>} /\ avail' = avail
        /\ ingest[a].pc = "promote" => members' = members /\ avail' = avail \cup {a}
    BY <1>1 DEF Stage, Promote, To, Go, queue, files
  <1>4. c \in IngestType /\ c.pc = pc /\ pc \in {"promote", "final"}
    BY <1>1 DEF IngestType, IngestLabels
  <1>5. (pc = "promote" <=> ingest[a].pc = "stage") /\ (pc = "final" <=> ingest[a].pc = "promote")
    BY <1>1
  <1> HIDE DEF c, pc
  <1>6. /\ ingest'[a] = c /\ avail \subseteq avail' /\ members \subseteq members'
        /\ FilesType' /\ QueueType'
        /\ \A p \in Plans \ {a} : \A j \in Plans : <<j, p>> \in members <=> <<j, p>> \in members'
    BY SMTT(40), <1>1, <1>3, <1>4 DEF FilesType, QueueType
  <1>7. Sane(a)'
    BY <1>1, <1>2, <1>3, <1>4, <1>5, <1>6 DEF Sane, Early
  <1>8. Bound(a)'
    BY <1>1, <1>2, <1>3, <1>4, <1>5, <1>6 DEF Bound, Excused, Marked
  <1>9. Undone(a)' /\ Finished(a)'
    BY <1>1, <1>2, <1>3, <1>4, <1>6 DEF Undone, Finished, Excused, Marked, Over
  <1>10. Kept(a)'
    BY <1>2, <1>3, <1>4, <1>5, <1>6 DEF Kept, There, Live
  <1> QED
    BY <1>1, <1>2, <1>3, <1>4, <1>6, <1>7, <1>8, <1>9, <1>10, IngestKeeps DEF history, Over

\* The final put_plan, over whatever status a run has written.
LEMMA PutActiveKeeps ==
  ASSUME PInv, NEW a \in Plans, PutActive(a)
  PROVE  PInv'
  <1> DEFINE c == [ingest[a] EXCEPT !.pc = "done"]
  <1>1. /\ FilesType /\ QueueType /\ Sane(a) /\ Bound(a) /\ Undone(a) /\ Kept(a)
        /\ ingest[a] \in IngestType /\ ingest[a].pc = "final"
    BY DEF PInv, FilesType, PutActive
  <1>2. /\ job[a] # 0 /\ age[a] # "old" /\ run.status[a] \notin {"active", "complete"}
    BY <1>1 DEF Sane, Over
  <1>3. /\ status' = [status EXCEPT ![a] = "active"] /\ ingest' = [ingest EXCEPT ![a] = c]
        /\ UNCHANGED <<job, cancels, members, key, sighted, queue, age, run, faults, history>>
    BY DEF PutActive, To, Go
  <1>4. c \in IngestType /\ c.pc = "done"
    BY <1>1 DEF IngestType, IngestLabels, Over
  <1> HIDE DEF c
  <1>5. /\ status'[a] = "active" /\ ingest'[a] = c /\ FilesType' /\ QueueType'
        /\ \A p \in Plans \ {a} : status'[p] = status[p]
    BY <1>1, <1>3, <1>4 DEF FilesType, QueueType, queue, Statuses
  <1>6. Sane(a)'
    BY <1>2, <1>3, <1>4, <1>5 DEF Sane, Early
  <1>7. Bound(a)' /\ Undone(a)' /\ Finished(a)'
    BY <1>1, <1>3, <1>4, <1>5 DEF Bound, Undone, Finished, Excused, Marked, Over
  <1>8. Kept(a)'
    <2>1. \A j \in Plans : There(j) => There(j)'
      BY <1>3, StaysThere DEF queue, history
    <2>2. <<job[a], a>> \in members => job[a] \in Plans
      BY <1>1 DEF FilesType
    <2> QED
      BY <1>1, <1>3, <1>4, <1>5, <2>1, <2>2 DEF Kept
  <1> QED
    BY <1>1, <1>3, <1>4, <1>5, <1>6, <1>7, <1>8, IngestKeeps DEF queue, history, Over

\* An ingest that fails or dies stops where it is.
LEMMA DiesKeeps ==
  ASSUME PInv, NEW a \in Plans, IngestDies(a)
  PROVE  PInv'
  <1> DEFINE c == [pc |-> "dead", target |-> 0, read |-> 0, second |-> "no"]
  <1>1. /\ FilesType /\ QueueType /\ Sane(a) /\ ingest[a].pc \notin Over
        /\ faults' = faults + 1 /\ ingest' = [ingest EXCEPT ![a] = c]
        /\ UNCHANGED <<files, queue, age, run, history>>
    BY DEF PInv, IngestDies, Go, Over
  <1>2. /\ status[a] \notin {"active", "complete"} /\ age[a] # "old"
        /\ run.status[a] \notin {"active", "complete"}
    BY <1>1 DEF Sane, Over
  <1>3. c \in IngestType /\ c.pc = "dead"
    BY SMT DEF IngestType, IngestLabels, Over, Reads
  <1> HIDE DEF c
  <1>4. ingest'[a] = c /\ FilesType' /\ QueueType'
    BY SMT, <1>1, <1>3 DEF FilesType, QueueType, files, queue
  <1>5. Sane(a)'
    BY <1>1, <1>2, <1>3, <1>4 DEF Sane, Early, files
  <1>6. Bound(a)' /\ Undone(a)' /\ Kept(a)' /\ Finished(a)'
    BY <1>1, <1>2, <1>3, <1>4 DEF Bound, Undone, Kept, Finished, Over, files
  <1> QED
    BY <1>1, <1>3, <1>4, <1>5, <1>6, IngestKeeps DEF files, queue, history

\* The invariant holds at the start: the plan that was filed before has its job in avail/.
LEMMA PlanStart ==
  ASSUME Init
  PROVE  PInv
  <1>1. PICK filed \in SUBSET (Plans \ Ingesting) :
           /\ status = [p \in Plans |-> IF p \in filed THEN "active" ELSE "none"]
           /\ job = [p \in Plans |-> IF p \in filed THEN p ELSE 0]
           /\ age = [p \in Plans |-> "young"] /\ cancels = {}
           /\ members = {<<p, p>> : p \in filed} /\ avail = filed
           /\ key = IF filed = {} THEN 0 ELSE CHOOSE p \in filed : TRUE
           /\ leases = {} /\ turn = 0 /\ records = {}
           /\ ingest = [p \in Plans |-> [pc |-> IF p \in Ingesting THEN "idle" ELSE "done",
                                         target |-> 0, read |-> 0, second |-> "no"]]
           /\ run = NoRun /\ faults = 0 /\ lost = {} /\ missed = {}
    BY DEF Init
  <1>2. 0 \notin Plans /\ Ingesting \subseteq Plans
    BY PlanAssumption
  <1>3. run.pc = "idle" /\ \A p \in Plans : run.status[p] = "none"
    BY <1>1 DEF NoRun
  <1>4. \A p \in Plans : ingest[p].pc = IF p \in Ingesting THEN "idle" ELSE "done"
    BY <1>1
  <1>5. QueueType
    BY <1>1 DEF QueueType
  <1>6. FilesType
    <2>1. ingest \in [Plans -> IngestType]
      <3>1. \A pc \in IngestLabels : [pc |-> pc, target |-> 0, read |-> 0, second |-> "no"] \in IngestType
        BY SMT DEF IngestType, Reads
      <3>2. {"idle", "done"} \subseteq IngestLabels
        BY DEF IngestLabels, Early, Over
      <3> QED
        BY <1>1, <3>1, <3>2
    <2>2. key \in Plans \cup {0}
      BY <1>1
    <2>3. members \subseteq Plans \X Plans /\ cancels \subseteq Plans
      BY SMTT(40), <1>1
    <2>4. /\ status \in [Plans -> Statuses] /\ job \in [Plans -> Plans \cup {0}]
          /\ age \in [Plans -> {"young", "old", "slow"}]
      BY <1>1 DEF Statuses
    <2> QED
      BY <1>1, <2>1, <2>2, <2>3, <2>4, NoRunTyped DEF FilesType
  <1>7. RunSane
    BY <1>1, <1>3 DEF RunSane, Before, Taking, Settling
  <1>8. ASSUME NEW p \in Plans
        PROVE  Sane(p) /\ Bound(p) /\ Undone(p) /\ Kept(p) /\ Finished(p)
    <2>1. /\ p \in filed => status[p] = "active" /\ job[p] = p /\ ingest[p].pc = "done" /\ <<p, p>> \in members
          /\ p \notin filed => status[p] = "none" /\ job[p] = 0
          /\ age[p] = "young" /\ ingest[p].pc \in {"idle", "done"}
      BY <1>1, <1>4
    <2>2. Sane(p)
      BY <1>2, <1>3, <2>1 DEF Sane, Early, Over
    <2>3. Bound(p) /\ Undone(p) /\ Finished(p)
      BY <1>3, <2>1 DEF Bound, Undone, Finished
    <2>4. Kept(p)
      BY <1>1, <1>2, <2>1 DEF Kept, There, Live
    <2> QED
      BY <2>2, <2>3, <2>4
  <1> QED
    BY <1>5, <1>6, <1>7, <1>8 DEF PInv

\* Every step keeps the invariant.
LEMMA PlanStep ==
  ASSUME PInv, [Next]_vars
  PROVE  PInv'
  <1>1. CASE UNCHANGED vars
    <2>1. UNCHANGED <<status, job, cancels, members, key, sighted, avail, leases, turn, records, age,
                      ingest, run, faults, lost, missed>>
      BY <1>1 DEF vars, files, queue, history
    <2> QED
      BY <2>1, QueueKeeps DEF files, history, PInv, QueueType, Live, Leased
  <1>2. CASE \E p \in Plans : Ingest(p)
    BY <1>2, PlaceKeeps, OfficialKeeps, WriteMarkerKeeps, SurvivesKeeps, ReplaceKeeps,
       PutCreatingKeeps, MintedKeeps, PutActiveKeeps DEF Ingest
  <1>3. CASE \E p \in Plans : IngestDies(p) \/ Ages(p) \/ RequestCancel(p)
    BY <1>3, DiesKeeps, AgesKeeps, CancelKeeps
  <1>4. CASE \/ \E p \in Plans : Claim(p)
             \/ \E l \in leases : Heartbeat(l) \/ GiveBack(l) \/ Submit(l) \/ Finish(l)
    BY <1>4, ClientSteps
  <1>5. CASE Run
    BY <1>5, ListsCancels, ListsManifests, ListsQueue, SettlesLease, ListsMembers, Reconciles,
       DropsMembership, DeletesJob, LeavesWindow, CollectsMarker, CollectsKeys DEF Run
  <1>6. CASE RunFails
    BY <1>6, FailsRun
  <1> QED
    BY <1>1, <1>2, <1>3, <1>4, <1>5, <1>6 DEF Next

\* The invariant holds throughout.
LEMMA PlanInvariant == Spec => []PInv
  <1>1. Init => PInv
    BY PlanStart
  <1>2. PInv /\ [Next]_vars => PInv'
    BY PlanStep
  <1> QED
    BY <1>1, <1>2, PTL DEF Spec

\* Manifests, markers and queue entries name plans and jobs that exist, whatever the
\* interleaving of ingests, clients and runs, and whichever of them fail.
THEOREM PlansTyped == Spec => []TypeOK
  <1>1. PInv => TypeOK
    BY DEF PInv, FilesType, QueueType, Sane, Keys, TypeOK
  <1> QED
    BY <1>1, PlanInvariant, PTL

\* try_join and end_membership: an active plan that holds a membership of its job keeps the
\* job until it has a record, except where a teardown deleted it and could not put it back.
THEOREM JobsKept == Spec => []HeldJobKept
  <1>1. PInv => HeldJobKept
    BY DEF PInv, Sane, Kept, There, HeldJobKept
  <1> QED
    BY <1>1, PlanInvariant, PTL

\* reconcile_one_plan: a plan is latched complete only when its job has a record, or its live
\* job was missed by the run's listings, or a teardown lost it.
THEOREM CompletesFinished == Spec => []CompleteIsFinished
  <1>1. PInv => CompleteIsFinished
    BY DEF PInv, Finished, CompleteIsFinished
  <1> QED
    BY <1>1, PlanInvariant, PTL

\* ingest_may_overwrite: a cancel marker goes only when no ingest can undo the latch.
THEOREM CancelsStand == Spec => CancelStands
  <1> DEFINE Lets == \A p \in cancels \ cancels' :
                \/ age[p] = "slow"
                \/ /\ status[p] \in {"cancelling", "cancelled", "complete"}
                   /\ ingest[p].pc \in {"done", "dead"}
  <1>1. PInv /\ [Next]_vars => [Lets]_vars
    <2> SUFFICES ASSUME PInv, Next PROVE Lets
      OBVIOUS
    <2>1. CASE CollectMarker
      <3>1. cancels \ cancels' \subseteq {run.plan} /\ Collectable(run.plan)
        BY <2>1 DEF CollectMarker, PInv, RunSane
      <3> QED
        BY <3>1 DEF Collectable, Over
    <2>2. CASE ~CollectMarker
      <3>1. cancels \subseteq cancels'
        BY ZenonT(40), <2>2 DEF Next, Ingest, Run, Place, ClaimKey, OfficialState, WriteMarker, TargetSurvives,
           DropMarker, ReplaceStale, PutCreating, Stage, Promote, PutActive, IngestDies, Ages,
           RequestCancel, Claim, Heartbeat, GiveBack, Submit, Finish, ListCancelMarkers,
           ListManifests, ListForRecycle, SettleLease, ListAvail, ListLeased, ListMembers,
           Reconcile, DropMembership, ReadBody, DeleteAvail, DeleteLeases, ListJoiners, Restore,
           GcPlanIndex, RunFails, Quiet, files
      <3> QED
        BY <3>1
    <2> QED
      BY <2>1, <2>2
  <1> QED
    BY <1>1, PlanInvariant, PTL DEF Spec, CancelStands
=============================================================================
