------------------------- MODULE SubmissionPipeline -------------------------
(***************************************************************************)
(* The way of a submitted body through storage.  A client writes it to      *)
(* incoming/; process-submissions scores it at once, or routes an eval to    *)
(* the score queue; score-eval calls the scoring service and stages the      *)
(* result; process-submissions writes the rows and archives the body.  A     *)
(* body that fails too often is parked.  Meanwhile readers look for a job's  *)
(* record one place after another, and queue-maintenance records a system    *)
(* failure for a job that seems to have none.                                *)
(*                                                                         *)
(* The two crons hold different locks, so they run at the same time.  Every  *)
(* call on a store is one step.  A listing fits in one chunk.                *)
(***************************************************************************)
EXTENDS Integers, Sequences

CONSTANTS
    Jobs,
    Bodies,             \* what clients submit
    System, None,       \* the synthetic failure; no body
    Evals,              \* the bodies that need the scoring service
    Locked,             \* failures whose day partition is closed: archived without rows
    Rowless,            \* failures whose type intends no metric: left where they are
    MAX_SCORE_ATTEMPTS,
    Lookups,            \* the lookups that run: "has_record", "find_outcome", "retire"
    Faults,             \* what fails: "scoring", "finalizing", "store", "service", "crash"
    MaxFaults, MaxSubmits       \* bounds: how often something fails, how many bodies come

ASSUME BodyAssumption ==
    /\ None \notin Bodies \cup {System} /\ System \notin Bodies
    /\ Evals \subseteq Bodies /\ Locked \subseteq Bodies \cup {System}
    /\ Rowless \subseteq Bodies /\ Rowless \cap Evals = {}
ASSUME LookupAssumption == Lookups \subseteq {"has_record", "find_outcome", "retire"}
ASSUME CountAssumption ==
    MAX_SCORE_ATTEMPTS \in Nat \ {0} /\ MaxFaults \in Nat /\ MaxSubmits \in Nat

VARIABLES
    at,         \* what each place holds for each job
    failures,   \* the attempts its failures/ entry counts; 0 without one
    warehouse,  \* the bodies whose rows were written
    mover,      \* the runs of process-submissions and score-eval
    lookup,     \* a lookup in progress
    submits, faults

store == <<at, failures, warehouse>>
vars == <<at, failures, warehouse, mover, lookup, submits, faults>>

Places == {"incoming", "to_do", "parked", "to_finalize", "processed"}
PS == "process-submissions"
SE == "score-eval"
Movers == {PS, SE}
AnyBody == Bodies \cup {System}

Idle == [pc |-> "idle", work |-> {}, job |-> None, body |-> None,
         out |-> [j \in Jobs |-> None], marked |-> FALSE, n |-> 0, stop |-> FALSE]
NoLookup == [pc |-> "idle", job |-> None, op |-> "none", i |-> 0,
             was |-> FALSE, back |-> FALSE]

HasRecord(j) == \E s \in Places : at[s][j] # None
Listing(s) == {j \in Jobs : at[s][j] # None}

Init ==
    /\ at = [s \in Places |-> [j \in Jobs |-> None]]
    /\ failures = [j \in Jobs |-> 0]
    /\ warehouse = [j \in Jobs |-> {}]
    /\ mover = [m \in Movers |-> Idle]
    /\ lookup = NoLookup
    /\ submits = 0 /\ faults = 0

Put(s, j, b) == at' = [at EXCEPT ![s][j] = b]
Delete(s, j) == Put(s, j, None)

At(m, label) == mover[m].pc = label
Become(m, r) == mover' = [mover EXCEPT ![m] = r]
Goto(m, label) == Become(m, [mover[m] EXCEPT !.pc = label])

Fault(kind) == kind \in Faults /\ faults < MaxFaults /\ faults' = faults + 1

-----------------------------------------------------------------------------
\* Writers of incoming/

\* write_submission_record, for a client that holds the job's lease; a later body
\* supersedes an earlier one.
RecordSubmission(j, b) ==
    /\ submits < MaxSubmits /\ submits' = submits + 1
    /\ Put("incoming", j, b)
    /\ UNCHANGED <<failures, warehouse, mover, lookup, faults>>

-----------------------------------------------------------------------------
\* process-submissions, under the mutate lock

StartProcess ==
    /\ At(PS, "idle")
    /\ Become(PS, [Idle EXCEPT !.pc = "score", !.work = Listing("incoming")])
    /\ UNCHANGED <<store, submits, lookup, faults>>

\* get_submission looks in incoming/, then in processed/.
Submission(j) == IF at["incoming"][j] # None THEN at["incoming"][j] ELSE at["processed"][j]

\* read_and_score: an eval is routed, anything else is scored on the spot; a body
\* that is gone or does not score waits for the next run.
ReadAndScore(j) ==
    /\ At(PS, "score") /\ j \in mover[PS].work
    /\ LET me == [mover[PS] EXCEPT !.work = @ \ {j}]
           b == Submission(j)
       IN  \/ /\ b \in Evals /\ UNCHANGED faults
              /\ Become(PS, [me EXCEPT !.pc = "route", !.job = j, !.body = b])
           \/ /\ b \notin Evals /\ UNCHANGED faults
              /\ Become(PS, [me EXCEPT !.out[j] = b])
           \/ Fault("scoring") /\ Become(PS, me)
    /\ UNCHANGED <<store, submits, lookup>>

\* Mutant: a routed eval stays in incoming/.
RouteEvalKeepsIncoming ==
    /\ At(PS, "route")
    /\ Put("to_do", mover[PS].job, mover[PS].body)
    /\ Goto(PS, "score")
    /\ UNCHANGED <<failures, warehouse, submits, lookup, faults>>

RouteEval ==
    /\ At(PS, "route")
    /\ Put("to_do", mover[PS].job, mover[PS].body)
    /\ Goto(PS, "routed")
    /\ UNCHANGED <<failures, warehouse, submits, lookup, faults>>

DeleteRouted ==
    /\ At(PS, "routed")
    /\ Delete("incoming", mover[PS].job)
    /\ Become(PS, [mover[PS] EXCEPT !.pc = "score", !.job = None, !.body = None])
    /\ UNCHANGED <<failures, warehouse, submits, lookup, faults>>

\* What the chunk commits: a failure without rows is deferred, alone.
Outcomes == {j \in Jobs : mover[PS].out[j] \notin {None} \cup Rowless}

\* Mutant: the bodies move before the rows are written.
CommitChunkMarksFirst ==
    /\ At(PS, "score") /\ mover[PS].work = {}
    /\ Become(PS, [mover[PS] EXCEPT !.pc = "mark", !.work = Outcomes])
    /\ UNCHANGED <<store, submits, lookup, faults>>

\* Mutant: every listed job is committed, the ones that did not score included.
CommitChunkAllListed ==
    /\ At(PS, "score") /\ mover[PS].work = {}
    /\ Become(PS, [mover[PS] EXCEPT !.pc = "rows", !.work = Listing("incoming")])
    /\ UNCHANGED <<store, submits, lookup, faults>>

\* commit_chunk writes every row first ...
CommitChunk ==
    /\ At(PS, "score") /\ mover[PS].work = {}
    /\ Become(PS, [mover[PS] EXCEPT !.pc = "rows", !.work = Outcomes])
    /\ UNCHANGED <<store, submits, lookup, faults>>

WriteRows(j) ==
    /\ At(PS, "rows") /\ j \in mover[PS].work
    /\ LET b == mover[PS].out[j]
       IN  warehouse' = IF b \in Locked THEN warehouse ELSE [warehouse EXCEPT ![j] = @ \cup {b}]
    /\ Become(PS, [mover[PS] EXCEPT !.work = @ \ {j}])
    /\ UNCHANGED <<at, failures, submits, lookup, faults>>

\* ... and then moves the bodies, one job after another.
RowsWritten ==
    /\ At(PS, "rows") /\ mover[PS].work = {}
    /\ Become(PS, [mover[PS] EXCEPT !.pc = "mark", !.work = Outcomes])
    /\ UNCHANGED <<store, submits, lookup, faults>>

\* mark_processed reads incoming/ again, writes processed/, deletes incoming/; a
\* job it cannot read, or whose evidence is not written, is deferred.
MarkRead(j) ==
    /\ At(PS, "mark") /\ j \in mover[PS].work
    /\ LET me == [mover[PS] EXCEPT !.work = @ \ {j}]
           b == at["incoming"][j]
       IN  \/ /\ Become(PS, IF b = None THEN me
                             ELSE [me EXCEPT !.pc = "mark put", !.job = j, !.body = b])
              /\ UNCHANGED faults
           \/ Fault("store") /\ Become(PS, me)
    /\ UNCHANGED <<store, submits, lookup>>

MarkPut ==
    /\ At(PS, "mark put")
    /\ Put("processed", mover[PS].job, mover[PS].body)
    /\ Goto(PS, "mark delete")
    /\ UNCHANGED <<failures, warehouse, submits, lookup, faults>>

MarkDelete ==
    /\ At(PS, "mark delete")
    /\ Delete("incoming", mover[PS].job)
    /\ Become(PS, [mover[PS] EXCEPT !.pc = "mark", !.job = None, !.body = None, !.marked = TRUE])
    /\ UNCHANGED <<failures, warehouse, submits, lookup, faults>>

\* A chunk of which no job was committed ends the run; otherwise the run goes on
\* to finalize_scored_evals.
ListScored ==
    /\ At(PS, "mark") /\ mover[PS].work = {}
    /\ Become(PS, IF Outcomes # {} /\ ~ mover[PS].marked THEN Idle
                  ELSE [Idle EXCEPT !.pc = "finalize", !.work = Listing("to_finalize")])
    /\ UNCHANGED <<store, submits, lookup, faults>>

\* finalize_one: the staged body is read and its rows built ...
FinalizeRead(j) ==
    /\ At(PS, "finalize") /\ j \in mover[PS].work
    /\ LET me == [mover[PS] EXCEPT !.work = @ \ {j}, !.job = j, !.body = at["to_finalize"][j]]
       IN  \/ /\ Become(PS, [me EXCEPT !.pc = IF me.body = None THEN "count" ELSE "final rows"])
              /\ UNCHANGED faults
           \/ Fault("finalizing") /\ Become(PS, [me EXCEPT !.pc = "count"])
    /\ UNCHANGED <<store, submits, lookup>>

\* ... written, the body archived, and only then taken off the queue.
FinalRows ==
    /\ At(PS, "final rows")
    /\ warehouse' = [warehouse EXCEPT ![mover[PS].job] = @ \cup {mover[PS].body}]
    /\ Goto(PS, "archive")
    /\ UNCHANGED <<at, failures, submits, lookup, faults>>

\* Mutant: the body leaves the queue before it is archived.
ArchiveDequeuesFirst ==
    /\ At(PS, "archive")
    /\ Delete("to_finalize", mover[PS].job)
    /\ Goto(PS, "dequeue")
    /\ UNCHANGED <<failures, warehouse, submits, lookup, faults>>

Archive ==
    /\ At(PS, "archive")
    /\ Put("processed", mover[PS].job, mover[PS].body)
    /\ Goto(PS, "dequeue")
    /\ UNCHANGED <<failures, warehouse, submits, lookup, faults>>

-----------------------------------------------------------------------------
\* score-eval, under its own lock

StartScoreEval ==
    /\ At(SE, "idle")
    /\ Become(SE, [Idle EXCEPT !.pc = "eval", !.work = Listing("to_do")])
    /\ UNCHANGED <<store, submits, lookup, faults>>

\* score_eval_one: a job that is staged already only leaves to_do/.
CheckStaged(j) ==
    /\ At(SE, "eval") /\ j \in mover[SE].work
    /\ LET me == [mover[SE] EXCEPT !.work = @ \ {j}, !.job = j]
       IN  \/ /\ Become(SE, [me EXCEPT !.pc = IF at["to_finalize"][j] # None THEN "dequeue"
                                              ELSE "read"])
              /\ UNCHANGED faults
           \/ Fault("store") /\ Become(SE, [me EXCEPT !.pc = "count"])
    /\ UNCHANGED <<store, submits, lookup>>

ReadToDo ==
    /\ At(SE, "read")
    /\ LET b == at["to_do"][mover[SE].job]
       IN  Become(SE, [mover[SE] EXCEPT !.pc = IF b = None THEN "count" ELSE "call", !.body = b])
    /\ UNCHANGED <<store, submits, lookup, faults>>

\* The service answers, refuses the job, times out (counted, and the run ends
\* after it), or cannot be reached (the run ends).
CallScore ==
    /\ At(SE, "call")
    /\ \/ Goto(SE, "stage") /\ UNCHANGED faults
       \/ Fault("scoring") /\ Goto(SE, "count")
       \/ Fault("service") /\ Become(SE, [mover[SE] EXCEPT !.pc = "count", !.stop = TRUE])
       \/ Fault("service") /\ Become(SE, Idle)
    /\ UNCHANGED <<store, submits, lookup>>

Stage ==
    /\ At(SE, "stage")
    /\ Put("to_finalize", mover[SE].job, mover[SE].body)
    /\ Goto(SE, "dequeue")
    /\ UNCHANGED <<failures, warehouse, submits, lookup, faults>>

-----------------------------------------------------------------------------
\* What the two share: leaving the stage, and the count of failed passes

StageOf(m) == IF m = PS THEN "to_finalize" ELSE "to_do"
Loop(m) == IF m = PS THEN "finalize" ELSE "eval"
NextJob(m) ==
    Become(m, IF mover[m].stop THEN Idle
              ELSE [mover[m] EXCEPT !.pc = Loop(m), !.job = None, !.body = None, !.n = 0])

Dequeue(m) ==
    /\ At(m, "dequeue")
    /\ Delete(StageOf(m), mover[m].job)
    /\ Goto(m, "clear")
    /\ UNCHANGED <<failures, warehouse, submits, lookup, faults>>

ClearFailedAttempts(m) ==
    /\ At(m, "clear")
    /\ failures' = [failures EXCEPT ![mover[m].job] = 0]
    /\ NextJob(m)
    /\ UNCHANGED <<at, warehouse, submits, lookup, faults>>

\* record_failed_attempt reads the count and writes it back one higher.
ReadAttempts(m) ==
    /\ At(m, "count")
    /\ Become(m, [mover[m] EXCEPT !.pc = "write count", !.n = failures[mover[m].job] + 1])
    /\ UNCHANGED <<store, submits, lookup, faults>>

WriteAttempts(m) ==
    /\ At(m, "write count")
    /\ failures' = [failures EXCEPT ![mover[m].job] = mover[m].n]
    /\ IF mover[m].n < MAX_SCORE_ATTEMPTS THEN NextJob(m) ELSE Goto(m, "read stage")
    /\ UNCHANGED <<at, warehouse, submits, lookup, faults>>

ReadStage(m) ==
    /\ At(m, "read stage")
    /\ LET b == at[StageOf(m)][mover[m].job]
       IN  IF b = None THEN NextJob(m) ELSE Become(m, [mover[m] EXCEPT !.pc = "park", !.body = b])
    /\ UNCHANGED <<store, submits, lookup, faults>>

Park(m) ==
    /\ At(m, "park")
    /\ Put("parked", mover[m].job, mover[m].body)
    /\ Goto(m, "unstage")
    /\ UNCHANGED <<failures, warehouse, submits, lookup, faults>>

\* A record that leaves to_finalize/ for parked/ moves against the order of a lookup.
Unstage(m) ==
    /\ At(m, "unstage")
    /\ Delete(StageOf(m), mover[m].job)
    /\ NextJob(m)
    /\ lookup' = [lookup EXCEPT !.back = @ \/ (m = PS /\ lookup.job = mover[m].job)]
    /\ UNCHANGED <<failures, warehouse, submits, faults>>

EndRun(m) ==
    /\ At(m, Loop(m)) /\ mover[m].work = {}
    /\ Become(m, Idle)
    /\ UNCHANGED <<store, submits, lookup, faults>>

\* A store call fails.  A job being scored or marked is deferred; a warehouse
\* write or a listing ends the run; a pass over a queued job counts as failed;
\* what records that is only logged.
StoreError(m) ==
    /\ Fault("store")
    /\ \/ /\ mover[m].pc \in {"route", "routed"}
          /\ Become(m, [mover[m] EXCEPT !.pc = "score", !.job = None, !.body = None])
       \/ /\ mover[m].pc \in {"mark put", "mark delete"}
          /\ Become(m, [mover[m] EXCEPT !.pc = "mark", !.job = None, !.body = None])
       \/ /\ \/ At(m, "rows") /\ mover[m].work # {}
             \/ At(m, "mark") /\ mover[m].work = {}
          /\ Become(m, Idle)
       \/ mover[m].pc \in {"final rows", "archive", "read", "stage", "dequeue"} /\ Goto(m, "count")
       \/ /\ mover[m].pc \in {"clear", "count", "write count", "read stage", "park", "unstage"}
          /\ NextJob(m)
    /\ UNCHANGED <<store, submits, lookup>>

\* The process dies; the lock it held expires.
Crash(m) ==
    /\ Fault("crash")
    /\ ~ At(m, "idle")
    /\ Become(m, Idle)
    /\ UNCHANGED <<store, submits, lookup>>

-----------------------------------------------------------------------------
\* Lookups

\* The order in which has_record and find_outcome try the places.
MoveOrder == <<"incoming", "to_do", "parked", "to_finalize", "processed">>

\* Mutant: the place where most records are is tried first, and only then.
OrderProcessedFirst(op) == <<"processed", "incoming", "to_do", "parked", "to_finalize">>

Order(op) ==
    IF op = "find_outcome" THEN <<"processed">> \o MoveOrder ELSE MoveOrder

\* A caller that only wants the answer, or a retirement that will record a system
\* failure when there is none.
StartLookup(op, j) ==
    /\ lookup.pc = "idle"
    /\ lookup' = [pc |-> "probe", job |-> j, op |-> op, i |-> 1,
                  was |-> HasRecord(j), back |-> FALSE]
    /\ UNCHANGED <<store, submits, mover, faults>>

Probe ==
    /\ lookup.pc = "probe"
    /\ LET places == Order(lookup.op)
           found == at[places[lookup.i]][lookup.job] # None
       IN  lookup' = IF found THEN [lookup EXCEPT !.pc = "found"]
                     ELSE IF lookup.i < Len(places) THEN [lookup EXCEPT !.i = @ + 1]
                     ELSE [lookup EXCEPT !.pc = "absent"]
    /\ UNCHANGED <<store, submits, mover, faults>>

EndLookup ==
    /\ lookup.pc = "found" \/ (lookup.pc = "absent" /\ lookup.op # "retire")
    /\ lookup' = NoLookup
    /\ UNCHANGED <<store, submits, mover, faults>>

\* write_incoming_new: exclusive against the key in incoming/.
RecordSystemFailure ==
    /\ lookup.pc = "absent" /\ lookup.op = "retire"
    /\ IF at["incoming"][lookup.job] = None THEN Put("incoming", lookup.job, System)
       ELSE UNCHANGED at
    /\ lookup' = NoLookup
    /\ UNCHANGED <<failures, warehouse, submits, mover, faults>>

-----------------------------------------------------------------------------

ProcessStep ==
    \/ StartProcess
    \/ \E j \in Jobs : ReadAndScore(j) \/ WriteRows(j) \/ MarkRead(j) \/ FinalizeRead(j)
    \/ RouteEval \/ DeleteRouted \/ CommitChunk \/ RowsWritten \/ MarkPut \/ MarkDelete
    \/ ListScored \/ FinalRows \/ Archive

ScoreEvalStep ==
    \/ StartScoreEval
    \/ \E j \in Jobs : CheckStaged(j)
    \/ ReadToDo \/ CallScore \/ Stage

SharedStep(m) ==
    \/ Dequeue(m) \/ ClearFailedAttempts(m) \/ ReadAttempts(m) \/ WriteAttempts(m)
    \/ ReadStage(m) \/ Park(m) \/ Unstage(m) \/ EndRun(m)

LookupStep == Probe \/ EndLookup \/ RecordSystemFailure

Next ==
    \/ \E j \in Jobs, b \in Bodies : RecordSubmission(j, b)
    \/ ProcessStep \/ ScoreEvalStep
    \/ \E m \in Movers : SharedStep(m) \/ StoreError(m) \/ Crash(m)
    \/ \E op \in Lookups, j \in Jobs : StartLookup(op, j)
    \/ LookupStep

Spec == Init /\ [][Next]_vars

\* The crons are started again and again, and a run that is started goes on.
Fairness ==
    /\ WF_vars(ProcessStep \/ SharedStep(PS))
    /\ WF_vars(ScoreEvalStep \/ SharedStep(SE))
    /\ WF_vars(LookupStep)

FairSpec == Spec /\ Fairness

-----------------------------------------------------------------------------

Labels == {"idle", "score", "route", "routed", "rows", "mark", "mark put", "mark delete",
           "finalize", "final rows", "archive", "eval", "read", "call", "stage", "dequeue",
           "clear", "count", "write count", "read stage", "park", "unstage"}

MoverType ==
    [pc : Labels, work : SUBSET Jobs, job : Jobs \cup {None}, body : AnyBody \cup {None},
     out : [Jobs -> AnyBody \cup {None}], marked : BOOLEAN, n : Nat, stop : BOOLEAN]

\* Every place, count and local variable of the crons has the shape the code gives
\* it; in particular a run only marks and finalizes bodies it has read.
TypeOK ==
    /\ at \in [Places -> [Jobs -> AnyBody \cup {None}]]
    /\ failures \in [Jobs -> Nat]
    /\ warehouse \in [Jobs -> SUBSET AnyBody]
    /\ mover \in [Movers -> MoverType]
    /\ lookup \in [pc : {"idle", "probe", "found", "absent"}, job : Jobs \cup {None},
                   op : {"none", "has_record", "find_outcome", "retire"},
                   i : 0..6, was : BOOLEAN, back : BOOLEAN]
    /\ submits \in 0..MaxSubmits /\ faults \in 0..MaxFaults

\* A job with a record keeps one, wherever the crons are cut short or interleaved:
\* every move writes the next place before it deletes the previous one.
NoRecordLost == [][\A j \in Jobs : HasRecord(j) => HasRecord(j)']_vars

HasRows(j, b) == b \in warehouse[j] \cup Locked

\* A body reaches processed/ only after its rows are in the warehouse, or when its
\* partition is closed to them (commit_chunk, finalize_one).  The exception is a body
\* that took, in incoming/, the place of the one whose rows this run has written, and
\* that mark_processed reads instead.
ArchivedHasRows ==
    [][\A j \in Jobs :
          LET b == at'["processed"][j]
          IN  b # at["processed"][j] =>
                 \/ HasRows(j, b)
                 \/ At(PS, "mark put") /\ mover[PS].out[j] # b /\ HasRows(j, mover[PS].out[j])]_vars

\* has_record and find_outcome find a record that was there when they began, though
\* movers copy and delete it between two of their probes (pipette-store/src/lib.rs,
\* 833-836: "so a moving record is still found").
HasRecordFinds == lookup.pc = "absent" => ~ lookup.was

\* They miss such a record only when it was parked from to_finalize/ under them; every
\* other move goes on in the order they look (has_record, find_outcome).
MissedOnlyByParking == lookup.pc = "absent" /\ lookup.was => lookup.back

\* Every record ends archived or parked, and leaves the places that are worked
\* on, once the faults stop; a failure without rows stays in incoming/
\* (run_process_submissions, run_score_eval).
Drains ==
    \A j \in Jobs :
        HasRecord(j) ~>
           (\A s \in {"incoming", "to_do", "to_finalize"} : at[s][j] \in {None} \cup Rowless)
=============================================================================
