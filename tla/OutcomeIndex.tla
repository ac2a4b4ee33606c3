---------------------------- MODULE OutcomeIndex ----------------------------
(* The outcome row of one job (SqlSubmissionStore): a writer marks the job    *)
(* pending, writes the body to the object store and publishes the row; the    *)
(* repair pass of queue-maintenance rebuilds the row of a job left pending.   *)
(* SQL transactions are steps; the object store has no part in them.  Bodies  *)
(* move between their places meanwhile.  Most moves leave the index alone;    *)
(* the finalizer of process-submissions archives a scored body as a writer.   *)
EXTENDS Naturals, Sequences

CONSTANTS Writers,      \* writes under way at a time
          MaxWrites, MaxFaults, MaxParks        \* bounds

ASSUME OutcomeAssumption == MaxWrites \in Nat /\ MaxFaults \in Nat /\ MaxParks \in Nat

VARIABLES
    body,       \* submissions/: the outcome of the body in each place
    route,      \* a finished body of the job goes through score-queue/, or is archived at once
    row,        \* submission_outcomes
    gen,        \* submission_outcome_repairs.generation, 0 while the job has no such row
    mark,       \* submission_outcome_repairs.pending: "pending" or "settled"
    writer, repair,
    writes, faults, parks,
    latest,     \* history: the outcome of the body written last
    slipped     \* history: the index lost sight of the latest body, see RowIsLatest

records == <<body, route, parks>>
index == <<row, gen, mark>>
bounds == <<writes, faults>>
history == <<latest, slipped>>
vars == <<records, index, writer, repair, bounds, history>>

Outcomes == {"finished", "failed"}
Rows == Outcomes \cup {"none"}
Places == {"incoming", "to_do", "parked", "to_finalize", "processed"}
Queued == {"to_do", "parked", "to_finalize"}
pending == mark = "pending"

\* find_job and has_record look in these places, in this order.
FindOrder == <<"incoming", "processed", "to_do", "parked", "to_finalize">>
HasOrder == <<"incoming", "to_do", "parked", "to_finalize", "processed">>

NoWrite == [pc |-> "idle", kind |-> "replace", out |-> "failed", gen |-> 0, old |-> "none"]
NoRepair == [pc |-> "idle", gen |-> 0, i |-> 1, row |-> "none"]

\* The job has no record yet, or one whose row is published.
Init ==
    /\ route \in {"scored", "plain"} /\ row \in Rows
    /\ \E p \in Places :
          /\ p \in Queued => route = "scored" /\ row # "failed"
          /\ body = [q \in Places |-> IF q = p THEN row ELSE "none"]
    /\ gen = (IF row = "none" THEN 0 ELSE 1) /\ mark = "settled"
    /\ writer = [w \in Writers |-> NoWrite] /\ repair = NoRepair
    /\ writes = 0 /\ faults = 0 /\ parks = 0
    /\ latest = row /\ slipped = "no"

Slip(cond) == slipped' = IF cond THEN "yes" ELSE slipped
Fault == faults < MaxFaults /\ faults' = faults + 1 /\ UNCHANGED writes

-----------------------------------------------------------------------------
(* Writers: a client replaces its body; a synthetic failure is created only while *)
(* incoming/ is free; finalize_one archives the body it read in to_finalize/.     *)

Go(w, label) == writer' = [writer EXCEPT ![w] = [writer[w] EXCEPT !.pc = label]]
EndWrite(w) == writer' = [writer EXCEPT ![w] = NoWrite]

\* The transaction of invalidate: the marker and the row deletion, ahead of the body.
MarkPending == gen' = gen + 1 /\ mark' = "pending" /\ row' = "none"

Begin(w, k, o) ==
    writer' = [writer EXCEPT ![w] = [pc |-> "put", kind |-> k, out |-> o, gen |-> gen + 1,
                                     old |-> IF k = "create" THEN row ELSE "none"]]

Invalidate(w) ==
    /\ writer[w].pc = "idle" /\ writes < MaxWrites
    /\ \E k \in {"replace", "create"}, o \in Outcomes :
          (k = "create" => o = "failed") /\ Begin(w, k, o)
    /\ MarkPending
    /\ writes' = writes + 1
    /\ UNCHANGED <<records, repair, faults, history>>

\* The lock process-submissions holds: while it finalizes a job it does nothing else to it.
CronFree == \A w \in Writers : writer[w].kind = "archive" => writer[w].pc \in {"idle", "late"}

\* finalize_one up to write_processed, which invalidates like any replacement.
Finalize(w) ==
    /\ writer[w].pc = "idle" /\ CronFree
    /\ body["to_finalize"] # "none"
    /\ Begin(w, "archive", body["to_finalize"])
    /\ MarkPending
    /\ UNCHANGED <<records, repair, bounds, history>>

Target(w) == IF writer[w].kind = "archive" THEN "processed" ELSE "incoming"

\* A body lands.  An archived one is none the client wrote since, and may be older than
\* the latest.
Land(w) ==
    /\ body' = [body EXCEPT ![Target(w)] = writer[w].out]
    /\ latest' = IF writer[w].kind = "archive" THEN latest ELSE writer[w].out
Superseded(w) == writer[w].kind = "archive" /\ writer[w].out # latest

Taken(w) == writer[w].kind = "create" /\ body["incoming"] # "none"

\* The body is written; a create that finds incoming/ taken writes nothing.
WriteBody(w) ==
    /\ writer[w].pc = "put"
    /\ IF Taken(w) THEN Go(w, "put back") /\ UNCHANGED <<body, history>>
       ELSE Land(w) /\ Slip(Superseded(w)) /\ Go(w, "publish")
    /\ UNCHANGED <<route, parks, index, repair, bounds>>

\* Someone else may settle the job at its present generation from an older read.
OthersMaySettle(w) ==
    \/ ~ pending
    \/ repair.pc # "idle" /\ repair.gen = gen
    \/ \E v \in Writers \ {w} :
          writer[v].pc \in {"put", "publish", "put back"} /\ writer[v].gen = gen

\* The store refuses the write, or takes it and its answer is lost: a failed replacement
\* stops there, a failed create puts its old row back.
FailWrite(w) ==
    /\ writer[w].pc = "put" /\ Fault
    /\ IF writer[w].kind = "create" THEN Go(w, "put back") ELSE EndWrite(w)
    /\ \/ UNCHANGED <<body, history>>
       \/ /\ ~ Taken(w)
          /\ Land(w)
          /\ Slip(\/ Superseded(w)
                  \/ writer[w].kind # "archive" /\ OthersMaySettle(w)
                  \/ writer[w].kind = "create" /\ writer[w].old # "none")
    /\ UNCHANGED <<route, parks, index, repair>>

\* The finalizer still has to take the body off the queue.
Published(w) == IF writer[w].kind = "archive" THEN Go(w, "dequeue") ELSE EndWrite(w)

\* Mutant of Publish: a writer whose generation has passed leaves the repair alone.
PublishNoReopen(w) ==
    /\ writer[w].pc = "publish"
    /\ IF writer[w].gen = gen
       THEN row' = writer[w].out /\ mark' = "settled" /\ UNCHANGED gen
       ELSE UNCHANGED index
    /\ Published(w)
    /\ UNCHANGED <<records, repair, bounds, history>>

\* The transaction of publish as Writer: pending or not; a generation that moved on
\* reopens the repair.
PublishOutcome(w) ==
    IF writer[w].gen = gen THEN row' = writer[w].out /\ mark' = "settled" /\ UNCHANGED gen
    ELSE MarkPending

Publish(w) ==
    /\ writer[w].pc = "publish"
    /\ PublishOutcome(w)
    /\ Published(w)
    /\ UNCHANGED <<records, repair, bounds, history>>

\* A transaction is committed and its answer lost: retry runs it again, or the caller ends.
LoseAnswer(w) ==
    /\ Fault
    /\ \/ writer[w].pc = "idle" /\ MarkPending
       \/ writer[w].pc = "publish" /\ PublishOutcome(w)
    /\ UNCHANGED <<records, writer, repair, history>>

Dequeue(w) ==
    /\ writer[w].pc = "dequeue"
    /\ body' = [body EXCEPT !["to_finalize"] = "none"]
    /\ EndWrite(w)
    /\ UNCHANGED <<route, parks, index, repair, bounds, history>>

\* put_back: the old row, if there was one, as the repair would publish it.
PutBack(w) ==
    /\ writer[w].pc = "put back"
    /\ IF writer[w].old # "none" /\ writer[w].gen = gen /\ pending
       THEN row' = writer[w].old /\ mark' = "settled" /\ UNCHANGED gen
       ELSE UNCHANGED index
    /\ EndWrite(w)
    /\ UNCHANGED <<records, repair, bounds, history>>

\* The process dies, or the database fails the publication; a body that was not dequeued
\* is finalized again.  A request already sent to the object store may land after that.
Die(w) ==
    /\ writer[w].pc \in {"put", "publish", "put back", "dequeue"} /\ Fault
    /\ \/ EndWrite(w)
       \/ writer[w].pc = "put" /\ Go(w, "late")
    /\ Slip(writer[w].pc = "publish" /\ writer[w].kind # "archive" /\ OthersMaySettle(w))
    /\ UNCHANGED <<records, index, repair, latest>>

LandLate(w) ==
    /\ writer[w].pc = "late"
    /\ IF Taken(w) THEN UNCHANGED <<body, history>>
       ELSE Land(w) /\ Slip(writer[w].kind # "archive" \/ Superseded(w))
    /\ EndWrite(w)
    /\ UNCHANGED <<route, parks, index, repair, bounds>>

-----------------------------------------------------------------------------
(* The other moves of the record; none of them touches the index. *)

Move(from, to) ==
    /\ body[from] # "none"
    /\ body' = [body EXCEPT ![from] = "none", ![to] = body[from]]
    /\ UNCHANGED <<route, index, writer, repair, bounds, latest>>

MarkProcessed ==
    /\ CronFree
    /\ ~ (route = "scored" /\ body["incoming"] = "finished")
    /\ Move("incoming", "processed") /\ UNCHANGED <<parks, slipped>>

\* Mutant of Enqueue: a failure of an eval is routed like its results.
EnqueueFailures ==
    /\ CronFree
    /\ route = "scored"
    /\ Move("incoming", "to_do") /\ UNCHANGED <<parks, slipped>>

Enqueue ==
    /\ CronFree
    /\ route = "scored" /\ body["incoming"] = "finished"
    /\ Move("incoming", "to_do") /\ UNCHANGED <<parks, slipped>>

\* A body that finds another one staged is dropped: both are finished.
Score == Move("to_do", "to_finalize") /\ UNCHANGED <<parks, slipped>>

\* record_failed_attempt, from either stage.  From to_finalize/ it goes against
\* has_record's order: a check under way may miss the body.
Park ==
    /\ parks < MaxParks /\ parks' = parks + 1
    /\ \E stage \in {"to_do", "to_finalize"} :
          /\ stage = "to_finalize" => CronFree
          /\ Move(stage, "parked")
          /\ Slip(stage = "to_finalize" /\ repair.pc = "confirm")

\* The other move against has_record's order: the operator's retry.
Unpark ==
    /\ Move("parked", "to_do")
    /\ Slip(repair.pc = "confirm")
    /\ UNCHANGED parks

-----------------------------------------------------------------------------
(* The repair pass. *)

RepairAt(label, i, r) == repair' = [pc |-> label, gen |-> repair.gen, i |-> i, row |-> r]

\* outcome_repair_page: a pending job with its generation.  That it is REPAIR_MIN_AGE old
\* only delays the pass; nothing below rests on it.
RepairPage ==
    /\ repair.pc = "idle" /\ pending
    /\ repair' = [pc |-> "find", gen |-> gen, i |-> 1, row |-> "none"]
    /\ UNCHANGED <<records, index, writer, bounds, history>>

\* find_job, place by place; a miss in all of them is checked with has_record.  An
\* archived body is preferred to one in score-queue/, the newer one or not.
FindJob ==
    LET p == FindOrder[repair.i]
    IN /\ repair.pc = "find"
       /\ IF body[p] # "none" THEN RepairAt("publish", 1, body[p])
          ELSE IF repair.i < Len(FindOrder) THEN RepairAt("find", repair.i + 1, "none")
          ELSE RepairAt("confirm", 1, "none")
       /\ Slip(/\ p = "processed" /\ body[p] \notin {"none", latest}
               /\ \E q \in Queued : body[q] = latest)
       /\ UNCHANGED <<records, index, writer, bounds, latest>>

HasRecord ==
    LET p == HasOrder[repair.i]
    IN /\ repair.pc = "confirm"
       /\ IF body[p] # "none" THEN RepairAt("defer", 1, "none")
          ELSE IF repair.i < Len(HasOrder) THEN RepairAt("confirm", repair.i + 1, "none")
          ELSE RepairAt("publish", 1, "none")
       /\ UNCHANGED <<records, index, writer, bounds, history>>

\* A read fails.
FailRead ==
    /\ repair.pc \in {"find", "confirm"} /\ Fault
    /\ RepairAt("defer", 1, "none")
    /\ UNCHANGED <<records, index, writer, history>>

\* defer: the job stays pending, for a later pass.
Defer ==
    /\ repair.pc = "defer"
    /\ repair' = NoRepair
    /\ UNCHANGED <<records, index, writer, bounds, history>>

\* Mutant of RepairPublish: only a record that was found settles the job.
RepairPublishFoundOnly ==
    /\ repair.pc = "publish"
    /\ IF repair.gen = gen /\ pending /\ repair.row # "none"
       THEN mark' = "settled" /\ row' = repair.row
       ELSE UNCHANGED <<row, mark>>
    /\ repair' = NoRepair
    /\ UNCHANGED <<records, gen, writer, bounds, history>>

\* publish as Repair: only at its generation and only while pending.
RepairPublish ==
    /\ repair.pc = "publish"
    /\ IF repair.gen = gen /\ pending
       THEN /\ mark' = "settled"
            /\ row' = IF repair.row = "none" THEN row ELSE repair.row
       ELSE UNCHANGED <<row, mark>>
    /\ repair' = NoRepair
    /\ UNCHANGED <<records, gen, writer, bounds, history>>

\* The run dies, or the publication fails and defers.
FailRepair ==
    /\ repair.pc # "idle" /\ Fault
    /\ repair' = NoRepair
    /\ UNCHANGED <<records, index, writer, history>>

-----------------------------------------------------------------------------

WriterStep(w) == WriteBody(w) \/ Publish(w) \/ Dequeue(w) \/ PutBack(w) \/ LandLate(w)
MoveStep == MarkProcessed \/ Enqueue \/ Score \/ Park \/ Unpark
RepairStep == RepairPage \/ FindJob \/ HasRecord \/ Defer \/ RepairPublish

Next ==
    \/ \E w \in Writers : Invalidate(w) \/ Finalize(w) \/ WriterStep(w)
    \/ \E w \in Writers : FailWrite(w) \/ LoseAnswer(w) \/ Die(w)
    \/ MoveStep
    \/ RepairStep \/ FailRead \/ FailRepair

Spec == Init /\ [][Next]_vars

\* Writes under way end and queue-maintenance runs every minute.
FairSpec == /\ Spec
            /\ \A w \in Writers : WF_vars(WriterStep(w))
            /\ WF_vars(RepairStep)

-----------------------------------------------------------------------------

Write == [pc : {"idle", "put", "publish", "dequeue", "put back", "late"},
          kind : {"replace", "create", "archive"}, out : Outcomes, gen : Nat, old : Rows]
Repair == [pc : {"idle", "find", "confirm", "defer", "publish"}, gen : Nat, i : 1 .. 5, row : Rows]

\* The places, the index and the local states have the shape the code gives them; the score
\* queue holds no failure (read_and_score).
TypeOK ==
    /\ body \in [Places -> Rows] /\ route \in {"scored", "plain"}
    /\ \A q \in Queued : body[q] # "failed"
    /\ row \in Rows /\ gen \in Nat /\ mark \in {"pending", "settled"}
    /\ writer \in [Writers -> Write] /\ repair \in Repair
    /\ writes \in Nat /\ faults \in Nat /\ parks \in Nat
    /\ latest \in Rows /\ slipped \in {"no", "yes"}

\* A new body has landed and its writer has yet to publish.
Unpublished == \E w \in Writers : writer[w].pc = "publish" /\ writer[w].kind # "archive"

\* A settled row is the outcome of the body a client or a retirement wrote last, and a settled
\* job without a row has no body, once the writes that landed have published; the finalizer,
\* which publishes an archived body again, does not disturb it.  slipped marks the exceptions:
\* an older body archived after a newer one was written, a body that lands after its writer's
\* end, a writer that ends unpublished while another settles, a failed create that landed, an
\* archived body read ahead of a queued one, and an absence confirmed across a move against
\* its order (invalidate, publish, write_processed, repair_outcomes_with).
RowIsLatest == ~ pending /\ ~ Unpublished /\ slipped = "no" => row = latest

\* Every job left pending is settled in the end (repair_outcomes_with, defer).
Repaired == []<> ~ pending
=============================================================================
