------------------------- MODULE OutcomeIndexProofs -------------------------
(* A settled outcome row is the one of the body written last, for any number  *)
(* of writers, writes, faults and un-parkings.                                *)
EXTENDS OutcomeIndex, TLAPS

Active(w) == writer[w].pc # "idle"
UnpublishedBut(w) == \E v \in Writers \ {w} : writer[v].pc = "publish" /\ writer[v].kind # "archive"

\* Every write has a generation of its own, at most the present one.
Generations ==
    /\ repair.gen <= gen
    /\ \A w \in Writers : writer[w].gen <= gen
    /\ \A w, v \in Writers : Active(w) /\ Active(v) /\ w # v => writer[w].gen # writer[v].gen

\* A pending job has no row.
PendingHasNoRow == pending => row = "none"

\* Where the body written last is: incoming/ holds no other, and while nothing slipped some
\* place holds it.
BodyKept ==
    /\ body["incoming"] \in {"none", latest}
    /\ latest = "none" => \A p \in Places : body[p] = "none"
    /\ slipped = "no" /\ latest # "none"
       => body["incoming"] = latest \/ body["processed"] = latest \/ \E q \in Queued : body[q] = latest

\* The finalizer archives a finished body, and has archived it once it publishes.
Archiving ==
    \A w \in Writers :
        /\ writer[w].pc = "dequeue" => writer[w].kind = "archive"
        /\ Active(w) /\ writer[w].kind = "archive" =>
              /\ writer[w].out = "finished" /\ writer[w].old = "none" /\ latest # "none"
              /\ writer[w].pc \in {"publish", "dequeue"} => body["processed"] = "finished"

\* What a writer at the present generation would publish is the latest outcome, unless
\* another write has landed and has yet to reopen the repair.
WriterKnows ==
    \A w \in Writers :
        writer[w].gen = gen /\ slipped = "no" =>
            /\ writer[w].pc = "publish" /\ ~ UnpublishedBut(w) => writer[w].out = latest
            /\ /\ writer[w].pc \in {"put", "put back"} /\ pending /\ ~ Unpublished
               /\ writer[w].old # "none"
               => writer[w].old = latest

\* A repair that can still publish: what it has read is the latest outcome, and where it
\* has looked in vain nothing came up since.
RepairMayPublish == /\ repair.pc # "idle" /\ repair.gen = gen
                    /\ pending /\ slipped = "no" /\ ~ Unpublished
RepairKnows ==
    RepairMayPublish =>
        /\ repair.pc = "publish" => repair.row = latest
        /\ repair.pc # "publish" => repair.row = "none"
        /\ repair.pc = "find" /\ repair.i >= 2 => body["incoming"] = "none"
        /\ repair.pc = "find" /\ repair.i >= 3 => latest # "failed"
        /\ repair.pc = "confirm" => \A j \in 1 .. 5 : j < repair.i => body[HasOrder[j]] = "none"

IInv == /\ TypeOK /\ Generations /\ PendingHasNoRow /\ BodyKept /\ Archiving
        /\ WriterKnows /\ RepairKnows /\ RowIsLatest

-----------------------------------------------------------------------------

\* The constructors of the local states are well-formed.
LEMMA LocalStates ==
    /\ NoWrite \in Write /\ NoRepair \in Repair
    /\ \A r \in Write, l \in {"idle", "put", "publish", "dequeue", "put back", "late"} :
          [r EXCEPT !.pc = l] \in Write
    /\ \A k \in {"replace", "create", "archive"}, o \in Outcomes, g \in Nat, old \in Rows :
          [pc |-> "put", kind |-> k, out |-> o, gen |-> g, old |-> old] \in Write
<1>1. NoWrite \in Write /\ NoRepair \in Repair
    BY DEF NoWrite, NoRepair, Write, Repair, Rows, Outcomes
<1>2. ASSUME NEW r \in Write, NEW l \in {"idle", "put", "publish", "dequeue", "put back", "late"}
      PROVE  [r EXCEPT !.pc = l] \in Write
    BY DEF Write
<1>3. ASSUME NEW k \in {"replace", "create", "archive"}, NEW o \in Outcomes, NEW g \in Nat, NEW old \in Rows
      PROVE  [pc |-> "put", kind |-> k, out |-> o, gen |-> g, old |-> old] \in Write
    BY DEF Write
<1> QED BY <1>1, <1>2, <1>3

\* A repair that reads on stays well-formed.
LEMMA RepairAtTyped ==
    ASSUME TypeOK, NEW l \in {"find", "confirm", "defer", "publish"}, NEW i \in 1 .. 5,
           NEW r \in Rows, RepairAt(l, i, r)
    PROVE  repair' \in Repair
BY DEF RepairAt, Repair, TypeOK

\* The initial state satisfies the invariant: a job with its row published, or none.
LEMMA InitIInv == Init => IInv
<1> SUFFICES ASSUME Init PROVE IInv
    OBVIOUS
<1>1. TypeOK
    <2>1. body \in [Places -> Rows]
        BY DEF Init, Rows
    <2>2. \A q \in Queued : body[q] # "failed"
        BY DEF Init, Queued, Places
    <2> QED BY <2>1, <2>2, LocalStates DEF Init, TypeOK, Rows
<1>2. Generations /\ PendingHasNoRow
    BY DEF Init, Generations, PendingHasNoRow, NoWrite, NoRepair, Active, pending
<1>3. BodyKept
    <2>1. PICK p \in Places : body = [q \in Places |-> IF q = p THEN row ELSE "none"]
        BY DEF Init
    <2>2. \A q \in Places : body[q] = IF q = p THEN row ELSE "none"
        BY <2>1
    <2>3. latest = row
        BY DEF Init
    <2> HIDE <2>1
    <2> QED BY <2>1, <2>2, <2>3 DEF BodyKept, Places, Queued
<1>4. Archiving /\ WriterKnows /\ RepairKnows
    BY DEF Init, Archiving, Active, WriterKnows, RepairKnows, RepairMayPublish, NoWrite, NoRepair
<1>5. RowIsLatest
    BY DEF Init, RowIsLatest
<1> QED BY <1>1, <1>2, <1>3, <1>4, <1>5 DEF IInv

\* A write that begins is well-formed.
LEMMA BeginTyped ==
    ASSUME TypeOK, NEW w \in Writers, NEW k \in {"replace", "create", "archive"},
           NEW o \in Outcomes, Begin(w, k, o)
    PROVE  writer' \in [Writers -> Write]
<1>1. gen + 1 \in Nat /\ (IF k = "create" THEN row ELSE "none") \in Rows
    BY DEF TypeOK, Rows
<1> QED BY <1>1, LocalStates DEF Begin, TypeOK

\* What lands is an outcome, and none in the queue.
LEMMA LandTyped ==
    ASSUME TypeOK, NEW w \in Writers, Land(w)
    PROVE  /\ body' \in [Places -> Rows] /\ latest' \in Rows
           /\ \A q \in Queued : body'[q] # "failed"
           /\ \A q \in Places : body'[q] = IF q = Target(w) THEN writer[w].out ELSE body[q]
<1>1. writer[w].out \in Rows /\ Target(w) \in Places \ Queued
    BY DEF TypeOK, Write, Rows, Target, Places, Queued
<1>2. \A q \in Places : body'[q] = IF q = Target(w) THEN writer[w].out ELSE body[q]
    BY DEF Land, TypeOK
<1>3. body' \in [Places -> Rows] /\ latest' \in Rows
    BY <1>1 DEF Land, TypeOK
<1>4. \A q \in Queued : body'[q] # "failed"
    BY <1>1, <1>2 DEF TypeOK, Queued, Places
<1> QED BY <1>2, <1>3, <1>4

\* A step of a writer keeps the types.
LEMMA WriterStepTyped ==
    ASSUME TypeOK, NEW w \in Writers,
           \/ Invalidate(w) \/ Finalize(w) \/ WriterStep(w)
           \/ FailWrite(w) \/ LoseAnswer(w) \/ Die(w)
    PROVE  TypeOK'
<1>t. /\ body \in [Places -> Rows] /\ row \in Rows /\ gen \in Nat /\ writer \in [Writers -> Write]
      /\ writer[w] \in Write /\ writer[w].out \in Rows /\ writer[w].old \in Rows
      /\ writes \in Nat /\ faults \in Nat /\ \A q \in Queued : body[q] # "failed"
    BY DEF TypeOK, Write, Rows
<1>g. \A l \in {"publish", "dequeue", "put back", "late"} : Go(w, l) => writer' \in [Writers -> Write]
    BY <1>t, LocalStates DEF Go
<1>e. EndWrite(w) => writer' \in [Writers -> Write]
    BY <1>t, LocalStates DEF EndWrite
<1>m. MarkPending => row' \in Rows /\ gen' \in Nat /\ mark' \in {"pending", "settled"}
    BY <1>t DEF MarkPending, Rows
<1>p. PublishOutcome(w) => row' \in Rows /\ gen' \in Nat /\ mark' \in {"pending", "settled"}
    BY <1>m, <1>t DEF PublishOutcome
<1>s. ASSUME NEW c, Slip(c) PROVE slipped' \in {"no", "yes"}
    BY <1>s DEF Slip, TypeOK
<1>f. Fault => faults' \in Nat /\ writes' \in Nat
    BY <1>t DEF Fault
<1>1. CASE Invalidate(w) \/ Finalize(w)
    <2>1. writer' \in [Writers -> Write]
        <3>1. CASE Invalidate(w)
            <4>1. PICK k \in {"replace", "create"}, o \in Outcomes : Begin(w, k, o)
                BY <3>1 DEF Invalidate
            <4> QED BY <4>1, BeginTyped
        <3>2. CASE Finalize(w)
            <4>1. body["to_finalize"] \in Outcomes /\ Begin(w, "archive", body["to_finalize"])
                BY <3>2, <1>t DEF Finalize, Rows, Places
            <4> QED BY <4>1, BeginTyped
        <3> QED BY <1>1, <3>1, <3>2
    <2>2. row' \in Rows /\ gen' \in Nat /\ mark' \in {"pending", "settled"}
        BY <1>1, <1>m DEF Invalidate, Finalize
    <2>3. writes' \in Nat
        BY <1>1, <1>t DEF Invalidate, Finalize, bounds
    <2> QED BY <1>1, <2>1, <2>2, <2>3 DEF Invalidate, Finalize, TypeOK, records, history, bounds
<1>2. CASE WriteBody(w)
    <2>1. writer' \in [Writers -> Write]
        BY <1>2, <1>g DEF WriteBody
    <2>2. /\ body' \in [Places -> Rows] /\ latest' \in Rows /\ slipped' \in {"no", "yes"}
          /\ \A q \in Queued : body'[q] # "failed"
        BY <1>2, <1>s, LandTyped DEF WriteBody, TypeOK, history
    <2> QED BY <1>2, <2>1, <2>2 DEF WriteBody, TypeOK, index, bounds
<1>3. CASE Publish(w) \/ PutBack(w)
    <2>1. writer' \in [Writers -> Write]
        BY <1>3, <1>e, <1>g DEF Publish, Published, PutBack
    <2>2. row' \in Rows /\ gen' \in Nat /\ mark' \in {"pending", "settled"}
        <3>1. CASE Publish(w)
            BY <3>1, <1>p DEF Publish
        <3>2. CASE PutBack(w)
            BY <3>2, <1>t DEF PutBack, TypeOK, index
        <3> QED BY <1>3, <3>1, <3>2
    <2> QED BY <1>3, <2>1, <2>2 DEF Publish, PutBack, TypeOK, records, bounds, history
<1>4. CASE FailWrite(w)
    <2>1. writer' \in [Writers -> Write]
        BY <1>4, <1>g, <1>e DEF FailWrite
    <2>2. /\ body' \in [Places -> Rows] /\ latest' \in Rows /\ slipped' \in {"no", "yes"}
          /\ \A q \in Queued : body'[q] # "failed"
        BY <1>4, <1>s, LandTyped DEF FailWrite, TypeOK, history
    <2> QED BY <1>4, <1>f, <2>1, <2>2 DEF FailWrite, TypeOK, index
<1>5. CASE Die(w)
    <2>1. writer' \in [Writers -> Write] /\ slipped' \in {"no", "yes"}
        BY <1>5, <1>g, <1>e, <1>s DEF Die
    <2> QED BY <1>5, <1>f, <2>1 DEF Die, TypeOK, records, index
<1>6. CASE LandLate(w)
    <2>1. writer' \in [Writers -> Write]
        BY <1>6, <1>e DEF LandLate
    <2>2. /\ body' \in [Places -> Rows] /\ latest' \in Rows /\ slipped' \in {"no", "yes"}
          /\ \A q \in Queued : body'[q] # "failed"
        BY <1>6, <1>s, LandTyped DEF LandLate, TypeOK, history
    <2> QED BY <1>6, <2>1, <2>2 DEF LandLate, TypeOK, index, bounds
<1>7. CASE LoseAnswer(w)
    <2>1. row' \in Rows /\ gen' \in Nat /\ mark' \in {"pending", "settled"}
        BY <1>7, <1>m, <1>p DEF LoseAnswer
    <2> QED BY <1>7, <1>f, <2>1 DEF LoseAnswer, TypeOK, records, history
<1>8. CASE Dequeue(w)
    <2>1. writer' \in [Writers -> Write]
        BY <1>8, <1>e DEF Dequeue
    <2>2. body' \in [Places -> Rows] /\ \A q \in Queued : body'[q] # "failed"
        BY <1>8, <1>t DEF Dequeue, Rows, Places, Queued
    <2> QED BY <1>8, <2>1, <2>2 DEF Dequeue, TypeOK, index, bounds, history
<1> QED BY <1>1, <1>2, <1>3, <1>4, <1>5, <1>6, <1>7, <1>8 DEF WriterStep

\* A move of the record keeps the types.
LEMMA MoveTyped ==
    ASSUME TypeOK, MoveStep
    PROVE  TypeOK'
<1>1. ASSUME NEW p \in Places, NEW q \in Places, Move(p, q)
      PROVE  body' \in [Places -> Rows]
    BY <1>1 DEF Move, TypeOK, Rows
<1>2. body' \in [Places -> Rows]
    BY <1>1 DEF MoveStep, MarkProcessed, Enqueue, Score, Park, Unpark, Places
<1>5. \A q \in Queued : body'[q] # "failed"
    BY DEF MoveStep, MarkProcessed, Enqueue, Score, Park, Unpark, Move, TypeOK, Queued, Places
<1>3. slipped' \in {"no", "yes"} /\ parks' \in Nat
    BY DEF MoveStep, MarkProcessed, Enqueue, Score, Park, Unpark, Slip, TypeOK
<1>4. UNCHANGED <<route, index, writer, repair, bounds, latest>>
    BY DEF MoveStep, MarkProcessed, Enqueue, Score, Park, Unpark, Move
<1> QED BY <1>2, <1>3, <1>4, <1>5 DEF TypeOK, index, bounds

\* A step of the repair keeps the types.
LEMMA RepairTyped ==
    ASSUME TypeOK, RepairStep \/ FailRead \/ FailRepair
    PROVE  TypeOK'
<1>t. repair \in Repair /\ repair.i \in 1 .. 5 /\ repair.row \in Rows /\ gen \in Nat /\ row \in Rows
      /\ body \in [Places -> Rows] /\ faults \in Nat
    BY DEF TypeOK, Repair
<1>o. Len(FindOrder) = 5 /\ Len(HasOrder) = 5
    BY DEF FindOrder, HasOrder
<1>p. FindOrder[repair.i] \in Places /\ HasOrder[repair.i] \in Places
    BY <1>t DEF FindOrder, HasOrder, Places
<1>1. CASE RepairPage
    <2>1. repair' \in Repair
        BY <1>1, <1>t DEF RepairPage, NoRepair, Repair, Rows
    <2> QED BY <1>1, <2>1 DEF RepairPage, TypeOK, records, index, bounds, history
<1>2. CASE FindJob
    <2>1. repair' \in Repair
        <3>1. "none" \in Rows /\ body[FindOrder[repair.i]] \in Rows
            BY <1>t, <1>p DEF Rows
        <3>2. repair.i < Len(FindOrder) => repair.i + 1 \in 1 .. 5
            BY <1>t, <1>o
        <3> QED BY <1>2, <1>t, <3>1, <3>2, RepairAtTyped DEF FindJob
    <2> QED BY <1>2, <2>1 DEF FindJob, Slip, TypeOK, records, index, bounds
<1>3. CASE HasRecord
    <2>1. repair' \in Repair
        <3>1. "none" \in Rows
            BY DEF Rows
        <3>2. repair.i < Len(HasOrder) => repair.i + 1 \in 1 .. 5
            BY <1>t, <1>o
        <3> QED BY <1>3, <1>t, <3>1, <3>2, RepairAtTyped DEF HasRecord
    <2> QED BY <1>3, <2>1 DEF HasRecord, TypeOK, records, index, bounds, history
<1>4. CASE Defer
    BY <1>4, LocalStates DEF Defer, TypeOK, records, index, bounds, history
<1>7. CASE FailRepair
    <2>1. repair' \in Repair
        BY <1>7, LocalStates DEF FailRepair
    <2> QED BY <1>7, <1>t, <2>1 DEF FailRepair, Fault, TypeOK, records, index, history
<1>5. CASE RepairPublish
    BY <1>5, <1>t, LocalStates DEF RepairPublish, TypeOK, records, bounds, history
<1>6. CASE FailRead
    <2>1. repair' \in Repair
        BY <1>6, RepairAtTyped DEF FailRead, Rows
    <2> QED BY <1>6, <1>t, <2>1 DEF FailRead, Fault, TypeOK, records, index, history
<1> QED BY <1>1, <1>2, <1>3, <1>4, <1>5, <1>6, <1>7 DEF RepairStep

-----------------------------------------------------------------------------
(* One lemma per step of a writer. *)

\* A writer that goes on changes its label only, and no other writer.
LEMMA GoFields ==
    ASSUME TypeOK, NEW w \in Writers, NEW l, Go(w, l)
    PROVE  /\ writer'[w].pc = l /\ writer'[w].gen = writer[w].gen
           /\ writer'[w].out = writer[w].out /\ writer'[w].old = writer[w].old
           /\ writer'[w].kind = writer[w].kind
           /\ \A v \in Writers \ {w} : writer'[v] = writer[v]
<1>1. writer \in [Writers -> Write] /\ writer[w] \in Write
    BY DEF TypeOK
<1>2. writer'[w] = [writer[w] EXCEPT !.pc = l]
    BY <1>1 DEF Go
<1>3. \A v \in Writers \ {w} : writer'[v] = writer[v]
    BY <1>1 DEF Go
<1> QED BY <1>1, <1>2, <1>3 DEF Write

\* A writer that ends leaves nothing behind.
LEMMA EndFields ==
    ASSUME TypeOK, NEW w \in Writers, EndWrite(w)
    PROVE  /\ writer'[w].pc = "idle" /\ writer'[w].gen = 0 /\ writer'[w].old = "none"
           /\ \A v \in Writers \ {w} : writer'[v] = writer[v]
BY DEF TypeOK, EndWrite, NoWrite

\* The body that lands is the latest one, and incoming/ holds it; the finalizer's goes to
\* processed/ and is the latest, or slipped.
LEMMA LandKeeps ==
    ASSUME TypeOK, BodyKept, Archiving, NEW w \in Writers, Active(w), Land(w),
           slipped' = "no" => slipped = "no" /\ ~ Superseded(w)
    PROVE  BodyKept'
<1>1. writer[w].out \in Outcomes
    BY DEF TypeOK, Write
<1>2. writer[w].out # "none"
    BY <1>1 DEF Outcomes
<1>3. \A q \in Places : body'[q] = IF q = Target(w) THEN writer[w].out ELSE body[q]
    BY LandTyped
<1>4. CASE writer[w].kind # "archive"
    <2>1. latest' = writer[w].out /\ body'["incoming"] = latest'
        BY <1>3, <1>4 DEF Land, Target, Places
    <2> QED BY <1>2, <2>1 DEF BodyKept
<1>5. CASE writer[w].kind = "archive"
    <2>1. latest' = latest /\ latest # "none" /\ Target(w) = "processed"
        BY <1>5 DEF Land, Target, Archiving
    <2>2. body'["incoming"] = body["incoming"] /\ body'["processed"] = writer[w].out
        BY <1>3, <2>1 DEF Places
    <2>3. slipped' = "no" => body'["processed"] = latest
        BY <1>5, <2>2 DEF Superseded
    <2> QED BY <2>1, <2>2, <2>3 DEF BodyKept
<1> QED BY <1>4, <1>5

\* A step of one writer keeps what the finalizers know: it takes no archived body away.
LEMMA ArchivingKept ==
    ASSUME Archiving, NEW w \in Writers,
           \A v \in Writers \ {w} : writer'[v] = writer[v],
           latest # "none" => latest' # "none",
           body["processed"] = "finished" => body'["processed"] = "finished",
           writer'[w].pc = "dequeue" => writer'[w].kind = "archive",
           Active(w)' /\ writer'[w].kind = "archive" =>
              /\ writer'[w].out = "finished" /\ writer'[w].old = "none" /\ latest' # "none"
              /\ writer'[w].pc \in {"publish", "dequeue"} => body'["processed"] = "finished"
    PROVE  Archiving'
<1> SUFFICES ASSUME NEW v \in Writers
             PROVE  /\ writer'[v].pc = "dequeue" => writer'[v].kind = "archive"
                    /\ Active(v)' /\ writer'[v].kind = "archive" =>
                          /\ writer'[v].out = "finished" /\ writer'[v].old = "none" /\ latest' # "none"
                          /\ writer'[v].pc \in {"publish", "dequeue"} => body'["processed"] = "finished"
    BY DEF Archiving
<1>1. CASE v # w
    BY <1>1 DEF Archiving, Active
<1>2. CASE v = w
    BY <1>2
<1> QED BY <1>1, <1>2

\* A writer that goes on, dies or ends with nothing written.
LEMMA QuietArchiving ==
    ASSUME TypeOK, Archiving, NEW w \in Writers, Active(w), UNCHANGED <<body, latest>>,
           \/ Go(w, "put back") \/ Go(w, "late") \/ EndWrite(w) \/ UNCHANGED writer
           \/ Go(w, "dequeue") /\ writer[w].kind = "archive" /\ writer[w].pc = "publish"
    PROVE  Archiving'
<1>1. CASE UNCHANGED writer
    BY <1>1 DEF Archiving, Active
<1>2. CASE EndWrite(w)
    <2>1. writer'[w].pc = "idle" /\ \A v \in Writers \ {w} : writer'[v] = writer[v]
        BY <1>2, EndFields
    <2> QED BY <2>1, ArchivingKept DEF Active
<1>3. ASSUME NEW l \in {"put back", "late", "dequeue"}, Go(w, l),
             l = "dequeue" => writer[w].kind = "archive" /\ writer[w].pc = "publish"
      PROVE  Archiving'
    <2>1. /\ writer'[w].pc = l /\ writer'[w].out = writer[w].out /\ writer'[w].old = writer[w].old
          /\ writer'[w].kind = writer[w].kind /\ \A v \in Writers \ {w} : writer'[v] = writer[v]
        BY <1>3, GoFields
    <2>2. writer[w].kind = "archive" =>
              /\ writer[w].out = "finished" /\ writer[w].old = "none" /\ latest # "none"
              /\ writer[w].pc = "publish" => body["processed"] = "finished"
        BY DEF Archiving
    <2> QED BY <1>3, <2>1, <2>2, ArchivingKept
<1> QED BY <1>1, <1>2, <1>3

\* A body that lands, its writer going on to publish it or ending.
LEMMA LandArchiving ==
    ASSUME TypeOK, Archiving, NEW w \in Writers, Active(w), writer[w].pc # "dequeue", Land(w),
           \/ Go(w, "publish") \/ Go(w, "put back") \/ EndWrite(w)
    PROVE  Archiving'
<1>1. \A q \in Places : body'[q] = IF q = Target(w) THEN writer[w].out ELSE body[q]
    BY LandTyped
<1>2. writer[w].out # "none"
    BY DEF TypeOK, Write, Outcomes
<1>3. writer[w].kind = "archive" =>
          /\ writer[w].out = "finished" /\ writer[w].old = "none" /\ latest # "none"
          /\ body'["processed"] = "finished"
    BY <1>1 DEF Archiving, Target, Places
<1>4. body["processed"] = "finished" => body'["processed"] = "finished"
    BY <1>1, <1>3 DEF Target, Places
<1>5. latest # "none" => latest' # "none"
    BY <1>2 DEF Land
<1>6. writer[w].kind = "archive" => latest' # "none"
    BY <1>3, <1>5
<1>7. /\ \A v \in Writers \ {w} : writer'[v] = writer[v]
      /\ writer'[w].pc \in {"publish", "put back", "idle"}
      /\ Active(w)' => /\ writer'[w].out = writer[w].out /\ writer'[w].old = writer[w].old
                       /\ writer'[w].kind = writer[w].kind
    BY GoFields, EndFields DEF Active
<1> QED BY <1>3, <1>4, <1>5, <1>6, <1>7, ArchivingKept

\* invalidate opens a generation that nobody else has.
LEMMA BeginKeeps ==
    ASSUME IInv, TypeOK', NEW w \in Writers, writer[w].pc = "idle", NEW k, NEW o, Begin(w, k, o),
           MarkPending, UNCHANGED <<body, latest, slipped, repair>>,
           k = "archive" => o = "finished" /\ latest # "none"
    PROVE  IInv'
<1>i. TypeOK /\ Generations /\ PendingHasNoRow /\ BodyKept /\ Archiving /\ RowIsLatest
    BY DEF IInv
<1>1. gen' = gen + 1 /\ mark' = "pending" /\ row' = "none"
    BY DEF MarkPending
<1>2. /\ writer'[w].pc = "put" /\ writer'[w].gen = gen + 1 /\ writer'[w].kind = k /\ writer'[w].out = o
      /\ writer'[w].old = IF k = "create" THEN row ELSE "none"
      /\ \A v \in Writers \ {w} : writer'[v] = writer[v]
    BY <1>i DEF Begin, TypeOK
<1>g. gen \in Nat /\ repair.gen \in Nat /\ \A v \in Writers : writer[v].gen \in Nat
    BY <1>i DEF TypeOK, Repair, Write
<1>3. Generations'
    BY <1>i, <1>1, <1>2, <1>g DEF Generations, Active
<1>4. PendingHasNoRow' /\ RowIsLatest'
    BY <1>1 DEF PendingHasNoRow, RowIsLatest, pending
<1>5. BodyKept' /\ Archiving'
    <2>1. BodyKept'
        BY <1>i DEF BodyKept
    <2>2. Archiving'
        BY <1>i, <1>2, ArchivingKept
    <2> QED BY <2>1, <2>2
<1>6. RepairKnows'
    <2>1. repair'.gen # gen'
        BY <1>i, <1>1, <1>g DEF Generations
    <2> QED BY <2>1 DEF RepairKnows, RepairMayPublish
<1>7. WriterKnows'
    <2>1. \A v \in Writers \ {w} : writer'[v].gen # gen'
        BY <1>i, <1>1, <1>2, <1>g DEF Generations
    <2>2. ASSUME slipped = "no", ~ Unpublished', writer'[w].old # "none"
          PROVE  writer'[w].old = latest
        <3>1. ~ Unpublished
            BY <2>2, <1>2 DEF Unpublished
        <3>2. row # "none" /\ writer'[w].old = row
            BY <2>2, <1>2
        <3> QED BY <2>2, <3>1, <3>2, <1>i DEF PendingHasNoRow, RowIsLatest
    <2> QED BY <2>1, <2>2, <1>1, <1>2 DEF WriterKnows
<1> QED BY <1>3, <1>4, <1>5, <1>6, <1>7 DEF IInv

\* A client's write and the finalizer's begin.
LEMMA InvalidateKeeps ==
    ASSUME IInv, NEW w \in Writers, Invalidate(w) \/ Finalize(w)
    PROVE  IInv'
<1>i. TypeOK /\ BodyKept
    BY DEF IInv
<1>t. TypeOK'
    BY <1>i, WriterStepTyped
<1>u. writer[w].pc = "idle" /\ MarkPending /\ UNCHANGED <<body, latest, slipped, repair>>
    BY DEF Invalidate, Finalize, records, history
<1>1. CASE Invalidate(w)
    <2>1. PICK k \in {"replace", "create"}, o \in Outcomes : Begin(w, k, o)
        BY <1>1 DEF Invalidate
    <2> QED BY <1>t, <1>u, <2>1, BeginKeeps
<1>2. CASE Finalize(w)
    <2>1. Begin(w, "archive", body["to_finalize"]) /\ body["to_finalize"] # "none"
        BY <1>2 DEF Finalize
    <2>2. body["to_finalize"] = "finished" /\ latest # "none"
        BY <2>1, <1>i DEF TypeOK, BodyKept, Rows, Outcomes, Places, Queued
    <2> QED BY <1>t, <1>u, <2>1, <2>2, BeginKeeps
<1> QED BY <1>1, <1>2

\* No write takes another generation while none is opened.
LEMMA GenerationsKept ==
    ASSUME TypeOK, Generations, NEW w \in Writers, Active(w), gen' = gen, repair' = repair,
           writer'[w].gen \in {writer[w].gen, 0},
           Active(w)' => writer'[w].gen = writer[w].gen,
           \A v \in Writers \ {w} : writer'[v] = writer[v]
    PROVE  Generations'
<1>1. gen \in Nat
    BY DEF TypeOK
<1>2. \A v \in Writers : writer'[v].gen <= gen
    BY <1>1 DEF Generations
<1>3. ASSUME NEW u \in Writers, NEW v \in Writers, Active(u)', Active(v)', u # v
      PROVE  writer'[u].gen # writer'[v].gen
    <2>1. Active(u) /\ Active(v)
        BY <1>3 DEF Active
    <2>2. writer'[u].gen = writer[u].gen /\ writer'[v].gen = writer[v].gen
        BY <1>3
    <2> QED BY <1>3, <2>1, <2>2 DEF Generations
<1> QED BY <1>2, <1>3 DEF Generations

\* has_record looks in processed/ last.
LEMMA ProcessedIsLast ==
    \A i, j \in 1 .. 5 : j < i => HasOrder[j] \in Places \ {"processed"}
<1>1. \A j \in 1 .. 4 : HasOrder[j] \in Places \ {"processed"}
    BY DEF HasOrder, Places
<1>2. \A i, j \in 1 .. 5 : j < i => j \in 1 .. 4
    OBVIOUS
<1> QED BY <1>1, <1>2

\* A writer's step that writes no newer body and leaves the index alone: a finalizer may
\* archive what it read, or take it off the queue.
LEMMA QuietKeeps ==
    ASSUME IInv, TypeOK', BodyKept', Archiving', NEW w \in Writers, Active(w),
           writer[w].pc = "publish" => writer[w].kind = "archive",
           UNCHANGED <<index, repair, latest>>, slipped' = "no" => slipped = "no",
           \A q \in Places \ {"processed"} : body'[q] \in {body[q], "none"},
           \/ Go(w, "put back") /\ writer[w].pc = "put"
           \/ Go(w, "late") \/ EndWrite(w)
           \/ /\ Go(w, "publish") /\ writer[w].kind = "archive"
              /\ slipped' = "no" => writer[w].out = latest
    PROVE  IInv'
<1>i. TypeOK /\ Generations /\ PendingHasNoRow /\ BodyKept /\ WriterKnows /\ RepairKnows /\ RowIsLatest
    BY DEF IInv
<1>u. UNCHANGED <<row, gen, mark, repair, latest>>
    BY DEF index
<1>1. /\ writer'[w].pc \in {"put back", "late", "idle", "publish"}
      /\ writer'[w].pc = "put back" => writer[w].pc = "put"
      /\ writer'[w].pc = "publish" => /\ writer'[w].kind = "archive"
                                      /\ slipped' = "no" => writer'[w].out = latest
      /\ writer'[w].pc # "idle" => writer'[w].gen = writer[w].gen /\ writer'[w].old = writer[w].old
      /\ writer'[w].gen \in {writer[w].gen, 0}
      /\ \A v \in Writers \ {w} : writer'[v] = writer[v]
    <2>1. CASE Go(w, "put back") /\ writer[w].pc = "put"
        <3>1. /\ writer'[w].pc = "put back" /\ writer'[w].gen = writer[w].gen
              /\ writer'[w].old = writer[w].old /\ \A v \in Writers \ {w} : writer'[v] = writer[v]
            BY <2>1, <1>i, GoFields
        <3> QED BY <2>1, <3>1
    <2>2. CASE Go(w, "late")
        <3>1. /\ writer'[w].pc = "late" /\ writer'[w].gen = writer[w].gen
              /\ writer'[w].old = writer[w].old /\ \A v \in Writers \ {w} : writer'[v] = writer[v]
            BY <2>2, <1>i, GoFields
        <3> QED BY <3>1
    <2>3. CASE EndWrite(w)
        BY <2>3, <1>i, EndFields
    <2>4. CASE /\ Go(w, "publish") /\ writer[w].kind = "archive"
               /\ slipped' = "no" => writer[w].out = latest
        <3>1. /\ writer'[w].pc = "publish" /\ writer'[w].gen = writer[w].gen
              /\ writer'[w].old = writer[w].old /\ writer'[w].out = writer[w].out
              /\ writer'[w].kind = writer[w].kind /\ \A v \in Writers \ {w} : writer'[v] = writer[v]
            BY <2>4, <1>i, GoFields
        <3> QED BY <2>4, <3>1
    <2> QED BY <2>1, <2>2, <2>3, <2>4
<1>s. \A v \in Writers : (writer'[v].pc = "publish" /\ writer'[v].kind # "archive")
                              <=> (writer[v].pc = "publish" /\ writer[v].kind # "archive")
    <2> TAKE v \in Writers
    <2>1. CASE v = w
        BY <2>1, <1>1
    <2>2. CASE v # w
        BY <2>2, <1>1
    <2> QED BY <2>1, <2>2
<1>2. Unpublished' <=> Unpublished
    BY <1>s DEF Unpublished
<1>3. \A v \in Writers : UnpublishedBut(v)' <=> UnpublishedBut(v)
    BY <1>s DEF UnpublishedBut
<1>4. Generations'
    BY <1>i, <1>u, <1>1, GenerationsKept DEF Active
<1>5. PendingHasNoRow' /\ RowIsLatest'
    BY <1>i, <1>u, <1>2 DEF PendingHasNoRow, RowIsLatest, pending
<1>7. RepairKnows'
    <2> SUFFICES ASSUME RepairMayPublish'
                 PROVE  RepairKnows'
        BY DEF RepairKnows
    <2>1. RepairMayPublish
        <3>1. ~ Unpublished
            BY <1>2 DEF RepairMayPublish
        <3>2. repair.pc # "idle" /\ repair.gen = gen /\ mark = "pending" /\ slipped = "no"
            BY <1>u DEF RepairMayPublish, pending
        <3> QED BY <3>1, <3>2 DEF RepairMayPublish, pending
    <2>2. /\ repair.pc = "publish" => repair.row = latest
          /\ repair.pc # "publish" => repair.row = "none"
          /\ repair.pc = "find" /\ repair.i >= 2 => body["incoming"] = "none"
          /\ repair.pc = "find" /\ repair.i >= 3 => latest # "failed"
          /\ repair.pc = "confirm" => \A j \in 1 .. 5 : j < repair.i => body[HasOrder[j]] = "none"
        BY <1>i, <2>1 DEF RepairKnows
    <2>3. body["incoming"] = "none" => body'["incoming"] = "none"
        BY DEF Places
    <2>4. ASSUME NEW j \in 1 .. 5, j < repair.i, body[HasOrder[j]] = "none"
          PROVE  body'[HasOrder[j]] = "none"
        <3>1. repair.i \in 1 .. 5
            BY <1>i DEF TypeOK, Repair
        <3> QED BY <2>4, <3>1, ProcessedIsLast
    <2> QED BY <2>2, <2>3, <2>4, <1>u DEF RepairKnows
<1>8. WriterKnows'
    <2> SUFFICES ASSUME NEW v \in Writers, writer'[v].gen = gen', slipped' = "no"
                 PROVE  /\ writer'[v].pc = "publish" /\ ~ UnpublishedBut(v)' => writer'[v].out = latest'
                        /\ /\ writer'[v].pc \in {"put", "put back"} /\ pending' /\ ~ Unpublished'
                           /\ writer'[v].old # "none"
                           => writer'[v].old = latest'
        BY DEF WriterKnows
    <2>1. CASE v # w
        BY <2>1, <1>i, <1>u, <1>1, <1>2, <1>3 DEF WriterKnows, pending
    <2>2. CASE v = w
        BY <2>2, <1>i, <1>u, <1>1, <1>2 DEF WriterKnows, pending
    <2> QED BY <2>1, <2>2
<1> QED BY <1>4, <1>5, <1>7, <1>8 DEF IInv

\* A writer that ends unpublished with its body written: it slipped, or nobody else can
\* settle the job at this generation.
LEMMA CoveredKeeps ==
    ASSUME IInv, TypeOK', BodyKept', Archiving', NEW w \in Writers, Active(w),
           UNCHANGED <<index, repair>>, Go(w, "put back") \/ EndWrite(w),
           slipped' = "no" => /\ ~ OthersMaySettle(w)
                              /\ writer'[w].pc = "put back" => writer'[w].old = "none"
    PROVE  IInv'
<1>i. TypeOK /\ Generations /\ PendingHasNoRow
    BY DEF IInv
<1>u. UNCHANGED <<row, gen, mark, repair>>
    BY DEF index
<1>1. /\ writer'[w].pc \in {"put back", "idle"}
      /\ writer'[w].gen \in {writer[w].gen, 0}
      /\ writer'[w].pc # "idle" => writer'[w].gen = writer[w].gen
      /\ \A v \in Writers \ {w} : writer'[v] = writer[v]
    BY <1>i, GoFields, EndFields
<1>2. Generations'
    BY <1>i, <1>u, <1>1, GenerationsKept DEF Active
<1>3. PendingHasNoRow'
    BY <1>i, <1>u DEF PendingHasNoRow, pending
<1>4. CASE slipped' # "no"
    <2>1. WriterKnows' /\ RepairKnows' /\ RowIsLatest'
        BY <1>4 DEF WriterKnows, RepairKnows, RepairMayPublish, RowIsLatest
    <2> QED BY <1>2, <1>3, <2>1 DEF IInv
<1>5. CASE slipped' = "no"
    <2>1. /\ pending /\ ~ (repair.pc # "idle" /\ repair.gen = gen)
          /\ \A v \in Writers \ {w} :
                writer[v].pc \notin {"put", "publish", "put back"} \/ writer[v].gen # gen
        BY <1>5 DEF OthersMaySettle
    <2>2. RowIsLatest' /\ RepairKnows'
        BY <2>1, <1>u DEF RowIsLatest, RepairKnows, RepairMayPublish, pending
    <2>3. WriterKnows'
        BY <2>1, <1>1, <1>5, <1>u DEF WriterKnows
    <2> QED BY <1>2, <1>3, <2>2, <2>3 DEF IInv
<1> QED BY <1>4, <1>5

\* A body that lands, with a writer that still has to publish it.
LEMMA WriteBodyKeeps ==
    ASSUME IInv, NEW w \in Writers, WriteBody(w)
    PROVE  IInv'
<1>i. TypeOK /\ Generations /\ PendingHasNoRow /\ BodyKept /\ Archiving
    BY DEF IInv
<1>t. TypeOK'
    BY <1>i, WriterStepTyped DEF WriterStep
<1>u. writer[w].pc = "put" /\ UNCHANGED <<index, repair>> /\ Active(w)
    BY DEF WriteBody, Active
<1>1. CASE Taken(w)
    <2>1. UNCHANGED <<body, latest, slipped>> /\ Go(w, "put back")
        BY <1>1 DEF WriteBody, history
    <2>2. BodyKept' /\ Archiving'
        BY <1>i, <1>u, <2>1, QuietArchiving DEF BodyKept
    <2> QED BY <1>t, <1>u, <2>1, <2>2, QuietKeeps
<1>2. CASE ~ Taken(w)
    <2>1. Land(w) /\ Slip(Superseded(w)) /\ Go(w, "publish")
        BY <1>2 DEF WriteBody
    <2>s. slipped' = "no" => slipped = "no" /\ ~ Superseded(w)
        BY <2>1 DEF Slip
    <2>2. /\ writer'[w].pc = "publish" /\ writer'[w].gen = writer[w].gen
          /\ writer'[w].out = writer[w].out /\ writer'[w].old = writer[w].old
          /\ writer'[w].kind = writer[w].kind
          /\ \A v \in Writers \ {w} : writer'[v] = writer[v]
        BY <1>i, <2>1, GoFields
    <2>4. BodyKept' /\ Archiving'
        BY <1>i, <1>u, <2>1, <2>s, LandKeeps, LandArchiving
    <2>5. CASE writer[w].kind # "archive"
        <3>1. Unpublished' /\ latest' = writer[w].out
            BY <2>1, <2>2, <2>5 DEF Unpublished, Land
        <3>2. Generations' /\ PendingHasNoRow'
            BY <1>i, <1>u, <2>2 DEF Generations, Active, PendingHasNoRow, pending, index
        <3>3. RowIsLatest' /\ RepairKnows'
            BY <3>1 DEF RowIsLatest, RepairKnows, RepairMayPublish
        <3>4. \A v \in Writers \ {w} : UnpublishedBut(v)'
            BY <2>2, <2>5 DEF UnpublishedBut
        <3>5. WriterKnows'
            BY <2>2, <3>1, <3>4 DEF WriterKnows
        <3> QED BY <1>t, <2>4, <3>2, <3>3, <3>5 DEF IInv
    <2>6. CASE writer[w].kind = "archive"
        <3>1. latest' = latest /\ Target(w) = "processed"
            BY <2>1, <2>6 DEF Land, Target
        <3>2. \A q \in Places \ {"processed"} : body'[q] \in {body[q], "none"}
            BY <1>i, <2>1, <3>1, LandTyped
        <3>3. slipped' = "no" => slipped = "no" /\ writer[w].out = latest
            BY <2>s, <2>6 DEF Superseded
        <3> QED BY <1>t, <1>u, <2>1, <2>4, <2>6, <3>1, <3>2, <3>3, QuietKeeps
    <2> QED BY <2>5, <2>6
<1> QED BY <1>1, <1>2

\* A body that lands with its writer at an end.
LEMMA LandEndKeeps ==
    ASSUME IInv, TypeOK', NEW w \in Writers, writer[w].pc \in {"put", "late"}, Land(w),
           UNCHANGED <<index, repair>>,
           EndWrite(w) \/ (Go(w, "put back") /\ writer[w].kind = "create" /\ writer[w].pc = "put"),
           slipped' = "no" =>
               /\ slipped = "no" /\ ~ Superseded(w)
               /\ writer[w].kind # "archive" => ~ OthersMaySettle(w)
               /\ writer[w].kind = "create" /\ Go(w, "put back") => writer[w].old = "none"
    PROVE  IInv'
<1>i. TypeOK /\ BodyKept /\ Archiving
    BY DEF IInv
<1>a. Active(w) /\ writer[w].pc \notin {"dequeue", "publish"}
    BY DEF Active
<1>1. BodyKept' /\ Archiving'
    BY <1>i, <1>a, LandKeeps, LandArchiving
<1>2. CASE writer[w].kind = "archive"
    <2>1. latest' = latest /\ Target(w) = "processed" /\ EndWrite(w)
        BY <1>2 DEF Land, Target
    <2>2. \A q \in Places \ {"processed"} : body'[q] \in {body[q], "none"}
        BY <1>i, <2>1, LandTyped
    <2> QED BY <1>a, <1>1, <2>1, <2>2, QuietKeeps
<1>3. CASE writer[w].kind # "archive"
    <2>1. slipped' = "no" /\ writer'[w].pc = "put back" => writer'[w].old = "none"
        BY <1>i, GoFields, EndFields
    <2> QED BY <1>a, <1>1, <1>3, <2>1, CoveredKeeps
<1> QED BY <1>2, <1>3

\* The write that fails.
LEMMA FailWriteKeeps ==
    ASSUME IInv, NEW w \in Writers, FailWrite(w)
    PROVE  IInv'
<1>i. TypeOK /\ BodyKept /\ Archiving
    BY DEF IInv
<1>t. TypeOK'
    BY <1>i, WriterStepTyped
<1>u. /\ writer[w].pc = "put" /\ Active(w) /\ UNCHANGED <<index, repair>>
      /\ EndWrite(w) \/ (Go(w, "put back") /\ writer[w].kind = "create" /\ writer[w].pc = "put")
    BY DEF FailWrite, Active
<1>1. CASE UNCHANGED <<body, history>>
    <2>1. UNCHANGED <<body, latest, slipped>>
        BY <1>1 DEF history
    <2>2. BodyKept' /\ Archiving'
        BY <1>i, <1>u, <2>1, QuietArchiving DEF BodyKept
    <2> QED BY <1>t, <1>u, <2>1, <2>2, QuietKeeps
<1>2. CASE /\ Land(w)
           /\ Slip(\/ Superseded(w)
                   \/ writer[w].kind # "archive" /\ OthersMaySettle(w)
                   \/ writer[w].kind = "create" /\ writer[w].old # "none")
    <2>1. slipped' = "no" =>
              /\ slipped = "no" /\ ~ Superseded(w)
              /\ writer[w].kind # "archive" => ~ OthersMaySettle(w)
              /\ writer[w].kind = "create" => writer[w].old = "none"
        BY <1>2 DEF Slip
    <2> QED BY <1>2, <1>t, <1>u, <2>1, LandEndKeeps
<1> QED BY <1>1, <1>2 DEF FailWrite

\* The writer that dies.
LEMMA DieKeeps ==
    ASSUME IInv, NEW w \in Writers, Die(w)
    PROVE  IInv'
<1>i. TypeOK /\ BodyKept /\ Archiving
    BY DEF IInv
<1>t. TypeOK'
    BY <1>i, WriterStepTyped
<1>u. /\ Active(w) /\ UNCHANGED <<body, index, repair, latest>>
      /\ EndWrite(w) \/ (writer[w].pc = "put" /\ Go(w, "late"))
      /\ slipped' = IF writer[w].pc = "publish" /\ writer[w].kind # "archive" /\ OthersMaySettle(w)
                    THEN "yes" ELSE slipped
    BY DEF Die, Slip, Active, records
<1>b. BodyKept' /\ Archiving'
    <2>1. slipped' = "no" => slipped = "no"
        BY <1>u
    <2>2. BodyKept'
        BY <1>i, <1>u, <2>1 DEF BodyKept
    <2> QED BY <1>i, <1>u, <2>2, QuietArchiving
<1>1. CASE ~ (writer[w].pc = "publish" /\ writer[w].kind # "archive")
    BY <1>1, <1>t, <1>u, <1>b, QuietKeeps
<1>2. CASE writer[w].pc = "publish" /\ writer[w].kind # "archive"
    <2>1. EndWrite(w) /\ writer'[w].pc = "idle"
        BY <1>2, <1>u, <1>i, EndFields
    <2> QED BY <1>2, <1>t, <1>u, <1>b, <2>1, CoveredKeeps
<1> QED BY <1>1, <1>2

\* The body that lands after its writer's end.
LEMMA LandLateKeeps ==
    ASSUME IInv, NEW w \in Writers, LandLate(w)
    PROVE  IInv'
<1>i. TypeOK /\ BodyKept /\ Archiving
    BY DEF IInv
<1>t. TypeOK'
    BY <1>i, WriterStepTyped DEF WriterStep
<1>u. writer[w].pc = "late" /\ Active(w) /\ UNCHANGED <<index, repair>> /\ EndWrite(w)
    BY DEF LandLate, Active
<1>1. CASE Taken(w)
    <2>1. UNCHANGED <<body, latest, slipped>>
        BY <1>1 DEF LandLate, history
    <2>2. BodyKept' /\ Archiving'
        BY <1>i, <1>u, <2>1, QuietArchiving DEF BodyKept
    <2> QED BY <1>t, <1>u, <2>1, <2>2, QuietKeeps
<1>2. CASE ~ Taken(w)
    <2>1. Land(w) /\ Slip(writer[w].kind # "archive" \/ Superseded(w))
        BY <1>2 DEF LandLate
    <2>2. slipped' = "no" => slipped = "no" /\ writer[w].kind = "archive" /\ ~ Superseded(w)
        BY <2>1 DEF Slip
    <2> QED BY <1>t, <1>u, <2>1, <2>2, LandEndKeeps
<1> QED BY <1>1, <1>2

\* The finalizer takes the body it has archived off the queue.
LEMMA DequeueKeeps ==
    ASSUME IInv, NEW w \in Writers, Dequeue(w)
    PROVE  IInv'
<1>i. TypeOK /\ BodyKept /\ Archiving
    BY DEF IInv
<1>t. TypeOK'
    BY <1>i, WriterStepTyped DEF WriterStep
<1>u. /\ writer[w].pc = "dequeue" /\ Active(w) /\ EndWrite(w)
      /\ UNCHANGED <<index, repair, latest, slipped>>
    BY DEF Dequeue, Active, history
<1>b. \A q \in Places : body'[q] = IF q = "to_finalize" THEN "none" ELSE body[q]
    BY <1>i DEF Dequeue, TypeOK
<1>p. body["processed"] = "finished" /\ latest # "none"
    BY <1>i, <1>u DEF Archiving
<1>1. BodyKept'
    <2>1. ASSUME slipped = "no"
          PROVE  body'["incoming"] = latest \/ body'["processed"] = latest
                 \/ \E q \in Queued : body'[q] = latest
        <3>1. CASE latest = "finished"
            BY <3>1, <1>b, <1>p DEF Places
        <3>2. CASE latest # "finished"
            <4>1. body["to_finalize"] # latest
                BY <3>2, <1>p, <1>i DEF TypeOK, Rows, Outcomes, Places, Queued
            <4> QED BY <4>1, <2>1, <1>b, <1>p, <1>i DEF BodyKept, Places, Queued
        <3> QED BY <3>1, <3>2
    <2>2. body'["incoming"] = body["incoming"]
        BY <1>b DEF Places
    <2> QED BY <2>1, <2>2, <1>p, <1>u, <1>i DEF BodyKept
<1>2. Archiving'
    <2>1. writer'[w].pc = "idle" /\ \A v \in Writers \ {w} : writer'[v] = writer[v]
        BY <1>i, <1>u, EndFields
    <2>2. body'["processed"] = body["processed"]
        BY <1>b DEF Places
    <2> QED BY <1>i, <1>u, <2>1, <2>2, ArchivingKept DEF Active
<1>3. \A q \in Places \ {"processed"} : body'[q] \in {body[q], "none"}
    BY <1>b
<1> QED BY <1>t, <1>u, <1>1, <1>2, <1>3, QuietKeeps

\* A writer that settles the job at its generation, with the latest outcome unless another
\* write has landed.
LEMMA SettleKeeps ==
    ASSUME IInv, TypeOK', Archiving', NEW w \in Writers, Active(w), writer[w].gen = gen,
           EndWrite(w) \/ Go(w, "dequeue") \/ UNCHANGED writer,
           mark' = "settled", gen' = gen, UNCHANGED <<body, latest, slipped, repair>>,
           ~ Unpublished' /\ slipped = "no" => row' = latest
    PROVE  IInv'
<1>i. TypeOK /\ Generations /\ BodyKept /\ WriterKnows
    BY DEF IInv
<1>1. /\ writer'[w].pc \in {"idle", "dequeue"} \/ writer'[w] = writer[w]
      /\ writer'[w].gen \in {writer[w].gen, 0} /\ (Active(w)' => writer'[w].gen = writer[w].gen)
      /\ \A v \in Writers \ {w} : writer'[v] = writer[v]
    <2>1. CASE EndWrite(w)
        BY <2>1, <1>i, EndFields DEF Active
    <2>2. CASE Go(w, "dequeue")
        <3>1. /\ writer'[w].pc = "dequeue" /\ writer'[w].gen = writer[w].gen
              /\ \A v \in Writers \ {w} : writer'[v] = writer[v]
            BY <2>2, <1>i, GoFields
        <3> QED BY <3>1
    <2>3. CASE UNCHANGED writer
        BY <2>3
    <2> QED BY <2>1, <2>2, <2>3
<1>2. Generations'
    BY <1>i, <1>1, GenerationsKept
<1>3. PendingHasNoRow' /\ RowIsLatest' /\ RepairKnows'
    BY DEF PendingHasNoRow, RowIsLatest, RepairKnows, RepairMayPublish, pending
<1>4. BodyKept'
    BY <1>i DEF BodyKept
<1>5. WriterKnows'
    <2> SUFFICES ASSUME NEW v \in Writers, writer'[v].gen = gen, slipped = "no",
                        writer'[v].pc = "publish", ~ UnpublishedBut(v)'
                 PROVE  writer'[v].out = latest
        BY DEF WriterKnows, pending
    <2>1. v = w
        BY <1>i, <1>1 DEF Generations, Active
    <2>2. writer'[w] = writer[w] /\ ~ UnpublishedBut(w)
        BY <2>1, <1>1 DEF UnpublishedBut
    <2> QED BY <2>1, <2>2, <1>i DEF WriterKnows
<1> QED BY <1>2, <1>3, <1>4, <1>5 DEF IInv

\* A new generation that no write has: nobody but a repair yet to start may settle the job.
LEMMA ReopenKeeps ==
    ASSUME IInv, TypeOK', Archiving', NEW w \in Writers, MarkPending,
           EndWrite(w) \/ (Go(w, "dequeue") /\ Active(w)) \/ UNCHANGED writer,
           UNCHANGED <<body, latest, slipped, repair>>
    PROVE  IInv'
<1>i. TypeOK /\ Generations /\ BodyKept
    BY DEF IInv
<1>1. /\ writer'[w].gen \in {writer[w].gen, 0}
      /\ Active(w)' => writer'[w].gen = writer[w].gen /\ Active(w)
      /\ \A v \in Writers \ {w} : writer'[v] = writer[v]
    <2>1. CASE EndWrite(w)
        BY <2>1, <1>i, EndFields DEF Active
    <2>2. CASE Go(w, "dequeue") /\ Active(w)
        BY <2>2, <1>i, GoFields
    <2>3. CASE UNCHANGED writer
        BY <2>3 DEF Active
    <2> QED BY <2>1, <2>2, <2>3
<1>2. row' = "none" /\ mark' = "pending" /\ gen' = gen + 1
    BY DEF MarkPending
<1>g. gen \in Nat /\ repair.gen \in Nat /\ \A v \in Writers : writer[v].gen \in Nat
    BY <1>i DEF TypeOK, Repair, Write
<1>3. repair'.gen # gen' /\ \A v \in Writers : writer'[v].gen # gen'
    BY <1>i, <1>1, <1>2, <1>g DEF Generations
<1>4. Generations'
    <2>1. repair'.gen <= gen' /\ \A v \in Writers : writer'[v].gen <= gen'
        BY <1>i, <1>1, <1>2, <1>g DEF Generations
    <2>2. ASSUME NEW u \in Writers, NEW v \in Writers, Active(u)', Active(v)', u # v
          PROVE  writer'[u].gen # writer'[v].gen
        BY <2>2, <1>i, <1>1 DEF Generations, Active
    <2> QED BY <2>1, <2>2 DEF Generations
<1>5. PendingHasNoRow' /\ RowIsLatest'
    BY <1>2 DEF PendingHasNoRow, RowIsLatest, pending
<1>6. BodyKept'
    BY <1>i DEF BodyKept
<1>7. WriterKnows' /\ RepairKnows'
    BY <1>3 DEF WriterKnows, RepairKnows, RepairMayPublish
<1> QED BY <1>4, <1>5, <1>6, <1>7 DEF IInv

\* publish as Writer, whether its answer arrives or not.
LEMMA PublishKeeps ==
    ASSUME IInv, NEW w \in Writers, Publish(w) \/ LoseAnswer(w)
    PROVE  IInv'
<1>i. TypeOK /\ BodyKept /\ Archiving /\ WriterKnows
    BY DEF IInv
<1>t. TypeOK'
    BY <1>i, WriterStepTyped DEF WriterStep
<1>u. UNCHANGED <<body, latest, slipped, repair>>
    BY DEF Publish, LoseAnswer, records, history
<1>1. CASE LoseAnswer(w) /\ writer[w].pc = "idle"
    <2>1. MarkPending /\ UNCHANGED writer
        BY <1>1 DEF LoseAnswer
    <2>2. Archiving'
        BY <1>i, <1>u, <2>1 DEF Archiving, Active
    <2> QED BY <1>t, <1>u, <2>1, <2>2, ReopenKeeps
<1>2. CASE writer[w].pc = "publish"
    <2>1. /\ PublishOutcome(w) /\ Active(w)
          /\ EndWrite(w) \/ (Go(w, "dequeue") /\ writer[w].kind = "archive") \/ UNCHANGED writer
        BY <1>2 DEF Publish, Published, LoseAnswer, Active
    <2>2. Archiving'
        BY <1>2, <1>i, <1>u, <2>1, QuietArchiving
    <2>3. CASE writer[w].gen # gen
        BY <1>t, <1>u, <2>1, <2>2, <2>3, ReopenKeeps DEF PublishOutcome
    <2>4. CASE writer[w].gen = gen
        <3>1. row' = writer[w].out /\ mark' = "settled" /\ gen' = gen
            BY <2>1, <2>4 DEF PublishOutcome
        <3>2. \A v \in Writers \ {w} : writer'[v] = writer[v]
            BY <1>i, <2>1, GoFields, EndFields
        <3>3. ~ Unpublished' => ~ UnpublishedBut(w)
            BY <3>2 DEF Unpublished, UnpublishedBut
        <3>4. ~ Unpublished' /\ slipped = "no" => row' = latest
            BY <1>2, <1>i, <2>4, <3>1, <3>3 DEF WriterKnows
        <3> QED BY <1>t, <1>u, <2>1, <2>2, <2>4, <3>1, <3>4, SettleKeeps
    <2> QED BY <2>3, <2>4
<1> QED BY <1>1, <1>2 DEF Publish, LoseAnswer

\* put_back.
LEMMA PutBackKeeps ==
    ASSUME IInv, NEW w \in Writers, PutBack(w)
    PROVE  IInv'
<1>i. TypeOK /\ BodyKept /\ Archiving /\ WriterKnows
    BY DEF IInv
<1>t. TypeOK'
    BY <1>i, WriterStepTyped DEF WriterStep
<1>u. writer[w].pc = "put back" /\ Active(w) /\ EndWrite(w) /\ UNCHANGED <<body, latest, slipped, repair>>
    BY DEF PutBack, Active, records, history
<1>b. BodyKept' /\ Archiving'
    BY <1>i, <1>u, QuietArchiving DEF BodyKept
<1>1. CASE writer[w].old # "none" /\ writer[w].gen = gen /\ pending
    <2>1. row' = writer[w].old /\ mark' = "settled" /\ gen' = gen
        BY <1>1 DEF PutBack
    <2>2. ~ Unpublished' => ~ Unpublished
        BY <1>i, <1>u, EndFields DEF Unpublished
    <2>3. ~ Unpublished' /\ slipped = "no" => row' = latest
        BY <1>1, <1>i, <1>u, <2>1, <2>2 DEF WriterKnows
    <2> QED BY <1>1, <1>t, <1>u, <1>b, <2>1, <2>3, SettleKeeps
<1>2. CASE ~ (writer[w].old # "none" /\ writer[w].gen = gen /\ pending)
    <2>1. UNCHANGED index
        BY <1>2 DEF PutBack
    <2> QED BY <1>t, <1>u, <1>b, <2>1, QuietKeeps
<1> QED BY <1>1, <1>2

-----------------------------------------------------------------------------
(* The moves of the record. *)

\* The places of the moves: never into incoming/, and but for two on in has_record's order.
Moves == {<<"incoming", "processed">>, <<"incoming", "to_do">>, <<"to_do", "to_finalize">>,
          <<"to_do", "parked">>, <<"parked", "to_do">>, <<"to_finalize", "parked">>}
Backward == {<<"parked", "to_do">>, <<"to_finalize", "parked">>}

\* What a move does: none but MarkProcessed archives, while no finalizer is at work, and only
\* Park from to_finalize/ and Unpark go against the order of a check under way.
LEMMA MoveFacts ==
    ASSUME IInv, MoveStep
    PROVE  /\ UNCHANGED <<route, index, writer, repair, bounds, latest>>
           /\ slipped' = "no" => slipped = "no"
           /\ \E m \in Moves :
                 /\ body[m[1]] # "none"
                 /\ body' = [body EXCEPT ![m[1]] = "none", ![m[2]] = body[m[1]]]
                 /\ m[2] = "processed" => CronFree
                 /\ m \in Backward /\ slipped' = "no" => repair.pc # "confirm"
<1>i. TypeOK
    BY DEF IInv
<1>1. UNCHANGED <<route, index, writer, repair, bounds, latest>>
    BY DEF MoveStep, MarkProcessed, Enqueue, Score, Park, Unpark, Move
<1>2. slipped' = "no" => slipped = "no"
    BY <1>i DEF MoveStep, MarkProcessed, Enqueue, Score, Park, Unpark, Slip
<1> DEFINE P(m) == /\ body[m[1]] # "none"
                   /\ body' = [body EXCEPT ![m[1]] = "none", ![m[2]] = body[m[1]]]
                   /\ m[2] = "processed" => CronFree
                   /\ m \in Backward /\ slipped' = "no" => repair.pc # "confirm"
<1>3. CASE MarkProcessed
    <2>1. P(<<"incoming", "processed">>)
        BY <1>3 DEF MarkProcessed, Move, Backward
    <2> QED BY <1>1, <1>2, <2>1 DEF Moves
<1>4. CASE Enqueue
    <2>1. P(<<"incoming", "to_do">>)
        BY <1>4 DEF Enqueue, Move, Backward
    <2> QED BY <1>1, <1>2, <2>1 DEF Moves
<1>5. CASE Score
    <2>1. P(<<"to_do", "to_finalize">>)
        BY <1>5 DEF Score, Move, Backward
    <2> QED BY <1>1, <1>2, <2>1 DEF Moves
<1>7. CASE Park
    <2>1. PICK stage \in {"to_do", "to_finalize"} :
             Move(stage, "parked") /\ Slip(stage = "to_finalize" /\ repair.pc = "confirm")
        BY <1>7 DEF Park
    <2>2. P(<<stage, "parked">>)
        BY <2>1 DEF Move, Slip, Backward
    <2> QED BY <1>1, <1>2, <2>2 DEF Moves
<1>8. CASE Unpark
    <2>1. P(<<"parked", "to_do">>)
        BY <1>8 DEF Unpark, Move, Slip, Backward
    <2> QED BY <1>1, <1>2, <2>1 DEF Moves
<1> QED BY <1>3, <1>4, <1>5, <1>7, <1>8 DEF MoveStep

\* A move keeps the invariant.
LEMMA MoveKeeps ==
    ASSUME IInv, MoveStep
    PROVE  IInv'
<1>i. TypeOK /\ Generations /\ PendingHasNoRow /\ BodyKept /\ Archiving
      /\ WriterKnows /\ RepairKnows /\ RowIsLatest
    BY DEF IInv
<1>t. TypeOK'
    BY <1>i, MoveTyped
<1>u. UNCHANGED <<row, gen, mark, writer, repair, latest>> /\ (slipped' = "no" => slipped = "no")
    BY MoveFacts DEF index
<1>m. PICK m \in Moves :
         /\ body[m[1]] # "none"
         /\ body' = [body EXCEPT ![m[1]] = "none", ![m[2]] = body[m[1]]]
         /\ m[2] = "processed" => CronFree
         /\ m \in Backward /\ slipped' = "no" => repair.pc # "confirm"
    BY MoveFacts
<1>p. m[1] \in Places /\ m[2] \in Places /\ m[1] # m[2]
    BY DEF Moves, Places
<1>b. \A p \in Places : body'[p] = IF p = m[2] THEN body[m[1]] ELSE IF p = m[1] THEN "none" ELSE body[p]
    BY <1>m, <1>p, <1>i DEF TypeOK
<1>1. Generations' /\ PendingHasNoRow' /\ RowIsLatest' /\ WriterKnows'
    <2>1. Unpublished' <=> Unpublished
        BY <1>u DEF Unpublished
    <2>2. \A v \in Writers : UnpublishedBut(v)' <=> UnpublishedBut(v)
        BY <1>u DEF UnpublishedBut
    <2>3. Generations' /\ PendingHasNoRow' /\ RowIsLatest'
        BY <1>i, <1>u, <2>1 DEF Generations, Active, PendingHasNoRow, RowIsLatest, pending
    <2>4. WriterKnows'
        BY <1>i, <1>u, <2>1, <2>2 DEF WriterKnows, pending
    <2> QED BY <2>3, <2>4
<1>2. BodyKept'
    <2>1. body'["incoming"] \in {"none", latest}
        BY <1>b, <1>i DEF BodyKept, Moves, Places
    <2>3. latest # "none"
        BY <1>m, <1>p, <1>i DEF BodyKept
    <2>4. ASSUME slipped' = "no"
          PROVE  body'["incoming"] = latest \/ body'["processed"] = latest
                 \/ \E q \in Queued : body'[q] = latest
        <3>1. PICK p \in Places : body[p] = latest
            BY <2>3, <2>4, <1>u, <1>i DEF BodyKept, Places, Queued
        <3>2. body'[m[2]] = body[m[1]]
            BY <1>b, <1>p
        <3>3. CASE p \notin {m[1], m[2]}
            BY <3>3, <3>1, <1>b DEF Places, Queued
        <3>4. CASE p = m[1]
            BY <3>4, <3>1, <3>2, <1>p DEF Places, Queued
        <3>5. CASE p = m[2]
            <4>1. body[m[1]] = latest
                <5>1. CASE m[1] = "incoming"
                    BY <5>1, <1>m, <1>i DEF BodyKept
                <5>3. CASE m[1] \in Queued /\ m[2] \in Queued
                    <6>2. body[m[1]] = "finished" /\ body[m[2]] \in {"finished", "none"}
                        BY <5>3, <1>m, <1>p, <1>i DEF TypeOK, Rows, Outcomes
                    <6> QED BY <6>2, <3>5, <3>1, <2>3
                <5> QED BY <5>1, <5>3 DEF Moves, Queued
            <4> QED BY <4>1, <3>2, <1>p DEF Places, Queued
        <3> QED BY <3>3, <3>4, <3>5
    <2> QED BY <2>1, <2>3, <2>4, <1>u DEF BodyKept
<1>4. Archiving'
    <2> SUFFICES ASSUME NEW w \in Writers, writer[w].kind = "archive",
                        writer[w].pc \in {"publish", "dequeue"}
                 PROVE  body'["processed"] = body["processed"]
        BY <1>i, <1>u DEF Archiving, Active
    <2>1. ~ CronFree
        BY DEF CronFree
    <2>2. m[1] # "processed" /\ m[2] # "processed"
        BY <2>1, <1>m DEF Moves
    <2> QED BY <2>2, <1>b DEF Places
<1>3. RepairKnows'
    <2> SUFFICES ASSUME RepairMayPublish'
                 PROVE  RepairKnows'
        BY DEF RepairKnows
    <2>1. RepairMayPublish /\ slipped' = "no"
        <3>1. ~ Unpublished
            BY <1>u DEF RepairMayPublish, Unpublished
        <3> QED BY <3>1, <1>u DEF RepairMayPublish, pending
    <2>2. /\ repair.pc = "publish" => repair.row = latest
          /\ repair.pc # "publish" => repair.row = "none"
          /\ repair.pc = "find" /\ repair.i >= 2 => body["incoming"] = "none"
          /\ repair.pc = "find" /\ repair.i >= 3 => latest # "failed"
          /\ repair.pc = "confirm" => \A j \in 1 .. 5 : j < repair.i => body[HasOrder[j]] = "none"
        BY <1>i, <2>1 DEF RepairKnows
    <2>3. body["incoming"] = "none" => body'["incoming"] = "none"
        BY <1>b DEF Moves, Places
    <2>4. ASSUME repair.pc = "confirm", NEW j \in 1 .. 5, j < repair.i
          PROVE  body'[HasOrder[j]] = "none"
        <3>1. repair.i \in 1 .. 5
            BY <1>i DEF TypeOK, Repair
        <3>2. \A k \in 1 .. 5 : k < repair.i => body[HasOrder[k]] = "none"
            BY <2>2, <2>4
        <3>3. m \notin Backward
            BY <2>1, <2>4, <1>m
        <3>4. HasOrder[j] \in Places
            BY DEF HasOrder, Places
        <3>5. HasOrder[j] # m[2]
            <4>1. CASE m = <<"incoming", "processed">> \/ m = <<"incoming", "to_do">>
                BY <4>1, <3>1, <3>2, <2>4, <1>m DEF HasOrder
            <4>2. CASE m = <<"to_do", "to_finalize">> \/ m = <<"to_do", "parked">>
                BY <4>2, <3>1, <3>2, <2>4, <1>m DEF HasOrder
            <4> QED BY <4>1, <4>2, <3>3 DEF Moves, Backward
        <3> QED BY <3>2, <3>4, <3>5, <2>4, <1>b
    <2> QED BY <2>2, <2>3, <2>4, <1>u DEF RepairKnows
<1> QED BY <1>t, <1>1, <1>2, <1>3, <1>4 DEF IInv

-----------------------------------------------------------------------------
(* The repair. *)

\* A step of the repair that leaves the index alone owes RepairKnows only.
LEMMA ReadKeeps ==
    ASSUME IInv, TypeOK', UNCHANGED <<body, index, writer, latest>>, slipped' \in {slipped, "yes"},
           repair'.gen \in {repair.gen, gen, 0}, RepairKnows'
    PROVE  IInv'
<1>i. TypeOK /\ Generations /\ PendingHasNoRow /\ BodyKept /\ Archiving /\ WriterKnows /\ RowIsLatest
    BY DEF IInv
<1>u. UNCHANGED <<row, gen, mark, writer, body, latest>> /\ (slipped' = "no" => slipped = "no")
    BY DEF index
<1>g. gen \in Nat
    BY <1>i DEF TypeOK
<1>1. Generations'
    BY <1>i, <1>u, <1>g DEF Generations, Active
<1>2. Unpublished' <=> Unpublished
    BY <1>u DEF Unpublished
<1>3. \A v \in Writers : UnpublishedBut(v)' <=> UnpublishedBut(v)
    BY <1>u DEF UnpublishedBut
<1>4. PendingHasNoRow' /\ RowIsLatest'
    BY <1>i, <1>u, <1>2 DEF PendingHasNoRow, RowIsLatest, pending
<1>5. BodyKept' /\ Archiving'
    BY <1>i, <1>u DEF BodyKept, Archiving, Active
<1>6. WriterKnows'
    BY <1>i, <1>u, <1>2, <1>3 DEF WriterKnows, pending
<1> QED BY <1>1, <1>4, <1>5, <1>6 DEF IInv

\* find_job: what it returns is the latest outcome.
LEMMA FindJobKeeps ==
    ASSUME IInv, FindJob
    PROVE  IInv'
<1>i. TypeOK /\ BodyKept /\ RepairKnows
    BY DEF IInv
<1>t. TypeOK'
    BY <1>i, RepairTyped DEF RepairStep
<1> DEFINE p == FindOrder[repair.i]
<1>o. repair.i \in 1 .. 5 /\ Len(FindOrder) = 5
    BY <1>i DEF TypeOK, Repair, FindOrder
<1>u. /\ repair.pc = "find" /\ UNCHANGED <<body, row, gen, mark, writer, latest>>
      /\ Slip(/\ p = "processed" /\ body[p] \notin {"none", latest}
              /\ \E q \in Queued : body[q] = latest)
    BY DEF FindJob, records, index
<1>s. /\ slipped' \in {slipped, "yes"}
      /\ slipped' = "no" => ~ (/\ p = "processed" /\ body[p] \notin {"none", latest}
                               /\ \E q \in Queued : body[q] = latest)
    BY <1>u DEF Slip
<1>1. \/ body[p] # "none" /\ RepairAt("publish", 1, body[p])
      \/ body[p] = "none" /\ repair.i < 5 /\ RepairAt("find", repair.i + 1, "none")
      \/ body[p] = "none" /\ RepairAt("confirm", 1, "none")
    BY <1>o DEF FindJob
<1>2. repair'.gen = repair.gen
    BY <1>1 DEF RepairAt
<1>3. RepairKnows'
    <2> SUFFICES ASSUME RepairMayPublish'
                 PROVE  RepairKnows'
        BY DEF RepairKnows
    <2>1. slipped' = "no" /\ slipped = "no"
        BY <1>s DEF RepairMayPublish
    <2>2. RepairMayPublish
        <3>1. ~ Unpublished
            BY <1>u DEF RepairMayPublish, Unpublished
        <3> QED BY <3>1, <2>1, <1>2, <1>u DEF RepairMayPublish, pending
    <2>3. /\ repair.i >= 2 => body["incoming"] = "none"
          /\ repair.i >= 3 => latest # "failed"
        BY <2>2, <1>i, <1>u DEF RepairKnows
    <2>4. p \in Places
        BY <1>o DEF FindOrder, Places
    <2>p. (p = "incoming" <=> repair.i = 1) /\ (p = "processed" <=> repair.i = 2)
        BY <1>o DEF FindOrder
    <2>5. CASE body[p] # "none" /\ RepairAt("publish", 1, body[p])
        <3>1. latest # "none"
            BY <2>5, <2>4, <1>i DEF BodyKept
        <3>2. body[p] = latest
            <4>1. CASE repair.i = 1
                BY <4>1, <2>p, <2>5, <1>i DEF BodyKept
            <4>2. CASE repair.i = 2
                <5>1. body["incoming"] # latest
                    BY <4>2, <2>3, <3>1
                <5>2. body["processed"] = latest \/ \E q \in Queued : body[q] = latest
                    BY <5>1, <2>1, <3>1, <1>i DEF BodyKept
                <5> QED BY <5>2, <4>2, <2>p, <2>5, <2>1, <1>s
            <4>3. CASE repair.i >= 3
                <5>1. p \in Queued
                    BY <4>3, <2>4, <2>p, <1>o DEF Places, Queued
                <5>2. body[p] = "finished"
                    BY <5>1, <2>4, <2>5, <1>i DEF TypeOK, Rows, Outcomes
                <5>3. latest = "finished"
                    BY <4>3, <2>3, <3>1, <1>i DEF TypeOK, Rows, Outcomes
                <5> QED BY <5>2, <5>3
            <4> QED BY <4>1, <4>2, <4>3, <1>o
        <3>3. repair'.pc = "publish" /\ repair'.row = latest'
            BY <2>5, <3>2, <1>u DEF RepairAt
        <3> QED BY <3>3 DEF RepairKnows
    <2>6. CASE body[p] = "none" /\ repair.i < 5 /\ RepairAt("find", repair.i + 1, "none")
        <3>1. repair'.pc = "find" /\ repair'.row = "none" /\ repair'.i = repair.i + 1
            BY <2>6 DEF RepairAt
        <3>2. body["incoming"] = "none"
            BY <2>6, <2>3, <2>p, <1>o
        <3>3. ASSUME repair.i >= 2 PROVE latest # "failed"
            <4>1. CASE repair.i >= 3
                BY <4>1, <2>3
            <4>2. CASE repair.i = 2
                BY <4>2, <2>p, <2>6, <3>2, <2>1, <1>i DEF BodyKept, TypeOK
            <4> QED BY <3>3, <4>1, <4>2, <1>o
        <3> QED BY <3>1, <3>2, <3>3, <1>o, <1>u DEF RepairKnows
    <2>7. CASE RepairAt("confirm", 1, "none")
        <3>1. repair'.pc = "confirm" /\ repair'.row = "none" /\ repair'.i = 1
            BY <2>7 DEF RepairAt
        <3> QED BY <3>1 DEF RepairKnows
    <2> QED BY <1>1, <2>5, <2>6, <2>7
<1> QED BY <1>t, <1>2, <1>3, <1>s, <1>u, ReadKeeps DEF index

\* has_record: an absence it confirms is one.
LEMMA HasRecordKeeps ==
    ASSUME IInv, HasRecord
    PROVE  IInv'
<1>i. TypeOK /\ BodyKept /\ RepairKnows
    BY DEF IInv
<1>t. TypeOK'
    BY <1>i, RepairTyped DEF RepairStep
<1> DEFINE p == HasOrder[repair.i]
<1>o. repair.i \in 1 .. 5 /\ Len(HasOrder) = 5
    BY <1>i DEF TypeOK, Repair, HasOrder
<1>u. repair.pc = "confirm" /\ UNCHANGED <<body, row, gen, mark, writer, latest, slipped>>
    BY DEF HasRecord, records, index, history
<1>1. \/ RepairAt("defer", 1, "none")
      \/ body[p] = "none" /\ repair.i < 5 /\ RepairAt("confirm", repair.i + 1, "none")
      \/ body[p] = "none" /\ repair.i = 5 /\ RepairAt("publish", 1, "none")
    BY <1>o DEF HasRecord
<1>2. repair'.gen = repair.gen
    BY <1>1 DEF RepairAt
<1>3. RepairKnows'
    <2> SUFFICES ASSUME RepairMayPublish'
                 PROVE  RepairKnows'
        BY DEF RepairKnows
    <2>2. RepairMayPublish
        <3>1. ~ Unpublished
            BY <1>u DEF RepairMayPublish, Unpublished
        <3> QED BY <3>1, <1>2, <1>u DEF RepairMayPublish, pending
    <2>3. \A j \in 1 .. 5 : j < repair.i => body[HasOrder[j]] = "none"
        BY <2>2, <1>i, <1>u DEF RepairKnows
    <2>4. CASE RepairAt("defer", 1, "none")
        <3>1. repair'.pc = "defer" /\ repair'.row = "none"
            BY <2>4 DEF RepairAt
        <3> QED BY <3>1 DEF RepairKnows
    <2>5. CASE body[p] = "none" /\ repair.i < 5 /\ RepairAt("confirm", repair.i + 1, "none")
        <3>1. repair'.pc = "confirm" /\ repair'.row = "none" /\ repair'.i = repair.i + 1
            BY <2>5 DEF RepairAt
        <3>2. \A j \in 1 .. 5 : j < repair.i + 1 => body[HasOrder[j]] = "none"
            BY <2>3, <2>5, <1>o
        <3> QED BY <3>1, <3>2, <1>u DEF RepairKnows
    <2>6. CASE body[p] = "none" /\ repair.i = 5 /\ RepairAt("publish", 1, "none")
        <3>1. \A j \in 1 .. 5 : body[HasOrder[j]] = "none"
            BY <2>3, <2>6
        <3>2. \A q \in Places : body[q] = "none"
            BY <3>1 DEF HasOrder, Places
        <3>3. latest = "none"
            <4>1. slipped = "no"
                BY <2>2 DEF RepairMayPublish
            <4> QED BY <3>2, <4>1, <1>i DEF BodyKept, Places, Queued
        <3>4. repair'.pc = "publish" /\ repair'.row = latest'
            BY <2>6, <3>3, <1>u DEF RepairAt
        <3> QED BY <3>4 DEF RepairKnows
    <2> QED BY <1>1, <2>4, <2>5, <2>6
<1> QED BY <1>t, <1>2, <1>3, <1>u, ReadKeeps DEF index

\* The other steps of the repair: it starts, gives up, or settles the job.
LEMMA RepairKeeps ==
    ASSUME IInv, RepairStep \/ FailRead \/ FailRepair
    PROVE  IInv'
<1>i. TypeOK /\ Generations /\ PendingHasNoRow /\ BodyKept /\ Archiving
      /\ WriterKnows /\ RepairKnows /\ RowIsLatest
    BY DEF IInv
<1>t. TypeOK'
    BY <1>i, RepairTyped
<1>1. CASE RepairPage
    <2>1. /\ repair'.pc = "find" /\ repair'.i = 1 /\ repair'.row = "none" /\ repair'.gen = gen
          /\ UNCHANGED <<body, index, writer, latest, slipped>>
        BY <1>1 DEF RepairPage, records, history
    <2>2. RepairKnows'
        BY <2>1 DEF RepairKnows
    <2> QED BY <1>t, <2>1, <2>2, ReadKeeps
<1>2. CASE Defer \/ FailRead \/ FailRepair
    <2>1. /\ repair'.pc \in {"idle", "defer"} /\ repair'.row = "none" /\ repair'.gen \in {repair.gen, 0}
          /\ UNCHANGED <<body, index, writer, latest, slipped>>
        BY <1>2 DEF Defer, FailRead, FailRepair, RepairAt, NoRepair, records, history
    <2>2. RepairKnows'
        BY <2>1 DEF RepairKnows
    <2> QED BY <1>t, <2>1, <2>2, ReadKeeps
<1>3. CASE RepairPublish
    <2>1. /\ repair.pc = "publish" /\ repair'.pc = "idle" /\ repair'.gen = 0
          /\ UNCHANGED <<body, gen, writer, latest, slipped>>
        BY <1>3 DEF RepairPublish, NoRepair, records, history
    <2>2. RepairKnows'
        BY <2>1 DEF RepairKnows, RepairMayPublish
    <2>3. CASE ~ (repair.gen = gen /\ pending)
        <3>1. UNCHANGED index
            BY <1>3, <2>1, <2>3 DEF RepairPublish, index
        <3> QED BY <1>t, <2>1, <2>2, <3>1, ReadKeeps
    <2>4. CASE repair.gen = gen /\ pending
        <3>1. mark' = "settled" /\ row' = repair.row
            BY <1>3, <2>4, <1>i DEF RepairPublish, PendingHasNoRow
        <3>2. RowIsLatest'
            <4>1. ASSUME ~ Unpublished', slipped' = "no" PROVE row' = latest'
                <5>1. ~ Unpublished /\ slipped = "no"
                    BY <4>1, <2>1 DEF Unpublished
                <5> QED BY <5>1, <2>1, <2>4, <3>1, <1>i DEF RepairKnows, RepairMayPublish
            <4> QED BY <4>1 DEF RowIsLatest
        <3>3. PendingHasNoRow'
            BY <3>1 DEF PendingHasNoRow, pending
        <3>4. Generations'
            BY <1>i, <2>1 DEF Generations, Active, TypeOK
        <3>5. BodyKept' /\ Archiving'
            BY <1>i, <2>1 DEF BodyKept, Archiving, Active
        <3>6. WriterKnows'
            <4>1. \A v \in Writers : UnpublishedBut(v)' <=> UnpublishedBut(v)
                BY <2>1 DEF UnpublishedBut
            <4> QED BY <1>i, <2>1, <3>1, <4>1 DEF WriterKnows, pending
        <3> QED BY <1>t, <2>2, <3>2, <3>3, <3>4, <3>5, <3>6 DEF IInv
    <2> QED BY <2>3, <2>4
<1> QED BY <1>1, <1>2, <1>3, FindJobKeeps, HasRecordKeeps DEF RepairStep

-----------------------------------------------------------------------------

\* A stuttering step keeps the invariant.
LEMMA StutterKeeps ==
    ASSUME IInv, UNCHANGED vars
    PROVE  IInv'
<1>i. TypeOK /\ RepairKnows
    BY DEF IInv
<1>u. /\ UNCHANGED <<body, row, gen, mark, writer, repair, latest, slipped>>
      /\ UNCHANGED <<route, parks, writes, faults>>
    BY DEF vars, records, index, bounds, history
<1>1. TypeOK'
    BY <1>i, <1>u DEF TypeOK
<1>2. RepairKnows'
    <2>1. ASSUME RepairMayPublish' PROVE RepairMayPublish
        <3>1. ~ Unpublished
            BY <2>1, <1>u DEF RepairMayPublish, Unpublished
        <3> QED BY <2>1, <3>1, <1>u DEF RepairMayPublish, pending
    <2> QED BY <1>i, <1>u, <2>1 DEF RepairKnows
<1> QED BY <1>1, <1>2, <1>u, ReadKeeps DEF index

\* Every step keeps the invariant.
LEMMA NextIInv == IInv /\ [Next]_vars => IInv'
<1> SUFFICES ASSUME IInv, [Next]_vars PROVE IInv'
    OBVIOUS
<1>1. ASSUME NEW w \in Writers,
             \/ Invalidate(w) \/ Finalize(w) \/ WriterStep(w)
             \/ FailWrite(w) \/ LoseAnswer(w) \/ Die(w)
      PROVE  IInv'
    BY <1>1, InvalidateKeeps, WriteBodyKeeps, PublishKeeps, DequeueKeeps, PutBackKeeps,
       LandLateKeeps, FailWriteKeeps, DieKeeps DEF WriterStep
<1> QED BY <1>1, MoveKeeps, RepairKeeps, StutterKeeps DEF Next

\* The index has the shape the code gives it, whatever the writers, the faults and their number.
THEOREM OutcomeTypes == Spec => []TypeOK
<1>1. IInv => TypeOK
    BY DEF IInv
<1> QED BY <1>1, InitIInv, NextIInv, PTL DEF Spec

\* A settled row is the outcome of the body written last (invalidate, publish, put_back,
\* write_processed, repair_outcomes_with) outside the cases RowIsLatest excepts, for any
\* number of writers, finalizers, faults and un-parkings.
THEOREM SettledRowIsLatest == Spec => []RowIsLatest
<1>1. IInv => RowIsLatest
    BY DEF IInv
<1> QED BY <1>1, InitIInv, NextIInv, PTL DEF Spec
=============================================================================
