---------------------- MODULE SubmissionPipelineProofs ----------------------
(***************************************************************************)
(* Proofs about SubmissionPipeline: no job's record is ever lost on its way. *)
(*                                                                         *)
(* Copied is the inductive invariant.  A mover that is about to delete a     *)
(* job's record from a place left a copy in a later place of the order       *)
(*     incoming < to_do < to_finalize < parked, processed,                   *)
(* and whoever deletes that copy meanwhile left one in a later place still.  *)
(***************************************************************************)
EXTENDS SubmissionPipeline, TLAPS

\* First-order leaves go to Zenon; those that need arithmetic or set encodings name SMT.
USE ZenonT(30)

AtType == [Places -> [Jobs -> AnyBody \cup {None}]]

\* The labels at which a mover works on a job, and holds its body.
Working == {"route", "routed", "mark put", "mark delete", "final rows", "archive", "read",
            "call", "stage", "dequeue", "clear", "count", "write count", "read stage", "park",
            "unstage"}
Carrying == {"route", "mark put", "final rows", "archive", "call", "stage", "park"}

\* One of the places holds the job's record, when the places hold a.
In(a, places, j) == \E s \in places : a[s][j] # None

\* The mover m in state r may go on, when the places hold a.
Safe(m, r, a) ==
    /\ r.pc \in Working => r.job \in Jobs
    /\ r.pc \in Carrying => r.body # None
    /\ m = PS /\ r.pc = "routed" =>
          In(a, {"to_do", "parked", "to_finalize", "processed"}, r.job)
    /\ m = SE /\ r.pc = "dequeue" => In(a, {"parked", "to_finalize", "processed"}, r.job)
    /\ m = PS /\ r.pc \in {"mark delete", "dequeue"} => In(a, {"processed"}, r.job)
    /\ r.pc = "unstage" => In(a, {"parked"}, r.job)

\* The part of the type invariant that this rests on.
Question == [pc : {"idle", "probe", "found", "absent"}, job : Jobs \cup {None},
             op : Lookups \cup {"none"}, i : Int, was : BOOLEAN, back : BOOLEAN]
Shape ==
    /\ at \in AtType /\ failures \in [Jobs -> Nat] /\ mover \in [Movers -> MoverType]
    /\ lookup \in Question

Copied == \A m \in Movers : Safe(m, mover[m], at)
Asked == lookup.pc # "idle" => lookup.job \in Jobs
IInv == Shape /\ Copied /\ Asked

\* What a step of mover m has to keep.
Moved == mover' \in [Movers -> MoverType] /\ at' \in AtType /\ Copied'
Kept == \A j \in Jobs : HasRecord(j) => HasRecord(j)'

\* The two movers.
LEMMA TwoMovers ==
  PS \in Movers /\ SE \in Movers /\ PS # SE /\ \A m \in Movers : m = PS \/ m = SE
  BY DEF PS, SE, Movers

\* The names of the places are places.
LEMMA PlaceNames ==
  /\ {"incoming", "to_do", "parked", "to_finalize", "processed"} = Places
  /\ \A m \in Movers : StageOf(m) \in Places
  BY DEF Places, StageOf

\* What one put does to each place and job.
LEMMA PutEffect ==
  ASSUME Shape, NEW s \in Places, NEW j \in Jobs, NEW b \in AnyBody \cup {None}, Put(s, j, b)
  PROVE  /\ at' \in AtType
         /\ \A t \in Places, k \in Jobs : at'[t][k] = IF t = s /\ k = j THEN b ELSE at[t][k]
  BY DEF Shape, Put, AtType

\* Each place by its name.
LEMMA PlaceIs ==
  /\ "incoming" \in Places /\ "to_do" \in Places /\ "parked" \in Places
  /\ "to_finalize" \in Places /\ "processed" \in Places
  BY DEF Places

\* What a delete does to each place and job.
LEMMA DeleteEffect ==
  ASSUME Shape, NEW s \in Places, NEW j \in Jobs, Delete(s, j)
  PROVE  /\ at' \in AtType
         /\ \A t \in Places, k \in Jobs : at'[t][k] = IF t = s /\ k = j THEN None ELSE at[t][k]
  BY SMT, PutEffect DEF Delete

\* A body that is put is there.
LEMMA PutThere ==
  ASSUME IInv, NEW s \in Places, NEW j \in Jobs, NEW b \in AnyBody, Put(s, j, b)
  PROVE  at'[s][j] # None
  <1>1. at'[s][j] = b
    BY SMT, PutEffect DEF IInv
  <1> QED
    BY <1>1, BodyAssumption DEF AnyBody

\* What becomes of the movers when one of them goes on.
LEMMA BecomeEffect ==
  ASSUME Shape, NEW m \in Movers, NEW r \in MoverType, Become(m, r)
  PROVE  /\ mover' \in [Movers -> MoverType]
         /\ \A q \in Movers : mover'[q] = IF q = m THEN r ELSE mover[q]
  BY DEF Shape, Become

\* A mover goes on, and what the places hold stays good enough for the other.
LEMMA Go ==
  ASSUME IInv, NEW m \in Movers, NEW r \in MoverType, Become(m, r), at' \in AtType,
         Safe(m, r, at'), \A q \in Movers : q # m => Safe(q, mover[q], at')
  PROVE  Moved
  <1>1. /\ mover' \in [Movers -> MoverType]
        /\ \A q \in Movers : mover'[q] = IF q = m THEN r ELSE mover[q]
    BY BecomeEffect DEF IInv
  <1>2. Copied'
    BY <1>1 DEF Copied
  <1> QED
    BY <1>1, <1>2 DEF Moved

\* Places that only fill up keep every mover safe.
LEMMA SafeGrows ==
  ASSUME NEW m \in Movers, NEW r \in MoverType, NEW a, NEW b, Safe(m, r, a),
         r.pc \in Working =>
            \A s \in Places \ {"incoming"} : a[s][r.job] # None => b[s][r.job] # None
  PROVE  Safe(m, r, b)
  <1>1. {"routed", "dequeue", "mark delete", "unstage"} \subseteq Working
    BY DEF Working
  <1>2. ASSUME NEW S \in SUBSET (Places \ {"incoming"}), r.pc \in Working, In(a, S, r.job)
        PROVE  In(b, S, r.job)
    BY <1>2 DEF In
  <1>3. /\ {"to_do", "parked", "to_finalize", "processed"} \in SUBSET (Places \ {"incoming"})
        /\ {"parked", "to_finalize", "processed"} \in SUBSET (Places \ {"incoming"})
        /\ {"processed"} \in SUBSET (Places \ {"incoming"})
        /\ {"parked"} \in SUBSET (Places \ {"incoming"})
    BY DEF Places
  <1> QED
    BY <1>1, <1>2, <1>3 DEF Safe

\* A step that leaves the places alone.
LEMMA GoQuietly ==
  ASSUME IInv, NEW m \in Movers, NEW r \in MoverType, Become(m, r), UNCHANGED at,
         Safe(m, r, at)
  PROVE  Moved /\ Kept
  <1>1. at' \in AtType /\ at' = at
    BY DEF IInv, Shape
  <1>2. \A q \in Movers : q # m => Safe(q, mover[q], at')
    BY <1>1 DEF IInv, Copied
  <1>3. Moved
    BY <1>1, <1>2, Go
  <1> QED
    BY <1>1, <1>3 DEF Kept, HasRecord

\* A step that writes a body.
LEMMA GoWriting ==
  ASSUME IInv, NEW m \in Movers, NEW r \in MoverType, Become(m, r),
         NEW s \in Places, NEW j \in Jobs, NEW b \in AnyBody, Put(s, j, b), Safe(m, r, at')
  PROVE  Moved /\ Kept
  <1>1. /\ at' \in AtType
        /\ \A t \in Places, k \in Jobs : at'[t][k] = IF t = s /\ k = j THEN b ELSE at[t][k]
    BY SMT, PutEffect DEF IInv
  <1>2. b # None
    BY BodyAssumption DEF AnyBody
  <1>3. \A t \in Places, k \in Jobs : at[t][k] # None => at'[t][k] # None
    BY <1>1, <1>2
  <1>4. ASSUME NEW q \in Movers PROVE Safe(q, mover[q], at')
    <2>1. mover[q] \in MoverType /\ Safe(q, mover[q], at)
      BY DEF IInv, Shape, Copied
    <2>2. mover[q].pc \in Working => mover[q].job \in Jobs
      BY <2>1 DEF Safe
    <2> QED
      BY <1>3, <2>1, <2>2, SafeGrows
  <1>5. Moved
    BY <1>1, <1>4, Go
  <1> QED
    BY <1>3, <1>5 DEF Kept, HasRecord

\* A step that deletes a record: from incoming/, or from a stage whose other
\* reader is covered by a copy in a later place.
LEMMA GoDeleting ==
  ASSUME IInv, NEW m \in Movers, NEW r \in MoverType, Become(m, r),
         NEW s \in Places, NEW j \in Jobs, Delete(s, j), Safe(m, r, at'),
         In(at, Places \ {s}, j),
         \/ s = "incoming"
         \/ m = SE /\ s = "to_do" /\ In(at, {"parked", "to_finalize", "processed"}, j)
         \/ m = PS /\ s = "to_finalize" /\ In(at, {"parked", "processed"}, j)
  PROVE  Moved /\ Kept
  <1>1. /\ at' \in AtType
        /\ \A t \in Places, k \in Jobs : at'[t][k] = IF t = s /\ k = j THEN None ELSE at[t][k]
    BY SMT, PutEffect DEF IInv, Delete
  <1>2. ASSUME NEW q \in Movers PROVE /\ mover[q] \in MoverType /\ Safe(q, mover[q], at)
                                      /\ mover[q].pc \in Working => mover[q].job \in Jobs
    BY DEF IInv, Shape, Copied, Safe
  <1>3. ASSUME NEW q \in Movers, q # m PROVE Safe(q, mover[q], at')
    <2>1. CASE s = "incoming"
      <3>1. \A t \in Places \ {"incoming"}, k \in Jobs : at'[t][k] = at[t][k]
        BY <1>1, <2>1
      <3> QED
        BY SMTT(60), <1>2, <3>1, SafeGrows
    <2>2. CASE m = SE /\ s = "to_do" /\ In(at, {"parked", "to_finalize", "processed"}, j)
      <3>1. q = PS /\ q # SE
        BY <1>3, <2>2, TwoMovers
      <3>2. In(at', {"parked", "to_finalize", "processed"}, j)
        BY SMT, <1>1, <2>2, PlaceNames DEF In
      <3>3. \A t \in {"parked", "to_finalize", "processed"}, k \in Jobs : at'[t][k] = at[t][k]
        BY <1>1, <2>2, PlaceNames
      <3>4. \A k \in Jobs : k # j => at'["to_do"][k] = at["to_do"][k]
        BY <1>1, PlaceNames
      <3>5. {"routed", "mark delete", "dequeue", "unstage"} \subseteq Working
        BY SMTT(60) DEF Working
      <3>6. ASSUME mover[q].pc = "routed"
            PROVE  In(at', {"to_do", "parked", "to_finalize", "processed"}, mover[q].job)
        <4>1. /\ mover[q].job \in Jobs
              /\ In(at, {"to_do", "parked", "to_finalize", "processed"}, mover[q].job)
          BY <1>2, <3>1, <3>5, <3>6 DEF Safe
        <4> QED
          BY SMTT(60), <3>2, <3>3, <3>4, <4>1 DEF In
      <3>7. ASSUME mover[q].pc \in {"mark delete", "dequeue"}
            PROVE  In(at', {"processed"}, mover[q].job)
        <4>1. mover[q].job \in Jobs /\ In(at, {"processed"}, mover[q].job)
          BY <1>2, <3>1, <3>5, <3>7 DEF Safe
        <4> QED
          BY <3>3, <4>1 DEF In
      <3>8. ASSUME mover[q].pc = "unstage" PROVE In(at', {"parked"}, mover[q].job)
        <4>1. mover[q].job \in Jobs /\ In(at, {"parked"}, mover[q].job)
          BY <1>2, <3>5, <3>8 DEF Safe
        <4> QED
          BY <3>3, <4>1 DEF In
      <3> QED
        BY <1>2, <3>1, <3>6, <3>7, <3>8 DEF Safe
    <2>3. CASE m = PS /\ s = "to_finalize" /\ In(at, {"parked", "processed"}, j)
      <3>1. q = SE /\ q # PS
        BY <1>3, <2>3, TwoMovers
      <3>2. In(at', {"parked", "processed"}, j)
        BY <1>1, <2>3, PlaceNames DEF In
      <3>3. \A t \in {"parked", "processed"}, k \in Jobs : at'[t][k] = at[t][k]
        BY <1>1, <2>3, PlaceNames
      <3>4. \A k \in Jobs : k # j => at'["to_finalize"][k] = at["to_finalize"][k]
        BY <1>1, PlaceNames
      <3>5. {"dequeue", "unstage"} \subseteq Working
        BY DEF Working
      <3>6. ASSUME mover[q].pc = "dequeue"
            PROVE  In(at', {"parked", "to_finalize", "processed"}, mover[q].job)
        <4>1. /\ mover[q].job \in Jobs
              /\ In(at, {"parked", "to_finalize", "processed"}, mover[q].job)
          BY <1>2, <3>1, <3>5, <3>6 DEF Safe
        <4> QED
          BY <3>2, <3>3, <3>4, <4>1 DEF In
      <3>7. ASSUME mover[q].pc = "unstage" PROVE In(at', {"parked"}, mover[q].job)
        <4>1. mover[q].job \in Jobs /\ In(at, {"parked"}, mover[q].job)
          BY <1>2, <3>5, <3>7 DEF Safe
        <4> QED
          BY SMTT(60), <3>3, <4>1 DEF In
      <3> QED
        BY <1>2, <3>1, <3>6, <3>7 DEF Safe
    <2> QED
      BY <2>1, <2>2, <2>3
  <1>4. Moved
    BY <1>1, <1>3, Go
  <1>5. ASSUME NEW k \in Jobs, HasRecord(k) PROVE HasRecord(k)'
    BY SMT, <1>1, <1>5 DEF HasRecord, In
  <1> QED
    BY <1>4, <1>5 DEF Kept

\* Where the labels belong.
LEMMA LabelSets ==
  /\ Carrying \subseteq Working /\ Working \subseteq Labels
  /\ {"routed", "dequeue", "mark delete", "unstage"} \subseteq Working \ Carrying
  /\ {"idle", "score", "rows", "mark", "finalize", "eval"} \subseteq Labels \ Working
  BY DEF Carrying, Working, Labels

\* Between two jobs, a mover owes nothing.
LEMMA SafeBetween ==
  ASSUME NEW m, NEW r, NEW a, r.pc \notin Working
  PROVE  Safe(m, r, a)
  BY LabelSets DEF Safe

\* A mover that does not delete next needs its job, and its body when it writes it.
LEMMA SafeWorking ==
  ASSUME NEW m, NEW r, NEW a, r.pc \notin {"routed", "dequeue", "mark delete", "unstage"},
         r.job \in Jobs, r.pc \in Carrying => r.body # None
  PROVE  Safe(m, r, a)
  BY DEF Safe

\* A run that has not begun.
LEMMA IdleTyped == Idle \in MoverType /\ Idle.pc = "idle"
  BY LabelSets DEF Idle, MoverType

\* A mover's local state, and what it holds when it works on a job.
LEMMA Local ==
  ASSUME IInv, NEW m \in Movers
  PROVE  /\ mover[m] \in MoverType
         /\ mover[m].pc \in Working => mover[m].job \in Jobs
         /\ mover[m].pc \in Carrying => mover[m].body \in AnyBody
  <1>1. mover[m] \in MoverType
    BY DEF IInv, Shape
  <1>2. mover[m].body \in AnyBody \cup {None}
    BY <1>1 DEF MoverType
  <1> QED
    BY <1>1, <1>2 DEF IInv, Copied, Safe

\* What a place holds for a job.
LEMMA Holds ==
  ASSUME IInv, NEW s \in Places, NEW j \in Jobs
  PROVE  at[s][j] \in AnyBody \cup {None}
  BY DEF IInv, Shape, AtType

\* The steps of process-submissions up to the commit.
LEMMA ScoreSteps ==
  ASSUME IInv, StartProcess \/ (\E j \in Jobs : ReadAndScore(j)) \/ CommitChunk
               \/ RouteEval \/ DeleteRouted
  PROVE  Moved /\ Kept
  <1>0. PS \in Movers /\ mover[PS] \in MoverType
    BY TwoMovers, Local
  <1>1. CASE StartProcess
    <2> DEFINE r == [Idle EXCEPT !.pc = "score", !.work = Listing("incoming")]
    <2>1. r \in MoverType /\ r.pc = "score"
      BY IdleTyped, LabelSets DEF MoverType, Listing
    <2>2. Become(PS, r) /\ UNCHANGED at
      BY <1>1 DEF StartProcess, store
    <2> HIDE DEF r
    <2> QED
      BY <1>0, <2>1, <2>2, SafeBetween, LabelSets, GoQuietly
  <1>2. ASSUME NEW j \in Jobs, ReadAndScore(j) PROVE Moved /\ Kept
    <2> DEFINE me == [mover[PS] EXCEPT !.work = @ \ {j}]
               b == Submission(j)
               routing == [me EXCEPT !.pc = "route", !.job = j, !.body = b]
               scored == [me EXCEPT !.out[j] = b]
    <2>1. b \in AnyBody \cup {None}
      BY SMTT(60), Holds, PlaceNames DEF Submission
    <2>2. me \in MoverType /\ me.pc = "score"
      BY <1>0, <1>2 DEF ReadAndScore, At, MoverType
    <2>3. scored \in MoverType /\ scored.pc = "score"
      BY <2>1, <2>2 DEF MoverType
    <2>4. routing \in MoverType /\ routing.pc = "route" /\ routing.job = j /\ routing.body = b
      BY <2>1, <2>2, LabelSets DEF MoverType, Labels
    <2>5. b \in Evals => b # None
      BY BodyAssumption
    <2>6. /\ UNCHANGED at
          /\ Become(PS, me) \/ Become(PS, scored) \/ (b \in Evals /\ Become(PS, routing))
      BY <1>2 DEF ReadAndScore, store
    <2>7. \A a : Safe(PS, me, a) /\ Safe(PS, scored, a)
      BY <2>2, <2>3, SafeBetween, LabelSets
    <2>8. b \in Evals => Safe(PS, routing, at)
      BY <2>4, <2>5, SafeWorking
    <2> HIDE DEF me, b, routing, scored
    <2> QED
      BY <1>0, <2>2, <2>3, <2>4, <2>6, <2>7, <2>8, GoQuietly
  <1>3. CASE CommitChunk
    <2> DEFINE r == [mover[PS] EXCEPT !.pc = "rows", !.work = Outcomes]
    <2>1. r \in MoverType /\ r.pc = "rows"
      BY <1>0, LabelSets DEF MoverType, Outcomes
    <2>2. Become(PS, r) /\ UNCHANGED at
      BY <1>3 DEF CommitChunk, store
    <2> HIDE DEF r
    <2> QED
      BY <1>0, <2>1, <2>2, SafeBetween, LabelSets, GoQuietly
  <1>4. CASE RouteEval
    <2> DEFINE r == [mover[PS] EXCEPT !.pc = "routed"]
    <2>1. r \in MoverType /\ r.pc = "routed" /\ r.job = mover[PS].job
      BY <1>0, LabelSets DEF MoverType
    <2>2. mover[PS].job \in Jobs /\ mover[PS].body \in AnyBody
      BY <1>0, <1>4, Local, LabelSets DEF RouteEval, At, Carrying
    <2>3. Become(PS, r) /\ Put("to_do", mover[PS].job, mover[PS].body)
      BY <1>4 DEF RouteEval, Goto
    <2>4. at'["to_do"][r.job] # None
      BY <2>1, <2>2, <2>3, PutThere, PlaceNames
    <2> HIDE DEF r
    <2>5. Safe(PS, r, at')
      BY ZenonT(60), <2>1, <2>2, <2>4, LabelSets DEF Safe, In
    <2> QED
      BY SMTT(60), <1>0, <2>1, <2>2, <2>3, <2>5, PlaceNames, GoWriting
  <1>5. CASE DeleteRouted
    <2> DEFINE r == [mover[PS] EXCEPT !.pc = "score", !.job = None, !.body = None]
    <2>1. r \in MoverType /\ r.pc = "score"
      BY ZenonT(60), <1>0, LabelSets DEF MoverType
    <2>2. /\ mover[PS].job \in Jobs
          /\ In(at, {"to_do", "parked", "to_finalize", "processed"}, mover[PS].job)
      BY <1>0, <1>5, Local, LabelSets DEF DeleteRouted, At, IInv, Copied, Safe
    <2>3. Become(PS, r) /\ Delete("incoming", mover[PS].job)
      BY <1>5 DEF DeleteRouted
    <2>4. In(at, Places \ {"incoming"}, mover[PS].job)
      BY <2>2 DEF In, Places
    <2> HIDE DEF r
    <2> QED
      BY <1>0, <2>1, <2>2, <2>3, <2>4, PlaceNames, SafeBetween, LabelSets, GoDeleting
  <1> QED
    BY <1>1, <1>2, <1>3, <1>4, <1>5

\* The steps of process-submissions that commit a chunk.
LEMMA CommitSteps ==
  ASSUME IInv, \/ \E j \in Jobs : WriteRows(j) \/ MarkRead(j)
               \/ RowsWritten \/ MarkPut \/ MarkDelete \/ ListScored
  PROVE  Moved /\ Kept
  <1>0. PS \in Movers /\ mover[PS] \in MoverType
    BY TwoMovers, Local
  <1>1. ASSUME NEW j \in Jobs, WriteRows(j) PROVE Moved /\ Kept
    <2> DEFINE r == [mover[PS] EXCEPT !.work = @ \ {j}]
    <2>1. r \in MoverType /\ r.pc = "rows"
      BY <1>0, <1>1 DEF WriteRows, At, MoverType
    <2>2. Become(PS, r) /\ UNCHANGED at
      BY <1>1 DEF WriteRows
    <2> HIDE DEF r
    <2> QED
      BY ZenonT(60), <1>0, <2>1, <2>2, SafeBetween, LabelSets, GoQuietly
  <1>2. CASE RowsWritten
    <2> DEFINE r == [mover[PS] EXCEPT !.pc = "mark", !.work = Outcomes]
    <2>1. r \in MoverType /\ r.pc = "mark"
      BY <1>0, LabelSets DEF MoverType, Outcomes
    <2>2. Become(PS, r) /\ UNCHANGED at
      BY <1>2 DEF RowsWritten, store
    <2> HIDE DEF r
    <2> QED
      BY <1>0, <2>1, <2>2, SafeBetween, LabelSets, GoQuietly
  <1>3. ASSUME NEW j \in Jobs, MarkRead(j) PROVE Moved /\ Kept
    <2> DEFINE me == [mover[PS] EXCEPT !.work = @ \ {j}]
               b == at["incoming"][j]
               r == [me EXCEPT !.pc = "mark put", !.job = j, !.body = b]
    <2>1. b \in AnyBody \cup {None}
      BY SMTT(60), Holds, PlaceNames
    <2>2. me \in MoverType /\ me.pc = "mark"
      BY <1>0, <1>3 DEF MarkRead, At, MoverType
    <2>3. r \in MoverType /\ r.pc = "mark put" /\ r.job = j /\ r.body = b
      BY ZenonT(60), <2>1, <2>2 DEF MoverType, Labels
    <2>4. UNCHANGED at /\ (Become(PS, me) \/ (b # None /\ Become(PS, r)))
      BY <1>3 DEF MarkRead, store
    <2>5. Safe(PS, me, at)
      BY <2>2, SafeBetween, LabelSets
    <2>6. b # None => Safe(PS, r, at)
      BY <2>3, SafeWorking
    <2> HIDE DEF me, b, r
    <2> QED
      BY <1>0, <2>2, <2>3, <2>4, <2>5, <2>6, GoQuietly
  <1>4. CASE MarkPut
    <2> DEFINE r == [mover[PS] EXCEPT !.pc = "mark delete"]
    <2>1. r \in MoverType /\ r.pc = "mark delete" /\ r.job = mover[PS].job
      BY <1>0, LabelSets DEF MoverType
    <2>2. mover[PS].job \in Jobs /\ mover[PS].body \in AnyBody
      BY <1>0, <1>4, Local, LabelSets DEF MarkPut, At, Carrying
    <2>3. Become(PS, r) /\ Put("processed", mover[PS].job, mover[PS].body)
      BY <1>4 DEF MarkPut, Goto
    <2>4. at'["processed"][r.job] # None
      BY <2>1, <2>2, <2>3, PutThere, PlaceNames
    <2> HIDE DEF r
    <2>5. Safe(PS, r, at')
      BY ZenonT(60), <2>1, <2>2, <2>4, LabelSets DEF Safe, In
    <2> QED
      BY <1>0, <2>1, <2>2, <2>3, <2>5, PlaceNames, GoWriting
  <1>5. CASE MarkDelete
    <2> DEFINE r == [mover[PS] EXCEPT !.pc = "mark", !.job = None, !.body = None,
                                      !.marked = TRUE]
    <2>1. r \in MoverType /\ r.pc = "mark"
      BY <1>0, LabelSets DEF MoverType
    <2>2. mover[PS].job \in Jobs /\ In(at, {"processed"}, mover[PS].job)
      BY <1>0, <1>5, Local, LabelSets DEF MarkDelete, At, IInv, Copied, Safe
    <2>3. Become(PS, r) /\ Delete("incoming", mover[PS].job)
      BY <1>5 DEF MarkDelete
    <2>4. In(at, Places \ {"incoming"}, mover[PS].job)
      BY <2>2 DEF In, Places
    <2> HIDE DEF r
    <2> QED
      BY <1>0, <2>1, <2>2, <2>3, <2>4, PlaceNames, SafeBetween, LabelSets, GoDeleting
  <1>6. CASE ListScored
    <2> DEFINE r == [Idle EXCEPT !.pc = "finalize", !.work = Listing("to_finalize")]
    <2>1. r \in MoverType /\ r.pc = "finalize"
      BY IdleTyped, LabelSets DEF MoverType, Listing
    <2>2. UNCHANGED at /\ (Become(PS, r) \/ Become(PS, Idle))
      BY <1>6 DEF ListScored, store
    <2> HIDE DEF r
    <2> QED
      BY <1>0, <2>1, <2>2, IdleTyped, SafeBetween, LabelSets, GoQuietly
  <1> QED
    BY <1>1, <1>2, <1>3, <1>4, <1>5, <1>6

\* The steps of process-submissions that finalize a scored eval.
LEMMA FinalizeSteps ==
  ASSUME IInv, (\E j \in Jobs : FinalizeRead(j)) \/ FinalRows \/ Archive
  PROVE  Moved /\ Kept
  <1>0. PS \in Movers /\ mover[PS] \in MoverType
    BY TwoMovers, Local
  <1>1. ASSUME NEW j \in Jobs, FinalizeRead(j) PROVE Moved /\ Kept
    <2> DEFINE b == at["to_finalize"][j]
               me == [mover[PS] EXCEPT !.work = @ \ {j}, !.job = j, !.body = b]
               counting == [me EXCEPT !.pc = "count"]
               filing == [me EXCEPT !.pc = "final rows"]
    <2>1. b \in AnyBody \cup {None}
      BY Holds, PlaceNames
    <2>2. me \in MoverType /\ me.job = j /\ me.body = b
      BY <1>0, <2>1 DEF MoverType
    <2>3. counting \in MoverType /\ counting.pc = "count" /\ counting.job = j
      BY <2>2 DEF MoverType, Labels
    <2>4. filing \in MoverType /\ filing.pc = "final rows" /\ filing.job = j /\ filing.body = b
      BY <2>2 DEF MoverType, Labels
    <2>5. UNCHANGED at /\ (Become(PS, counting) \/ (b # None /\ Become(PS, filing)))
      BY <1>1, <2>2 DEF FinalizeRead, store
    <2>6. Safe(PS, counting, at)
      BY <2>3, SafeWorking DEF Carrying
    <2>7. b # None => Safe(PS, filing, at)
      BY <2>4, SafeWorking
    <2> HIDE DEF me, b, counting, filing
    <2> QED
      BY <1>0, <2>3, <2>4, <2>5, <2>6, <2>7, GoQuietly
  <1>2. CASE FinalRows
    <2> DEFINE r == [mover[PS] EXCEPT !.pc = "archive"]
    <2>1. r \in MoverType /\ r.pc = "archive" /\ r.job = mover[PS].job /\ r.body = mover[PS].body
      BY <1>0 DEF MoverType, Labels
    <2>2. mover[PS].job \in Jobs /\ mover[PS].body \in AnyBody
      BY <1>0, <1>2, Local, LabelSets DEF FinalRows, At, Carrying
    <2>3. Become(PS, r) /\ UNCHANGED at
      BY <1>2 DEF FinalRows, Goto
    <2> HIDE DEF r
    <2>4. Safe(PS, r, at)
      BY <2>1, <2>2, BodyAssumption, SafeWorking DEF AnyBody
    <2> QED
      BY <1>0, <2>1, <2>3, <2>4, GoQuietly
  <1>3. CASE Archive
    <2> DEFINE r == [mover[PS] EXCEPT !.pc = "dequeue"]
    <2>1. r \in MoverType /\ r.pc = "dequeue" /\ r.job = mover[PS].job
      BY ZenonT(60), <1>0, LabelSets DEF MoverType
    <2>2. mover[PS].job \in Jobs /\ mover[PS].body \in AnyBody
      BY <1>0, <1>3, Local, LabelSets DEF Archive, At, Carrying
    <2>3. Become(PS, r) /\ Put("processed", mover[PS].job, mover[PS].body)
      BY <1>3 DEF Archive, Goto
    <2>4. at'["processed"][r.job] # None
      BY <2>1, <2>2, <2>3, PutThere, PlaceNames
    <2> HIDE DEF r
    <2>5. Safe(PS, r, at')
      BY <2>1, <2>2, <2>4, LabelSets, TwoMovers DEF Safe, In
    <2> QED
      BY <1>0, <2>1, <2>2, <2>3, <2>5, PlaceNames, GoWriting
  <1> QED
    BY <1>1, <1>2, <1>3

\* The steps of score-eval.
LEMMA EvalSteps ==
  ASSUME IInv, ScoreEvalStep
  PROVE  Moved /\ Kept
  <1>0. SE \in Movers /\ mover[SE] \in MoverType /\ SE # PS
    BY TwoMovers, Local
  <1>1. CASE StartScoreEval
    <2> DEFINE r == [Idle EXCEPT !.pc = "eval", !.work = Listing("to_do")]
    <2>1. r \in MoverType /\ r.pc = "eval"
      BY ZenonT(60), IdleTyped, LabelSets DEF MoverType, Listing
    <2>2. Become(SE, r) /\ UNCHANGED at
      BY <1>1 DEF StartScoreEval, store
    <2> HIDE DEF r
    <2> QED
      BY <1>0, <2>1, <2>2, SafeBetween, LabelSets, GoQuietly
  <1>2. ASSUME NEW j \in Jobs, CheckStaged(j) PROVE Moved /\ Kept
    <2> DEFINE me == [mover[SE] EXCEPT !.work = @ \ {j}, !.job = j]
               to(l) == [me EXCEPT !.pc = l]
    <2>1. me \in MoverType /\ me.job = j
      BY <1>0 DEF MoverType
    <2>2. \A l \in Labels : to(l) \in MoverType /\ to(l).pc = l /\ to(l).job = j
      BY <2>1 DEF MoverType
    <2>3. /\ UNCHANGED at
          /\ \/ Become(SE, to("count")) \/ Become(SE, to("read"))
             \/ at["to_finalize"][j] # None /\ Become(SE, to("dequeue"))
      BY <1>2 DEF CheckStaged, store
    <2> HIDE DEF to
    <2>4. Safe(SE, to("count"), at) /\ Safe(SE, to("read"), at)
      BY <2>2, SafeWorking DEF Labels, Carrying
    <2>5. at["to_finalize"][j] # None => Safe(SE, to("dequeue"), at)
      BY ZenonT(60), <1>0, <2>2 DEF Safe, In, Labels, Carrying
    <2>6. {"count", "read", "dequeue"} \subseteq Labels
      BY DEF Labels
    <2> QED
      BY <1>0, <2>2, <2>3, <2>4, <2>5, <2>6, GoQuietly
  <1>3. CASE ReadToDo
    <2> DEFINE b == at["to_do"][mover[SE].job]
               r == [mover[SE] EXCEPT !.pc = IF b = None THEN "count" ELSE "call", !.body = b]
    <2>1. mover[SE].job \in Jobs
      BY <1>0, <1>3, Local DEF ReadToDo, At, Working
    <2>2. b \in AnyBody \cup {None}
      BY SMTT(60), <2>1, Holds, PlaceNames
    <2>3. /\ r \in MoverType /\ r.job = mover[SE].job /\ r.body = b
          /\ r.pc = IF b = None THEN "count" ELSE "call"
      BY ZenonT(60), <1>0, <2>2 DEF MoverType, Labels
    <2>4. Become(SE, r) /\ UNCHANGED at
      BY <1>3 DEF ReadToDo, store
    <2> HIDE DEF b, r
    <2>5. Safe(SE, r, at)
      BY <2>1, <2>3, SafeWorking DEF Carrying
    <2> QED
      BY <1>0, <2>3, <2>4, <2>5, GoQuietly
  <1>4. CASE CallScore
    <2> DEFINE to(l) == [mover[SE] EXCEPT !.pc = l]
               last == [mover[SE] EXCEPT !.pc = "count", !.stop = TRUE]
    <2>1. mover[SE].job \in Jobs /\ mover[SE].body \in AnyBody
      BY <1>0, <1>4, Local, LabelSets DEF CallScore, At, Carrying
    <2>2. \A l \in Labels : /\ to(l) \in MoverType /\ to(l).pc = l
                            /\ to(l).job = mover[SE].job /\ to(l).body = mover[SE].body
      BY <1>0 DEF MoverType
    <2>3. last \in MoverType /\ last.pc = "count" /\ last.job = mover[SE].job
      BY <1>0 DEF MoverType, Labels
    <2>4. /\ UNCHANGED at
          /\ \/ Become(SE, to("stage")) \/ Become(SE, to("count"))
             \/ Become(SE, last) \/ Become(SE, Idle)
      BY <1>4 DEF CallScore, Goto, store
    <2>5. {"count", "stage"} \subseteq Labels
      BY DEF Labels
    <2> HIDE DEF to, last
    <2>6. mover[SE].body # None
      BY SMTT(60), <2>1, BodyAssumption DEF AnyBody
    <2>7. Safe(SE, to("stage"), at) /\ Safe(SE, to("count"), at) /\ Safe(SE, last, at)
      BY <2>1, <2>2, <2>3, <2>5, <2>6, SafeWorking DEF Carrying
    <2>8. Safe(SE, Idle, at)
      BY IdleTyped, SafeBetween, LabelSets
    <2> QED
      BY <1>0, <2>2, <2>3, <2>4, <2>5, <2>7, <2>8, IdleTyped, GoQuietly
  <1>5. CASE Stage
    <2> DEFINE r == [mover[SE] EXCEPT !.pc = "dequeue"]
    <2>1. r \in MoverType /\ r.pc = "dequeue" /\ r.job = mover[SE].job
      BY <1>0, LabelSets DEF MoverType
    <2>2. mover[SE].job \in Jobs /\ mover[SE].body \in AnyBody
      BY <1>0, <1>5, Local, LabelSets DEF Stage, At, Carrying
    <2>3. Become(SE, r) /\ Put("to_finalize", mover[SE].job, mover[SE].body)
      BY <1>5 DEF Stage, Goto
    <2>4. at'["to_finalize"][r.job] # None
      BY SMTT(60), <2>1, <2>2, <2>3, PutThere, PlaceNames
    <2> HIDE DEF r
    <2>5. Safe(SE, r, at')
      BY <1>0, <2>1, <2>2, <2>4, LabelSets DEF Safe, In
    <2> QED
      BY <1>0, <2>1, <2>2, <2>3, <2>5, PlaceNames, GoWriting
  <1> QED
    BY <1>1, <1>2, <1>3, <1>4, <1>5 DEF ScoreEvalStep

\* Going on to the next job, or ending the run, owes nothing.
LEMMA NextJobGoes ==
  ASSUME IInv, NEW m \in Movers, NextJob(m)
  PROVE  \E r \in MoverType : Become(m, r) /\ \A a : Safe(m, r, a)
  <1> DEFINE r == [mover[m] EXCEPT !.pc = Loop(m), !.job = None, !.body = None, !.n = 0]
  <1>0. Loop(m) \in {"finalize", "eval"} /\ Loop(m) \in Labels
    BY LabelSets DEF Loop
  <1>1. r \in MoverType /\ r.pc \in {"finalize", "eval"}
    BY <1>0, Local DEF MoverType
  <1>2. Become(m, r) \/ Become(m, Idle)
    BY DEF NextJob
  <1> HIDE DEF r
  <1>3. \A a : Safe(m, r, a) /\ Safe(m, Idle, a)
    BY <1>1, IdleTyped, SafeBetween, LabelSets
  <1> QED
    BY <1>1, <1>2, <1>3, IdleTyped

\* A mover goes on to another label with the job it has.
LEMMA Relabelled ==
  ASSUME IInv, NEW m \in Movers, NEW l \in Labels
  PROVE  LET r == [mover[m] EXCEPT !.pc = l]
         IN  r \in MoverType /\ r.pc = l /\ r.job = mover[m].job /\ r.body = mover[m].body
  BY Local DEF MoverType

\* Leaving a stage: the job's later copy is there.
LEMMA LeaveSteps ==
  ASSUME IInv, NEW m \in Movers, Dequeue(m) \/ Unstage(m)
  PROVE  Moved /\ Kept
  <1> DEFINE s == StageOf(m)
             j == mover[m].job
  <1>1. j \in Jobs
    BY Local, LabelSets DEF Dequeue, Unstage, At
  <1>2. s \in Places /\ Delete(s, j)
    BY PlaceNames DEF Dequeue, Unstage
  <1>3. PICK r \in MoverType : Become(m, r) /\ Safe(m, r, at')
    <2>1. CASE Dequeue(m)
      <3> DEFINE r == [mover[m] EXCEPT !.pc = "clear"]
      <3>1. r \in MoverType /\ r.pc = "clear" /\ r.job = j
        BY ZenonT(60), Relabelled DEF Labels
      <3>2. Become(m, r)
        BY <2>1 DEF Dequeue, Goto
      <3> HIDE DEF r
      <3> QED
        BY <1>1, <3>1, <3>2, SafeWorking DEF Carrying
    <2>2. CASE Unstage(m)
      BY <2>2, NextJobGoes DEF Unstage
    <2> QED
      BY <2>1, <2>2
  <1>4. Safe(m, mover[m], at)
    BY DEF IInv, Copied
  <1>5. \/ m = SE /\ s = "to_do" /\ In(at, {"parked", "to_finalize", "processed"}, j)
        \/ m = PS /\ s = "to_finalize" /\ In(at, {"parked", "processed"}, j)
    <2>1. CASE m = SE
      <3>1. s = "to_do"
        BY SMTT(60), <2>1, TwoMovers DEF StageOf
      <3>2. \/ In(at, {"parked", "to_finalize", "processed"}, j)
            \/ In(at, {"parked"}, j)
        BY ZenonT(60), <1>4, <2>1 DEF Safe, Dequeue, Unstage, At
      <3> QED
        BY <2>1, <3>1, <3>2 DEF In
    <2>2. CASE m = PS
      <3>1. s = "to_finalize"
        BY SMTT(60), <2>2 DEF StageOf
      <3>2. In(at, {"processed"}, j) \/ In(at, {"parked"}, j)
        BY ZenonT(60), <1>4, <2>2 DEF Safe, Dequeue, Unstage, At
      <3> QED
        BY <2>2, <3>1, <3>2 DEF In
    <2> QED
      BY <2>1, <2>2, TwoMovers
  <1>6. In(at, Places \ {s}, j)
    <2>1. \E S \in SUBSET (Places \ {s}) : In(at, S, j)
      <3>1. CASE m = SE /\ s = "to_do" /\ In(at, {"parked", "to_finalize", "processed"}, j)
        <4>1. {"parked", "to_finalize", "processed"} \in SUBSET (Places \ {"to_do"})
          BY DEF Places
        <4> QED
          BY <3>1, <4>1
      <3>2. CASE m = PS /\ s = "to_finalize" /\ In(at, {"parked", "processed"}, j)
        <4>1. {"parked", "processed"} \in SUBSET (Places \ {"to_finalize"})
          BY DEF Places
        <4> QED
          BY <3>2, <4>1
      <3> QED
        BY <1>5, <3>1, <3>2
    <2> QED
      BY <2>1 DEF In
  <1> HIDE DEF s, j
  <1> QED
    BY <1>1, <1>2, <1>3, <1>5, <1>6, GoDeleting

\* Counting a failed pass, and parking at the limit.
LEMMA CountSteps ==
  ASSUME IInv, NEW m \in Movers,
         \/ ClearFailedAttempts(m) \/ ReadAttempts(m) \/ WriteAttempts(m) \/ ReadStage(m)
         \/ Park(m) \/ EndRun(m)
  PROVE  Moved /\ Kept
  <1>1. CASE NextJob(m) /\ UNCHANGED at
    BY SMTT(60), <1>1, NextJobGoes, GoQuietly
  <1>2. CASE ReadAttempts(m)
    <2> DEFINE k == failures[mover[m].job] + 1
               r == [mover[m] EXCEPT !.pc = "write count", !.n = k]
    <2>1. mover[m].job \in Jobs
      BY <1>2, Local DEF ReadAttempts, At, Working
    <2>2. k \in Nat
      BY SMT, <2>1 DEF IInv, Shape
    <2> HIDE DEF k
    <2>3. r \in MoverType /\ r.pc = "write count" /\ r.job = mover[m].job
      BY ZenonT(60), <2>2, Local DEF MoverType, Labels
    <2>4. Become(m, r) /\ UNCHANGED at
      BY <1>2 DEF ReadAttempts, store, k
    <2> HIDE DEF r
    <2>5. Safe(m, r, at)
      BY <2>1, <2>3, SafeWorking DEF Carrying
    <2> QED
      BY <2>3, <2>4, <2>5, GoQuietly
  <1>3. CASE WriteAttempts(m)
    <2> DEFINE r == [mover[m] EXCEPT !.pc = "read stage"]
    <2>1. mover[m].job \in Jobs
      BY <1>3, Local DEF WriteAttempts, At, Working
    <2>2. r \in MoverType /\ r.pc = "read stage" /\ r.job = mover[m].job
      BY ZenonT(60), Relabelled DEF Labels
    <2>3. UNCHANGED at /\ (NextJob(m) \/ Become(m, r))
      BY <1>3 DEF WriteAttempts, Goto
    <2> HIDE DEF r
    <2>4. Safe(m, r, at)
      BY <2>1, <2>2, SafeWorking DEF Carrying
    <2> QED
      BY <1>1, <2>2, <2>3, <2>4, GoQuietly
  <1>4. CASE ReadStage(m)
    <2> DEFINE b == at[StageOf(m)][mover[m].job]
               r == [mover[m] EXCEPT !.pc = "park", !.body = b]
    <2>1. mover[m].job \in Jobs
      BY ZenonT(60), <1>4, Local DEF ReadStage, At, Working
    <2>2. b \in AnyBody \cup {None}
      BY <2>1, Holds, PlaceNames
    <2>3. r \in MoverType /\ r.pc = "park" /\ r.job = mover[m].job /\ r.body = b
      BY ZenonT(60), <2>2, Local DEF MoverType, Labels
    <2>4. UNCHANGED at /\ (NextJob(m) \/ (b # None /\ Become(m, r)))
      BY <1>4 DEF ReadStage, store
    <2> HIDE DEF b, r
    <2>5. b # None => Safe(m, r, at)
      BY <2>1, <2>3, SafeWorking
    <2> QED
      BY <1>1, <2>3, <2>4, <2>5, GoQuietly
  <1>5. CASE Park(m)
    <2> DEFINE r == [mover[m] EXCEPT !.pc = "unstage"]
    <2>1. r \in MoverType /\ r.pc = "unstage" /\ r.job = mover[m].job
      BY ZenonT(60), Relabelled DEF Labels
    <2>2. mover[m].job \in Jobs /\ mover[m].body \in AnyBody
      BY <1>5, Local, LabelSets DEF Park, At, Carrying
    <2>3. Become(m, r) /\ Put("parked", mover[m].job, mover[m].body)
      BY <1>5 DEF Park, Goto
    <2>4. at'["parked"][r.job] # None
      BY SMTT(60), <2>1, <2>2, <2>3, PutThere, PlaceNames
    <2> HIDE DEF r
    <2>5. Safe(m, r, at')
      BY <2>1, <2>2, <2>4, LabelSets DEF Safe, In
    <2> QED
      BY <2>1, <2>2, <2>3, <2>5, PlaceNames, GoWriting
  <1>6. CASE EndRun(m)
    <2>1. Become(m, Idle) /\ UNCHANGED at
      BY SMTT(60), <1>6 DEF EndRun, store
    <2> QED
      BY <2>1, IdleTyped, SafeBetween, LabelSets, GoQuietly
  <1> QED
    BY <1>1, <1>2, <1>3, <1>4, <1>5, <1>6 DEF ClearFailedAttempts

\* A failed store call, or the end of the process.
LEMMA FaultSteps ==
  ASSUME IInv, NEW m \in Movers, StoreError(m) \/ Crash(m)
  PROVE  Moved /\ Kept
  <1> DEFINE to(l) == [mover[m] EXCEPT !.pc = l, !.job = None, !.body = None]
             r == [mover[m] EXCEPT !.pc = "count"]
  <1>1. /\ UNCHANGED at
        /\ \/ Become(m, to("score")) \/ Become(m, to("mark")) \/ Become(m, Idle) \/ NextJob(m)
           \/ mover[m].pc \in Working /\ Become(m, r)
    BY DEF StoreError, Crash, Goto, store, Working
  <1>2. \A l \in Labels : to(l) \in MoverType /\ to(l).pc = l
    BY Local DEF MoverType
  <1>3. r \in MoverType /\ r.pc = "count" /\ r.job = mover[m].job
    BY ZenonT(60), Relabelled DEF Labels
  <1> HIDE DEF to, r
  <1>4. Safe(m, to("score"), at) /\ Safe(m, to("mark"), at) /\ Safe(m, Idle, at)
    BY <1>2, IdleTyped, SafeBetween, LabelSets
  <1>5. mover[m].pc \in Working => Safe(m, r, at)
    BY <1>3, Local, SafeWorking DEF Carrying
  <1> QED
    BY <1>1, <1>2, <1>3, <1>4, <1>5, IdleTyped, LabelSets, NextJobGoes, GoQuietly

\* A body that is written to incoming/ from outside loses nothing.
LEMMA WriteSteps ==
  ASSUME IInv, \/ \E j \in Jobs, b \in Bodies : RecordSubmission(j, b)
               \/ RecordSystemFailure
  PROVE  Moved /\ Kept
  <1>1. ASSUME NEW j \in Jobs, NEW b \in AnyBody, Put("incoming", j, b), UNCHANGED mover
        PROVE  Moved /\ Kept
    <2>1. Become(PS, mover[PS])
      BY <1>1, TwoMovers DEF IInv, Shape, Become
    <2>2. at' \in AtType /\ \A t \in Places, k \in Jobs :
             at'[t][k] = IF t = "incoming" /\ k = j THEN b ELSE at[t][k]
      BY SMT, <1>1, PutEffect, PlaceNames DEF IInv
    <2>3. Safe(PS, mover[PS], at')
      <3>1. \A t \in Places \ {"incoming"}, k \in Jobs : at'[t][k] = at[t][k]
        BY <2>2
      <3>2. mover[PS] \in MoverType /\ Safe(PS, mover[PS], at)
        BY TwoMovers DEF IInv, Shape, Copied
      <3>3. mover[PS].pc \in Working => mover[PS].job \in Jobs
        BY <3>2 DEF Safe
      <3>4. mover[PS].pc \in Working => \A t \in Places \ {"incoming"} :
               at[t][mover[PS].job] # None => at'[t][mover[PS].job] # None
        BY <3>1, <3>3
      <3> QED
        BY <3>2, <3>4, TwoMovers, SafeGrows
    <2> QED
      BY <1>1, <2>1, <2>3, TwoMovers, Local, PlaceNames, GoWriting
  <1>2. CASE UNCHANGED <<at, mover>>
    BY <1>2 DEF IInv, Shape, Copied, Moved, Kept, HasRecord
  <1> QED
    BY <1>1, <1>2 DEF RecordSubmission, RecordSystemFailure, AnyBody, IInv, Asked

\* The attempts stay numbers.
LEMMA CountsTyped ==
  ASSUME IInv, Next
  PROVE  failures' \in [Jobs -> Nat]
  <1>1. CASE UNCHANGED failures
    BY <1>1 DEF IInv, Shape
  <1>2. ASSUME NEW m \in Movers, ClearFailedAttempts(m) PROVE failures' \in [Jobs -> Nat]
    BY <1>2 DEF IInv, Shape, ClearFailedAttempts
  <1>3. ASSUME NEW m \in Movers, WriteAttempts(m) PROVE failures' \in [Jobs -> Nat]
    <2>1. mover[m].n \in Nat
      BY Local DEF MoverType
    <2> QED
      BY <1>3, <2>1 DEF IInv, Shape, WriteAttempts
  <1>4. ASSUME NEW m \in Movers, SharedStep(m) PROVE failures' \in [Jobs -> Nat]
    BY <1>1, <1>2, <1>3, <1>4
       DEF SharedStep, Dequeue, ReadAttempts, ReadStage, Park, Unstage, EndRun, store
  <1>5. ASSUME NEW m \in Movers, StoreError(m) \/ Crash(m) PROVE UNCHANGED failures
    BY <1>5 DEF StoreError, Crash, store
  <1>6. CASE ProcessStep
    <2>1. UNCHANGED failures
      BY ZenonT(60), <1>6
         DEF ProcessStep, StartProcess, ReadAndScore, WriteRows, MarkRead, FinalizeRead,
         RouteEval, DeleteRouted, CommitChunk, RowsWritten, MarkPut, MarkDelete, ListScored,
         FinalRows, Archive, store
    <2> QED
      BY <1>1, <2>1
  <1>7. CASE ScoreEvalStep
    <2>1. UNCHANGED failures
      BY <1>7 DEF ScoreEvalStep, StartScoreEval, CheckStaged, ReadToDo, CallScore,
         Stage, store
    <2> QED
      BY <1>1, <2>1
  <1>8. CASE (\E j \in Jobs, b \in Bodies : RecordSubmission(j, b)) \/ LookupStep
             \/ \E op \in Lookups, j \in Jobs : StartLookup(op, j)
    <2>1. UNCHANGED failures
      BY SMTT(60), <1>8 DEF RecordSubmission, LookupStep, StartLookup, Probe, EndLookup,
         RecordSystemFailure, store
    <2> QED
      BY <1>1, <2>1
  <1> QED
    BY <1>1, <1>4, <1>5, <1>6, <1>7, <1>8 DEF Next

\* A lookup in progress stays about a job.
LEMMA LookupTyped ==
  ASSUME IInv, Next
  PROVE  lookup' \in Question /\ Asked'
  <1>0. lookup \in Question /\ Asked
    BY DEF IInv, Shape
  <1>1. CASE UNCHANGED lookup
    BY <1>0, <1>1 DEF Asked
  <1>2. CASE lookup' = NoLookup
    BY SMT, <1>2 DEF NoLookup, Question, Asked
  <1>3. ASSUME NEW op \in Lookups, NEW j \in Jobs, StartLookup(op, j)
        PROVE  lookup' \in Question /\ Asked'
    <2>1. HasRecord(j) \in BOOLEAN
      BY DEF HasRecord
    <2> QED
      BY SMT, <1>3, <2>1 DEF StartLookup, Question, Asked
  <1>4. CASE Probe
    <2>1. \/ lookup' = [lookup EXCEPT !.pc = "found"] \/ lookup' = [lookup EXCEPT !.pc = "absent"]
          \/ lookup' = [lookup EXCEPT !.i = @ + 1]
      BY <1>4 DEF Probe
    <2>2. lookup.job \in Jobs
      BY <1>0, <1>4 DEF Probe, Asked
    <2> QED
      BY SMT, <1>0, <2>1, <2>2 DEF Question, Asked
  <1>5. ASSUME NEW m \in Movers, SharedStep(m) \/ StoreError(m) \/ Crash(m)
        PROVE  lookup' \in Question /\ Asked'
    <2>1. UNCHANGED lookup \/ Unstage(m)
      BY ZenonT(60), <1>5 DEF SharedStep, Dequeue, ClearFailedAttempts, ReadAttempts,
         WriteAttempts, ReadStage, Park, EndRun, StoreError, Crash
    <2>2. CASE Unstage(m)
      <3> DEFINE v == lookup.back \/ (m = PS /\ lookup.job = mover[m].job)
      <3>1. v \in BOOLEAN /\ lookup' = [lookup EXCEPT !.back = v]
        BY <2>2 DEF Unstage
      <3> HIDE DEF v
      <3> QED
        BY SMT, <1>0, <3>1 DEF Question, Asked
    <2> QED
      BY <1>1, <2>1, <2>2
  <1>6. ASSUME ProcessStep \/ ScoreEvalStep PROVE UNCHANGED lookup
    BY ZenonT(60), <1>6
       DEF ProcessStep, StartProcess, ReadAndScore, WriteRows, MarkRead, FinalizeRead,
       RouteEval, DeleteRouted, CommitChunk, RowsWritten, MarkPut, MarkDelete, ListScored,
       FinalRows, Archive, ScoreEvalStep, StartScoreEval, CheckStaged, ReadToDo, CallScore, Stage
  <1> QED
    BY <1>1, <1>2, <1>3, <1>4, <1>5, <1>6
       DEF Next, RecordSubmission, LookupStep, EndLookup, RecordSystemFailure

\* Every step keeps the invariant and every record.
LEMMA KeepsRecords ==
  ASSUME IInv, [Next]_vars
  PROVE  IInv' /\ Kept
  <1>1. CASE UNCHANGED vars
    BY <1>1 DEF vars, IInv, Shape, Copied, Asked, Kept, HasRecord
  <1>2. CASE Next
    <2>1. ASSUME ProcessStep PROVE Moved /\ Kept
      BY SMTT(60), <2>1, ScoreSteps, CommitSteps, FinalizeSteps DEF ProcessStep
    <2>2. ASSUME NEW m \in Movers, SharedStep(m) PROVE Moved /\ Kept
      BY <2>2, LeaveSteps, CountSteps DEF SharedStep
    <2>3. ASSUME LookupStep \/ \E op \in Lookups, j \in Jobs : StartLookup(op, j)
          PROVE  Moved /\ Kept
      <3>1. CASE UNCHANGED <<at, mover>>
        BY <3>1 DEF IInv, Shape, Copied, Moved, Kept, HasRecord
      <3> QED
        BY SMTT(60), <2>3, <3>1, WriteSteps
           DEF LookupStep, StartLookup, Probe, EndLookup, store
    <2>4. Moved /\ Kept
      BY <1>2, <2>1, <2>2, <2>3, EvalSteps, FaultSteps, WriteSteps DEF Next
    <2> QED
      BY <1>2, <2>4, CountsTyped, LookupTyped DEF IInv, Shape, Moved
  <1> QED
    BY <1>1, <1>2

\* In the initial state every place is empty and nothing runs.
LEMMA InitSafe == Init => IInv
  <1> SUFFICES ASSUME Init PROVE IInv
    OBVIOUS
  <1>1. Shape
    BY SMT, IdleTyped DEF Init, Shape, AtType, NoLookup, Question
  <1>2. Copied
    BY IdleTyped, SafeBetween, LabelSets DEF Init, Copied
  <1>3. Asked
    BY DEF Init, NoLookup, Asked
  <1> QED
    BY <1>1, <1>2, <1>3 DEF IInv

\* A job with a record keeps one, for any number of jobs, attempts, crashes and
\* store errors, with resubmissions and retirements at any point: process-submissions
\* and score-eval write the next place before they delete the previous one, and
\* neither deletes the copy the other relies on.
THEOREM RecordsAreKept == Spec => NoRecordLost
  <1>1. IInv /\ [Next]_vars => IInv'
    BY KeepsRecords
  <1>2. IInv /\ [Next]_vars => [\A j \in Jobs : HasRecord(j) => HasRecord(j)']_vars
    BY KeepsRecords DEF Kept
  <1> QED
    BY <1>1, <1>2, InitSafe, PTL DEF Spec, NoRecordLost

-----------------------------------------------------------------------------
(***************************************************************************)
(* Typing, rows before the archive, and lookups.                             *)
(*                                                                         *)
(* Beyond IInv, the rows of a chunk are written for bodies that scored, and  *)
(* they are written before the first body of the chunk is marked (Filing).   *)
(* A lookup has a copy of the record it looks for ahead of it, unless the    *)
(* record was parked from to_finalize/ (Seeking): every other move goes to a *)
(* place that is probed later than the one it leaves.                        *)
(***************************************************************************)

\* The labels between the commit of a chunk and the end of its marking, and the
\* labels at which process-submissions owes no rows.
Marking == {"mark", "mark put", "mark delete"}
Committing == Marking \cup {"rows"}
Calm == {"idle", "score", "route", "routed", "finalize", "final rows", "dequeue", "clear",
         "count", "write count", "read stage", "park", "unstage"}

Scored(b) == b \notin {None} \cup Rowless
Filed(w, j, b) == b \in w[j] \cup Locked

\* process-submissions in state r has written to w what it is about to archive.
Filing(r, w) ==
    /\ r.pc \in Committing => \A j \in r.work : Scored(r.out[j])
    /\ r.pc = "rows" => \A j \in Jobs \ r.work : Scored(r.out[j]) => Filed(w, j, r.out[j])
    /\ r.pc \in Marking => \A j \in Jobs : Scored(r.out[j]) => Filed(w, j, r.out[j])
    /\ r.pc = "mark put" => Scored(r.out[r.job])
    /\ r.pc = "archive" => r.body \in w[r.job]

\* A record is in a place that the lookup has still to try.
Ahead(a, l) == \E k \in l.i .. Len(Order(l.op)) : a[Order(l.op)[k]][l.job] # None
Probing(l) == l.pc = "probe" => l.i \in 1 .. Len(Order(l.op))
Seeking(a, l) == l.pc = "probe" /\ l.was /\ ~ l.back => Ahead(a, l)

Values ==
    /\ warehouse \in [Jobs -> SUBSET AnyBody] /\ submits \in 0 .. MaxSubmits
    /\ faults \in 0 .. MaxFaults /\ lookup.i \in 0 .. 6 /\ Probing(lookup)
AInv == /\ IInv /\ Values /\ Filing(mover[PS], warehouse)
        /\ Seeking(at, lookup) /\ MissedOnlyByParking

\* A mover's step leaves the other mover alone.
LEMMA OneMoves ==
  ASSUME IInv, NEW m \in Movers, NEW r, Become(m, r)
  PROVE  mover'[m] = r /\ \A q \in Movers \ {m} : mover'[q] = mover[q]
  BY DEF IInv, Shape, Become

\* A run that owes no rows.
LEMMA CalmFiles ==
  ASSUME NEW r, NEW w, r.pc \in Calm
  PROVE  Filing(r, w)
  BY DEF Filing, Calm, Committing, Marking

\* The next job of process-submissions.
LEMMA NextJobCalm ==
  ASSUME IInv, NextJob(PS)
  PROVE  mover'[PS].pc \in Calm
  <1> DEFINE r == [mover[PS] EXCEPT !.pc = Loop(PS), !.job = None, !.body = None, !.n = 0]
  <1>1. PS \in Movers /\ mover[PS] \in MoverType
    BY TwoMovers, Local
  <1>2. Become(PS, r) \/ Become(PS, Idle)
    BY DEF NextJob
  <1>3. r.pc = "finalize"
    BY <1>1 DEF MoverType, Loop
  <1> HIDE DEF r
  <1>4. mover'[PS] = r \/ mover'[PS] = Idle
    BY <1>1, <1>2, OneMoves
  <1> QED
    BY <1>3, <1>4, IdleTyped DEF Calm

\* Between its commits, and after them, process-submissions owes no rows.
LEMMA ProcessCalm ==
  ASSUME IInv, \/ StartProcess \/ RouteEval \/ DeleteRouted \/ ListScored \/ Archive
               \/ \E j \in Jobs : ReadAndScore(j) \/ FinalizeRead(j)
  PROVE  mover'[PS].pc \in Calm
  <1>0. PS \in Movers /\ mover[PS] \in MoverType
    BY TwoMovers, Local
  <1>1. ASSUME NEW r, Become(PS, r), r.pc \in Calm PROVE mover'[PS].pc \in Calm
    BY <1>0, <1>1, OneMoves
  <1>2. CASE StartProcess
    BY <1>1, <1>2 DEF StartProcess, Idle, Calm
  <1>3. CASE RouteEval
    BY <1>0, <1>1, <1>3 DEF RouteEval, Goto, MoverType, Calm
  <1>4. CASE DeleteRouted
    BY <1>0, <1>1, <1>4 DEF DeleteRouted, MoverType, Calm
  <1>5. CASE ListScored
    <2> DEFINE r == [Idle EXCEPT !.pc = "finalize", !.work = Listing("to_finalize")]
    <2>1. r.pc \in Calm /\ Idle.pc \in Calm
      BY DEF Idle, Calm
    <2>2. Become(PS, r) \/ Become(PS, Idle)
      BY <1>5 DEF ListScored
    <2> HIDE DEF r
    <2> QED
      BY <1>1, <2>1, <2>2
  <1>6. CASE Archive
    BY <1>0, <1>1, <1>6 DEF Archive, Goto, MoverType, Calm
  <1>7. ASSUME NEW j \in Jobs, ReadAndScore(j) PROVE mover'[PS].pc \in Calm
    <2> DEFINE me == [mover[PS] EXCEPT !.work = @ \ {j}]
               routing == [me EXCEPT !.pc = "route", !.job = j, !.body = Submission(j)]
               scored == [me EXCEPT !.out[j] = Submission(j)]
    <2>1. me.pc = "score" /\ routing.pc = "route" /\ scored.pc = "score"
      BY <1>0, <1>7 DEF ReadAndScore, At, MoverType
    <2>2. Become(PS, me) \/ Become(PS, routing) \/ Become(PS, scored)
      BY <1>7 DEF ReadAndScore
    <2> HIDE DEF me, routing, scored
    <2> QED
      BY <1>1, <2>1, <2>2 DEF Calm
  <1>8. ASSUME NEW j \in Jobs, FinalizeRead(j) PROVE mover'[PS].pc \in Calm
    <2> DEFINE me == [mover[PS] EXCEPT !.work = @ \ {j}, !.job = j,
                                       !.body = at["to_finalize"][j]]
               found == [me EXCEPT !.pc = IF me.body = None THEN "count" ELSE "final rows"]
               failed == [me EXCEPT !.pc = "count"]
    <2>1. found.pc \in {"count", "final rows"} /\ failed.pc = "count"
      BY <1>0 DEF MoverType
    <2>2. Become(PS, found) \/ Become(PS, failed)
      BY <1>8 DEF FinalizeRead
    <2> HIDE DEF found, failed
    <2> QED
      BY <1>1, <2>1, <2>2 DEF Calm
  <1> QED
    BY <1>2, <1>3, <1>4, <1>5, <1>6, <1>7, <1>8

\* So do the steps that it shares with score-eval, and its faults, but for a job whose
\* marking fails.
LEMMA SharedCalm ==
  ASSUME IInv, SharedStep(PS) \/ StoreError(PS) \/ Crash(PS)
  PROVE  \/ mover'[PS].pc \in Calm
         \/ /\ mover[PS].pc \in {"mark put", "mark delete"}
            /\ Become(PS, [mover[PS] EXCEPT !.pc = "mark", !.job = None, !.body = None])
  <1>0. PS \in Movers /\ mover[PS] \in MoverType
    BY TwoMovers, Local
  <1>1. ASSUME NEW r, Become(PS, r), r.pc \in Calm PROVE mover'[PS].pc \in Calm
    BY <1>0, <1>1, OneMoves
  <1>2. ASSUME NEW l \in Calm, Goto(PS, l) PROVE mover'[PS].pc \in Calm
    BY <1>0, <1>1, <1>2 DEF Goto, MoverType
  <1>3. CASE NextJob(PS)
    BY <1>3, NextJobCalm
  <1>4. CASE Become(PS, Idle)
    BY <1>1, <1>4, IdleTyped DEF Calm
  <1>5. CASE Dequeue(PS) \/ Park(PS)
    BY <1>2, <1>5 DEF Dequeue, Park, Calm
  <1>6. CASE ReadAttempts(PS)
    BY <1>0, <1>1, <1>6 DEF ReadAttempts, MoverType, Calm
  <1>7. CASE WriteAttempts(PS)
    BY <1>2, <1>3, <1>7 DEF WriteAttempts, Calm
  <1>8. CASE ReadStage(PS)
    <2> DEFINE r == [mover[PS] EXCEPT !.pc = "park", !.body = at[StageOf(PS)][mover[PS].job]]
    <2>1. r.pc = "park"
      BY <1>0 DEF MoverType
    <2>2. Become(PS, r) \/ NextJob(PS)
      BY <1>8 DEF ReadStage
    <2> HIDE DEF r
    <2> QED
      BY <1>1, <1>3, <2>1, <2>2 DEF Calm
  <1>9. CASE StoreError(PS)
    <2> DEFINE to(l) == [mover[PS] EXCEPT !.pc = l, !.job = None, !.body = None]
    <2>1. to("score").pc = "score"
      BY <1>0 DEF MoverType
    <2>2. \/ Become(PS, to("score"))
          \/ mover[PS].pc \in {"mark put", "mark delete"} /\ Become(PS, to("mark"))
          \/ Become(PS, Idle) \/ Goto(PS, "count") \/ NextJob(PS)
      BY <1>9 DEF StoreError
    <2>3. CASE Become(PS, to("score"))
      BY <1>1, <2>1, <2>3 DEF Calm
    <2>4. CASE Goto(PS, "count")
      BY <1>2, <2>4 DEF Calm
    <2> QED
      BY <1>3, <1>4, <2>2, <2>3, <2>4
  <1> QED
    BY <1>3, <1>4, <1>5, <1>6, <1>7, <1>8, <1>9
       DEF SharedStep, ClearFailedAttempts, Unstage, EndRun, Crash

\* What the invariant gives process-submissions to go on from.
LEMMA Process ==
  ASSUME AInv
  PROVE  /\ PS \in Movers /\ mover[PS] \in MoverType
         /\ mover[PS].work \subseteq Jobs /\ mover[PS].out \in [Jobs -> AnyBody \cup {None}]
         /\ Filing(mover[PS], warehouse) /\ warehouse \in [Jobs -> SUBSET AnyBody]
  <1>1. PS \in Movers /\ mover[PS] \in MoverType
    BY TwoMovers, Local DEF AInv
  <1> QED
    BY <1>1 DEF AInv, Values, MoverType

\* A chunk is committed: its rows first, then its bodies; and a staged body is
\* archived after its rows.
LEMMA ChunkFiles ==
  ASSUME AInv, \/ CommitChunk \/ RowsWritten \/ MarkPut \/ MarkDelete \/ FinalRows
               \/ \E j \in Jobs : WriteRows(j) \/ MarkRead(j)
               \/ /\ mover[PS].pc \in {"mark put", "mark delete"} /\ UNCHANGED warehouse
                  /\ Become(PS, [mover[PS] EXCEPT !.pc = "mark", !.job = None, !.body = None])
  PROVE  Filing(mover'[PS], warehouse')
  <1> DEFINE p == mover[PS]
             w == warehouse
  <1>0. /\ PS \in Movers /\ p \in MoverType /\ p.work \subseteq Jobs
        /\ Filing(p, w) /\ w \in [Jobs -> SUBSET AnyBody] /\ IInv
    BY Process DEF AInv
  <1>1. ASSUME NEW r, Become(PS, r), Filing(r, warehouse') PROVE Filing(mover'[PS], warehouse')
    BY <1>0, <1>1, OneMoves
  <1>2. \A j \in Jobs : j \in Outcomes <=> Scored(p.out[j])
    BY DEF Outcomes, Scored
  <1>3. /\ "rows" \in Committing /\ "rows" \notin Marking /\ Marking \subseteq Committing
        /\ {"mark", "mark put", "mark delete"} = Marking /\ "archive" \notin Committing
    BY DEF Committing, Marking
  <1>4. CASE CommitChunk
    <2> DEFINE r == [p EXCEPT !.pc = "rows", !.work = Outcomes]
    <2>1. r.pc = "rows" /\ r.work = Outcomes /\ r.out = p.out
      BY <1>0 DEF MoverType
    <2>2. Become(PS, r)
      BY <1>4 DEF CommitChunk
    <2>3. Outcomes \subseteq Jobs
      BY DEF Outcomes
    <2> HIDE DEF r
    <2>4. Filing(r, warehouse')
      BY <1>2, <1>3, <2>1, <2>3 DEF Filing
    <2> QED
      BY <1>1, <2>2, <2>4
  <1>5. CASE RowsWritten
    <2> DEFINE r == [p EXCEPT !.pc = "mark", !.work = Outcomes]
    <2>1. r.pc = "mark" /\ r.work = Outcomes /\ r.out = p.out
      BY <1>0 DEF MoverType
    <2>2. Become(PS, r) /\ warehouse' = w /\ p.pc = "rows" /\ p.work = {}
      BY <1>5 DEF RowsWritten, At, store
    <2>3. \A j \in Jobs : Scored(r.out[j]) => Filed(w, j, r.out[j])
      BY <1>0, <2>1, <2>2 DEF Filing
    <2>4. Outcomes \subseteq Jobs
      BY DEF Outcomes
    <2> HIDE DEF r, p, w
    <2>5. Filing(r, warehouse')
      BY <1>2, <1>3, <2>1, <2>2, <2>3, <2>4 DEF Filing
    <2> QED
      BY <1>1, <2>2, <2>5
  <1>6. ASSUME p.pc \in Marking, UNCHANGED warehouse, NEW r, Become(PS, r), r.pc \in Marking,
               r.out = p.out, r.work \subseteq p.work, r.pc = "mark put" => r.job \in p.work
        PROVE  Filing(mover'[PS], warehouse')
    <2>1. \A j \in Jobs : Scored(r.out[j]) => Filed(w, j, r.out[j])
      BY <1>0, <1>6 DEF Filing
    <2>2. \A j \in p.work : Scored(r.out[j])
      BY <1>0, <1>3, <1>6 DEF Filing
    <2> HIDE DEF p, w
    <2>3. Filing(r, w)
      BY <1>3, <1>6, <2>1, <2>2 DEF Filing
    <2> QED
      BY <1>1, <1>6, <2>3 DEF w
  <1>7. ASSUME NEW j \in Jobs, WriteRows(j) PROVE Filing(mover'[PS], warehouse')
    <2> DEFINE r == [p EXCEPT !.work = @ \ {j}]
               b == p.out[j]
    <2>1. p.pc = "rows" /\ j \in p.work /\ Become(PS, r)
      BY <1>7 DEF WriteRows, At
    <2>2. r.pc = "rows" /\ r.work = p.work \ {j} /\ r.out = p.out
      BY <1>0, <2>1 DEF MoverType
    <2>3. /\ \A k \in Jobs : w[k] \subseteq warehouse'[k]
          /\ Filed(warehouse', j, b)
      <3>1. CASE b \in Locked
        BY <1>7, <3>1 DEF WriteRows, Filed
      <3>2. CASE b \notin Locked
        BY <1>0, <1>7, <3>2 DEF WriteRows, Filed
      <3> QED
        BY <3>1, <3>2
    <2>4. /\ \A k \in p.work : Scored(p.out[k])
          /\ \A k \in Jobs \ p.work : Scored(p.out[k]) => Filed(w, k, p.out[k])
      BY <1>0, <1>3, <2>1 DEF Filing
    <2>5. \A k \in Jobs \ r.work : Scored(p.out[k]) => Filed(warehouse', k, p.out[k])
      BY <2>2, <2>3, <2>4 DEF Filed
    <2> HIDE DEF r, p, w
    <2>6. Filing(r, warehouse')
      BY <1>3, <2>2, <2>4, <2>5 DEF Filing
    <2> QED
      BY <1>1, <2>1, <2>6
  <1>8. ASSUME NEW j \in Jobs, MarkRead(j) PROVE Filing(mover'[PS], warehouse')
    <2> DEFINE me == [p EXCEPT !.work = @ \ {j}]
               r == [me EXCEPT !.pc = "mark put", !.job = j, !.body = at["incoming"][j]]
    <2>1. p.pc = "mark" /\ j \in p.work /\ UNCHANGED warehouse
      BY <1>8 DEF MarkRead, At, store
    <2>2. me.pc = "mark" /\ me.work = p.work \ {j} /\ me.out = p.out
      BY <1>0, <2>1 DEF MoverType
    <2>3. r.pc = "mark put" /\ r.job = j /\ r.work = p.work \ {j} /\ r.out = p.out
      BY <1>0 DEF MoverType
    <2>4. Become(PS, me) \/ Become(PS, r)
      BY <1>8 DEF MarkRead
    <2> HIDE DEF me, r, p
    <2>5. CASE Become(PS, me)
      BY <1>3, <1>6, <2>1, <2>2, <2>5
    <2>6. CASE Become(PS, r)
      BY <1>3, <1>6, <2>1, <2>3, <2>6
    <2> QED
      BY <2>4, <2>5, <2>6
  <1>9. CASE MarkPut
    <2> DEFINE r == [p EXCEPT !.pc = "mark delete"]
    <2>1. p.pc \in Marking /\ Become(PS, r) /\ UNCHANGED warehouse
      BY <1>3, <1>9 DEF MarkPut, At, Goto
    <2>2. r.pc = "mark delete" /\ r.work = p.work /\ r.out = p.out
      BY <1>0 DEF MoverType
    <2> HIDE DEF r, p
    <2> QED
      BY <1>3, <1>6, <2>1, <2>2
  <1>10. CASE MarkDelete
    <2> DEFINE r == [p EXCEPT !.pc = "mark", !.job = None, !.body = None, !.marked = TRUE]
    <2>1. p.pc \in Marking /\ Become(PS, r) /\ UNCHANGED warehouse
      BY <1>3, <1>10 DEF MarkDelete, At
    <2>2. r.pc = "mark" /\ r.work = p.work /\ r.out = p.out
      BY <1>0 DEF MoverType
    <2> HIDE DEF r, p
    <2> QED
      BY <1>3, <1>6, <2>1, <2>2
  <1>11. ASSUME p.pc \in {"mark put", "mark delete"}, UNCHANGED warehouse,
                Become(PS, [p EXCEPT !.pc = "mark", !.job = None, !.body = None])
         PROVE  Filing(mover'[PS], warehouse')
    <2> DEFINE r == [p EXCEPT !.pc = "mark", !.job = None, !.body = None]
    <2>1. r.pc = "mark" /\ r.work = p.work /\ r.out = p.out /\ p.pc \in Marking
      BY <1>0, <1>3, <1>11 DEF MoverType
    <2>2. Become(PS, r)
      BY <1>11
    <2> HIDE DEF r, p
    <2> QED
      BY <1>3, <1>6, <1>11, <2>1, <2>2
  <1>12. CASE FinalRows
    <2> DEFINE r == [p EXCEPT !.pc = "archive"]
    <2>1. /\ p.pc = "final rows" /\ Become(PS, r)
          /\ warehouse' = [w EXCEPT ![p.job] = @ \cup {p.body}]
      BY <1>12 DEF FinalRows, At, Goto
    <2>2. p.job \in Jobs
      BY <1>0, <2>1, Local DEF Working
    <2>3. r.pc = "archive" /\ r.job = p.job /\ r.body = p.body
      BY <1>0 DEF MoverType
    <2>4. p.body \in warehouse'[p.job]
      BY <1>0, <2>1, <2>2
    <2> HIDE DEF r, p, w
    <2>5. Filing(r, warehouse')
      BY <1>3, <2>3, <2>4 DEF Filing
    <2> QED
      BY <1>1, <2>1, <2>5
  <1> QED
    BY <1>4, <1>5, <1>7, <1>8, <1>9, <1>10, <1>11, <1>12

\* The steps that leave process-submissions alone.
LEMMA OthersStay ==
  ASSUME IInv, \/ ScoreEvalStep \/ LookupStep \/ SharedStep(SE) \/ StoreError(SE) \/ Crash(SE)
               \/ \E j \in Jobs, b \in Bodies : RecordSubmission(j, b)
               \/ \E op \in Lookups, j \in Jobs : StartLookup(op, j)
  PROVE  mover'[PS] = mover[PS]
  <1>1. ASSUME NEW r, Become(SE, r) PROVE mover'[PS] = mover[PS]
    BY <1>1, TwoMovers, OneMoves
  <1>2. CASE NextJob(SE) \/ \E l : Goto(SE, l)
    BY <1>1, <1>2 DEF NextJob, Goto
  <1>3. CASE ScoreEvalStep
    BY ZenonT(60), <1>1, <1>2, <1>3
       DEF ScoreEvalStep, StartScoreEval, CheckStaged, ReadToDo, CallScore, Stage
  <1>4. CASE SharedStep(SE)
    BY ZenonT(60), <1>1, <1>2, <1>4
       DEF SharedStep, Dequeue, ClearFailedAttempts, ReadAttempts, WriteAttempts, ReadStage,
           Park, Unstage, EndRun
  <1>5. CASE StoreError(SE) \/ Crash(SE)
    BY ZenonT(60), <1>1, <1>2, <1>5 DEF StoreError, Crash
  <1>6. CASE \/ LookupStep
             \/ \E j \in Jobs, b \in Bodies : RecordSubmission(j, b)
             \/ \E op \in Lookups, j \in Jobs : StartLookup(op, j)
    BY <1>6 DEF RecordSubmission, StartLookup, LookupStep, Probe, EndLookup, RecordSystemFailure
  <1> QED
    BY <1>3, <1>4, <1>5, <1>6

\* Which steps write rows.
LEMMA RowSteps ==
  ASSUME Next
  PROVE  UNCHANGED warehouse \/ FinalRows \/ \E j \in Jobs : WriteRows(j)
  <1>1. ProcessStep => UNCHANGED warehouse \/ FinalRows \/ \E j \in Jobs : WriteRows(j)
    BY ZenonT(60) DEF ProcessStep, StartProcess, ReadAndScore, MarkRead, FinalizeRead,
       RouteEval, DeleteRouted, CommitChunk, RowsWritten, MarkPut, MarkDelete, ListScored,
       Archive, store
  <1>2. ScoreEvalStep => UNCHANGED warehouse
    BY ZenonT(60) DEF ScoreEvalStep, StartScoreEval, CheckStaged, ReadToDo, CallScore, Stage, store
  <1>3. ASSUME NEW m \in Movers, SharedStep(m) \/ StoreError(m) \/ Crash(m)
        PROVE  UNCHANGED warehouse
    BY ZenonT(60), <1>3 DEF SharedStep, Dequeue, ClearFailedAttempts, ReadAttempts,
       WriteAttempts, ReadStage, Park, Unstage, EndRun, StoreError, Crash, store
  <1>4. ASSUME \/ \E j \in Jobs, b \in Bodies : RecordSubmission(j, b)
               \/ \E op \in Lookups, j \in Jobs : StartLookup(op, j)
               \/ LookupStep
        PROVE  UNCHANGED warehouse
    BY ZenonT(60), <1>4 DEF RecordSubmission, StartLookup, LookupStep, Probe, EndLookup,
       RecordSystemFailure, store
  <1> QED
    BY <1>1, <1>2, <1>3, <1>4 DEF Next

\* Every step keeps the rows of what is about to be archived.
LEMMA KeepsFiling ==
  ASSUME AInv, Next
  PROVE  Filing(mover'[PS], warehouse')
  <1>0. IInv /\ Filing(mover[PS], warehouse)
    BY DEF AInv
  <1>1. CASE mover'[PS].pc \in Calm
    BY <1>1, CalmFiles
  <1>2. ASSUME mover'[PS] = mover[PS], UNCHANGED warehouse PROVE Filing(mover'[PS], warehouse')
    BY <1>0, <1>2
  <1>3. CASE ProcessStep
    BY <1>0, <1>1, <1>3, ProcessCalm, ChunkFiles DEF ProcessStep
  <1>4. CASE SharedStep(PS) \/ StoreError(PS) \/ Crash(PS)
    <2>1. UNCHANGED warehouse
      BY ZenonT(60), <1>4 DEF SharedStep, Dequeue, ClearFailedAttempts, ReadAttempts,
         WriteAttempts, ReadStage, Park, Unstage, EndRun, StoreError, Crash, store
    <2> QED
      BY <1>0, <1>1, <1>4, <2>1, SharedCalm, ChunkFiles
  <1>5. ASSUME \/ ScoreEvalStep \/ LookupStep \/ SharedStep(SE) \/ StoreError(SE) \/ Crash(SE)
               \/ \E j \in Jobs, b \in Bodies : RecordSubmission(j, b)
               \/ \E op \in Lookups, j \in Jobs : StartLookup(op, j)
        PROVE  Filing(mover'[PS], warehouse')
    <2>1. UNCHANGED warehouse
      <3>1. ScoreEvalStep => UNCHANGED warehouse
        BY ZenonT(60)
           DEF ScoreEvalStep, StartScoreEval, CheckStaged, ReadToDo, CallScore, Stage, store
      <3>2. SharedStep(SE) \/ StoreError(SE) \/ Crash(SE) => UNCHANGED warehouse
        BY ZenonT(60) DEF SharedStep, Dequeue, ClearFailedAttempts, ReadAttempts,
           WriteAttempts, ReadStage, Park, Unstage, EndRun, StoreError, Crash, store
      <3> QED
        BY ZenonT(60), <1>5, <3>1, <3>2 DEF RecordSubmission, StartLookup, LookupStep, Probe,
           EndLookup, RecordSystemFailure, store
    <2> QED
      BY <1>0, <1>2, <1>5, <2>1, OthersStay
  <1> QED
    BY <1>3, <1>4, <1>5, TwoMovers DEF Next

\* The places that a lookup tries, one after another.
LEMMA OrderFacts ==
  ASSUME NEW op
  PROVE  /\ op = "find_outcome" =>
              /\ Len(Order(op)) = 6
              /\ Order(op)[1] = "processed" /\ Order(op)[2] = "incoming"
              /\ Order(op)[3] = "to_do" /\ Order(op)[4] = "parked"
              /\ Order(op)[5] = "to_finalize" /\ Order(op)[6] = "processed"
         /\ op # "find_outcome" =>
              /\ Len(Order(op)) = 5
              /\ Order(op)[1] = "incoming" /\ Order(op)[2] = "to_do" /\ Order(op)[3] = "parked"
              /\ Order(op)[4] = "to_finalize" /\ Order(op)[5] = "processed"
  BY SMT DEF Order, MoveOrder

\* The places that are probed later than the one a record leaves.
Later(s) ==
    {"processed"} \cup (IF s = "to_finalize" THEN {} ELSE {"parked", "to_finalize"})
                  \cup (IF s = "incoming" THEN {"to_do"} ELSE {})

\* A record that leaves a place is ahead of every lookup that had it ahead.
LEMMA AheadLeaves ==
  ASSUME NEW a \in AtType, NEW b \in AtType, NEW l \in Question, l.job \in Jobs,
         l.i \in 1 .. Len(Order(l.op)), Ahead(a, l),
         NEW s \in {"incoming", "to_do", "to_finalize"}, NEW j \in Jobs, In(b, Later(s), j),
         \A t \in Places, k \in Jobs : b[t][k] = IF t = s /\ k = j THEN None ELSE a[t][k]
  PROVE  Ahead(b, l)
  <1> DEFINE o == Order(l.op)
  <1>1. PICK k \in l.i .. Len(o) : a[o[k]][l.job] # None
    BY DEF Ahead
  <1>2. k \in Int /\ l.i \in Int /\ 1 <= l.i /\ l.i <= k /\ k <= Len(o) /\ Len(o) \in 5 .. 6
    BY SMT, OrderFacts
  <1>3. o[k] \in Places
    <2>1. k \in 1 .. Len(o)
      BY SMT, <1>2
    <2>2. \A n \in 1 .. Len(o) : o[n] \in Places
      <3>1. CASE l.op = "find_outcome"
        BY SMT, <3>1, OrderFacts, PlaceIs
      <3>2. CASE l.op # "find_outcome"
        BY SMT, <3>2, OrderFacts, PlaceIs
      <3> QED
        BY <3>1, <3>2
    <2> QED
      BY <2>1, <2>2
  <1>4. CASE ~ (o[k] = s /\ l.job = j)
    BY <1>1, <1>3, <1>4 DEF Ahead
  <1>5. CASE o[k] = s /\ l.job = j
    <2>1. PICK t \in Later(s) : b[t][j] # None
      BY DEF In
    <2>2. \E n \in k .. Len(o) : o[n] = t
      <3>1. CASE l.op = "find_outcome"
        BY SMTT(30), <1>2, <1>5, <2>1, <3>1, OrderFacts DEF Later
      <3>2. CASE l.op # "find_outcome"
        BY SMTT(30), <1>2, <1>5, <2>1, <3>2, OrderFacts DEF Later
      <3> QED
        BY <3>1, <3>2
    <2> QED
      <3>1. PICK n \in k .. Len(o) : o[n] = t
        BY <2>2
      <3>2. n \in l.i .. Len(o)
        BY SMT, <1>2
      <3> QED
        BY <1>5, <2>1, <3>1, <3>2 DEF Ahead
  <1> QED
    BY <1>4, <1>5

\* Places that fill up stay ahead.
LEMMA AheadGrows ==
  ASSUME NEW a, NEW b, NEW l \in Question, l.job \in Jobs,
         l.i \in 1 .. Len(Order(l.op)), Ahead(a, l),
         \A t \in Places : a[t][l.job] # None => b[t][l.job] # None
  PROVE  Ahead(b, l)
  <1>1. PICK k \in l.i .. Len(Order(l.op)) : a[Order(l.op)[k]][l.job] # None
    BY DEF Ahead
  <1>2. k \in 1 .. Len(Order(l.op))
    BY SMT, <1>1, OrderFacts
  <1>3. Order(l.op)[k] \in Places
    BY SMT, <1>2, OrderFacts, PlaceNames
  <1> QED
    BY <1>1, <1>3 DEF Ahead

\* What a step has to give a lookup.
Found == /\ Seeking(at', lookup') /\ MissedOnlyByParking'
         /\ lookup'.i \in 0 .. 6 /\ Probing(lookup')

\* Where the invariant says a lookup is.
LEMMA LookupAt ==
  ASSUME AInv
  PROVE  /\ at \in AtType /\ lookup \in Question /\ lookup.i \in 0 .. 6 /\ Probing(lookup)
         /\ lookup.pc = "probe" => lookup.job \in Jobs /\ lookup.i \in 1 .. Len(Order(lookup.op))
         /\ Seeking(at, lookup) /\ MissedOnlyByParking
  BY DEF AInv, IInv, Shape, Asked, Values, Probing

\* A lookup that stays where it is, with its record ahead of it or parked behind it.
LEMMA Waits ==
  ASSUME AInv, lookup'.pc = lookup.pc, lookup'.job = lookup.job, lookup'.op = lookup.op,
         lookup'.i = lookup.i, lookup'.was = lookup.was, lookup.back => lookup'.back,
         lookup.pc = "probe" /\ Ahead(at, lookup) => lookup'.back \/ Ahead(at', lookup)
  PROVE  Found
  <1>1. Seeking(at', lookup')
    BY LookupAt DEF Seeking, Ahead
  <1>2. MissedOnlyByParking'
    BY LookupAt DEF MissedOnlyByParking
  <1> QED
    BY <1>1, <1>2, LookupAt DEF Found, Probing

\* The steps that leave the places and the lookup alone.
LEMMA WaitsQuietly ==
  ASSUME AInv, UNCHANGED <<at, lookup>>
  PROVE  Found
  BY Waits

\* A body that is written.
LEMMA WaitsPut ==
  ASSUME AInv, NEW s \in Places, NEW j \in Jobs, NEW b \in AnyBody, Put(s, j, b),
         UNCHANGED lookup
  PROVE  Found
  <1>1. \A t \in Places, k \in Jobs : at'[t][k] = IF t = s /\ k = j THEN b ELSE at[t][k]
    <2>1. Shape
      BY DEF AInv, IInv
    <2> QED
      BY SMT, <2>1, PutEffect
  <1>2. b # None
    BY BodyAssumption DEF AnyBody
  <1>3. \A t \in Places, k \in Jobs : at[t][k] # None => at'[t][k] # None
    BY <1>1, <1>2
  <1>4. lookup.pc = "probe" /\ Ahead(at, lookup) => Ahead(at', lookup)
    BY SMT, <1>3, LookupAt, AheadGrows
  <1> QED
    BY <1>4, Waits

\* A record that is deleted, of which a later place has a copy.
LEMMA WaitsDelete ==
  ASSUME AInv, NEW s \in {"incoming", "to_do", "to_finalize"}, NEW j \in Jobs, Delete(s, j),
         In(at, Later(s), j), lookup'.pc = lookup.pc, lookup'.job = lookup.job,
         lookup'.op = lookup.op, lookup'.i = lookup.i, lookup'.was = lookup.was,
         lookup.back => lookup'.back
  PROVE  Found
  <1>1. /\ at' \in AtType
        /\ \A t \in Places, k \in Jobs : at'[t][k] = IF t = s /\ k = j THEN None ELSE at[t][k]
    <2>1. Shape
      BY DEF AInv, IInv
    <2>2. s \in Places
      BY PlaceIs
    <2> QED
      BY <2>1, <2>2, DeleteEffect
  <1>2. In(at', Later(s), j)
    <2>1. Later(s) \subseteq Places \ {s}
      BY DEF Later, Places
    <2> QED
      BY <1>1, <2>1 DEF In
  <1>3. lookup.pc = "probe" /\ Ahead(at, lookup) => Ahead(at', lookup)
    BY SMT, <1>1, <1>2, LookupAt, AheadLeaves
  <1> QED
    BY <1>3, Waits

\* The steps of process-submissions alone.
LEMMA ProcessFinds ==
  ASSUME AInv, ProcessStep
  PROVE  Found
  <1>0. IInv /\ PS \in Movers
    BY TwoMovers DEF AInv
  <1>1. UNCHANGED lookup
    BY ZenonT(60) DEF ProcessStep, StartProcess, ReadAndScore, WriteRows, MarkRead,
       FinalizeRead, RouteEval, DeleteRouted, CommitChunk, RowsWritten, MarkPut, MarkDelete,
       ListScored, FinalRows, Archive
  <1>2. \/ UNCHANGED at \/ RouteEval \/ DeleteRouted \/ MarkPut \/ MarkDelete \/ Archive
    BY ZenonT(60) DEF ProcessStep, StartProcess, ReadAndScore, WriteRows, MarkRead,
       FinalizeRead, CommitChunk, RowsWritten, ListScored, FinalRows, store
  <1>3. CASE RouteEval
    <2>1. mover[PS].job \in Jobs /\ mover[PS].body \in AnyBody
      BY <1>0, <1>3, Local DEF RouteEval, At, Working, Carrying
    <2> QED
      BY <1>1, <1>3, <2>1, PlaceIs, WaitsPut DEF RouteEval
  <1>4. CASE DeleteRouted
    <2>1. mover[PS].job \in Jobs
      BY <1>0, <1>4, Local DEF DeleteRouted, At, Working
    <2>2. In(at, {"to_do", "parked", "to_finalize", "processed"}, mover[PS].job)
      BY <1>0, <1>4 DEF DeleteRouted, At, IInv, Copied, Safe
    <2>3. In(at, Later("incoming"), mover[PS].job)
      BY <2>2 DEF In, Later
    <2> QED
      BY <1>1, <1>4, <2>1, <2>3, WaitsDelete DEF DeleteRouted
  <1>5. CASE MarkPut
    <2>1. mover[PS].job \in Jobs /\ mover[PS].body \in AnyBody
      BY <1>0, <1>5, Local DEF MarkPut, At, Working, Carrying
    <2> QED
      BY <1>1, <1>5, <2>1, PlaceIs, WaitsPut DEF MarkPut
  <1>6. CASE MarkDelete
    <2>1. mover[PS].job \in Jobs
      BY <1>0, <1>6, Local DEF MarkDelete, At, Working
    <2>2. In(at, {"processed"}, mover[PS].job)
      BY <1>0, <1>6 DEF MarkDelete, At, IInv, Copied, Safe
    <2>3. In(at, Later("incoming"), mover[PS].job)
      BY <2>2 DEF In, Later
    <2> QED
      BY <1>1, <1>6, <2>1, <2>3, WaitsDelete DEF MarkDelete
  <1>7. CASE Archive
    <2>1. mover[PS].job \in Jobs /\ mover[PS].body \in AnyBody
      BY <1>0, <1>7, Local DEF Archive, At, Working, Carrying
    <2> QED
      BY <1>1, <1>7, <2>1, PlaceIs, WaitsPut DEF Archive
  <1> QED
    BY <1>1, <1>2, <1>3, <1>4, <1>5, <1>6, <1>7, WaitsQuietly

\* The steps of score-eval alone.
LEMMA EvalFinds ==
  ASSUME AInv, ScoreEvalStep
  PROVE  Found
  <1>0. IInv /\ SE \in Movers
    BY TwoMovers DEF AInv
  <1>1. UNCHANGED lookup /\ (UNCHANGED at \/ Stage)
    BY ZenonT(60)
       DEF ScoreEvalStep, StartScoreEval, CheckStaged, ReadToDo, CallScore, Stage, store
  <1>2. CASE Stage
    <2>1. mover[SE].job \in Jobs /\ mover[SE].body \in AnyBody
      BY <1>0, <1>2, Local DEF Stage, At, Working, Carrying
    <2> QED
      BY <1>1, <1>2, <2>1, PlaceIs, WaitsPut DEF Stage
  <1> QED
    BY <1>1, <1>2, WaitsQuietly

\* The steps that the two share: only parking from to_finalize/ goes against the order.
LEMMA SharedFinds ==
  ASSUME AInv, NEW m \in Movers, SharedStep(m) \/ StoreError(m) \/ Crash(m)
  PROVE  Found
  <1>0. IInv
    BY DEF AInv
  <1>1. \/ UNCHANGED <<at, lookup>> \/ Dequeue(m) \/ Park(m) \/ Unstage(m)
    BY ZenonT(60) DEF SharedStep, ClearFailedAttempts, ReadAttempts, WriteAttempts, ReadStage,
       EndRun, StoreError, Crash, store
  <1>2. CASE Dequeue(m)
    <2>1. mover[m].job \in Jobs
      BY <1>0, <1>2, Local DEF Dequeue, At, Working
    <2>2. IF m = PS THEN In(at, {"processed"}, mover[m].job)
          ELSE In(at, {"parked", "to_finalize", "processed"}, mover[m].job)
      BY <1>0, <1>2, TwoMovers DEF Dequeue, At, IInv, Copied, Safe
    <2>3. In(at, Later(StageOf(m)), mover[m].job) /\ StageOf(m) \in {"to_do", "to_finalize"}
      BY <2>2 DEF In, Later, StageOf
    <2>4. UNCHANGED lookup /\ Delete(StageOf(m), mover[m].job)
      BY <1>2 DEF Dequeue
    <2> QED
      BY <2>1, <2>3, <2>4, WaitsDelete
  <1>3. CASE Park(m)
    <2>1. mover[m].job \in Jobs /\ mover[m].body \in AnyBody
      BY <1>0, <1>3, Local DEF Park, At, Working, Carrying
    <2> QED
      BY <1>3, <2>1, PlaceIs, WaitsPut DEF Park
  <1>4. CASE Unstage(m)
    <2>1. mover[m].job \in Jobs
      BY <1>0, <1>4, Local DEF Unstage, At, Working
    <2>2. In(at, {"parked"}, mover[m].job)
      BY <1>0, <1>4 DEF Unstage, At, IInv, Copied, Safe
    <2>3. /\ lookup'.pc = lookup.pc /\ lookup'.job = lookup.job /\ lookup'.op = lookup.op
          /\ lookup'.i = lookup.i /\ lookup'.was = lookup.was /\ (lookup.back => lookup'.back)
          /\ m = PS /\ lookup.job = mover[m].job => lookup'.back
      BY <1>4, LookupAt DEF Unstage, Question
    <2>4. Delete(StageOf(m), mover[m].job)
      BY <1>4 DEF Unstage
    <2>5. CASE m = SE
      <3>1. StageOf(m) = "to_do"
        BY <2>5, TwoMovers DEF StageOf
      <3>2. In(at, Later("to_do"), mover[m].job)
        BY <2>2 DEF In, Later
      <3> QED
        BY <2>1, <2>3, <2>4, <3>1, <3>2, WaitsDelete
    <2>6. CASE m = PS
      <3>1. \A t \in Places, k \in Jobs :
               at'[t][k] = IF t = StageOf(m) /\ k = mover[m].job THEN None ELSE at[t][k]
        <4>1. Shape /\ StageOf(m) \in Places
          BY <1>0, PlaceNames DEF IInv
        <4> QED
          BY <2>1, <2>4, <4>1, DeleteEffect
      <3>2. lookup.pc = "probe" /\ lookup.job # mover[m].job /\ Ahead(at, lookup)
               => Ahead(at', lookup)
        BY SMT, <3>1, LookupAt, AheadGrows
      <3> QED
        BY <2>3, <2>6, <3>2, Waits
    <2> QED
      BY <2>5, <2>6, TwoMovers
  <1> QED
    BY <1>1, <1>2, <1>3, <1>4, WaitsQuietly

\* A client's submission.
LEMMA RecordFinds ==
  ASSUME AInv, NEW j \in Jobs, NEW b \in Bodies, RecordSubmission(j, b)
  PROVE  Found
  BY PlaceIs, WaitsPut DEF RecordSubmission, AnyBody

\* The steps of a lookup: a place that is passed is empty.
LEMMA LookupFinds ==
  ASSUME AInv, LookupStep \/ \E op \in Lookups, j \in Jobs : StartLookup(op, j)
  PROVE  Found
  <1>0. lookup \in Question /\ lookup.i \in 0 .. 6 /\ Probing(lookup)
    BY LookupAt
  <1>1. ASSUME NEW op \in Lookups, NEW j \in Jobs, StartLookup(op, j) PROVE Found
    <2>1. /\ lookup'.pc = "probe" /\ lookup'.i = 1 /\ lookup'.op = op /\ lookup'.job = j
          /\ lookup'.was = HasRecord(j) /\ UNCHANGED at
      BY <1>1 DEF StartLookup, store
    <2>2. Len(Order(op)) \in 5 .. 6
      BY SMT, OrderFacts
    <2>3. ASSUME NEW s \in Places PROVE \E k \in 1 .. Len(Order(op)) : Order(op)[k] = s
      <3>1. CASE op = "find_outcome"
        BY SMT, <3>1, OrderFacts DEF Places
      <3>2. CASE op # "find_outcome"
        BY SMT, <3>2, OrderFacts DEF Places
      <3> QED
        BY <3>1, <3>2
    <2>4. Seeking(at', lookup')
      <3>1. Order(lookup'.op) = Order(op)
        BY <2>1
      <3>2. HasRecord(j) => \E k \in 1 .. Len(Order(op)) : at[Order(op)[k]][j] # None
        BY <2>3 DEF HasRecord
      <3> QED
        BY <2>1, <3>1, <3>2 DEF Seeking, Ahead
    <2>5. MissedOnlyByParking'
      BY <2>1 DEF MissedOnlyByParking
    <2>6. lookup'.i \in 0 .. 6 /\ Probing(lookup')
      <3>1. Order(lookup'.op) = Order(op)
        BY <2>1
      <3>2. 1 \in 1 .. Len(Order(op)) /\ 1 \in 0 .. 6
        BY SMT, <2>2
      <3> QED
        BY ZenonT(60), <2>1, <3>1, <3>2 DEF Probing
    <2> QED
      BY <2>4, <2>5, <2>6 DEF Found
  <1>2. CASE Probe
    <2> DEFINE o == Order(lookup.op)
               empty == at[o[lookup.i]][lookup.job] = None
    <2>1. lookup.i \in 1 .. Len(o) /\ Len(o) \in 5 .. 6 /\ lookup.pc = "probe"
      BY SMT, <1>0, <1>2, OrderFacts DEF Probe, Probing
    <2>2. /\ lookup'.op = lookup.op /\ lookup'.job = lookup.job /\ lookup'.was = lookup.was
          /\ lookup'.back = lookup.back
          /\ \/ lookup'.pc = "found" /\ lookup'.i = lookup.i
             \/ /\ empty /\ lookup.i < Len(o)
                /\ lookup'.pc = "probe" /\ lookup'.i = lookup.i + 1
             \/ /\ empty /\ ~ (lookup.i < Len(o))
                /\ lookup'.pc = "absent" /\ lookup'.i = lookup.i
      BY <1>0, <1>2, <2>1 DEF Probe, Question
    <2>3. lookup.was /\ ~ lookup.back /\ empty =>
             \E k \in lookup.i + 1 .. Len(o) : at[o[k]][lookup.job] # None
      <3> SUFFICES ASSUME lookup.was, ~ lookup.back, empty
                   PROVE  \E k \in lookup.i + 1 .. Len(o) : at[o[k]][lookup.job] # None
        OBVIOUS
      <3>1. PICK k \in lookup.i .. Len(o) : at[o[k]][lookup.job] # None
        BY <2>1, LookupAt DEF Seeking, Ahead
      <3>2. k # lookup.i
        BY <3>1
      <3> QED
        BY SMT, <2>1, <3>1, <3>2
    <2>4. UNCHANGED at
      BY <1>2 DEF Probe, store
    <2>5. Seeking(at', lookup')
      BY <2>1, <2>2, <2>3, <2>4 DEF Seeking, Ahead
    <2>6. MissedOnlyByParking'
      <3>1. ~ (lookup.i < Len(o)) => ~ \E k \in lookup.i + 1 .. Len(o) : TRUE
        BY SMT, <2>1
      <3> HIDE DEF o, empty
      <3> QED
        BY <2>2, <2>3, <3>1 DEF MissedOnlyByParking
    <2>7. lookup'.i \in 0 .. 6 /\ Probing(lookup')
      <3>1. Order(lookup'.op) = o
        BY <2>2
      <3> HIDE DEF o, empty
      <3>2. \A i, n : n \in 5 .. 6 /\ i \in 1 .. n =>
               i \in Int /\ n \in Int /\ 1 <= i /\ i <= n /\ n <= 6
        BY SMT
      <3>3. lookup.i \in Int /\ Len(o) \in Int /\ 1 <= lookup.i /\ lookup.i <= Len(o) /\ Len(o) <= 6
        BY ZenonT(60), <2>1, <3>2
      <3>4. lookup'.i \in 1 .. Len(o)
        BY SMT, <2>2, <3>3
      <3> QED
        BY SMT, <3>1, <3>3, <3>4 DEF Probing
    <2> QED
      BY <2>5, <2>6, <2>7 DEF Found
  <1>3. ASSUME lookup' = NoLookup PROVE Found
    BY SMT, <1>3 DEF NoLookup, Probing, Seeking, MissedOnlyByParking, Found
  <1> QED
    BY <1>1, <1>2, <1>3 DEF LookupStep, EndLookup, RecordSystemFailure

\* A fault is one of those that are allowed for.
LEMMA FaultsTyped ==
  ASSUME AInv, Next
  PROVE  faults' \in 0 .. MaxFaults
  <1>0. faults \in 0 .. MaxFaults /\ MaxFaults \in Nat
    BY CountAssumption DEF AInv, Values
  <1>1. (\E kind : Fault(kind)) \/ UNCHANGED faults
    <2>1. ProcessStep => (\E kind : Fault(kind)) \/ UNCHANGED faults
      BY ZenonT(60) DEF ProcessStep, StartProcess, ReadAndScore, WriteRows, MarkRead, FinalizeRead,
         RouteEval, DeleteRouted, CommitChunk, RowsWritten, MarkPut, MarkDelete, ListScored,
         FinalRows, Archive
    <2>2. ScoreEvalStep => (\E kind : Fault(kind)) \/ UNCHANGED faults
      BY ZenonT(60) DEF ScoreEvalStep, StartScoreEval, CheckStaged, ReadToDo, CallScore, Stage
    <2>3. ASSUME NEW m \in Movers, SharedStep(m) \/ StoreError(m) \/ Crash(m)
          PROVE  (\E kind : Fault(kind)) \/ UNCHANGED faults
      BY ZenonT(60), <2>3 DEF SharedStep, Dequeue, ClearFailedAttempts, ReadAttempts,
         WriteAttempts, ReadStage, Park, Unstage, EndRun, StoreError, Crash
    <2>4. ASSUME \/ \E j \in Jobs, b \in Bodies : RecordSubmission(j, b)
                 \/ \E op \in Lookups, j \in Jobs : StartLookup(op, j)
                 \/ LookupStep
          PROVE  UNCHANGED faults
      BY ZenonT(60), <2>4 DEF RecordSubmission, StartLookup, LookupStep, Probe, EndLookup,
         RecordSystemFailure
    <2> QED
      BY <2>1, <2>2, <2>3, <2>4 DEF Next
  <1>2. (\E kind : Fault(kind)) => faults < MaxFaults /\ faults' = faults + 1
    BY DEF Fault
  <1> QED
    BY SMT, <1>0, <1>1, <1>2

\* Only a client's submission is counted.
LEMMA SubmitsTyped ==
  ASSUME AInv, Next
  PROVE  submits' \in 0 .. MaxSubmits
  <1>0. submits \in 0 .. MaxSubmits /\ MaxSubmits \in Nat
    BY CountAssumption DEF AInv, Values
  <1>1. (submits < MaxSubmits /\ submits' = submits + 1) \/ UNCHANGED submits
    <2>1. ProcessStep \/ ScoreEvalStep => UNCHANGED submits
      BY ZenonT(60) DEF ProcessStep, StartProcess, ReadAndScore, WriteRows, MarkRead,
         FinalizeRead, RouteEval, DeleteRouted, CommitChunk, RowsWritten, MarkPut, MarkDelete,
         ListScored, FinalRows, Archive, ScoreEvalStep, StartScoreEval, CheckStaged, ReadToDo,
         CallScore, Stage
    <2>2. ASSUME NEW m \in Movers, SharedStep(m) \/ StoreError(m) \/ Crash(m)
          PROVE  UNCHANGED submits
      BY ZenonT(60), <2>2 DEF SharedStep, Dequeue, ClearFailedAttempts, ReadAttempts,
         WriteAttempts, ReadStage, Park, Unstage, EndRun, StoreError, Crash
    <2>3. LookupStep \/ (\E op \in Lookups, j \in Jobs : StartLookup(op, j)) => UNCHANGED submits
      BY ZenonT(60) DEF StartLookup, LookupStep, Probe, EndLookup, RecordSystemFailure
    <2> QED
      BY <2>1, <2>2, <2>3 DEF Next, RecordSubmission
  <1> QED
    BY SMT, <1>0, <1>1

\* What is written to the warehouse is a body.
LEMMA WarehouseTyped ==
  ASSUME AInv, Next
  PROVE  warehouse' \in [Jobs -> SUBSET AnyBody]
  <1>0. warehouse \in [Jobs -> SUBSET AnyBody] /\ IInv
    BY DEF AInv, Values
  <1>1. ASSUME NEW j \in Jobs, WriteRows(j) PROVE warehouse' \in [Jobs -> SUBSET AnyBody]
    <2>1. mover[PS].out[j] # None
      BY <1>1, Process DEF WriteRows, At, Filing, Committing, Scored
    <2>2. mover[PS].out[j] \in AnyBody
      BY <2>1, Process
    <2> QED
      BY <1>0, <1>1, <2>2 DEF WriteRows
  <1>2. CASE FinalRows
    <2>1. mover[PS].body \in AnyBody
      BY <1>0, <1>2, Local, TwoMovers DEF FinalRows, At, Carrying
    <2> QED
      BY <1>0, <1>2, <2>1 DEF FinalRows
  <1> QED
    BY <1>0, <1>1, <1>2, RowSteps

\* In the initial state nothing is stored, and nothing is on its way.
LEMMA InitFits == Init => AInv
  <1> SUFFICES ASSUME Init PROVE AInv
    OBVIOUS
  <1>1. mover[PS] = Idle /\ lookup.pc = "idle" /\ lookup.i = 0
    BY TwoMovers DEF Init, NoLookup
  <1>2. Values
    BY SMT, <1>1, CountAssumption DEF Init, Values, Probing
  <1>3. Filing(mover[PS], warehouse)
    <2>1. Idle.pc \in Calm
      BY IdleTyped DEF Calm
    <2> QED
      BY <1>1, <2>1, CalmFiles
  <1>4. Seeking(at, lookup) /\ MissedOnlyByParking
    BY <1>1 DEF Seeking, MissedOnlyByParking
  <1> QED
    BY <1>2, <1>3, <1>4, InitSafe DEF AInv

\* Every step keeps the invariant.
LEMMA KeepsFitting ==
  ASSUME AInv, [Next]_vars
  PROVE  AInv'
  <1>0. IInv'
    BY KeepsRecords DEF AInv
  <1>1. CASE UNCHANGED vars
    BY <1>0, <1>1 DEF vars, AInv, Values, MissedOnlyByParking
  <1>2. CASE Next
    <2>1. Found
      BY <1>2, ProcessFinds, EvalFinds, SharedFinds, RecordFinds, LookupFinds DEF Next
    <2>2. Values'
      BY <1>2, <2>1, FaultsTyped, WarehouseTyped, SubmitsTyped DEF Values, Found
    <2>3. Filing(mover'[PS], warehouse')
      BY <1>2, KeepsFiling
    <2> QED
      BY <1>0, <2>1, <2>2, <2>3 DEF AInv, Found
  <1> QED
    BY <1>1, <1>2

\* The variables keep their shape: in particular, no row is written for a job that
\* did not score, and a lookup stays within the places it tries.
THEOREM Typed == Spec => []TypeOK
  <1>1. AInv => TypeOK
    <2> SUFFICES ASSUME AInv PROVE TypeOK
      OBVIOUS
    <2>1. lookup \in Question /\ lookup.i \in 0 .. 6
      BY DEF AInv, IInv, Shape, Values
    <2>2. lookup \in [pc : {"idle", "probe", "found", "absent"}, job : Jobs \cup {None},
                      op : {"none", "has_record", "find_outcome", "retire"},
                      i : 0 .. 6, was : BOOLEAN, back : BOOLEAN]
      BY <2>1, LookupAssumption DEF Question
    <2> QED
      BY <2>2 DEF AInv, IInv, Shape, Values, TypeOK, AtType
  <1>2. AInv /\ [Next]_vars => AInv'
    BY KeepsFitting
  <1> QED
    BY <1>1, <1>2, InitFits, PTL DEF Spec

\* Which steps write processed/.
LEMMA ArchiveSteps ==
  ASSUME AInv, Next, NEW j \in Jobs, at'["processed"][j] # at["processed"][j]
  PROVE  /\ MarkPut \/ Archive
         /\ j = mover[PS].job /\ at'["processed"][j] = mover[PS].body
  <1>0. IInv /\ Shape
    BY DEF AInv, IInv
  <1>1. ASSUME NEW s \in Places, NEW k \in Jobs, NEW b \in AnyBody \cup {None}, Put(s, k, b)
        PROVE  s = "processed" /\ k = j /\ at'["processed"][j] = b
    <2>1. \A t \in Places, i \in Jobs : at'[t][i] = IF t = s /\ i = k THEN b ELSE at[t][i]
      BY SMT, <1>0, <1>1, PutEffect
    <2> QED
      BY <2>1, PlaceIs
  <1>2. ASSUME NEW m \in Movers, mover[m].pc \in Working
        PROVE  mover[m].job \in Jobs /\ mover[m].body \in AnyBody \cup {None}
    BY <1>0, <1>2, Local DEF MoverType
  <1>3. \A m \in Movers : StageOf(m) \in Places /\ StageOf(m) # "processed"
    BY PlaceIs DEF StageOf
  <1>4. ASSUME NEW m \in Movers, Dequeue(m) \/ Park(m) \/ Unstage(m) PROVE FALSE
    <2>1. mover[m].pc \in Working
      BY <1>4 DEF Dequeue, Park, Unstage, At, Working
    <2> QED
      BY <1>1, <1>2, <1>3, <1>4, <2>1, PlaceIs DEF Dequeue, Park, Unstage, Delete
  <1>5. ASSUME RouteEval \/ DeleteRouted \/ MarkDelete PROVE FALSE
    <2>1. PS \in Movers /\ mover[PS].pc \in Working
      BY <1>5, TwoMovers DEF RouteEval, DeleteRouted, MarkDelete, At, Working
    <2> QED
      BY <1>1, <1>2, <1>5, <2>1, PlaceIs DEF RouteEval, DeleteRouted, MarkDelete, Delete
  <1>6. ASSUME Stage PROVE FALSE
    <2>1. SE \in Movers /\ mover[SE].pc \in Working
      BY <1>6, TwoMovers DEF Stage, At, Working
    <2> QED
      BY <1>1, <1>2, <1>6, <2>1, PlaceIs DEF Stage
  <1>7. ASSUME \/ LookupStep \/ \E op \in Lookups, k \in Jobs : StartLookup(op, k)
               \/ \E k \in Jobs, b \in Bodies : RecordSubmission(k, b)
        PROVE  FALSE
    <2>1. \/ UNCHANGED at
          \/ \E k \in Jobs, b \in AnyBody : Put("incoming", k, b)
      <3>1. lookup.pc = "absent" => lookup.job \in Jobs
        BY <1>0 DEF IInv, Asked
      <3> QED
        BY <1>7, <3>1 DEF LookupStep, StartLookup, Probe, EndLookup, RecordSystemFailure,
           RecordSubmission, AnyBody, store
    <2> QED
      BY <1>1, <2>1, PlaceIs
  <1>8. UNCHANGED at => FALSE
    OBVIOUS
  <1>9. ASSUME MarkPut \/ Archive
        PROVE  j = mover[PS].job /\ at'["processed"][j] = mover[PS].body
    <2>1. PS \in Movers /\ mover[PS].pc \in Working
      BY <1>9, TwoMovers DEF MarkPut, Archive, At, Working
    <2> QED
      BY <1>1, <1>2, <1>9, <2>1, PlaceIs DEF MarkPut, Archive
  <1>10. ProcessStep => MarkPut \/ Archive
    <2>1. ProcessStep => \/ UNCHANGED at \/ RouteEval \/ DeleteRouted \/ MarkPut \/ MarkDelete
                         \/ Archive
      BY ZenonT(60) DEF ProcessStep, StartProcess, ReadAndScore, WriteRows, MarkRead,
         FinalizeRead, CommitChunk, RowsWritten, ListScored, FinalRows, store
    <2> QED
      BY <1>5, <1>8, <2>1
  <1>11. ~ ScoreEvalStep
    <2>1. ScoreEvalStep => UNCHANGED at \/ Stage
      BY ZenonT(60) DEF ScoreEvalStep, StartScoreEval, CheckStaged, ReadToDo, CallScore, store
    <2> QED
      BY <1>6, <1>8, <2>1
  <1>12. ASSUME NEW m \in Movers, SharedStep(m) \/ StoreError(m) \/ Crash(m) PROVE FALSE
    <2>1. UNCHANGED at \/ Dequeue(m) \/ Park(m) \/ Unstage(m)
      BY ZenonT(60), <1>12 DEF SharedStep, ClearFailedAttempts, ReadAttempts, WriteAttempts,
         ReadStage, EndRun, StoreError, Crash, store
    <2> QED
      BY <1>4, <1>8, <2>1
  <1> QED
    BY <1>7, <1>9, <1>10, <1>11, <1>12 DEF Next

\* A body is archived only after its rows are in the warehouse, or when its partition is
\* closed to them, or when mark_processed reads it in incoming/ in the place of the one
\* whose rows the run has written: for every number of jobs, bodies and faults, with
\* clients that supersede what they submitted and retirements that write failures of
\* their own at any point.
THEOREM RowsBeforeArchive == Spec => ArchivedHasRows
  <1> DEFINE Step == \A j \in Jobs :
                LET b == at'["processed"][j]
                IN  b # at["processed"][j] =>
                       \/ HasRows(j, b)
                       \/ At(PS, "mark put") /\ mover[PS].out[j] # b /\ HasRows(j, mover[PS].out[j])
  <1>1. ASSUME AInv, Next PROVE Step
    <2> SUFFICES ASSUME NEW j \in Jobs, at'["processed"][j] # at["processed"][j]
                 PROVE  \/ HasRows(j, at'["processed"][j])
                        \/ /\ At(PS, "mark put") /\ mover[PS].out[j] # at'["processed"][j]
                           /\ HasRows(j, mover[PS].out[j])
      OBVIOUS
    <2>1. /\ MarkPut \/ Archive
          /\ j = mover[PS].job /\ at'["processed"][j] = mover[PS].body
      BY <1>1, ArchiveSteps
    <2>2. Filing(mover[PS], warehouse)
      BY <1>1 DEF AInv
    <2>3. CASE MarkPut
      <3>1. mover[PS].pc = "mark put"
        BY <2>3 DEF MarkPut, At
      <3>2. Scored(mover[PS].out[j]) /\ Filed(warehouse, j, mover[PS].out[j])
        BY <2>1, <2>2, <3>1 DEF Filing, Marking
      <3> QED
        BY <3>1, <3>2 DEF At, HasRows, Filed
    <2>4. CASE Archive
      <3>1. mover[PS].body \in warehouse[j]
        BY <2>1, <2>2, <2>4 DEF Filing, Archive, At
      <3> QED
        BY <2>1, <3>1 DEF HasRows
    <2> QED
      BY <2>1, <2>3, <2>4
  <1>2. AInv /\ [Next]_vars => AInv'
    BY KeepsFitting
  <1>3. AInv /\ [Next]_vars => [Step]_vars
    BY <1>1
  <1> QED
    BY <1>2, <1>3, InitFits, PTL DEF Spec, ArchivedHasRows

\* has_record, find_outcome and the lookup of a retirement miss a record that was there
\* when they began only when process-submissions parked it from to_finalize/ meanwhile:
\* whatever else the crons, their crashes and store errors do between two probes, every
\* other move goes to a place that is tried later.
THEOREM LookupsFind == Spec => []MissedOnlyByParking
  <1>1. AInv => MissedOnlyByParking
    BY DEF AInv
  <1>2. AInv /\ [Next]_vars => AInv'
    BY KeepsFitting
  <1> QED
    BY <1>1, <1>2, InitFits, PTL DEF Spec
=============================================================================
