----------------------------- MODULE AtomicEntry -----------------------------
(* What the queue's rename promises: the entry of a job is one object, a call  *)
(* moves it from its source key to its destination key in one step, and the    *)
(* answer of a call agrees with what became of the entry.                      *)
CONSTANTS Calls, Keys

VARIABLES at,       \* the keys that hold the entry: one, or none once it is deleted
          call      \* per call its state, its source and its destination

vars == <<at, call>>

Init ==
    /\ \E k \in Keys : at = {k}
    /\ \E k \in Keys : call = [i \in Calls |-> [state |-> "idle", src |-> k, dst |-> k]]

Set(i, s) == call' = [call EXCEPT ![i] = [call[i] EXCEPT !.state = s]]

Begin(i) ==
    /\ call[i].state = "idle"
    /\ call'[i] \in [state : {"open"}, src : Keys, dst : Keys]
    /\ call' = [call EXCEPT ![i] = call'[i]]
    /\ UNCHANGED at

\* The call takes effect; late, it may do so after its answer.
Take(i) ==
    /\ call[i].state # "idle" /\ call[i].src \in at
    /\ at' = {call[i].dst}
    /\ UNCHANGED call \/ (call[i].state = "open" /\ Set(i, "acked"))

\* The call finds its source gone.
Refuse(i) ==
    /\ call[i].state = "open" /\ call[i].src \notin at
    /\ Set(i, "refused") /\ UNCHANGED at

\* Moved: the call took effect, or the entry is at the destination.
AnswerMoved(i) ==
    /\ \/ call[i].state = "acked"
       \/ call[i].state \in {"open", "refused"} /\ call[i].dst \in at
    /\ Set(i, "moved") /\ UNCHANGED at

\* SourceGone: the source was gone, and the entry is not at the destination.
AnswerGone(i) ==
    /\ call[i].state = "refused" /\ call[i].dst \notin at
    /\ Set(i, "gone") /\ UNCHANGED at

\* An error promises nothing, and a call that took effect gives one only if the entry has
\* gone on since.
AnswerError(i) ==
    /\ \/ call[i].state \in {"open", "refused"}
       \/ call[i].state = "acked" /\ call[i].dst \notin at
    /\ Set(i, "error") /\ UNCHANGED at

Delete == at' = {} /\ UNCHANGED call

Next ==
    \/ \E i \in Calls : \/ Begin(i) \/ Take(i) \/ Refuse(i)
                        \/ AnswerMoved(i) \/ AnswerGone(i) \/ AnswerError(i)
    \/ Delete

Spec == Init /\ [][Next]_vars
=============================================================================
