----------------------------- MODULE RenameStore -----------------------------
(* The renames of S3TodoStore for the entry of one job: RenameObject requests  *)
(* that are retried, lost or served late, the read of the destination after a  *)
(* failed send, and the one resend of a promotion.                             *)
EXTENDS Naturals

CONSTANTS Calls,        \* the calls made on the entry, 1 .. n
          Dates         \* expires_at values, positive numbers

ASSUME RenameAssumption ==
    Calls \subseteq Nat \ {0} /\ Dates \subseteq Nat \ {0}

VARIABLES backend,  \* what the endpoint's RenameObject does
          opened,   \* validate_backend: "no", "yes", or "refused"
          objects,  \* the keys of todo/ that hold the job's body
          call

vars == <<backend, opened, objects, call>>

\* A leased key names the call that made it: it holds its client and its lease expiry.
Tmp == <<"tmp", 0, 0>>
Avail(d) == <<"avail", d, 0>>
Leased(d, i) == <<"leased", d, i>>
Keys == {Tmp} \cup {Avail(d) : d \in Dates} \cup {Leased(d, i) : d \in Dates, i \in Calls}

Answers == {"moved", "gone", "error"}
Kinds == {"promote", "claim", "renew", "recycle", "redate"}
NoCall == [pc |-> "idle", kind |-> "claim", src |-> Tmp, dst |-> Tmp,
           heard |-> "nothing", late |-> "no", sends |-> 0]

Init ==
    /\ backend \in {"move", "copy", "phantom", "none"} /\ opened = "no"
    /\ objects = {Tmp}
    /\ call = [i \in Calls |-> NoCall]

Set(i, r) == call' = [call EXCEPT ![i] = r]

\* RenameObject at each kind of endpoint; "none" refuses it.
RenameObject(b, held, src, dst) ==
    CASE b = "move"    -> (held \ {src}) \cup {dst}
      [] b = "copy"    -> held \cup {dst}
      [] b = "phantom" -> held \ {src}
      [] b = "none"    -> held

\* Mutant of Probe: the source is not read back.
ProbeDestinationOnly ==
    /\ opened = "no"
    /\ LET left == RenameObject(backend, {"src"}, "src", "dst")
       IN opened' = IF backend # "none" /\ "dst" \in left THEN "yes" ELSE "refused"
    /\ UNCHANGED <<backend, objects, call>>

\* validate_backend, before a command renames: a probe object must move.
Probe ==
    /\ opened = "no"
    /\ LET left == RenameObject(backend, {"src"}, "src", "dst")
       IN opened' = IF backend # "none" /\ "dst" \in left /\ "src" \notin left
                    THEN "yes" ELSE "refused"
    /\ UNCHANGED <<backend, objects, call>>

\* A caller takes a key it has listed or was given; the entry may go on before it sends.
\* Calls are numbered in the order they begin.
Begin(i) ==
    /\ opened = "yes" /\ call[i].pc = "idle" /\ \A j \in Calls : j < i => call[j].pc # "idle"
    /\ \E kind \in Kinds, d \in Dates :
          \E src \in objects, dst \in Keys :
             /\ CASE kind = "promote" -> src = Tmp /\ dst = Avail(d)
                  [] kind = "claim"   -> src = Avail(d) /\ dst = Leased(d, i)
                  [] kind = "renew"   -> (\E j \in Calls : src = Leased(d, j)) /\ dst = Leased(d, i)
                  [] kind = "recycle" -> (\E j \in Calls : src = Leased(d, j)) /\ dst = Avail(d)
                  [] kind = "redate"  -> src = Avail(d) /\ (\E e \in Dates \ {d} : dst = Avail(e))
             /\ Set(i, [NoCall EXCEPT !.pc = "send", !.kind = kind, !.src = src, !.dst = dst])
    /\ UNCHANGED <<backend, opened, objects>>

\* A RenameObject is on the wire.
Send(i) ==
    /\ call[i].pc = "send"
    /\ Set(i, [call[i] EXCEPT !.pc = "wait", !.heard = "nothing", !.sends = @ + 1])
    /\ UNCHANGED <<backend, opened, objects>>

\* The endpoint serves an attempt.
Effect(c) == objects' = IF c.src \in objects THEN RenameObject(backend, objects, c.src, c.dst)
                        ELSE objects

Serve(i) ==
    /\ call[i].pc = "wait"
    /\ Effect(call[i])
    /\ IF call[i].src \in objects
       THEN Set(i, [call[i] EXCEPT !.pc = "ok", !.heard = "ok"])
       ELSE Set(i, [call[i] EXCEPT !.pc = "read", !.heard = "NoSuchKey"])
    /\ UNCHANGED <<backend, opened>>

\* An attempt that was given up, its answer lost or not yet made, is served all the same:
\* at once, late, or never.
ServeLate(i) ==
    /\ call[i].late = "yes"
    /\ Effect(call[i])
    /\ UNCHANGED <<backend, opened, call>>

\* The SDK gives an attempt up and makes another one.
Retry(i) ==
    /\ call[i].pc = "wait"
    /\ Set(i, [call[i] EXCEPT !.late = "yes"])
    /\ UNCHANGED <<backend, opened, objects>>

\* Mutant of GiveUp: the client of a promotion sets no time limit.
GiveUpUnlessPromotion(i) ==
    /\ call[i].pc = "wait" /\ call[i].kind # "promote"
    /\ Set(i, [call[i] EXCEPT !.late = "yes", !.heard = "error", !.pc = "read"])
    /\ UNCHANGED <<backend, opened, objects>>

\* The send ends with an error that does not tell what became of it.
GiveUp(i) ==
    /\ call[i].pc = "wait"
    /\ Set(i, [call[i] EXCEPT !.late = "yes", !.heard = "error", !.pc = "read"])
    /\ UNCHANGED <<backend, opened, objects>>

\* The call goes on; nothing of its requests is kept once it has answered.
Go(i, next) ==
    Set(i, IF next \in Answers
           THEN [NoCall EXCEPT !.pc = next, !.src = call[i].src, !.dst = call[i].dst,
                               !.late = call[i].late]
           ELSE [call[i] EXCEPT !.pc = next])

\* What a rename means to its caller: a claim reads the body at its new key, a promotion
\* has no use for a source that is gone.
Moved(c) == IF c.kind = "claim" THEN "body" ELSE "moved"
SourceGone(c) == IF c.kind = "promote" THEN "error" ELSE "gone"

\* Mutant of MayResend: the promotion sends again as often as it fails.
MayResendAgain(c) == c.kind = "promote"

\* One resend of a promotion.
MayResend(c) == c.kind = "promote" /\ c.sends = 1

Conclude(i) ==
    /\ call[i].pc = "ok"
    /\ Go(i, Moved(call[i]))
    /\ UNCHANGED <<backend, opened, objects>>

\* Mutant of ReadBack: NoSuchKey is taken for the answer.
ReadBackTrusting(i) ==
    LET c == call[i]
    IN /\ c.pc = "read"
       /\ \E next \in {IF c.heard = "NoSuchKey" THEN SourceGone(c)
                       ELSE IF c.dst \in objects THEN Moved(c) ELSE "error",
                       "error", IF MayResend(c) THEN "send" ELSE "error"} :
             Go(i, next)
       /\ UNCHANGED <<backend, opened, objects>>

\* The destination is read after a failed send.  The read may fail; a promotion that cannot
\* tell sends once more while its budget lasts.
ReadBack(i) ==
    LET c == call[i]
    IN /\ c.pc = "read"
       /\ \/ c.dst \in objects /\ Go(i, Moved(c))
          \/ /\ c.dst \notin objects
             /\ \/ c.heard = "NoSuchKey" /\ Go(i, SourceGone(c))
                \/ c.heard = "error" /\ Go(i, "error")
                \/ c.heard = "error" /\ MayResend(c) /\ Go(i, "send")
          \/ Go(i, "error")
       /\ UNCHANGED <<backend, opened, objects>>

\* claim_job reads the leased body.
ReadBody(i) ==
    LET c == call[i]
    IN /\ c.pc = "body"
       /\ Go(i, IF c.dst \in objects THEN "moved" ELSE "error")
       /\ UNCHANGED <<backend, opened, objects>>

\* delete_avail, delete_lease: the job is finished or torn down.
DeleteKey ==
    /\ opened = "yes" /\ \E k \in objects : objects' = objects \ {k}
    /\ UNCHANGED <<backend, opened, call>>

CallerStep(i) == Send(i) \/ GiveUp(i) \/ Conclude(i) \/ ReadBack(i) \/ ReadBody(i)

Next ==
    \/ Probe \/ DeleteKey
    \/ \E i \in Calls : Begin(i) \/ CallerStep(i) \/ Serve(i) \/ ServeLate(i) \/ Retry(i)

Spec == Init /\ [][Next]_vars

\* Every request has a time limit and the caller goes on after it.
FairSpec == Spec /\ \A i \in Calls : WF_vars(CallerStep(i))

-----------------------------------------------------------------------------

Call == [pc : {"idle", "send", "wait", "ok", "read", "body"} \cup Answers, kind : Kinds,
         src : Keys, dst : Keys, heard : {"nothing", "ok", "NoSuchKey", "error"},
         late : {"no", "yes"}, sends : 0 .. 2]

\* The keys and the calls have the shape the code gives them; no call sends three times.
TypeOK ==
    /\ backend \in {"move", "copy", "phantom", "none"} /\ opened \in {"no", "yes", "refused"}
    /\ objects \subseteq Keys /\ call \in [Calls -> Call]

\* The entry of a job is never at two keys (validate_backend, rename_via): two claims of it
\* cannot both stand.
OneObject == \A k, l \in objects : k = l

\* How a call looks from outside: an answer it has heard but not yet given is its state.
StateOf(c) ==
    IF c.pc \in {"idle", "moved", "gone", "error"} THEN c.pc
    ELSE IF c.heard = "ok" THEN "acked" ELSE IF c.heard = "NoSuchKey" THEN "refused" ELSE "open"

View(c) == [state |-> StateOf(c), src |-> c.src, dst |-> c.dst]
EntryCall == [i \in Calls |-> View(call[i])]

Entry == INSTANCE AtomicEntry WITH at <- objects, call <- EntryCall

\* The retried, late and doubtful requests add up to the atomic rename that the queue is
\* built on: every answer is true of the entry (rename_via, claim_job, promote_avail).
IsAtomic == Entry!Spec

\* Every call is answered (the SDK's and the promotion's time limits).
Answered == \A i \in Calls : call[i].pc = "send" ~> call[i].pc \in Answers
=============================================================================
