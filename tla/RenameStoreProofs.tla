------------------------- MODULE RenameStoreProofs -------------------------
(* Proofs about RenameStore: the entry is one object, and the renames with     *)
(* their retries implement the atomic entry of AtomicEntry.                    *)
EXTENDS RenameStore, TLAPS

\* What a caller has heard when it is at a given point of its call.
Knows(c) ==
    /\ c.pc = "send" => c.heard \in {"nothing", "error"} /\ c.sends \in {0, 1}
    /\ c.pc = "wait" => c.heard = "nothing"
    /\ c.pc = "ok" => c.heard = "ok"
    /\ c.pc = "read" => c.heard \in {"NoSuchKey", "error"}
    /\ c.pc = "idle" => c.late = "no"

\* Only a backend that moves is opened, and only an opened store is called.
OpenedMoves ==
    /\ opened = "yes" => backend = "move"
    /\ \A i \in Calls : call[i].pc # "idle" => opened = "yes"

IInv ==
    /\ TypeOK /\ OneObject /\ OpenedMoves
    /\ \A i \in Calls : Knows(call[i])

-----------------------------------------------------------------------------

\* NoCall is a call that has not begun.
LEMMA NoCallTyped == NoCall \in Call /\ Knows(NoCall)
  BY DEF NoCall, Call, Knows, Kinds, Keys, Answers

\* The records that the steps of a call make of it, and how they look from outside.
LEMMA SendRecord ==
    ASSUME NEW c \in Call, Knows(c), c.pc = "send"
    PROVE  LET r == [c EXCEPT !.pc = "wait", !.heard = "nothing", !.sends = @ + 1]
           IN /\ r \in Call /\ Knows(r) /\ r.pc # "idle" /\ r.src = c.src /\ r.dst = c.dst
              /\ StateOf(c) = "open" /\ StateOf(r) = "open"
  <1> DEFINE r == [c EXCEPT !.pc = "wait", !.heard = "nothing", !.sends = @ + 1]
  <1>2. c.sends + 1 \in 0 .. 2 /\ c.late \in {"no", "yes"} /\ c.heard \in {"nothing", "error"}
    BY DEF Knows, Call
  <1>3. /\ r \in Call /\ r.pc = "wait" /\ r.heard = "nothing" /\ r.src = c.src /\ r.dst = c.dst
    BY <1>2 DEF Call
  <1> HIDE DEF r
  <1>4. Knows(r)
    BY <1>3 DEF Knows
  <1>5. StateOf(r) = "open" /\ StateOf(c) = "open"
    BY <1>2, <1>3 DEF StateOf, Answers
  <1> QED
    BY <1>3, <1>4, <1>5 DEF r

Begun(kind, src, dst) == [NoCall EXCEPT !.pc = "send", !.kind = kind, !.src = src, !.dst = dst]
Heard(c, pc, heard, late) == [c EXCEPT !.pc = pc, !.heard = heard, !.late = late]
Gone(c, next) ==
    IF next \in Answers
    THEN [NoCall EXCEPT !.pc = next, !.src = c.src, !.dst = c.dst, !.late = c.late]
    ELSE [c EXCEPT !.pc = next]

\* A call that begins is open (Begin).
LEMMA BeginRecord ==
    ASSUME NEW kind \in Kinds, NEW src \in Keys, NEW dst \in Keys,
           NEW r, r = Begun(kind, src, dst)
    PROVE  r \in Call /\ Knows(r) /\ r.src = src /\ r.dst = dst /\ StateOf(r) = "open"
  <1>1. /\ r \in Call /\ r.pc = "send" /\ r.src = src /\ r.dst = dst /\ r.heard = "nothing"
        /\ r.late = "no" /\ r.sends = 0
    BY NoCallTyped DEF Begun, Call, NoCall
  <1> QED
    BY <1>1 DEF Knows, StateOf, Answers

\* A call that waits is open, and what it hears decides how it looks (Serve, Retry, GiveUp).
LEMMA WaitRecords ==
    ASSUME NEW c \in Call, Knows(c), c.pc = "wait",
           NEW pc, NEW heard, NEW late \in {"no", "yes"},
           NEW r, r = Heard(c, pc, heard, late),
           \/ pc = "ok" /\ heard = "ok"
           \/ pc = "read" /\ heard \in {"NoSuchKey", "error"}
           \/ pc = "wait" /\ heard = "nothing"
    PROVE  /\ r \in Call /\ Knows(r) /\ r.pc # "idle" /\ r.src = c.src /\ r.dst = c.dst
           /\ StateOf(c) = "open"
           /\ StateOf(r) = IF heard = "ok" THEN "acked"
                           ELSE IF heard = "NoSuchKey" THEN "refused" ELSE "open"
  <1>2. c.sends \in 0 .. 2 /\ c.heard = "nothing"
    BY DEF Call, Knows
  <1>3. /\ r \in Call /\ r.pc = pc /\ r.heard = heard /\ r.src = c.src /\ r.dst = c.dst
    BY <1>2 DEF Call, Heard
  <1>4. Knows(r)
    BY <1>3 DEF Knows
  <1>5. StateOf(c) = "open"
    BY <1>2 DEF StateOf, Answers
  <1>6. StateOf(r) = IF heard = "ok" THEN "acked"
                     ELSE IF heard = "NoSuchKey" THEN "refused" ELSE "open"
    BY <1>3 DEF StateOf, Answers
  <1> QED
    BY <1>3, <1>4, <1>5, <1>6

\* Go either answers, or goes on to read the body or to send again.
LEMMA GoRecord ==
    ASSUME NEW c \in Call, c.pc # "idle", Knows(c), NEW next,
           \/ next \in Answers \cup {"body"}
           \/ next = "send" /\ c.heard = "error" /\ c.sends = 1,
           NEW r, r = Gone(c, next)
    PROVE  /\ r \in Call /\ Knows(r) /\ r.pc = next /\ r.src = c.src /\ r.dst = c.dst
           /\ next \in Answers => StateOf(r) = next
           /\ next \notin Answers => r.heard = c.heard
  <1>1. CASE next \in Answers
    <2>1. c.src \in Keys /\ c.dst \in Keys /\ c.late \in {"no", "yes"}
      BY DEF Call
    <2>2. r = [pc |-> next, kind |-> "claim", src |-> c.src, dst |-> c.dst,
               heard |-> "nothing", late |-> c.late, sends |-> 0]
      BY <1>1 DEF NoCall, Gone
    <2>3. r \in Call /\ r.pc = next /\ r.src = c.src /\ r.dst = c.dst
      BY <1>1, <2>1, <2>2 DEF Call, Kinds
    <2>4. Knows(r) /\ StateOf(r) = next
      BY <1>1, <2>3 DEF Knows, StateOf, Answers
    <2> QED
      BY <1>1, <2>3, <2>4
  <1>2. CASE next \in {"body", "send"}
    <2>1. r = [c EXCEPT !.pc = next]
      BY <1>2 DEF Answers, Gone
    <2>3. /\ r \in Call /\ r.pc = next /\ r.heard = c.heard /\ r.sends = c.sends
          /\ r.src = c.src /\ r.dst = c.dst
      BY <1>2, <2>1 DEF Call
    <2>4. Knows(r)
      BY <1>2, <2>3 DEF Knows, Answers
    <2> QED
      BY <1>2, <2>3, <2>4 DEF Answers
  <1> QED
    BY <1>1, <1>2

\* An update of one call is an update of that call of the abstract entry.
LEMMA SetView ==
    ASSUME call \in [Calls -> Call], NEW i \in Calls, NEW r \in Call, Set(i, r)
    PROVE  /\ call' \in [Calls -> Call] /\ call'[i] = r
           /\ \A j \in Calls : j # i => call'[j] = call[j]
           /\ EntryCall' = [EntryCall EXCEPT ![i] = View(r)]
           /\ EntryCall[i] = View(call[i])
  <1>1. call' \in [Calls -> Call] /\ call'[i] = r /\ \A j \in Calls : j # i => call'[j] = call[j]
    BY DEF Set
  <1>2. EntryCall[i] = View(call[i])
    BY DEF EntryCall
  <1>3. EntryCall' = [j \in Calls |-> View(call'[j])]
    BY DEF EntryCall, View, StateOf
  <1>4. \A j \in Calls : View(call'[j]) = IF j = i THEN View(r) ELSE View(call[j])
    BY <1>1
  <1>5. EntryCall' = [EntryCall EXCEPT ![i] = View(r)]
    BY <1>3, <1>4 DEF EntryCall
  <1> QED
    BY <1>1, <1>2, <1>5

\* A new state of a call that keeps its keys.
LEMMA ViewState ==
    ASSUME NEW c, NEW r, r.src = c.src, r.dst = c.dst
    PROVE  View(r) = [View(c) EXCEPT !.state = StateOf(r)]
  BY DEF View

\* A call whose state and keys stay looks the same from outside.
LEMMA SameView ==
    ASSUME NEW c, NEW r, r.src = c.src, r.dst = c.dst, StateOf(r) = StateOf(c)
    PROVE  View(r) = View(c)
  BY DEF View

\* A call that moves on keeps the invariant when it leaves the objects to one key.
LEMMA SetKeeps ==
    ASSUME IInv, NEW i \in Calls, NEW r \in Call, Knows(r), Set(i, r),
           r.pc # "idle" => opened = "yes",
           UNCHANGED <<backend, opened>>, objects' \subseteq Keys, OneObject'
    PROVE  IInv'
  <1>1. /\ call' \in [Calls -> Call] /\ call'[i] = r
        /\ \A j \in Calls : j # i => call'[j] = call[j]
    BY SetView DEF IInv, TypeOK
  <1>2. TypeOK'
    BY <1>1 DEF IInv, TypeOK
  <1>3. \A j \in Calls : Knows(call'[j]) /\ (call'[j].pc # "idle" => opened' = "yes")
    BY <1>1 DEF IInv, OpenedMoves
  <1>4. OpenedMoves'
    BY <1>3 DEF IInv, OpenedMoves
  <1>5. (\A j \in Calls : Knows(call[j]))'
    BY <1>3 DEF Knows
  <1> QED
    BY <1>2, <1>4, <1>5 DEF IInv

\* The endpoint of an opened store moves the one object.
LEMMA EffectMoves ==
    ASSUME IInv, NEW i \in Calls, call[i].pc # "idle", Effect(call[i])
    PROVE  /\ call[i].src \in objects => objects' = {call[i].dst}
           /\ call[i].src \notin objects => objects' = objects
           /\ objects' \subseteq Keys /\ OneObject'
  <1>1. backend = "move" /\ call[i].dst \in Keys /\ objects \subseteq Keys
    BY DEF IInv, OpenedMoves, TypeOK, Call
  <1>2. CASE call[i].src \in objects
    <2>1. objects = {call[i].src}
      BY <1>2 DEF IInv, OneObject
    <2>2. objects' = (objects \ {call[i].src}) \cup {call[i].dst}
      BY <1>1, <1>2 DEF Effect, RenameObject
    <2>3. objects' = {call[i].dst}
      BY <2>1, <2>2
    <2> QED
      BY <1>1, <1>2, <2>3 DEF OneObject
  <1>3. CASE call[i].src \notin objects
    BY <1>1, <1>3 DEF Effect, IInv, OneObject
  <1> QED
    BY <1>2, <1>3

\* Every step keeps the invariant, and is a step of the abstract entry or leaves it alone.
Simulates == IInv' /\ [Entry!Next]_(Entry!vars)

\* validate_backend opens only a store that moves, and the entry does not see it.
LEMMA ProbeSimulates == ASSUME IInv, Probe PROVE Simulates
  <1>1. opened' \in {"yes", "refused"} /\ (opened' = "yes" => backend = "move")
    BY DEF Probe, RenameObject, IInv, TypeOK
  <1>2. UNCHANGED <<objects, call, backend>> /\ opened = "no"
    BY DEF Probe
  <1>3. TypeOK' /\ OneObject' /\ \A j \in Calls : Knows(call'[j])
    BY <1>1, <1>2 DEF IInv, TypeOK, OneObject
  <1>4. OpenedMoves'
    BY <1>1, <1>2 DEF IInv, OpenedMoves
  <1>5. (\A j \in Calls : Knows(call[j]))'
    BY <1>3 DEF Knows
  <1>6. UNCHANGED Entry!vars
    BY <1>2 DEF Entry!vars, EntryCall, View, StateOf
  <1> QED
    BY <1>3, <1>4, <1>5, <1>6 DEF IInv, Simulates

\* delete_avail and delete_lease are the Delete of the entry.
LEMMA DeleteSimulates == ASSUME IInv, DeleteKey PROVE Simulates
  <1>1. UNCHANGED <<call, backend, opened>> /\ objects' = {}
    BY DEF DeleteKey, IInv, OneObject
  <1>2. TypeOK' /\ OneObject' /\ OpenedMoves' /\ (\A j \in Calls : Knows(call[j]))'
    <2>1. TypeOK' /\ OneObject' /\ OpenedMoves'
      BY <1>1 DEF IInv, TypeOK, OneObject, OpenedMoves
    <2>2. (\A j \in Calls : Knows(call[j]))'
      BY <1>1 DEF IInv, Knows
    <2> QED
      BY <2>1, <2>2
  <1>3. UNCHANGED EntryCall
    BY <1>1 DEF EntryCall, View, StateOf
  <1>4. Entry!Delete
    BY <1>1, <1>3 DEF Entry!Delete
  <1> QED
    BY <1>2, <1>4 DEF IInv, Simulates, Entry!Next

\* A new call is a Begin of the entry.
LEMMA BeginSimulates == ASSUME IInv, NEW i \in Calls, Begin(i) PROVE Simulates
  <1>1. PICK kind \in Kinds, src \in Keys, dst \in Keys :
           Set(i, [NoCall EXCEPT !.pc = "send", !.kind = kind, !.src = src, !.dst = dst])
    BY DEF Begin, IInv, TypeOK
  <1>2. PICK r : r = Begun(kind, src, dst)
    OBVIOUS
  <1>3. r \in Call /\ r.src = src /\ r.dst = dst /\ Knows(r) /\ StateOf(r) = "open"
    BY <1>2, BeginRecord
  <1>5. Set(i, r) /\ opened = "yes" /\ UNCHANGED <<backend, opened, objects>>
    BY <1>1, <1>2 DEF Begin, Begun
  <1>6. IInv'
    BY <1>3, <1>5, SetKeeps DEF IInv, TypeOK, OneObject
  <1>7. EntryCall' = [EntryCall EXCEPT ![i] = View(r)] /\ EntryCall[i] = View(call[i])
    BY <1>3, <1>5, SetView DEF IInv, TypeOK
  <1>8. View(r) = [state |-> "open", src |-> src, dst |-> dst]
    BY <1>3 DEF View
  <1>9. EntryCall[i].state = "idle"
    BY <1>7 DEF View, StateOf, Begin
  <1>10. EntryCall'[i] = View(r)
    BY <1>7 DEF EntryCall
  <1>11. View(r) \in [state : {"open"}, src : Keys, dst : Keys]
    BY <1>8
  <1>12. Entry!Begin(i)
    BY <1>5, <1>7, <1>9, <1>10, <1>11 DEF Entry!Begin
  <1> QED
    BY <1>6, <1>12 DEF Simulates, Entry!Next

\* Sending is invisible: the call stays open.
LEMMA SendSimulates == ASSUME IInv, NEW i \in Calls, Send(i) PROVE Simulates
  <1> DEFINE r == [call[i] EXCEPT !.pc = "wait", !.heard = "nothing", !.sends = @ + 1]
  <1>1. /\ call[i] \in Call /\ Knows(call[i]) /\ call[i].pc = "send" /\ opened = "yes"
        /\ Set(i, r) /\ UNCHANGED <<backend, opened, objects>>
    BY DEF IInv, TypeOK, Send, OpenedMoves
  <1>2. /\ r \in Call /\ Knows(r) /\ r.src = call[i].src /\ r.dst = call[i].dst
        /\ StateOf(r) = StateOf(call[i])
    BY <1>1, SendRecord
  <1> HIDE DEF r
  <1>3. IInv'
    BY <1>1, <1>2, SetKeeps DEF IInv, TypeOK, OneObject
  <1>4. EntryCall' = [EntryCall EXCEPT ![i] = View(call[i])] /\ EntryCall[i] = View(call[i])
    BY <1>1, <1>2, SetView, SameView DEF IInv, TypeOK
  <1>5. UNCHANGED Entry!vars
    BY <1>1, <1>4 DEF Entry!vars, EntryCall
  <1> QED
    BY <1>3, <1>5 DEF Simulates

\* The steps of a caller that waits for an answer.
LEMMA WaitSimulates ==
    ASSUME IInv, NEW i \in Calls, call[i].pc = "wait", UNCHANGED <<backend, opened>>,
           NEW pc, NEW heard, NEW late \in {"no", "yes"},
           Set(i, [call[i] EXCEPT !.pc = pc, !.heard = heard, !.late = late]),
           \/ pc = "ok" /\ heard = "ok" /\ call[i].src \in objects /\ Effect(call[i])
           \/ pc = "read" /\ heard = "NoSuchKey" /\ call[i].src \notin objects /\ UNCHANGED objects
           \/ pc = "read" /\ heard = "error" /\ UNCHANGED objects
           \/ pc = "wait" /\ heard = "nothing" /\ UNCHANGED objects
    PROVE  Simulates
  <1>a. PICK c : c = call[i]
    OBVIOUS
  <1>b. PICK r : r = Heard(c, pc, heard, late)
    OBVIOUS
  <1>c. \/ pc = "ok" /\ heard = "ok"
        \/ pc = "read" /\ heard \in {"NoSuchKey", "error"}
        \/ pc = "wait" /\ heard = "nothing"
    OBVIOUS
  <1>1. c \in Call /\ Knows(c) /\ opened = "yes" /\ call \in [Calls -> Call] /\ c.pc = "wait"
    BY <1>a DEF IInv, TypeOK, OpenedMoves
  <1>2. /\ r \in Call /\ Knows(r) /\ r.src = c.src /\ r.dst = c.dst /\ StateOf(c) = "open"
        /\ StateOf(r) = IF heard = "ok" THEN "acked"
                        ELSE IF heard = "NoSuchKey" THEN "refused" ELSE "open"
    BY <1>1, <1>b, <1>c, WaitRecords
  <1>3. Set(i, r)
    BY <1>a, <1>b DEF Heard
  <1>4. objects' \subseteq Keys /\ OneObject' /\ (heard = "ok" => objects' = {c.dst})
    BY <1>a, EffectMoves DEF IInv, TypeOK, OneObject
  <1>5. IInv'
    BY <1>1, <1>2, <1>3, <1>4, SetKeeps
  <1>6. EntryCall' = [EntryCall EXCEPT ![i] = View(r)] /\ EntryCall[i] = View(c)
    BY <1>1, <1>2, <1>3, <1>a, SetView
  <1>7. /\ EntryCall[i].state = "open" /\ EntryCall[i].src = c.src /\ EntryCall[i].dst = c.dst
    BY <1>2, <1>6 DEF View
  <1>8. View(r) = [EntryCall[i] EXCEPT !.state = StateOf(r)]
    BY <1>2, <1>6, ViewState
  <1>9. CASE heard = "ok"
    <2>1. Entry!Set(i, "acked")
      BY <1>2, <1>6, <1>8, <1>9 DEF Entry!Set
    <2>2. Entry!Take(i)
      BY <1>a, <1>4, <1>7, <1>9, <2>1 DEF Entry!Take
    <2> QED
      BY <1>5, <2>2 DEF Simulates, Entry!Next
  <1>10. CASE heard = "NoSuchKey"
    <2>1. Entry!Set(i, "refused")
      BY <1>2, <1>6, <1>8, <1>10 DEF Entry!Set
    <2>2. Entry!Refuse(i)
      BY <1>a, <1>7, <1>10, <2>1 DEF Entry!Refuse
    <2> QED
      BY <1>5, <2>2 DEF Simulates, Entry!Next
  <1>11. CASE heard \in {"error", "nothing"}
    <2>1. View(r) = View(c) /\ UNCHANGED objects
      BY <1>2, <1>11, SameView
    <2>2. UNCHANGED Entry!vars
      BY <1>a, <1>6, <2>1 DEF Entry!vars, EntryCall
    <2> QED
      BY <1>5, <2>2 DEF Simulates
  <1> QED
    BY <1>9, <1>10, <1>11

\* An attempt nobody waits for is a Take of the entry, or nothing.
LEMMA LateSimulates == ASSUME IInv, NEW i \in Calls, ServeLate(i) PROVE Simulates
  <1>1. /\ call[i].pc # "idle" /\ Effect(call[i]) /\ UNCHANGED <<backend, opened, call>>
    BY DEF IInv, Knows, ServeLate
  <1>2. /\ call[i].src \in objects => objects' = {call[i].dst}
        /\ call[i].src \notin objects => objects' = objects
        /\ objects' \subseteq Keys /\ OneObject'
    BY <1>1, EffectMoves
  <1>3. TypeOK' /\ OpenedMoves'
    BY <1>1, <1>2 DEF IInv, TypeOK, OpenedMoves
  <1>4. (\A j \in Calls : Knows(call[j]))'
    BY <1>1 DEF IInv, Knows
  <1>5. UNCHANGED EntryCall
    BY <1>1 DEF EntryCall, View, StateOf
  <1>6. EntryCall[i] = View(call[i])
    BY DEF EntryCall
  <1>7. EntryCall[i].src = call[i].src /\ EntryCall[i].dst = call[i].dst
    BY <1>6 DEF View
  <1>8. EntryCall[i].state # "idle"
    BY <1>1, <1>6 DEF View, StateOf, Answers
  <1>9. Entry!Take(i) \/ UNCHANGED Entry!vars
    BY <1>2, <1>5, <1>7, <1>8 DEF Entry!Take, Entry!vars
  <1> QED
    BY <1>2, <1>3, <1>4, <1>9 DEF IInv, Simulates, Entry!Next

\* The steps after a send: an answer, the read of the body, or a second send.
LEMMA GoSimulates ==
    ASSUME IInv, NEW i \in Calls, NEW next, Go(i, next), call[i].pc \in {"ok", "read", "body"},
           UNCHANGED <<backend, opened, objects>>,
           \/ next = "moved" /\ (call[i].heard = "ok" \/ call[i].dst \in objects)
           \/ next = "gone" /\ call[i].heard = "NoSuchKey" /\ call[i].dst \notin objects
           \/ next = "error" /\ (call[i].heard # "ok" \/ call[i].dst \notin objects)
           \/ next = "body"
           \/ next = "send" /\ call[i].heard = "error" /\ call[i].sends = 1
    PROVE  Simulates
  <1>a. PICK c : c = call[i]
    OBVIOUS
  <1>b. PICK r : r = Gone(c, next)
    OBVIOUS
  <1>c. \/ next \in Answers \cup {"body"}
        \/ next = "send" /\ c.heard = "error" /\ c.sends = 1
    BY <1>a DEF Answers
  <1>1. c \in Call /\ Knows(c) /\ opened = "yes" /\ call \in [Calls -> Call] /\ c.pc # "idle"
    BY <1>a DEF IInv, TypeOK, OpenedMoves
  <1>2. /\ r \in Call /\ Knows(r) /\ r.pc = next /\ r.src = c.src /\ r.dst = c.dst
        /\ next \in Answers => StateOf(r) = next
        /\ next \notin Answers => r.heard = c.heard
    BY <1>1, <1>b, <1>c, GoRecord
  <1>3. Set(i, r)
    BY <1>a, <1>b DEF Go, Gone
  <1>4. IInv'
    BY <1>1, <1>2, <1>3, SetKeeps DEF IInv, TypeOK, OneObject
  <1>5. EntryCall' = [EntryCall EXCEPT ![i] = View(r)] /\ EntryCall[i] = View(c)
    BY <1>1, <1>2, <1>3, <1>a, SetView
  <1>6. EntryCall[i].src = c.src /\ EntryCall[i].dst = c.dst /\ EntryCall[i].state = StateOf(c)
    BY <1>5 DEF View
  <1>7. StateOf(c) = IF c.heard = "ok" THEN "acked"
                     ELSE IF c.heard = "NoSuchKey" THEN "refused" ELSE "open"
    BY <1>a DEF StateOf, Answers
  <1>8. View(r) = [EntryCall[i] EXCEPT !.state = StateOf(r)]
    BY <1>2, <1>5, ViewState
  <1>9. Entry!Set(i, StateOf(r))
    BY <1>5, <1>8 DEF Entry!Set
  <1>10. CASE next = "moved"
    <2>1. Entry!AnswerMoved(i)
      BY <1>a, <1>2, <1>6, <1>7, <1>9, <1>10 DEF Entry!AnswerMoved, Answers
    <2> QED
      BY <1>4, <2>1 DEF Simulates, Entry!Next
  <1>11. CASE next = "gone"
    <2>1. Entry!AnswerGone(i)
      BY <1>a, <1>2, <1>6, <1>7, <1>9, <1>11 DEF Entry!AnswerGone, Answers
    <2> QED
      BY <1>4, <2>1 DEF Simulates, Entry!Next
  <1>12. CASE next = "error"
    <2>1. Entry!AnswerError(i)
      BY <1>a, <1>2, <1>6, <1>7, <1>9, <1>12 DEF Entry!AnswerError, Answers
    <2> QED
      BY <1>4, <2>1 DEF Simulates, Entry!Next
  <1>13. CASE next \in {"body", "send"}
    <2>1. StateOf(r) = StateOf(c)
      BY <1>a, <1>2, <1>7, <1>13 DEF StateOf, Answers
    <2>2. View(r) = View(c)
      BY <1>2, <2>1, SameView
    <2>3. UNCHANGED Entry!vars
      BY <1>a, <1>5, <2>2 DEF Entry!vars, EntryCall
    <2> QED
      BY <1>4, <2>3 DEF Simulates
  <1> QED
    BY <1>10, <1>11, <1>12, <1>13

\* The caller's own steps: giving up, the read of the destination, the answers.
LEMMA CallerSimulates == ASSUME IInv, NEW i \in Calls, CallerStep(i) PROVE Simulates
  <1> DEFINE c == call[i]
  <1>1. c \in Call /\ Knows(c)
    BY DEF IInv, TypeOK
  <1>2. CASE GiveUp(i)
    <2>1. PICK late \in {"no", "yes"} : late = "yes"
      OBVIOUS
    <2>2. Set(i, [call[i] EXCEPT !.pc = "read", !.heard = "error", !.late = late])
      BY <1>1, <1>2, <2>1 DEF GiveUp, Set, Call
    <2> QED
      BY <1>2, <2>2, WaitSimulates DEF GiveUp
  <1>3. CASE Conclude(i)
    <2>1. Go(i, Moved(c)) /\ c.heard = "ok" /\ c.pc = "ok" /\ Moved(c) \in {"body", "moved"}
      BY <1>1, <1>3 DEF Conclude, Knows, Moved
    <2> QED
      BY <1>3, <2>1, GoSimulates DEF Conclude
  <1>4. CASE ReadBack(i)
    <2>1. PICK next : /\ Go(i, next)
                      /\ \/ next = Moved(c) /\ c.dst \in objects
                         \/ next = SourceGone(c) /\ c.heard = "NoSuchKey" /\ c.dst \notin objects
                         \/ next = "error"
                         \/ next = "send" /\ c.heard = "error" /\ c.sends = 1
      BY <1>4 DEF ReadBack, MayResend
    <2>2. c.heard # "ok" /\ c.pc = "read" /\ UNCHANGED <<backend, opened, objects>>
      BY <1>1, <1>4 DEF ReadBack, Knows
    <2> QED
      BY <2>1, <2>2, GoSimulates DEF Moved, SourceGone
  <1>5. CASE ReadBody(i)
    BY <1>5, GoSimulates DEF ReadBody
  <1> QED
    BY <1>2, <1>3, <1>4, <1>5, SendSimulates DEF CallerStep

\* A served and heard attempt is a Take or a Refuse of the entry.
LEMMA ServeSimulates == ASSUME IInv, NEW i \in Calls, Serve(i) PROVE Simulates
  <1> DEFINE c == call[i]
  <1>1. c \in Call /\ c.pc = "wait" /\ UNCHANGED <<backend, opened>> /\ Effect(c)
    BY DEF IInv, TypeOK, Serve
  <1>2. PICK late \in {"no", "yes"} : late = c.late
    BY <1>1 DEF Call
  <1>3. CASE c.src \in objects
    <2>1. Set(i, [call[i] EXCEPT !.pc = "ok", !.heard = "ok", !.late = late])
      BY <1>1, <1>2, <1>3 DEF Serve, Set, Call
    <2> QED
      BY <1>1, <1>3, <2>1, WaitSimulates
  <1>4. CASE c.src \notin objects
    <2>1. Set(i, [call[i] EXCEPT !.pc = "read", !.heard = "NoSuchKey", !.late = late])
      BY <1>1, <1>2, <1>4 DEF Serve, Set, Call
    <2>2. UNCHANGED objects
      BY <1>1, <1>4 DEF Effect
    <2> QED
      BY <1>1, <1>4, <2>1, <2>2, WaitSimulates
  <1> QED
    BY <1>3, <1>4

\* A retry of the SDK is invisible until its attempts are served.
LEMMA RetrySimulates == ASSUME IInv, NEW i \in Calls, Retry(i) PROVE Simulates
  <1> DEFINE c == call[i]
  <1>1. c \in Call /\ Knows(c) /\ c.pc = "wait"
    BY DEF IInv, TypeOK, Retry
  <1>2. PICK late \in {"no", "yes"} : late = "yes"
    OBVIOUS
  <1>3. Set(i, [call[i] EXCEPT !.pc = "wait", !.heard = "nothing", !.late = late])
    BY <1>1, <1>2 DEF Retry, Set, Call, Knows
  <1> QED
    BY <1>1, <1>3, WaitSimulates DEF Retry

\* Every step keeps IInv and maps to a step of the entry or to a stutter.
LEMMA NextSimulates == ASSUME IInv, [Next]_vars PROVE Simulates
  <1>1. CASE UNCHANGED vars
    <2>1. TypeOK' /\ OneObject' /\ OpenedMoves'
      BY <1>1 DEF vars, IInv, TypeOK, OneObject, OpenedMoves
    <2>2. (\A j \in Calls : Knows(call[j]))'
      BY <1>1 DEF vars, IInv, Knows
    <2>3. UNCHANGED Entry!vars
      BY <1>1 DEF vars, Entry!vars, EntryCall, View, StateOf
    <2> QED
      BY <2>1, <2>2, <2>3 DEF IInv, Simulates
  <1>2. CASE Next
    BY <1>2, ProbeSimulates, DeleteSimulates, BeginSimulates, CallerSimulates, ServeSimulates,
       LateSimulates, RetrySimulates DEF Next
  <1> QED
    BY <1>1, <1>2

\* The initial states satisfy IInv and map to initial states of the entry.
LEMMA InitIInv == ASSUME Init PROVE IInv /\ Entry!Init
  <1>1. TypeOK /\ OneObject
    BY NoCallTyped DEF Init, TypeOK, OneObject, Keys
  <1>2. \A i \in Calls : call[i] = NoCall
    BY DEF Init
  <1>3. OpenedMoves /\ \A i \in Calls : Knows(call[i])
    BY <1>2, NoCallTyped DEF Init, OpenedMoves, NoCall
  <1>4. View(NoCall) = [state |-> "idle", src |-> Tmp, dst |-> Tmp]
    BY DEF View, NoCall, StateOf
  <1>5. EntryCall = [i \in Calls |-> [state |-> "idle", src |-> Tmp, dst |-> Tmp]]
    BY <1>2, <1>4 DEF EntryCall
  <1>6. Tmp \in Keys /\ objects = {Tmp}
    BY DEF Keys, Init
  <1>7. Entry!Init
    BY <1>5, <1>6 DEF Entry!Init
  <1> QED
    BY <1>1, <1>3, <1>7 DEF IInv

-----------------------------------------------------------------------------

\* The state of the calls and of the store keeps its shape, with any number of calls.
THEOREM RenameTypes == Spec => []TypeOK
  <1>1. IInv /\ [Next]_vars => IInv'
    BY NextSimulates DEF Simulates
  <1>2. IInv => TypeOK
    BY DEF IInv
  <1> QED
    BY InitIInv, <1>1, <1>2, PTL DEF Spec

\* A store that passed validate_backend holds a job's entry at one key at most, whatever
\* the calls, their retries and their late attempts do.
THEOREM OneKey == Spec => []OneObject
  <1>1. IInv /\ [Next]_vars => IInv'
    BY NextSimulates DEF Simulates
  <1>2. IInv => OneObject
    BY DEF IInv
  <1> QED
    BY InitIInv, <1>1, <1>2, PTL DEF Spec

\* The renames of S3TodoStore implement the atomic entry.
THEOREM RenamesAreAtomic == Spec => IsAtomic
  <1>1. Init => IInv /\ Entry!Init
    BY InitIInv
  <1>2. IInv /\ [Next]_vars => IInv' /\ [Entry!Next]_(Entry!vars)
    BY NextSimulates DEF Simulates
  <1> QED
    BY <1>1, <1>2, PTL DEF Spec, IsAtomic, Entry!Spec
=============================================================================
