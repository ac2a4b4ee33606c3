-------------------------- MODULE LeaseQueueProofs --------------------------
(***************************************************************************)
(* Type correctness and the safety theorems of LeaseQueue, for every number *)
(* of clients, jobs and concurrent requests, and for every value of the     *)
(* bounds.                                                                 *)
(***************************************************************************)
EXTENDS LeaseQueue, TLAPS

\* First-order leaves go to Zenon; those that need arithmetic or set encodings name SMT.
USE ZenonT(30)

-----------------------------------------------------------------------------
(* Type correctness. *)

\* The arbitrary client, job and profile of an idle request exist.
LEMMA AnyTyped == AnyClient \in Clients /\ AnyJob \in Jobs /\ AnyProfile \in Profiles
BY LeaseQueueAssumption DEF AnyClient, AnyJob, AnyProfile

\* The state of a request that has not started is a request state.
LEMMA IdleTyped == Idle \in Request
BY SMT, AnyTyped DEF Idle, Request, Labels, AllOps, LeaseItems, RelinquishPasses

\* lease_expiry_from gives a date, whatever the clock and the lease duration.
LEMMA LeaseExpiryTyped == \A t \in Nat : LeaseExpiry(t) \in Nat
<1> SUFFICES ASSUME NEW t \in Nat PROVE LeaseExpiry(t) \in Nat
    OBVIOUS
<1>1. \A a, b \in Nat : a * b \in Nat
    BY SMT
<1>2. \A a \in Nat, b \in Nat \ {0} : (a \div b) \in Nat
    BY SMT
<1>3. LeaseSecs \in Nat /\ Second \in Nat \ {0}
    BY LeaseQueueAssumption
<1>4. LeaseSecs * Second \in Nat
    BY <1>1, <1>3
<1>5. t + LeaseSecs * Second \in Nat
    BY SMT, <1>4
<1>6. ((t + LeaseSecs * Second) \div Second) \in Nat
    BY <1>2, <1>3, <1>5
<1> QED BY <1>1, <1>3, <1>6 DEF LeaseExpiry

\* What a rename writes is an entry, and a leased entry names its client and expiry.
LEMMA EntryTyped ==
    /\ Avail \in Entries /\ Gone \in Entries
    /\ \A c \in Clients, u \in Nat : Lease(c, u) \in Entries
    /\ \A e \in Entries : e.at = "leased" => e.by \in Clients /\ e.until \in Nat
BY SMT DEF Avail, Gone, Lease, Entries

-----------------------------------------------------------------------------
(* Typing of the ways a handler moves on. *)

\* A handler that moves to a well-formed local state leaves all of them well-formed.
LEMMA SetTyped ==
    ASSUME TypeOK, NEW p \in Procs, NEW r \in Request, Set(p, r)
    PROVE  req' \in [Procs -> Request]
BY DEF TypeOK, Set

\* Moving a handler to its next store call keeps its local state well-formed.
LEMMA GotoTyped ==
    ASSUME TypeOK, NEW p \in Procs, NEW l \in Labels, Goto(p, l)
    PROVE  req' \in [Procs -> Request]
<1>1. req[p] \in Request
    BY DEF TypeOK
<1>2. [req[p] EXCEPT !.pc = l] \in Request
    BY <1>1 DEF Request
<1> QED BY <1>2, SetTyped DEF Goto

\* Answering a request keeps the local states well-formed.
LEMMA DoneTyped ==
    ASSUME TypeOK, NEW p \in Procs, Done(p)
    PROVE  req' \in [Procs -> Request]
BY IdleTyped, SetTyped DEF Done

\* Returning from the shared tail of several handlers keeps the local states well-formed.
LEMMA ReturnTyped ==
    ASSUME TypeOK, NEW p \in Procs, Return(p)
    PROVE  req' \in [Procs -> Request]
<1>1. req[p].ret \in Labels
    BY DEF TypeOK, Request
<1> QED BY <1>1, DoneTyped, GotoTyped DEF Return

\* A rename of one queue entry keeps the queue well-formed.
LEMMA RenameTyped ==
    ASSUME TypeOK, NEW j \in Jobs, NEW e \in Entries, Rename(j, e)
    PROVE  entry' \in [Jobs -> Entries] /\ checked' \in [Jobs -> BOOLEAN]
BY DEF TypeOK, Rename

\* A store call that only reads keeps the type invariant.
LEMMA LocalStep ==
    ASSUME TypeOK, req' \in [Procs -> Request],
           UNCHANGED <<now, queue, record, markers, gate, crashes>>
    PROVE  TypeOK'
BY DEF TypeOK, queue, markers, gate

\* A store call that only renames a queue entry keeps the type invariant.
LEMMA QueueStep ==
    ASSUME TypeOK, req' \in [Procs -> Request],
           entry' \in [Jobs -> Entries], checked' \in [Jobs -> BOOLEAN],
           UNCHANGED <<now, record, markers, gate, crashes>>
    PROVE  TypeOK'
BY DEF TypeOK, queue, markers, gate

\* A new request keeps the type invariant.
LEMMA StartTyped ==
    ASSUME TypeOK, NEW p \in Slots, NEW op \in AllOps, NEW c \in Clients, NEW j \in Jobs,
           Start(p, op, c, j)
    PROVE  TypeOK'
<1> DEFINE pc == CASE op \in {"claim", "heartbeat", "reclaim"} -> "suspension"
                   [] op \in {"success", "failure", "retriable"} -> "bind"
                   [] op = "patch" -> "flag before"
<1>1. pc \in Labels
    BY DEF AllOps, Labels
<1>2. [Idle EXCEPT !.op = op, !.c = c, !.j = j, !.t = now, !.prof = profile[c], !.pc = pc]
        \in Request
    <2> HIDE DEF pc
    <2> QED BY ZenonT(60), <1>1, IdleTyped DEF TypeOK, Request
<1> QED BY <1>2, SetTyped, LocalStep DEF Start, Procs

\* A leased entry names its client and its expiry.
LEMMA HeldTyped ==
    ASSUME TypeOK, NEW j \in Jobs, entry[j].at = "leased"
    PROVE  entry[j].by \in Clients /\ entry[j].until \in Nat
BY EntryTyped DEF TypeOK

\* A lost/ marker names a client and a lease expiry.
LEMMA LostTyped ==
    ASSUME TypeOK, NEW j \in Jobs, NEW c \in Clients, NEW k \in Nat
    PROVE  [lost EXCEPT ![j] = @ \cup {<<c, k>>}] \in [Jobs -> SUBSET (Clients \X Nat)]
<1> DEFINE M == Clients \X Nat
           m == <<c, k>>
<1>1. m \in M /\ lost \in [Jobs -> SUBSET M]
    BY DEF TypeOK
<1> HIDE DEF M, m
<1>2. [lost EXCEPT ![j] = @ \cup {m}] \in [Jobs -> SUBSET M]
    BY <1>1
<1> QED BY <1>2 DEF M, m

\* The steps of a claim keep the type invariant.
LEMMA ClaimStepTyped ==
    ASSUME TypeOK, NEW p \in Slots, ClaimStep(p)
    PROVE  TypeOK'
<1> DEFINE me == req[p]
<1>p. p \in Procs
    BY DEF Procs
<1>r. me \in Request
    BY <1>p DEF TypeOK
<1>f. me.c \in Clients /\ me.j \in Jobs /\ me.t \in Nat /\ me.key \in Nat /\ me.jobs \in SUBSET Jobs
    BY <1>r DEF Request
<1>l. {"idle", "suspend", "held", "candidates", "vault", "pick", "take", "regate", "resolve"}
        \subseteq Labels
    BY DEF Labels
<1> HIDE DEF me
<1>1. CASE ReadSuspension(p)
    BY <1>1, <1>p, DoneTyped, GotoTyped, LocalStep DEF ReadSuspension, Labels
<1>2. CASE ReadGate(p)
    BY ZenonT(60), <1>2, <1>p, DoneTyped, GotoTyped, LocalStep DEF ReadGate, Labels
<1>3. CASE ClaimList(p)
    <2>1. [me EXCEPT !.pc = "suspend", !.ret = "idle"] \in Request
        BY <1>r, <1>l DEF Request
    <2>2. Taken(p) \in SUBSET Jobs
        BY DEF Taken
    <2>3. ASSUME NEW j \in OwnLive(p)
          PROVE  [me EXCEPT !.pc = "held", !.j = j, !.key = entry[j].until, !.jobs = Taken(p)]
                    \in Request
        <3>1. j \in Jobs /\ entry[j].until \in Nat
            BY HeldTyped DEF OwnLive, Live, LeasedTo
        <3> HIDE DEF OwnLive
        <3> QED BY <1>r, <1>l, <2>2, <3>1 DEF Request
    <2>4. [me EXCEPT !.pc = "candidates", !.jobs = Taken(p)] \in Request
        BY <1>r, <1>l, <2>2 DEF Request
    <2> QED BY <1>3, <1>p, <2>1, <2>3, <2>4, SetTyped, LocalStep DEF ClaimList, me
<1>4. CASE ReadHeld(p)
    BY <1>4, <1>p, GotoTyped, LocalStep DEF ReadHeld, Labels
<1>5. CASE HeldGate(p)
    <2>1. [me EXCEPT !.pc = "vault", !.ret = "idle"] \in Request
        BY <1>r, <1>l DEF Request
    <2> QED BY <1>5, <1>p, <2>1, SetTyped, DoneTyped, LocalStep DEF HeldGate, me
<1>6. CASE HandBack(p)
    <2>1. lost' \in [Jobs -> SUBSET (Clients \X Nat)]
        BY <1>6, <1>f, LostTyped DEF HandBack, TypeOK, me
    <2>2. req' \in [Procs -> Request]
        BY <1>6, <1>p, DoneTyped DEF HandBack
    <2> QED BY <1>6, <2>1, <2>2 DEF HandBack, TypeOK, queue, gate
<1>7. CASE Candidates(p)
    <2> DEFINE named == IF me.op = "claim" THEN Jobs ELSE {me.j}
               cs == {j \in (eligible[me.c] \cap named) \ me.jobs : ~ Expired(j, me.t)}
    <2>1. cs \in SUBSET Jobs
        BY <1>f
    <2> HIDE DEF cs
    <2>2. [me EXCEPT !.pc = "pick", !.key = 0, !.jobs = cs] \in Request
        BY <1>r, <1>l, <2>1 DEF Request
    <2> QED BY SMTT(60), <1>7, <1>p, <2>2, SetTyped, LocalStep DEF Candidates, me, cs
<1>8. CASE Pick(p)
    <2>1. ASSUME NEW j \in me.jobs, NEW l \in {"pick", "take"}
          PROVE  [me EXCEPT !.j = j, !.jobs = @ \ {j}, !.pc = l] \in Request
        BY <1>r, <1>l DEF Request
    <2> QED BY <1>8, <1>p, <2>1, SetTyped, DoneTyped, LocalStep DEF Pick, me
<1>9. CASE ClaimJob(p)
    <2> DEFINE u == LeaseExpiry(me.t)
    <2>1. u \in Nat
        BY <1>f, LeaseExpiryTyped
    <2> HIDE DEF u
    <2>2. [me EXCEPT !.pc = "regate", !.key = u, !.grant = TRUE] \in Request
        BY <1>r, <1>l, <2>1 DEF Request
    <2>3. Lease(me.c, u) \in Entries
        BY <1>f, <2>1, EntryTyped
    <2>4. CASE Rename(me.j, Lease(me.c, u))
               /\ Set(p, [me EXCEPT !.pc = "regate", !.key = u, !.grant = TRUE])
        BY SMTT(60), <1>9, <1>p, <1>f, <2>2, <2>3, <2>4, SetTyped, RenameTyped, QueueStep
           DEF ClaimJob
    <2>5. CASE Goto(p, "pick") /\ UNCHANGED queue
        BY <1>9, <1>p, <2>5, GotoTyped, LocalStep DEF ClaimJob, Labels
    <2> QED BY <1>9, <2>4, <2>5 DEF ClaimJob, me, u
<1>10. CASE Regate(p)
    <2>1. [me EXCEPT !.pc = "resolve", !.ret = "idle"] \in Request
        BY <1>r, <1>l DEF Request
    <2> QED BY ZenonT(60), <1>10, <1>p, <2>1, SetTyped, GotoTyped, LocalStep
               DEF Regate, Labels, me
<1>11. CASE SecondLease(p)
    <2>1. ASSUME NEW l \in {"resolve", "idle"}
          PROVE  [me EXCEPT !.pc = "suspend", !.ret = l] \in Request
        BY <1>r, <1>l DEF Request
    <2>2. ASSUME NEW l \in {"pick", "idle"}
          PROVE  [me EXCEPT !.pc = "vault", !.ret = l] \in Request
        BY <1>r, <1>l DEF Request
    <2>3. req' \in [Procs -> Request]
        BY <1>11, <1>p, <2>1, <2>2, SetTyped, DoneTyped DEF SecondLease, me
    <2>4. checked' \in [Jobs -> BOOLEAN]
        <3>1. LeasedTo(me.j, me.c) \in BOOLEAN
            BY DEF LeasedTo
        <3> QED BY <1>11, <1>f, <3>1 DEF SecondLease, TypeOK, me
    <2> QED BY <1>11, <2>3, <2>4 DEF SecondLease, TypeOK, queue, markers, gate
<1>12. CASE Suspend(p)
    <2>1. [me EXCEPT !.pc = "resolve", !.ret = "idle"] \in Request
        BY <1>r, <1>l DEF Request
    <2>2. req' \in [Procs -> Request]
        BY <1>12, <1>p, <2>1, SetTyped, DoneTyped DEF Suspend, me
    <2> QED BY <1>12, <1>f, <2>2 DEF Suspend, TypeOK, queue, gate, me
<1>13. CASE VaultCheck(p)
    BY ZenonT(60), <1>13, <1>p, DoneTyped, GotoTyped, LocalStep DEF VaultCheck, Labels
<1>14. CASE Deny(p)
    <2>1. req' \in [Procs -> Request]
        BY ZenonT(60), <1>14, <1>p, DoneTyped, GotoTyped DEF Deny, Labels
    <2>2. denied' \subseteq Jobs \X Clients
        <3>1. <<me.j, me.c>> \in Jobs \X Clients
            BY <1>f
        <3>2. denied' = denied \cup {<<me.j, me.c>>} /\ denied \subseteq Jobs \X Clients
            BY <1>14 DEF Deny, TypeOK, me
        <3> QED BY <3>1, <3>2
    <2> QED BY <1>14, <2>1, <2>2 DEF Deny, TypeOK, queue, gate
<1> QED BY <1>1, <1>2, <1>3, <1>4, <1>5, <1>6, <1>7, <1>8, <1>9, <1>10, <1>11, <1>12,
           <1>13, <1>14
        DEF ClaimStep

\* The steps of a renewal or a submission keep the type invariant.
LEMMA SubmitStepTyped ==
    ASSUME TypeOK, NEW p \in Slots, SubmitStep(p)
    PROVE  TypeOK'
<1> DEFINE me == req[p]
<1>p. p \in Procs
    BY DEF Procs
<1>r. me \in Request
    BY <1>p DEF TypeOK
<1>f. me.c \in Clients /\ me.j \in Jobs /\ me.t \in Nat /\ me.key \in Nat /\ me.op \in AllOps \cup {"maintenance"}
    BY <1>r DEF Request
<1>l. {"idle", "deny", "verify", "renew", "recycle", "teardown", "teardown lease", "second", "record", "candidates"}
        \subseteq Labels
    BY DEF Labels
<1>h. LeasedTo(me.j, me.c) => entry[me.j].until \in Nat
    BY SMTT(60), <1>f, HeldTyped DEF LeasedTo
<1>d. (DeleteLease(p) \/ DeleteAvail(p)) => entry' \in [Jobs -> Entries] /\ checked' \in [Jobs -> BOOLEAN]
    BY <1>f, EntryTyped, RenameTyped DEF DeleteLease, DeleteAvail, queue, TypeOK, me
<1>e. (EndLeaseBranch(p) \/ EndAvailBranch(p)) => req' \in [Procs -> Request]
    <2>1. [me EXCEPT !.body = TRUE] \in Request
        BY <1>r DEF Request
    <2> QED BY <1>p, <2>1, SetTyped, GotoTyped, DoneTyped
               DEF EndLeaseBranch, EndAvailBranch, Labels, me
<1> HIDE DEF me
<1>1. CASE CheckReach(p)
    <2>1. CASE LeasedTo(me.j, me.c)
        <3>1. [me EXCEPT !.pc = "deny", !.key = entry[me.j].until, !.ret = "idle"] \in Request
            BY <1>r, <1>l, <1>h, <2>1 DEF Request
        <3> QED BY <1>1, <1>p, <1>l, <3>1, SetTyped, GotoTyped, LocalStep
                   DEF CheckReach, me
    <2>2. CASE ~ LeasedTo(me.j, me.c)
        BY <1>1, <1>p, <1>l, <2>2, GotoTyped, LocalStep DEF CheckReach, me
    <2> QED BY <2>1, <2>2
<1>2. CASE BindClaim(p)
    <2>1. [me EXCEPT !.pc = "verify", !.body = LeasedTo(me.j, me.c)] \in Request
        <3>1. LeasedTo(me.j, me.c) \in BOOLEAN
            BY DEF LeasedTo
        <3> QED BY <1>r, <1>l, <3>1 DEF Request
    <2> QED BY <1>2, <1>p, <2>1, SetTyped, DoneTyped, LocalStep DEF BindClaim, me
<1>3. CASE VerifyClaim(p)
    <2>1. [me EXCEPT !.pc = "renew", !.t = now] \in Request
        BY ZenonT(60), <1>r, <1>l DEF Request, TypeOK
    <2> QED BY <1>3, <1>p, <2>1, SetTyped, DoneTyped, LocalStep DEF VerifyClaim, me
<1>4. CASE RenewLease(p)
    <2> DEFINE u == LeaseExpiry(me.t)
               l == AfterRenewal(me)
    <2>1. u \in Nat /\ Lease(me.c, u) \in Entries
        BY <1>f, LeaseExpiryTyped, EntryTyped
    <2>2. CASE LeasedTo(me.j, me.c)
        <3>1. l \in Labels
            BY <1>l DEF AfterRenewal
        <3> HIDE DEF u, l
        <3>2. [me EXCEPT !.pc = l, !.key = u] \in Request
            BY <1>r, <2>1, <3>1 DEF Request
        <3>3. Rename(me.j, Lease(me.c, u))
                /\ (Done(p) \/ Set(p, [me EXCEPT !.pc = l, !.key = u]))
            BY <1>4, <2>2 DEF RenewLease, me, u, l
        <3>4. entry' \in [Jobs -> Entries] /\ checked' \in [Jobs -> BOOLEAN]
            BY <1>f, <2>1, <3>3, RenameTyped
        <3>5. req' \in [Procs -> Request]
            BY <1>p, <3>2, <3>3, SetTyped, DoneTyped
        <3> QED BY <1>4, <3>4, <3>5, QueueStep DEF RenewLease
    <2>3. CASE ~ LeasedTo(me.j, me.c)
        BY <1>4, <1>p, <1>l, <2>3, GotoTyped, DoneTyped, LocalStep DEF RenewLease, me
    <2> QED BY <2>2, <2>3
<1>5. CASE RecordSubmission(p)
    <2>0. [me EXCEPT !.pc = "teardown", !.body = FALSE] \in Request
        BY <1>r, <1>l DEF Request
    <2>1. req' \in [Procs -> Request]
        BY <1>5, <1>p, <2>0, SetTyped DEF RecordSubmission, me
    <2>2. record' \in [Jobs -> Clients \cup {"none", "system"}]
        BY <1>5, <1>f DEF RecordSubmission, TypeOK, me
    <2> QED BY <1>5, <2>1, <2>2 DEF RecordSubmission, TypeOK, queue, markers, gate
<1>6. CASE TeardownLocate(p)
    <2>1. LeasedTo(me.j, me.c)
            => [me EXCEPT !.pc = "teardown lease", !.key = entry[me.j].until] \in Request
        BY <1>r, <1>l, <1>h DEF Request
    <2> QED BY <1>6, <1>p, <1>e, <2>1, SetTyped, LocalStep DEF TeardownLocate, me
<1>7. CASE TeardownLease(p)
    BY <1>7, <1>d, <1>e, QueueStep DEF TeardownLease
<1>8. CASE TeardownAvail(p)
    BY <1>8, <1>d, <1>e, QueueStep DEF TeardownAvail
<1>9. CASE TeardownError(p)
    <2>1. req' \in [Procs -> Request]
        BY SMTT(60), <1>9, <1>e DEF TeardownError
    <2> QED BY SMT, <1>9, <2>1 DEF TeardownError, TypeOK, queue, markers, gate
<1>10. CASE OwnLease(p)
    <2>1. LeasedTo(me.j, me.c) => [me EXCEPT !.pc = "recycle", !.key = entry[me.j].until] \in Request
        BY <1>r, <1>l, <1>h DEF Request
    <2>2. ASSUME NEW k \in Nat
          PROVE  [me EXCEPT !.grant = TRUE, !.key = k] \in Request
        BY ZenonT(60), <1>r DEF Request
    <2> QED BY ZenonT(60), <1>10, <1>p, <1>h, <2>1, <2>2, SetTyped, DoneTyped, LocalStep
               DEF OwnLease, me
<1> QED BY <1>1, <1>2, <1>3, <1>4, <1>5, <1>6, <1>7, <1>8, <1>9, <1>10 DEF SubmitStep

\* Resolving or recycling a lease keeps the type invariant.
LEMMA SettleStepTyped ==
    ASSUME TypeOK, NEW p \in Procs, SettleStep(p)
    PROVE  TypeOK'
<1> DEFINE me == req[p]
<1>r. me \in Request
    BY DEF TypeOK
<1>f. me.c \in Clients /\ me.j \in Jobs /\ me.key \in Nat /\ me.leases \in SUBSET LeaseItems
    BY <1>r DEF Request
<1> HIDE DEF me
<1>1. CASE ResolveLease(p)
    BY <1>1, GotoTyped, LocalStep DEF ResolveLease, Labels
<1>2. CASE DropEntry(p)
    <2>1. entry' \in [Jobs -> Entries] /\ checked' \in [Jobs -> BOOLEAN]
        BY SMTT(60), <1>2, <1>f, EntryTyped, RenameTyped
           DEF DropEntry, DeleteLease, DeleteAvail, queue, TypeOK, me
    <2> QED BY SMTT(60), <1>2, <2>1, ReturnTyped, QueueStep DEF DropEntry
<1>3. CASE RecycleLease(p)
    <2>1. entry' \in [Jobs -> Entries] /\ checked' \in [Jobs -> BOOLEAN]
        BY ZenonT(60), <1>3, <1>f, EntryTyped, RenameTyped
           DEF RecycleLease, queue, TypeOK, me
    <2>2. req' \in [Procs -> Request]
        BY ZenonT(60), <1>3, GotoTyped, ReturnTyped DEF RecycleLease, Labels
    <2> QED BY ZenonT(60), <1>3, <2>1, <2>2, QueueStep DEF RecycleLease
<1>4. CASE NextLease(p)
    <2>1. {"has record", "resolve", "next lease", "relinquish"} \subseteq Labels
        BY DEF Labels
    <2>2. ASSUME NEW l \in me.leases, NEW pc \in {"has record", "resolve"}
          PROVE  [me EXCEPT !.j = l.j, !.c = l.c, !.key = l.key, !.leases = @ \ {l},
                            !.ret = "next lease", !.pc = pc] \in Request
        <3>1. l.j \in Jobs /\ l.c \in Clients /\ l.key \in Nat
            BY <1>f DEF LeaseItems
        <3> QED BY ZenonT(60), <1>r, <2>1, <3>1 DEF Request
    <2>3. EndPass("settle") /\ p = Cron => req' \in [Procs -> Request]
        <3>1. PassAfter("settle") \in Labels
            BY DEF PassAfter, Labels
        <3> QED BY <3>1, GotoTyped, DoneTyped DEF EndPass
    <2>4. CASE me.leases = {}
        BY ZenonT(60), <1>4, <2>1, <2>3, <2>4, GotoTyped, LocalStep DEF NextLease, me
    <2>5. CASE me.leases # {}
        BY <1>4, <2>2, <2>5, SetTyped, LocalStep DEF NextLease, me
    <2> QED BY <2>4, <2>5
<1> QED BY <1>1, <1>2, <1>3, <1>4 DEF SettleStep

\* The steps of a profile update keep the type invariant.
LEMMA PatchStepTyped ==
    ASSUME TypeOK, NEW p \in Slots, PatchStep(p)
    PROVE  TypeOK'
<1> DEFINE me == req[p]
<1>p. p \in Procs
    BY DEF Procs
<1>r. me \in Request
    BY <1>p DEF TypeOK
<1>f. me.c \in Clients /\ me.j \in Jobs /\ me.pass \in 0 .. RelinquishPasses
    BY SMTT(60), <1>r DEF Request
<1> HIDE DEF me
<1>1. ASSUME NEW l \in {"idle", "relinquish"}, WriteFlag(p, l)
      PROVE  TypeOK'
    <2>0. flagged' \in Nat
        BY SMT, <1>1 DEF WriteFlag, TypeOK
    <2>3. [me EXCEPT !.pc = "relinquish", !.seen = [c \in Clients |-> {flagged'}]] \in Request
        <3> DEFINE s == [c \in Clients |-> {flagged'}]
        <3>1. s \in [Clients -> SUBSET Nat] /\ "relinquish" \in Labels
            BY <2>0 DEF Labels
        <3> HIDE DEF s
        <3>2. [me EXCEPT !.pc = "relinquish", !.seen = s] \in Request
            BY ZenonT(60), <1>r, <3>1 DEF Request
        <3> QED BY <3>2 DEF s
    <2>1. req' \in [Procs -> Request]
        <3>1. CASE l = "idle"
            BY <3>1, <1>1, <1>p, DoneTyped DEF WriteFlag
        <3>2. CASE l = "relinquish"
            BY <3>2, <2>3, <1>1, <1>p, SetTyped DEF WriteFlag, me
        <3> QED BY <1>1, <3>1, <3>2
    <2>2. flagged' \in Nat /\ flags' \in [Clients -> SUBSET Nat]
        BY SMT, <1>1, <1>f DEF WriteFlag, TypeOK, me
    <2> QED BY <1>1, <2>1, <2>2 DEF WriteFlag, TypeOK, queue, markers
<1>2. CASE FlagBefore(p)
    BY <1>1, <1>2 DEF FlagBefore
<1>3. CASE FlagAfter(p)
    BY <1>1, <1>3 DEF FlagAfter
<1>4. CASE RelinquishList(p)
    <2> DEFINE mine == {j \in Jobs : LeasedTo(j, me.c)}
               ls == {LeaseItem(j) : j \in mine}
    <2>1. ls \in SUBSET LeaseItems
        BY SMT, HeldTyped DEF LeaseItem, LeaseItems, LeasedTo
    <2>2. "next lease" \in Labels /\ "replace" \in Labels
        BY SMTT(60) DEF Labels
    <2> HIDE DEF ls
    <2>3. me.pass < RelinquishPasses
            => [me EXCEPT !.pc = "next lease", !.pass = @ + 1, !.leases = ls] \in Request
        <3>1. me.pass < RelinquishPasses => me.pass + 1 \in 0 .. RelinquishPasses
            BY SMT, <1>f DEF RelinquishPasses
        <3>2. ASSUME NEW n \in 0 .. RelinquishPasses
              PROVE  [me EXCEPT !.pc = "next lease", !.pass = n, !.leases = ls] \in Request
            BY <1>r, <2>1, <2>2 DEF Request
        <3> QED BY <3>1, <3>2
    <2> QED BY ZenonT(60), <1>4, <1>p, <2>2, <2>3, SetTyped, GotoTyped, DoneTyped,
               LocalStep
            DEF RelinquishList, me, ls
<1>5. CASE RecheckRecord(p)
    BY ZenonT(60), <1>5, <1>p, GotoTyped, LocalStep DEF RecheckRecord, Labels
<1>6. CASE DropRecycled(p)
    <2>1. entry' \in [Jobs -> Entries] /\ checked' \in [Jobs -> BOOLEAN]
        BY ZenonT(60), <1>6, <1>f, EntryTyped, RenameTyped
           DEF DropRecycled, DeleteAvail, queue, TypeOK, me
    <2>2. req' \in [Procs -> Request]
        BY ZenonT(60), <1>6, <1>p, GotoTyped DEF DropRecycled, Labels
    <2> QED BY <1>6, <2>1, <2>2, QueueStep DEF DropRecycled
<1>7. CASE ReplaceClient(p)
    <2>1. req' \in [Procs -> Request]
        BY ZenonT(60), <1>7, <1>p, DoneTyped, GotoTyped DEF ReplaceClient, Labels
    <2>2. profile' \in [Clients -> Profiles]
        BY <1>7, <1>f DEF ReplaceClient, TypeOK, me
    <2> QED BY ZenonT(60), <1>7, <2>1, <2>2 DEF ReplaceClient, TypeOK, queue, markers
<1> QED BY <1>2, <1>3, <1>4, <1>5, <1>6, <1>7 DEF PatchStep

\* The steps of a maintenance run keep the type invariant.
LEMMA CronStepTyped ==
    ASSUME TypeOK, CronStep
    PROVE  TypeOK'
<1> DEFINE me == req[Cron]
<1>p. Cron \in Procs
    BY DEF Procs
<1>r. me \in Request
    BY SMTT(60), <1>p DEF TypeOK
<1>f. /\ me.c \in Clients /\ me.j \in Jobs /\ me.key \in Nat /\ me.prof \in Profiles
      /\ me.jobs \in SUBSET Jobs /\ me.seen \in [Clients -> SUBSET Nat]
    BY <1>r DEF Request
<1>l. {"next lease", "expire", "terminal", "denials", "escalate", "next client", "rebuild"} \subseteq Labels
    BY SMTT(60) DEF Labels
<1>s. [me EXCEPT !.pc = "next client", !.seen[me.c] = {}] \in Request
    <2>1. [me.seen EXCEPT ![me.c] = {}] \in [Clients -> SUBSET Nat]
        BY <1>f
    <2>2. ASSUME NEW f \in [Clients -> SUBSET Nat]
          PROVE  [me EXCEPT !.pc = "next client", !.seen = f] \in Request
        BY ZenonT(60), <1>r, <1>l DEF Request
    <2> QED BY <2>1, <2>2
<1> HIDE DEF me
<1>1. CASE SettleList
    <2> DEFINE ls == {LeaseItem(j) : j \in {i \in Jobs : /\ entry[i].at = "leased"
                                                        /\ entry[i].until < me.t}}
    <2>1. ls \in SUBSET LeaseItems
        BY SMT, HeldTyped DEF LeaseItem, LeaseItems
    <2> HIDE DEF ls
    <2>2. [me EXCEPT !.pc = "next lease", !.leases = ls] \in Request
        BY <1>r, <1>l, <2>1 DEF Request
    <2> QED BY <1>1, <1>p, <2>2, SetTyped, LocalStep DEF SettleList, me, ls
<1>2. CASE SettleHasRecord
    BY ZenonT(60), <1>2, <1>p, GotoTyped, LocalStep DEF SettleHasRecord, Labels
<1>3. CASE WriteLost
    <2>1. lost' \in [Jobs -> SUBSET (Clients \X Nat)]
        BY <1>3, <1>f, LostTyped DEF WriteLost, me
    <2>2. req' \in [Procs -> Request]
        BY ZenonT(60), <1>3, <1>p, GotoTyped DEF WriteLost, Labels
    <2> QED BY ZenonT(60), <1>3, <2>1, <2>2 DEF WriteLost, TypeOK, queue, gate
<1>4. CASE CountLost
    BY ZenonT(60), <1>4, <1>p, GotoTyped, LocalStep DEF CountLost, Labels
<1>5. CASE LostBody
    BY ZenonT(60), <1>5, <1>p, GotoTyped, LocalStep DEF LostBody, Labels
<1>6. CASE TerminalHasRecord
    BY ZenonT(60), <1>6, <1>p, GotoTyped, LocalStep DEF TerminalHasRecord, Labels
<1>7. CASE RecordSystemFailure
    <2>1. req' \in [Procs -> Request]
        BY ZenonT(60), <1>7, <1>p, GotoTyped DEF RecordSystemFailure, Labels
    <2>2. record' \in [Jobs -> Clients \cup {"none", "system"}]
        BY <1>7, <1>f DEF RecordSystemFailure, TypeOK, me
    <2> QED BY ZenonT(60), <1>7, <2>1, <2>2
               DEF RecordSystemFailure, TypeOK, queue, markers, gate
<1>8. CASE ListAvail
    <2> DEFINE js == {j \in Jobs : IsAvail(j)}
    <2>1. js \in SUBSET Jobs
        OBVIOUS
    <2> HIDE DEF js
    <2>2. [me EXCEPT !.pc = "expire", !.key = 0, !.ret = "expire", !.jobs = js] \in Request
        BY ZenonT(60), <1>r, <1>l, <2>1 DEF Request
    <2> QED BY <1>8, <1>p, <2>2, SetTyped, LocalStep DEF ListAvail, me, js
<1>9. CASE ExpireOverdue
    <2>1. ASSUME NEW j \in me.jobs, NEW l \in {"terminal", "expire"}
          PROVE  [me EXCEPT !.j = j, !.jobs = @ \ {j}, !.pc = l] \in Request
        BY ZenonT(60), <1>r, <1>l DEF Request
    <2> QED BY <1>9, <1>p, <2>1, SetTyped, GotoTyped, LocalStep
               DEF ExpireOverdue, Labels, me
<1>10. CASE ReadBodies
    <2> DEFINE js == {j \in me.jobs : IsAvail(j)}
    <2>1. js \in SUBSET Jobs
        BY <1>f
    <2> HIDE DEF js
    <2>2. [me EXCEPT !.pc = "denials", !.bodies = js] \in Request
        BY <1>r, <1>l, <2>1 DEF Request
    <2> QED BY <1>10, <1>p, <2>2, SetTyped, LocalStep DEF ReadBodies, me, js
<1>11. CASE ListDenials
    <2> DEFINE js == {j \in me.jobs : AllDenied(j)}
    <2>1. js \in SUBSET Jobs
        BY <1>f
    <2> HIDE DEF js
    <2>2. [me EXCEPT !.pc = "escalate", !.ret = "escalate", !.jobs = js] \in Request
        BY ZenonT(60), <1>r, <1>l, <2>1 DEF Request
    <2> QED BY <1>11, <1>p, <2>2, SetTyped, LocalStep DEF ListDenials, me, js
<1>12. CASE EscalateAllDenied
    <2>1. ASSUME NEW j \in me.jobs, NEW l \in {"terminal", "escalate"}
          PROVE  [me EXCEPT !.j = j, !.jobs = @ \ {j}, !.pc = l] \in Request
        BY ZenonT(60), <1>r, <1>l DEF Request
    <2>2. EndPass("retire") => req' \in [Procs -> Request]
        <3>1. PassAfter("retire") \in Labels
            BY DEF PassAfter, Labels
        <3> QED BY <1>p, <3>1, GotoTyped, DoneTyped DEF EndPass
    <2> QED BY <1>12, <1>p, <2>1, <2>2, SetTyped, LocalStep DEF EscalateAllDenied, me
<1>13. CASE ListFlags
    <2>1. [me EXCEPT !.pc = "next client", !.seen = flags, !.bodies = {}] \in Request
        <3>1. flags \in [Clients -> SUBSET Nat]
            BY SMTT(60) DEF TypeOK
        <3> QED BY <1>r, <1>l, <3>1 DEF Request
    <2> QED BY <1>13, <1>p, <2>1, SetTyped, LocalStep DEF ListFlags, me
<1>14. CASE NextClient
    <2>1. ASSUME NEW c \in Clients
          PROVE  [me EXCEPT !.pc = "rebuild", !.c = c, !.prof = profile[c]] \in Request
        <3>1. profile[c] \in Profiles
            BY SMTT(60) DEF TypeOK
        <3> QED BY <1>r, <1>l, <3>1 DEF Request
    <2> QED BY <1>14, <1>p, <2>1, SetTyped, DoneTyped, LocalStep DEF NextClient, me
<1>15. CASE RebuildClient
    <2>1. req' \in [Procs -> Request]
        BY ZenonT(60), <1>15, <1>p, GotoTyped DEF RebuildClient, Labels
    <2>2. eligible' \in [Clients -> SUBSET Jobs]
        BY <1>15, <1>f, LeaseQueueAssumption DEF RebuildClient, TypeOK, me
    <2> QED BY SMTT(60), <1>15, <2>1, <2>2 DEF RebuildClient, TypeOK, queue, markers
<1>16. CASE RereadClient
    BY ZenonT(60), <1>16, <1>p, <1>s, SetTyped, GotoTyped, LocalStep
       DEF RereadClient, Labels, me
<1>17. CASE DeleteFlags
    <2>1. req' \in [Procs -> Request]
        BY SMTT(60), <1>17, <1>p, <1>s, SetTyped DEF DeleteFlags, me
    <2>2. flags' \in [Clients -> SUBSET Nat]
        BY <1>17, <1>f DEF DeleteFlags, TypeOK, me
    <2> QED BY <1>17, <2>1, <2>2 DEF DeleteFlags, TypeOK, queue, markers
<1> QED BY SMTT(60), <1>1, <1>2, <1>3, <1>4, <1>5, <1>6, <1>7, <1>8, <1>9, <1>10,
           <1>11, <1>12, <1>13,
           <1>14, <1>15, <1>16, <1>17 DEF CronStep

\* Every step keeps the type invariant.
LEMMA TypeStep ==
    ASSUME TypeOK, [Next]_vars
    PROVE  TypeOK'
<1>1. CASE Tick
    BY SMT, <1>1 DEF Tick, TypeOK, queue, markers, gate
<1>2. CASE StartMaintenance
    <2>1. PassAfter("start") \in Labels
        BY DEF PassAfter, Labels
    <2>2. [Idle EXCEPT !.pc = PassAfter("start"), !.op = "maintenance", !.t = now] \in Request
        BY <2>1, IdleTyped DEF Request, TypeOK
    <2> QED BY <1>2, <2>2, SetTyped, LocalStep DEF StartMaintenance, Procs
<1>3. CASE \E c \in Clients : Unsuspend(c)
    BY <1>3 DEF Unsuspend, TypeOK, queue, gate
<1>4. CASE \E p \in Procs : Crash(p)
    <2>1. req' \in [Procs -> Request]
        BY <1>4, DoneTyped DEF Crash
    <2> QED BY SMT, <1>4, <2>1 DEF Crash, TypeOK, queue, markers, gate
<1>5. CASE UNCHANGED vars
    BY <1>5 DEF vars, TypeOK, queue, markers, gate
<1> QED BY SMTT(60), <1>1, <1>2, <1>3, <1>4, <1>5, StartTyped, ClaimStepTyped,
           SubmitStepTyped,
           PatchStepTyped, SettleStepTyped, CronStepTyped DEF Next

\* Every store and every handler keeps its shape, for every number of clients, jobs
\* and concurrent requests.
THEOREM TypeCorrect == Spec => []TypeOK
<1>1. ASSUME Init PROVE TypeOK
    <2>1. req \in [Procs -> Request]
        BY <1>1, IdleTyped DEF Init
    <2>2. entry \in [Jobs -> Entries]
        BY <1>1, EntryTyped DEF Init
    <2>3. profile \in [Clients -> Profiles] /\ eligible \in [Clients -> SUBSET Jobs]
        BY <1>1, AnyTyped, LeaseQueueAssumption DEF Init
    <2>4. /\ checked \in [Jobs -> BOOLEAN]
          /\ record \in [Jobs -> Clients \cup {"none", "system"}]
          /\ lost \in [Jobs -> SUBSET (Clients \X Nat)]
        BY <1>1 DEF Init
    <2> QED BY <1>1, <2>1, <2>2, <2>3, <2>4 DEF Init, TypeOK
<1> QED BY <1>1, TypeStep, PTL DEF Spec

-----------------------------------------------------------------------------
(* One lease, and no job deleted without a record. *)

\* The steps of a handler that may delete the queue entry of its job.
Deleting == {"teardown", "teardown lease", "teardown avail", "drop", "drop recycled"}

\* A handler's clock reading is never ahead of the clock, and a handler that may
\* delete a queue entry has seen or written the job's record.
Sound(r) == /\ r.t <= now
            /\ r.ret \notin Deleting
            /\ r.pc \in Deleting => HasRecord(r.j)

AllSound == \A p \in Procs : Sound(req[p])

\* What the one-lease check and the deletions rest on.
IInv == TypeOK /\ AllSound /\ OneLiveLease /\ NoJobLost

-----------------------------------------------------------------------------
(* How a step carries the invariant over. *)

\* The handler that moves is sound afterwards, and the others stay sound: records
\* are never taken back and the clock never runs backwards.
LEMMA SetSound ==
    ASSUME TypeOK, AllSound, NEW p \in Procs, NEW r, Sound(r)', Set(p, r), now' \in Nat, now <= now',
           \A j \in Jobs : HasRecord(j) => HasRecord(j)'
    PROVE  AllSound'
<1> SUFFICES ASSUME NEW q \in Procs PROVE Sound(req[q])'
    BY DEF AllSound
<1>1. CASE q = p
    <2>1. req'[q] = r
        BY <1>1 DEF TypeOK, Set
    <2> QED BY <2>1 DEF Sound, HasRecord
<1>2. CASE q # p
    <2>1. req'[q] = req[q]
        BY <1>2 DEF TypeOK, Set
    <2>2. Sound(req[q]) /\ req[q].j \in Jobs /\ req[q].t \in Nat /\ now \in Nat
        BY DEF AllSound, TypeOK, Request
    <2> QED BY SMT, <2>1, <2>2 DEF Sound, HasRecord
<1> QED BY <1>1, <1>2

\* A step that reads, with the clock and the records as they were.
LEMMA SetQuiet ==
    ASSUME TypeOK, AllSound, NEW p \in Procs, NEW r, Sound(r), Set(p, r), UNCHANGED <<now, record>>
    PROVE  AllSound'
BY SMT, SetSound DEF Sound, HasRecord, TypeOK

\* Moving on to a step that deletes nothing, or having seen the record, is sound.
LEMMA GotoQuiet ==
    ASSUME TypeOK, AllSound, NEW p \in Procs, NEW l, l \in Deleting => HasRecord(req[p].j), Goto(p, l),
           UNCHANGED <<now, record>>
    PROVE  AllSound'
<1> DEFINE r == [req[p] EXCEPT !.pc = l]
<1>1. req[p] \in Request /\ Sound(req[p])
    BY DEF TypeOK, AllSound
<1>2. r.pc = l /\ r.t = req[p].t /\ r.ret = req[p].ret /\ r.j = req[p].j
    BY <1>1 DEF Request
<1>3. Sound(r)
    BY <1>1, <1>2 DEF Sound
<1> QED BY <1>3, SetQuiet DEF Goto

\* A request that is answered is about to delete nothing.
LEMMA DoneQuiet ==
    ASSUME TypeOK, AllSound, NEW p \in Procs, Done(p), UNCHANGED <<now, record>>
    PROVE  AllSound'
<1>1. Sound(Idle)
    BY SMT DEF Sound, Idle, Deleting, TypeOK
<1> QED BY <1>1, SetQuiet DEF Done

\* The shared tail of several handlers never returns to a deletion.
LEMMA ReturnQuiet ==
    ASSUME TypeOK, AllSound, NEW p \in Procs, Return(p), UNCHANGED <<now, record>>
    PROVE  AllSound'
<1>1. req[p].ret \notin Deleting
    BY DEF AllSound, Sound
<1> QED BY <1>1, DoneQuiet, GotoQuiet DEF Return

\* A rename clears the check of the job it moves, and deletes only a recorded job.
LEMMA RenameSafe ==
    ASSUME TypeOK, OneLiveLease, NoJobLost, NEW j \in Jobs, NEW e, Rename(j, e),
           e = Gone => HasRecord(j), UNCHANGED <<now, record>>
    PROVE  OneLiveLease' /\ NoJobLost'
<1>1. \A k \in Jobs : k # j => entry'[k] = entry[k] /\ checked'[k] = checked[k]
    BY DEF Rename, TypeOK
<1>2. entry'[j] = e /\ checked'[j] = FALSE
    BY DEF Rename, TypeOK
<1>3. NoJobLost'
    BY <1>1, <1>2 DEF NoJobLost, HasRecord
<1>4. OneLiveLease'
    BY SMT, <1>1, <1>2 DEF OneLiveLease, Live, LeasedTo
<1> QED BY <1>3, <1>4

\* A step that leaves the queue and the clock alone and takes no record back is safe.
LEMMA KeepSafe ==
    ASSUME TypeOK, OneLiveLease, NoJobLost, UNCHANGED <<now, queue>>,
           \A j \in Jobs : HasRecord(j) => HasRecord(j)'
    PROVE  OneLiveLease' /\ NoJobLost'
BY DEF OneLiveLease, NoJobLost, Live, LeasedTo, queue, HasRecord

\* A step that reads is safe.
LEMMA QuietSafe ==
    ASSUME TypeOK, OneLiveLease, NoJobLost, UNCHANGED <<now, queue, record>>
    PROVE  OneLiveLease' /\ NoJobLost'
BY KeepSafe DEF HasRecord

-----------------------------------------------------------------------------
(* The actions, one by one. *)

\* The claim's steps: its rename takes an avail/ entry, and only the listing after
\* it (SecondLease) marks a lease as checked.
LEMMA ClaimStepSafe ==
    ASSUME IInv, NEW p \in Slots, ClaimStep(p)
    PROVE  AllSound' /\ OneLiveLease' /\ NoJobLost'
<1> DEFINE me == req[p]
<1>i. TypeOK /\ AllSound /\ OneLiveLease /\ NoJobLost
    BY DEF IInv
<1>p. p \in Procs
    BY DEF Procs
<1>r. me \in Request /\ Sound(me)
    BY <1>i, <1>p DEF TypeOK, AllSound
<1>f. me.c \in Clients /\ me.j \in Jobs /\ me.t \in Nat
    BY <1>r DEF Request
<1> HIDE DEF me
<1>1. CASE ReadSuspension(p)
    BY <1>1, <1>i, <1>p, DoneQuiet, GotoQuiet, QuietSafe DEF ReadSuspension, Deleting
<1>2. CASE ReadGate(p)
    BY ZenonT(60), <1>2, <1>i, <1>p, DoneQuiet, GotoQuiet, QuietSafe
       DEF ReadGate, Deleting
<1>3. CASE ClaimList(p)
    <2>1. Sound([me EXCEPT !.pc = "suspend", !.ret = "idle"])
        BY <1>r DEF Request, Sound, Deleting
    <2>2. \A j, k, js : Sound([me EXCEPT !.pc = "held", !.j = j, !.key = k, !.jobs = js])
        BY ZenonT(60), <1>r DEF Request, Sound, Deleting
    <2>3. \A js : Sound([me EXCEPT !.pc = "candidates", !.jobs = js])
        BY <1>r DEF Request, Sound, Deleting
    <2>4. AllSound'
        BY <1>3, <1>i, <1>p, <2>1, <2>2, <2>3, SetQuiet DEF ClaimList, me
    <2> QED BY <1>3, <1>i, <2>4, QuietSafe DEF ClaimList
<1>4. CASE ReadHeld(p)
    BY <1>4, <1>i, <1>p, GotoQuiet, QuietSafe DEF ReadHeld, Deleting
<1>5. CASE HeldGate(p)
    <2>1. Sound([me EXCEPT !.pc = "vault", !.ret = "idle"])
        BY <1>r DEF Request, Sound, Deleting
    <2> QED BY <1>5, <1>i, <1>p, <2>1, SetQuiet, DoneQuiet, QuietSafe DEF HeldGate, me
<1>6. CASE HandBack(p)
    BY ZenonT(60), <1>6, <1>i, <1>p, DoneQuiet, QuietSafe DEF HandBack
<1>7. CASE Candidates(p)
    <2>1. \A js : Sound([me EXCEPT !.pc = "pick", !.key = 0, !.jobs = js])
        BY ZenonT(60), <1>r DEF Request, Sound, Deleting
    <2> QED BY <1>7, <1>i, <1>p, <2>1, SetQuiet, QuietSafe DEF Candidates, me
<1>8. CASE Pick(p)
    <2>1. \A j, js : \A l \in {"pick", "take"} : Sound([me EXCEPT !.j = j, !.jobs = js, !.pc = l])
        BY ZenonT(60), <1>r DEF Request, Sound, Deleting
    <2> QED BY <1>8, <1>i, <1>p, <2>1, SetQuiet, DoneQuiet, QuietSafe DEF Pick, me
<1>9. CASE ClaimJob(p)
    <2> DEFINE u == LeaseExpiry(me.t)
    <2>1. Sound([me EXCEPT !.pc = "regate", !.key = u, !.grant = TRUE])
        BY <1>r DEF Request, Sound, Deleting
    <2>2. Lease(me.c, u) # Gone
        BY DEF Lease, Gone
    <2>3. CASE Rename(me.j, Lease(me.c, u))
               /\ Set(p, [me EXCEPT !.pc = "regate", !.key = u, !.grant = TRUE])
        BY SMTT(60), <1>9, <1>i, <1>p, <1>f, <2>1, <2>2, <2>3, SetQuiet, RenameSafe
           DEF ClaimJob
    <2>4. CASE Goto(p, "pick") /\ UNCHANGED queue
        BY <1>9, <1>i, <1>p, <2>4, GotoQuiet, QuietSafe DEF ClaimJob, Deleting
    <2> QED BY <1>9, <2>3, <2>4 DEF ClaimJob, me
<1>10. CASE Regate(p)
    <2>1. Sound([me EXCEPT !.pc = "resolve", !.ret = "idle"])
        BY <1>r DEF Request, Sound, Deleting
    <2> QED BY <1>10, <1>i, <1>p, <2>1, SetQuiet, GotoQuiet, QuietSafe
               DEF Regate, Deleting, me
<1>11. CASE SecondLease(p)
    <2>1. \A l \in {"resolve", "idle"} : Sound([me EXCEPT !.pc = "suspend", !.ret = l])
        BY <1>r DEF Request, Sound, Deleting
    <2>2. \A l \in {"pick", "idle"} : Sound([me EXCEPT !.pc = "vault", !.ret = l])
        BY <1>r DEF Request, Sound, Deleting
    <2>3. AllSound'
        BY ZenonT(60), <1>11, <1>i, <1>p, <2>1, <2>2, SetQuiet, DoneQuiet
           DEF SecondLease, me
    <2>4. NoJobLost'
        BY <1>11, <1>i DEF SecondLease, NoJobLost, HasRecord
    <2>5. CASE UNCHANGED checked
        BY <1>11, <1>i, <2>3, <2>5, QuietSafe DEF SecondLease, queue
    <2>6. CASE /\ ~ \E j \in Jobs \ {me.j} : Live(j, me.c, me.t)
               /\ checked' = [checked EXCEPT ![me.j] = LeasedTo(me.j, me.c)]
        <3> SUFFICES ASSUME NEW c \in Clients, NEW j \in Jobs, NEW k \in Jobs, j # k,
                            Live(j, c, now), Live(k, c, now), checked'[j], checked'[k]
                     PROVE  FALSE
            BY <1>11, <2>3, <2>4 DEF SecondLease, OneLiveLease, Live, LeasedTo
        <3>1. \A i \in Jobs : i # me.j => checked'[i] = checked[i]
            BY <2>6, <1>i, <1>f DEF TypeOK
        <3>2. checked'[me.j] = LeasedTo(me.j, me.c)
            BY SMTT(60), <2>6, <1>i, <1>f DEF TypeOK
        <3>3. \A i \in Jobs : i # me.j => ~ Live(i, me.c, now)
            <4> SUFFICES ASSUME NEW i \in Jobs, i # me.j, LeasedTo(i, me.c), entry[i].until > now
                         PROVE  FALSE
                BY DEF Live
            <4>1. entry[i].until \in Nat
                BY SMTT(60), <1>i, HeldTyped DEF LeasedTo
            <4>2. me.t <= now /\ now \in Nat
                BY <1>i, <1>r DEF Sound, TypeOK
            <4> QED BY SMTT(60), <2>6, <1>f, <4>1, <4>2 DEF Live
        <3>4. CASE j # me.j /\ k # me.j
            BY <1>i, <3>1, <3>4 DEF OneLiveLease
        <3>5. CASE j = me.j
            BY <3>2, <3>3, <3>5 DEF Live, LeasedTo
        <3>6. CASE k = me.j
            BY ZenonT(60), <3>2, <3>3, <3>6 DEF Live, LeasedTo
        <3> QED BY <3>4, <3>5, <3>6
    <2> QED BY <1>11, <2>5, <2>6 DEF SecondLease, me
<1>12. CASE Suspend(p)
    <2>1. Sound([me EXCEPT !.pc = "resolve", !.ret = "idle"])
        BY <1>r DEF Request, Sound, Deleting
    <2> QED BY <1>12, <1>i, <1>p, <2>1, SetQuiet, DoneQuiet, QuietSafe DEF Suspend, me
<1>13. CASE VaultCheck(p)
    BY ZenonT(60), <1>13, <1>i, <1>p, DoneQuiet, GotoQuiet, QuietSafe
       DEF VaultCheck, Deleting
<1>14. CASE Deny(p)
    BY ZenonT(60), <1>14, <1>i, <1>p, DoneQuiet, GotoQuiet, QuietSafe DEF Deny, Deleting
<1> QED BY SMTT(60), <1>1, <1>2, <1>3, <1>4, <1>5, <1>6, <1>7, <1>8, <1>9, <1>10,
           <1>11, <1>12, <1>13, <1>14
        DEF ClaimStep

\* A deletion is safe wherever the handler has seen the record.
LEMMA DeleteSafe ==
    ASSUME IInv, NEW p \in Procs, req[p].pc \in Deleting, DeleteLease(p) \/ DeleteAvail(p),
           UNCHANGED <<now, record>>
    PROVE  OneLiveLease' /\ NoJobLost'
<1>1. TypeOK /\ OneLiveLease /\ NoJobLost /\ req[p].j \in Jobs /\ HasRecord(req[p].j)
    BY DEF IInv, AllSound, Sound, TypeOK, Request
<1>2. CASE UNCHANGED queue
    BY <1>1, <1>2, QuietSafe
<1>3. CASE Rename(req[p].j, Gone)
    BY <1>1, <1>3, RenameSafe
<1> QED BY SMTT(60), <1>2, <1>3 DEF DeleteLease, DeleteAvail

\* A renewal or a submission: the record is durable before the teardown starts.
LEMMA SubmitStepSafe ==
    ASSUME IInv, NEW p \in Slots, SubmitStep(p)
    PROVE  AllSound' /\ OneLiveLease' /\ NoJobLost'
<1> DEFINE me == req[p]
<1>i. TypeOK /\ AllSound /\ OneLiveLease /\ NoJobLost
    BY DEF IInv
<1>p. p \in Procs
    BY DEF Procs
<1>r. me \in Request /\ Sound(me)
    BY <1>i, <1>p DEF TypeOK, AllSound
<1>f. me.c \in Clients /\ me.j \in Jobs
    BY <1>r DEF Request
<1>d. (InLeaseBranch(p) \/ InAvailBranch(p)) => me.pc \in Deleting
    BY DEF InLeaseBranch, InAvailBranch, At, Deleting
<1>e. ASSUME me.pc \in Deleting, EndLeaseBranch(p) \/ EndAvailBranch(p), UNCHANGED <<now, record>>
      PROVE  AllSound'
    <2>1. HasRecord(me.j)
        BY <1>e, <1>r DEF Sound
    <2>2. Sound([me EXCEPT !.body = TRUE])
        BY <1>r DEF Request, Sound
    <2> QED BY ZenonT(60), <1>e, <1>i, <1>p, <2>1, <2>2, SetQuiet, GotoQuiet, DoneQuiet
            DEF EndLeaseBranch, EndAvailBranch
<1> HIDE DEF me
<1>1. CASE CheckReach(p)
    <2>1. \A k : Sound([me EXCEPT !.pc = "deny", !.key = k, !.ret = "idle"])
        BY ZenonT(60), <1>r DEF Request, Sound, Deleting
    <2>2. AllSound'
        BY ZenonT(60), <1>1, <1>i, <1>p, <2>1, SetQuiet, GotoQuiet
           DEF CheckReach, Deleting, me
    <2> QED BY <1>1, <1>i, <2>2, QuietSafe DEF CheckReach
<1>2. CASE BindClaim(p)
    <2>1. \A b : Sound([me EXCEPT !.pc = "verify", !.body = b])
        BY <1>r DEF Request, Sound, Deleting
    <2> QED BY <1>2, <1>i, <1>p, <2>1, SetQuiet, DoneQuiet, QuietSafe DEF BindClaim, me
<1>3. CASE VerifyClaim(p)
    <2>1. Sound([me EXCEPT !.pc = "renew", !.t = now])
        <3>1. now <= now
            BY SMT, <1>i DEF TypeOK
        <3> QED BY <1>r, <3>1 DEF Request, Sound, Deleting
    <2> QED BY <1>3, <1>i, <1>p, <2>1, SetQuiet, DoneQuiet, QuietSafe DEF VerifyClaim, me
<1>4. CASE RenewLease(p)
    <2> DEFINE u == LeaseExpiry(me.t)
               l == AfterRenewal(me)
    <2>1. l \notin Deleting
        BY DEF AfterRenewal, Deleting
    <2>2. Lease(me.c, u) # Gone
        BY DEF Lease, Gone
    <2> HIDE DEF u, l
    <2>3. Sound([me EXCEPT !.pc = l, !.key = u])
        BY <1>r, <2>1 DEF Request, Sound
    <2>4. CASE /\ Rename(me.j, Lease(me.c, u))
               /\ Done(p) \/ Set(p, [me EXCEPT !.pc = l, !.key = u])
        BY <1>4, <1>i, <1>p, <1>f, <2>2, <2>3, <2>4, SetQuiet, DoneQuiet, RenameSafe
           DEF RenewLease
    <2>5. CASE (Goto(p, "candidates") \/ Done(p)) /\ UNCHANGED queue
        BY <1>4, <1>i, <1>p, <2>5, GotoQuiet, DoneQuiet, QuietSafe
           DEF RenewLease, Deleting
    <2> QED BY <1>4, <2>4, <2>5 DEF RenewLease, me, u, l
<1>5. CASE RecordSubmission(p)
    <2>1. PICK m : m = me
        OBVIOUS
    <2>2. record' = [record EXCEPT ![m.j] = m.c] /\ UNCHANGED <<now, queue>>
        BY <1>5, <2>1 DEF RecordSubmission, me
    <2>3. m.c # "none" /\ m.j \in Jobs /\ m \in Request /\ m.t <= now /\ m.ret \notin Deleting
        BY <1>f, <1>r, <2>1, LeaseQueueAssumption DEF Sound
    <2>4. \A j \in Jobs : HasRecord(j) => HasRecord(j)'
        BY <1>i, <2>2, <2>3 DEF HasRecord, TypeOK
    <2>5. HasRecord(m.j)'
        BY <1>i, <2>2, <2>3 DEF HasRecord, TypeOK
    <2>6. Sound([m EXCEPT !.pc = "teardown", !.body = FALSE])'
        BY <2>2, <2>3, <2>5 DEF Request, Sound
    <2>7. Set(p, [m EXCEPT !.pc = "teardown", !.body = FALSE]) /\ now \in Nat
        BY <1>5, <1>i, <2>1 DEF RecordSubmission, TypeOK, me
    <2>8. AllSound'
        BY SMT, <1>i, <1>p, <2>2, <2>4, <2>6, <2>7, SetSound
    <2> QED BY <1>i, <2>2, <2>4, <2>8, KeepSafe
<1>6. CASE TeardownLocate(p)
    <2>1. me.pc \in Deleting
        BY <1>6 DEF TeardownLocate, At, Deleting, me
    <2>2. \A k : Sound([me EXCEPT !.pc = "teardown lease", !.key = k])
        BY ZenonT(60), <1>r, <2>1 DEF Request, Sound
    <2>3. AllSound'
        BY <1>6, <1>i, <1>p, <1>e, <2>1, <2>2, SetQuiet DEF TeardownLocate, me
    <2> QED BY <1>6, <1>i, <2>3, QuietSafe DEF TeardownLocate
<1>7. CASE TeardownLease(p)
    <2>1. me.pc \in Deleting
        BY <1>7 DEF TeardownLease, At, Deleting, me
    <2> QED BY <1>7, <1>p, <1>e, <2>1, DeleteSafe DEF TeardownLease, me
<1>8. CASE TeardownAvail(p)
    BY <1>8, <1>p, <1>d, <1>e, DeleteSafe DEF TeardownAvail, me
<1>9. CASE TeardownError(p)
    BY <1>9, <1>i, <1>d, <1>e, QuietSafe DEF TeardownError
<1>10. CASE OwnLease(p)
    <2>1. \A k : Sound([me EXCEPT !.pc = "recycle", !.key = k])
        BY <1>r DEF Request, Sound, Deleting
    <2>2. \A k : Sound([me EXCEPT !.grant = TRUE, !.key = k])
        BY SMTT(60), <1>r DEF Request, Sound
    <2>3. AllSound'
        BY <1>10, <1>i, <1>p, <2>1, <2>2, SetQuiet, DoneQuiet DEF OwnLease, me
    <2> QED BY <1>10, <1>i, <2>3, QuietSafe DEF OwnLease
<1> QED BY SMTT(60), <1>1, <1>2, <1>3, <1>4, <1>5, <1>6, <1>7, <1>8, <1>9, <1>10
           DEF SubmitStep

\* The shared tail: it deletes the entry of a recorded job and recycles the others.
LEMMA SettleStepSafe ==
    ASSUME IInv, NEW p \in Procs, SettleStep(p)
    PROVE  AllSound' /\ OneLiveLease' /\ NoJobLost'
<1> DEFINE me == req[p]
<1>i. TypeOK /\ AllSound /\ OneLiveLease /\ NoJobLost
    BY DEF IInv
<1>r. me \in Request /\ Sound(me)
    BY <1>i DEF TypeOK, AllSound
<1>f. me.j \in Jobs
    BY <1>r DEF Request
<1> HIDE DEF me
<1>1. CASE ResolveLease(p)
    BY <1>1, <1>i, GotoQuiet, QuietSafe DEF ResolveLease, Deleting
<1>2. CASE DropEntry(p)
    <2>1. req[p].pc \in Deleting
        BY SMTT(60), <1>2 DEF DropEntry, At, Deleting
    <2> QED BY <1>2, <1>i, <2>1, DeleteSafe, ReturnQuiet DEF DropEntry
<1>3. CASE RecycleLease(p)
    <2>1. AllSound'
        BY <1>3, <1>i, GotoQuiet, ReturnQuiet DEF RecycleLease, Deleting
    <2>2. Avail # Gone
        BY DEF Avail, Gone
    <2> QED BY ZenonT(60), <1>3, <1>i, <1>f, <2>1, <2>2, RenameSafe, QuietSafe
               DEF RecycleLease, me
<1>4. CASE NextLease(p)
    <2>1. ASSUME NEW j, NEW c, NEW k, NEW ls, NEW l \in {"has record", "resolve"}
          PROVE  Sound([me EXCEPT !.j = j, !.c = c, !.key = k, !.leases = ls,
                                  !.ret = "next lease", !.pc = l])
        <3> DEFINE r == [me EXCEPT !.j = j, !.c = c, !.key = k, !.leases = ls,
                                   !.ret = "next lease", !.pc = l]
        <3>1. r.t = me.t /\ r.ret = "next lease" /\ r.pc = l
            BY <1>r DEF Request
        <3>2. l \notin Deleting /\ "next lease" \notin Deleting
            BY DEF Deleting
        <3> HIDE DEF r
        <3>3. Sound(r)
            BY ZenonT(60), <1>r, <3>1, <3>2 DEF Sound
        <3> QED BY <3>3 DEF r
    <2>2. EndPass("settle") /\ p = Cron => AllSound'
        <3>1. PassAfter("settle") \notin Deleting
            BY DEF PassAfter, Deleting
        <3> QED BY <1>4, <1>i, <3>1, GotoQuiet, DoneQuiet DEF EndPass, NextLease
    <2>3. CASE me.leases = {}
        BY ZenonT(60), <1>4, <1>i, <2>2, <2>3, GotoQuiet, QuietSafe
           DEF NextLease, Deleting, me
    <2>4. CASE me.leases # {}
        BY ZenonT(60), <1>4, <1>i, <2>1, <2>4, SetQuiet, QuietSafe DEF NextLease, me
    <2> QED BY <2>3, <2>4
<1> QED BY <1>1, <1>2, <1>3, <1>4 DEF SettleStep

\* The profile update deletes a recycled entry only after it saw the record.
LEMMA PatchStepSafe ==
    ASSUME IInv, NEW p \in Slots, PatchStep(p)
    PROVE  AllSound' /\ OneLiveLease' /\ NoJobLost'
<1> DEFINE me == req[p]
<1>i. TypeOK /\ AllSound /\ OneLiveLease /\ NoJobLost
    BY DEF IInv
<1>p. p \in Procs
    BY DEF Procs
<1>r. me \in Request /\ Sound(me)
    BY <1>i, <1>p DEF TypeOK, AllSound
<1> HIDE DEF me
<1>1. CASE FlagBefore(p) \/ FlagAfter(p)
    <2>1. \A s : Sound([me EXCEPT !.pc = "relinquish", !.seen = s])
        BY <1>r DEF Request, Sound, Deleting
    <2>2. AllSound'
        BY <1>1, <1>i, <1>p, <2>1, SetQuiet, DoneQuiet DEF FlagBefore, FlagAfter, WriteFlag, me
    <2> QED BY <1>1, <1>i, <2>2, QuietSafe DEF FlagBefore, FlagAfter, WriteFlag
<1>2. CASE RelinquishList(p)
    <2>1. \A n, ls : Sound([me EXCEPT !.pc = "next lease", !.pass = n, !.leases = ls])
        BY <1>r DEF Request, Sound, Deleting
    <2>2. AllSound'
        BY <1>2, <1>i, <1>p, <2>1, SetQuiet, GotoQuiet, DoneQuiet
           DEF RelinquishList, Deleting, me
    <2> QED BY <1>2, <1>i, <2>2, QuietSafe DEF RelinquishList
<1>3. CASE RecheckRecord(p)
    BY <1>3, <1>i, <1>p, GotoQuiet, QuietSafe DEF RecheckRecord, Deleting
<1>4. CASE DropRecycled(p)
    <2>1. req[p].pc \in Deleting
        BY <1>4 DEF DropRecycled, At, Deleting
    <2> QED BY <1>4, <1>i, <1>p, <2>1, DeleteSafe, GotoQuiet DEF DropRecycled, Deleting
<1>5. CASE ReplaceClient(p)
    BY <1>5, <1>i, <1>p, DoneQuiet, GotoQuiet, QuietSafe DEF ReplaceClient, Deleting
<1> QED BY <1>1, <1>2, <1>3, <1>4, <1>5 DEF PatchStep

\* The maintenance run: the synthetic failure is durable before the entry goes.
LEMMA CronStepSafe ==
    ASSUME IInv, CronStep
    PROVE  AllSound' /\ OneLiveLease' /\ NoJobLost'
<1> DEFINE me == req[Cron]
<1>i. TypeOK /\ AllSound /\ OneLiveLease /\ NoJobLost
    BY DEF IInv
<1>p. Cron \in Procs
    BY DEF Procs
<1>r. me \in Request /\ Sound(me)
    BY <1>i, <1>p DEF TypeOK, AllSound
<1>f. me.j \in Jobs
    BY SMTT(60), <1>r DEF Request
<1> HIDE DEF me
<1>1. CASE SettleHasRecord \/ WriteLost \/ CountLost \/ LostBody \/ RebuildClient
    BY <1>1, <1>i, <1>p, GotoQuiet, QuietSafe
       DEF SettleHasRecord, WriteLost, CountLost, LostBody, RebuildClient, Deleting
<1>2. CASE TerminalHasRecord
    BY <1>2, <1>i, <1>p, GotoQuiet, QuietSafe DEF TerminalHasRecord, Deleting
<1>3. CASE RecordSystemFailure
    <2>1. PICK m : m = me
        OBVIOUS
    <2>2. /\ record' = [record EXCEPT ![m.j] = IF @ = "none" THEN "system" ELSE @]
          /\ UNCHANGED <<now, queue>>
        BY <1>3, <2>1 DEF RecordSystemFailure, me
    <2>3. m.j \in Jobs /\ m \in Request /\ m.t <= now /\ m.ret \notin Deleting
        BY SMTT(60), <1>f, <1>r, <2>1 DEF Sound
    <2>4. \A j \in Jobs : HasRecord(j) => HasRecord(j)'
        BY <1>i, <2>2, <2>3 DEF HasRecord, TypeOK
    <2>5. HasRecord(m.j)'
        BY <1>i, <2>2, <2>3 DEF HasRecord, TypeOK
    <2>6. Sound([m EXCEPT !.pc = "drop"])'
        BY <2>2, <2>3, <2>5 DEF Request, Sound
    <2>7. Set(Cron, [m EXCEPT !.pc = "drop"]) /\ now \in Nat
        BY <1>3, <1>i, <2>1 DEF RecordSystemFailure, Goto, TypeOK, me
    <2>8. AllSound'
        BY SMTT(60), <1>i, <1>p, <2>2, <2>4, <2>6, <2>7, SetSound
    <2> QED BY <1>i, <2>2, <2>4, <2>8, KeepSafe
<1>4. CASE SettleList
    <2>1. \A ls : Sound([me EXCEPT !.pc = "next lease", !.leases = ls])
        BY ZenonT(60), <1>r DEF Request, Sound, Deleting
    <2> QED BY <1>4, <1>i, <1>p, <2>1, SetQuiet, QuietSafe DEF SettleList, me
<1>5. CASE ListAvail
    <2>1. \A js : Sound([me EXCEPT !.pc = "expire", !.key = 0, !.ret = "expire", !.jobs = js])
        BY ZenonT(60), <1>r DEF Request, Sound, Deleting
    <2> QED BY <1>5, <1>i, <1>p, <2>1, SetQuiet, QuietSafe DEF ListAvail, me
<1>6. CASE ExpireOverdue
    <2>1. \A j, js : \A l \in {"terminal", "expire"} : Sound([me EXCEPT !.j = j, !.jobs = js, !.pc = l])
        BY ZenonT(60), <1>r DEF Request, Sound, Deleting
    <2> QED BY <1>6, <1>i, <1>p, <2>1, SetQuiet, GotoQuiet, QuietSafe
               DEF ExpireOverdue, Deleting, me
<1>7. CASE ReadBodies
    <2>1. \A js : Sound([me EXCEPT !.pc = "denials", !.bodies = js])
        BY ZenonT(60), <1>r DEF Request, Sound, Deleting
    <2> QED BY <1>7, <1>i, <1>p, <2>1, SetQuiet, QuietSafe DEF ReadBodies, me
<1>8. CASE ListDenials
    <2>1. \A js : Sound([me EXCEPT !.pc = "escalate", !.ret = "escalate", !.jobs = js])
        BY ZenonT(60), <1>r DEF Request, Sound, Deleting
    <2> QED BY <1>8, <1>i, <1>p, <2>1, SetQuiet, QuietSafe DEF ListDenials, me
<1>9. CASE EscalateAllDenied
    <2>1. \A j, js : \A l \in {"terminal", "escalate"} : Sound([me EXCEPT !.j = j, !.jobs = js, !.pc = l])
        BY ZenonT(60), <1>r DEF Request, Sound, Deleting
    <2>2. EndPass("retire") => AllSound'
        <3>1. PassAfter("retire") \notin Deleting
            BY SMTT(60) DEF PassAfter, Deleting
        <3> QED BY <1>9, <1>i, <1>p, <3>1, GotoQuiet, DoneQuiet
                   DEF EndPass, EscalateAllDenied
    <2> QED BY <1>9, <1>i, <1>p, <2>1, <2>2, SetQuiet, QuietSafe DEF EscalateAllDenied, me
<1>10. CASE ListFlags
    <2>1. \A f : Sound([me EXCEPT !.pc = "next client", !.seen = f, !.bodies = {}])
        BY ZenonT(60), <1>r DEF Request, Sound, Deleting
    <2> QED BY <1>10, <1>i, <1>p, <2>1, SetQuiet, QuietSafe DEF ListFlags, me
<1>11. CASE NextClient
    <2>1. \A c, f : Sound([me EXCEPT !.pc = "rebuild", !.c = c, !.prof = f])
        BY <1>r DEF Request, Sound, Deleting
    <2> QED BY <1>11, <1>i, <1>p, <2>1, SetQuiet, DoneQuiet, QuietSafe DEF NextClient, me
<1>12. CASE RereadClient \/ DeleteFlags
    <2>1. Sound([me EXCEPT !.pc = "next client", !.seen[me.c] = {}])
        BY <1>r DEF Request, Sound, Deleting
    <2> QED BY <1>12, <1>i, <1>p, <2>1, SetQuiet, GotoQuiet, QuietSafe
            DEF RereadClient, DeleteFlags, Deleting, me
<1> QED BY <1>1, <1>2, <1>3, <1>4, <1>5, <1>6, <1>7, <1>8, <1>9, <1>10, <1>11, <1>12
           DEF CronStep

\* Time only ends leases, and a handler that starts or is cut short deletes nothing.
LEMMA EnvironmentSafe ==
    ASSUME IInv,
           \/ Tick \/ StartMaintenance \/ (\E c \in Clients : Unsuspend(c)) \/ UNCHANGED vars
           \/ \E p \in Procs : Crash(p)
           \/ \E p \in Slots, op \in AllOps, c \in Clients, j \in Jobs : Start(p, op, c, j)
    PROVE  AllSound' /\ OneLiveLease' /\ NoJobLost'
<1>i. TypeOK /\ AllSound /\ OneLiveLease /\ NoJobLost
    BY SMTT(60) DEF IInv
<1>n. now \in Nat /\ now <= now
    BY SMT, <1>i DEF TypeOK
<1>1. CASE Tick
    <2>1. now' = now + 1 /\ UNCHANGED <<entry, checked, record, req>>
        BY <1>1 DEF Tick, queue
    <2>2. NoJobLost'
        BY SMTT(60), <1>i, <2>1 DEF NoJobLost, HasRecord
    <2>3. AllSound'
        <3> SUFFICES ASSUME NEW p \in Procs PROVE Sound(req[p])'
            BY SMTT(60) DEF AllSound
        <3>1. req[p].t \in Nat /\ Sound(req[p])
            BY <1>i DEF AllSound, TypeOK, Request
        <3> QED BY SMT, <1>n, <2>1, <3>1 DEF Sound, HasRecord
    <2>4. OneLiveLease'
        <3>1. ASSUME NEW j \in Jobs, NEW c \in Clients, Live(j, c, now)'
              PROVE  Live(j, c, now)
            <4>1. LeasedTo(j, c) /\ entry[j].until > now + 1
                BY <2>1, <3>1 DEF Live, LeasedTo
            <4>2. entry[j].until \in Nat
                BY <1>i, <4>1, HeldTyped DEF LeasedTo
            <4> QED BY SMTT(60), <1>n, <4>1, <4>2 DEF Live
        <3> QED BY SMTT(60), <1>i, <2>1, <3>1 DEF OneLiveLease
    <2> QED BY SMTT(60), <2>2, <2>3, <2>4
<1>2. CASE StartMaintenance
    <2>1. PassAfter("start") \notin Deleting
        BY DEF PassAfter, Deleting
    <2>2. Sound([Idle EXCEPT !.pc = PassAfter("start"), !.op = "maintenance", !.t = now])
        BY ZenonT(60), <1>n, <2>1 DEF Idle, Sound, Deleting
    <2> QED BY <1>2, <1>i, <2>2, SetQuiet, QuietSafe DEF StartMaintenance, Procs
<1>3. CASE \E c \in Clients : Unsuspend(c)
    BY <1>3, <1>i, QuietSafe DEF Unsuspend, AllSound, Sound, HasRecord
<1>4. CASE \E p \in Procs : Crash(p)
    BY SMTT(60), <1>4, <1>i, DoneQuiet, QuietSafe DEF Crash
<1>5. ASSUME NEW p \in Slots, NEW op \in AllOps, NEW c \in Clients, NEW j \in Jobs, Start(p, op, c, j)
      PROVE  AllSound' /\ OneLiveLease' /\ NoJobLost'
    <2>1. \A f : \A l \in {"suspension", "bind", "flag before"} :
            Sound([Idle EXCEPT !.op = op, !.c = c, !.j = j, !.t = now, !.prof = f, !.pc = l])
        BY ZenonT(60), <1>n DEF Idle, Sound, Deleting
    <2>2. (CASE op \in {"claim", "heartbeat", "reclaim"} -> "suspension"
             [] op \in {"success", "failure", "retriable"} -> "bind"
             [] op = "patch" -> "flag before") \in {"suspension", "bind", "flag before"}
        BY DEF AllOps
    <2>3. AllSound'
        BY <1>5, <1>i, <2>1, <2>2, SetQuiet DEF Start, Procs
    <2> QED BY <1>5, <1>i, <2>3, QuietSafe DEF Start
<1>6. CASE UNCHANGED vars
    BY <1>6, <1>i, QuietSafe DEF vars, AllSound, Sound, HasRecord
<1> QED BY <1>1, <1>2, <1>3, <1>4, <1>5, <1>6

\* The inductive invariant: no handler is about to delete the queue entry of a job
\* whose record it has not seen or written.
THEOREM Invariant == Spec => []IInv
<1>1. ASSUME Init PROVE AllSound /\ OneLiveLease /\ NoJobLost
    <2>1. \A p \in Procs : req[p] = Idle
        BY SMTT(60), <1>1 DEF Init
    <2>2. Sound(Idle)
        BY SMT, <1>1 DEF Init, Sound, Idle, Deleting
    <2>3. \A j \in Jobs : entry[j] = Avail
        BY <1>1 DEF Init
    <2> QED BY SMT, <2>1, <2>2, <2>3
               DEF AllSound, OneLiveLease, NoJobLost, Live, LeasedTo, Avail, Gone
<1>2. ASSUME IInv, [Next]_vars, TypeOK' PROVE IInv'
    <2>1. AllSound' /\ OneLiveLease' /\ NoJobLost'
        BY <1>2, ClaimStepSafe, SubmitStepSafe, SettleStepSafe, PatchStepSafe,
           CronStepSafe,
           EnvironmentSafe DEF Next
    <2> QED BY <1>2, <2>1 DEF IInv
<1>3. TypeOK /\ AllSound /\ OneLiveLease /\ NoJobLost => IInv
    BY DEF IInv
<1> QED BY <1>1, <1>2, <1>3, TypeCorrect, PTL DEF Spec

\* One lease per client, for any number of concurrent requests: two live leases of
\* a client never both passed the check that follows a grant or a renewal.
THEOREM OneLeasePerClient == Spec => []OneLiveLease
<1>1. IInv => OneLiveLease
    BY DEF IInv
<1> QED BY <1>1, Invariant, PTL

\* A job leaves the queue only with a submission record.
THEOREM JobsSurvive == Spec => []NoJobLost
<1>1. IInv => NoJobLost
    BY DEF IInv
<1> QED BY <1>1, Invariant, PTL

-----------------------------------------------------------------------------
(* The life of a job. *)

\* The ways an entry is renamed: it is deleted, its lease is recycled, or it becomes the
\* lease of the client that claims it or holds it.
Renamed(j) ==
    \/ entry' = [entry EXCEPT ![j] = Gone]
    \/ entry[j].at = "leased" /\ entry' = [entry EXCEPT ![j] = Avail]
    \/ \E c \in Clients, u \in Nat : /\ IsAvail(j) \/ LeasedTo(j, c)
                                     /\ entry' = [entry EXCEPT ![j] = Lease(c, u)]

Recorded(j) == \E r \in Clients \cup {"system"} : record' = [record EXCEPT ![j] = r]

\* A step renames one entry, or writes one record, or does neither: no handler does both
\* at once, which is why the order in which it does them matters.
LEMMA OneWrite ==
    ASSUME TypeOK, [Next]_vars
    PROVE  \/ UNCHANGED <<entry, record>>
           \/ UNCHANGED record /\ \E j \in Jobs : Renamed(j)
           \/ UNCHANGED entry /\ \E j \in Jobs : Recorded(j)
<1> DEFINE Renames == UNCHANGED record /\ (UNCHANGED entry \/ \E j \in Jobs : Renamed(j))
           Writes == UNCHANGED entry /\ \E j \in Jobs : Recorded(j)
<1>1. UNCHANGED <<queue, record>> => Renames
    BY DEF queue
<1>2. \A p \in Procs : req[p].j \in Jobs /\ req[p].c \in Clients /\ LeaseExpiry(req[p].t) \in Nat
    BY LeaseExpiryTyped DEF TypeOK, Request
<1>3. \A c, u : Lease(c, u).at = "leased" /\ Lease(c, u).by = c
    BY DEF Lease
<1>4. ASSUME NEW p \in Procs, DeleteLease(p) \/ DeleteAvail(p), UNCHANGED record PROVE Renames
    <2>1. UNCHANGED queue \/ entry' = [entry EXCEPT ![req[p].j] = Gone]
        BY <1>4 DEF DeleteLease, DeleteAvail, Rename
    <2> QED BY <1>1, <1>2, <1>4, <2>1 DEF Renamed
<1>5. ASSUME NEW p \in Slots, ClaimStep(p) PROVE Renames
    <2>1. CASE ClaimJob(p)
        <3> DEFINE j == req[p].j
                   c == req[p].c
                   u == LeaseExpiry(req[p].t)
        <3>1. UNCHANGED record
            BY <2>1 DEF ClaimJob
        <3>2. \/ UNCHANGED queue
              \/ (IsAvail(j) \/ entry[j] = Lease(c, u)) /\ entry' = [entry EXCEPT ![j] = Lease(c, u)]
            BY <2>1 DEF ClaimJob, Rename
        <3>3. j \in Jobs /\ c \in Clients /\ u \in Nat
            BY <1>2 DEF Procs
        <3>4. entry[j] = Lease(c, u) => LeasedTo(j, c)
            BY SMT, <1>3 DEF LeasedTo
        <3> HIDE DEF j, c, u
        <3> QED BY <1>1, <3>1, <3>2, <3>3, <3>4 DEF Renamed
    <2>2. CASE ~ ClaimJob(p)
        BY <1>5, <2>2 DEF ClaimStep, ReadSuspension, ReadGate, ClaimList, ReadHeld, HeldGate,
           HandBack, Candidates, Pick, Regate, SecondLease, Suspend, VaultCheck, Deny, queue
    <2> QED BY <2>1, <2>2
<1>6. ASSUME NEW p \in Slots, SubmitStep(p) PROVE Renames \/ Writes
    <2>1. CASE RenewLease(p)
        <3> DEFINE j == req[p].j
                   c == req[p].c
                   u == LeaseExpiry(req[p].t)
        <3>1. UNCHANGED record
            BY <2>1 DEF RenewLease
        <3>2. UNCHANGED queue \/ (LeasedTo(j, c) /\ entry' = [entry EXCEPT ![j] = Lease(c, u)])
            BY <2>1 DEF RenewLease, Rename
        <3>3. j \in Jobs /\ c \in Clients /\ u \in Nat
            BY <1>2 DEF Procs
        <3> HIDE DEF j, c, u
        <3> QED BY <1>1, <3>1, <3>2, <3>3 DEF Renamed
    <2>2. CASE TeardownLease(p) \/ TeardownAvail(p)
        BY <2>2, <1>4 DEF TeardownLease, TeardownAvail, Procs
    <2>3. CASE RecordSubmission(p)
        BY <2>3, <1>2 DEF RecordSubmission, Recorded, queue, Procs
    <2>4. CASE CheckReach(p) \/ BindClaim(p) \/ VerifyClaim(p) \/ TeardownLocate(p)
               \/ TeardownError(p) \/ OwnLease(p)
        BY <2>4, <1>1 DEF CheckReach, BindClaim, VerifyClaim, TeardownLocate, TeardownError, OwnLease
    <2> QED BY <1>6, <2>1, <2>2, <2>3, <2>4 DEF SubmitStep
<1>7. ASSUME NEW p \in Slots, PatchStep(p) PROVE Renames
    <2>1. CASE DropRecycled(p)
        BY <2>1, <1>1, <1>4 DEF DropRecycled, Procs
    <2> QED BY <1>7, <1>1, <2>1 DEF PatchStep, FlagBefore, FlagAfter, WriteFlag, RelinquishList,
               RecheckRecord, ReplaceClient
<1>8. ASSUME NEW p \in Procs, SettleStep(p) PROVE Renames
    <2>1. CASE RecycleLease(p)
        <3>1. UNCHANGED record /\ (UNCHANGED queue \/ (/\ entry[req[p].j] = Lease(req[p].c, req[p].key)
                                                      /\ entry' = [entry EXCEPT ![req[p].j] = Avail]))
            BY <2>1 DEF RecycleLease, Rename
        <3>2. entry[req[p].j] = Lease(req[p].c, req[p].key) => entry[req[p].j].at = "leased"
            BY SMT, <1>3
        <3> QED BY <1>1, <1>2, <3>1, <3>2 DEF Renamed
    <2>2. CASE DropEntry(p)
        BY <2>2, <1>1, <1>4 DEF DropEntry
    <2> QED BY <1>8, <1>1, <2>1, <2>2 DEF SettleStep, ResolveLease, NextLease
<1>9. ASSUME RecordSystemFailure PROVE Writes
    <2>1. /\ UNCHANGED queue /\ Cron \in Procs
          /\ record' = [record EXCEPT ![req[Cron].j] = IF @ = "none" THEN "system" ELSE @]
        BY <1>9 DEF RecordSystemFailure, Procs
    <2>2. record \in [Jobs -> Clients \cup {"none", "system"}]
        BY DEF TypeOK
    <2>3. PICK r \in Clients \cup {"system"} : record' = [record EXCEPT ![req[Cron].j] = r]
        BY <1>2, <2>1, <2>2
    <2> QED BY <1>2, <2>1, <2>3 DEF Recorded, queue
<1>10. ASSUME CronStep, ~ RecordSystemFailure PROVE Renames
    BY <1>10, <1>1 DEF CronStep, SettleList, SettleHasRecord, WriteLost, CountLost, LostBody,
       TerminalHasRecord, ListAvail, ExpireOverdue, ReadBodies, ListDenials,
       EscalateAllDenied, ListFlags, NextClient, RebuildClient, RereadClient, DeleteFlags
<1>11. ASSUME StartMaintenance \/ Tick \/ (\E c \in Clients : Unsuspend(c))
              \/ (\E p \in Slots, op \in AllOps, c \in Clients, i \in Jobs : Start(p, op, c, i))
              \/ (\E p \in Procs : Crash(p)) \/ UNCHANGED vars
       PROVE  Renames
    BY <1>11, <1>1 DEF StartMaintenance, Tick, Unsuspend, Start, Crash, vars
<1>12. Renames \/ Writes
    <2> HIDE DEF Renames, Writes
    <2> QED BY <1>5, <1>6, <1>7, <1>8, <1>9, <1>10, <1>11 DEF Next
<1> QED BY <1>12

\* Where an entry of each kind puts its job.
LEMMA PlaceOf ==
    /\ [at |-> Avail.at, by |-> Avail.by] = Life!Open
    /\ [at |-> Gone.at, by |-> Gone.by] = Life!Left
    /\ \A c, u : [at |-> Lease(c, u).at, by |-> Lease(c, u).by] = Life!Held(c)
    /\ \A e \in Entries : \/ e = Avail /\ e.at = "avail"
                          \/ e = Gone /\ e.at = "gone"
                          \/ e.at = "leased" /\ [at |-> e.at, by |-> e.by] = Life!Held(e.by)
    /\ Life!Open # Life!Left /\ \A c : Life!Held(c) # Life!Left
BY SMT DEF Avail, Gone, Lease, Entries, Life!Open, Life!Left, Life!Held

\* A rename moves one job, and leaves the others where they are.
LEMMA PlaceMoves ==
    ASSUME TypeOK, NEW j \in Jobs, NEW e, entry' = [entry EXCEPT ![j] = e]
    PROVE  Place' = [Place EXCEPT ![j] = [at |-> e.at, by |-> e.by]]
<1>1. entry \in [Jobs -> Entries]
    BY DEF TypeOK
<1>2. \A i \in Jobs : entry'[i] = IF i = j THEN e ELSE entry[i]
    BY <1>1
<1>3. Place' = [i \in Jobs |-> [at |-> entry'[i].at, by |-> entry'[i].by]]
    BY DEF Place
<1>4. [Place EXCEPT ![j] = [at |-> e.at, by |-> e.by]]
      = [i \in Jobs |-> IF i = j THEN [at |-> e.at, by |-> e.by] ELSE [at |-> entry[i].at, by |-> entry[i].by]]
    BY DEF Place
<1>5. \A i \in Jobs : [at |-> entry'[i].at, by |-> entry'[i].by]
                      = IF i = j THEN [at |-> e.at, by |-> e.by] ELSE [at |-> entry[i].at, by |-> entry[i].by]
    BY <1>2
<1> QED BY <1>3, <1>4, <1>5

\* Every step of the queue is a step in the life of one job, or leaves every job where it
\* is: the deletion of an entry needs NoJobLost after the step, a first record needs it before.
LEMMA LifeStep ==
    ASSUME IInv, IInv', [Next]_vars
    PROVE  [Life!Next]_(Life!vars)
<1>1. TypeOK /\ NoJobLost /\ NoJobLost' /\ entry \in [Jobs -> Entries]
    BY DEF IInv, TypeOK
<1>2. UNCHANGED entry => UNCHANGED Place
    BY DEF Place
<1>3. UNCHANGED record => UNCHANGED Finished
    BY DEF Finished, HasRecord
<1>4. \A j \in Jobs : Place[j] = [at |-> entry[j].at, by |-> entry[j].by]
    BY DEF Place
<1>5. CASE UNCHANGED <<entry, record>>
    BY <1>2, <1>3, <1>5 DEF Life!vars
<1>6. ASSUME UNCHANGED record, NEW j \in Jobs, Renamed(j) PROVE [Life!Next]_(Life!vars)
    <2>1. UNCHANGED Finished /\ entry[j] \in Entries
        BY <1>1, <1>3, <1>6
    <2>2. CASE entry' = [entry EXCEPT ![j] = Gone]
        <3>1. Life!Move(j, Life!Left)
            BY <1>1, <2>1, <2>2, PlaceMoves, PlaceOf DEF Life!Move
        <3>2. entry'[j] = Gone
            BY <1>1, <2>2
        <3>3. j \in Finished
            BY <1>1, <1>6, <3>2 DEF NoJobLost, Finished, HasRecord
        <3> QED BY <3>1, <3>3 DEF Life!Next, Life!Leave
    <2>3. CASE entry[j].at = "leased" /\ entry' = [entry EXCEPT ![j] = Avail]
        <3>1. Life!Move(j, Life!Open)
            BY <1>1, <2>1, <2>3, PlaceMoves, PlaceOf DEF Life!Move
        <3>2. entry[j].by \in Clients /\ Place[j] = Life!Held(entry[j].by)
            BY <1>4, <2>1, <2>3, EntryTyped, PlaceOf
        <3> QED BY <3>1, <3>2 DEF Life!Next, Life!GiveBack
    <2>4. ASSUME NEW c \in Clients, NEW u \in Nat, IsAvail(j) \/ LeasedTo(j, c),
                 entry' = [entry EXCEPT ![j] = Lease(c, u)]
          PROVE  [Life!Next]_(Life!vars)
        <3>1. Place' = [Place EXCEPT ![j] = Life!Held(c)]
            <4>1. Place' = [Place EXCEPT ![j] = [at |-> Lease(c, u).at, by |-> Lease(c, u).by]]
                BY <1>1, <2>4, PlaceMoves
            <4>2. [at |-> Lease(c, u).at, by |-> Lease(c, u).by] = Life!Held(c)
                BY PlaceOf
            <4> QED BY <4>1, <4>2
        <3>2. CASE IsAvail(j)
            <4>1. Place[j] = Life!Open
                BY <1>4, <2>1, <3>2, PlaceOf DEF IsAvail
            <4> QED BY <2>1, <3>1, <4>1 DEF Life!Next, Life!Take, Life!Move
        <3>3. CASE LeasedTo(j, c)
            <4>1. Place[j] = Life!Held(c)
                BY <1>4, <2>1, <3>3, PlaceOf DEF LeasedTo
            <4>2. UNCHANGED Place
                BY <3>1, <4>1 DEF Place
            <4> QED BY <2>1, <4>2 DEF Life!vars
        <3> QED BY <2>4, <3>2, <3>3
    <2> QED BY <1>6, <2>2, <2>3, <2>4 DEF Renamed
<1>7. ASSUME UNCHANGED entry, NEW j \in Jobs, Recorded(j) PROVE [Life!Next]_(Life!vars)
    <2>1. PICK r \in Clients \cup {"system"} : record' = [record EXCEPT ![j] = r]
        BY <1>7 DEF Recorded
    <2>2. r # "none"
        BY LeaseQueueAssumption
    <2>3. \A i \in Jobs : record'[i] = IF i = j THEN r ELSE record[i]
        BY <1>1, <2>1 DEF TypeOK
    <2>4. Finished' = Finished \cup {j}
        BY SMT, <2>2, <2>3 DEF Finished, HasRecord
    <2>5. CASE Place[j] # Life!Left
        BY <1>2, <1>7, <2>4, <2>5 DEF Life!Next, Life!Finish
    <2>6. CASE Place[j] = Life!Left
        <3>1. entry[j] = Gone
            <4>1. entry[j] \in Entries
                BY <1>1
            <4>2. entry[j] = Avail => Place[j] = Life!Open
                BY <1>4, PlaceOf
            <4>3. \/ entry[j] = Avail \/ entry[j] = Gone
                  \/ Place[j] = Life!Held(entry[j].by)
                BY <1>4, <4>1, PlaceOf
            <4> QED BY <2>6, <4>2, <4>3, PlaceOf
        <3>2. j \in Finished
            BY <1>1, <3>1 DEF NoJobLost, Finished
        <3>3. UNCHANGED Finished
            BY SMT, <2>4, <3>2
        <3> QED BY <1>2, <1>7, <3>3 DEF Life!vars
    <2> QED BY <2>5, <2>6
<1> QED BY <1>1, <1>5, <1>6, <1>7, OneWrite

\* The queue, with its handlers and the maintenance run interleaved and cut short anywhere,
\* implements the life of a job: one holder at a time, a record before the entry goes, and
\* no way back for an entry that is gone.
THEOREM JobsLiveOnce == Spec => ImplementsJobLife
<1>1. ASSUME Init PROVE Life!Init
    <2>1. \A j \in Jobs : entry[j] = Avail /\ ~ HasRecord(j)
        BY <1>1 DEF Init, HasRecord
    <2>2. Finished = {}
        BY <2>1 DEF Finished
    <2>3. Place = [j \in Jobs |-> Life!Open]
        BY <2>1, PlaceOf DEF Place
    <2> QED BY <2>2, <2>3 DEF Life!Init
<1>2. IInv /\ IInv' /\ [Next]_vars => [Life!Next]_(Life!vars)
    BY LifeStep
<1> QED BY <1>1, <1>2, Invariant, PTL DEF Spec, ImplementsJobLife, Life!Spec
=============================================================================
