------------------------ MODULE LeaseQueueMaintenance ------------------------
(***************************************************************************)
(* The leases a maintenance run may touch, how it settles those that have   *)
(* lapsed, and the flags a client update leaves for it: theorems about      *)
(* LeaseQueue, for every number of clients, jobs and concurrent requests.   *)
(***************************************************************************)
EXTENDS LeaseQueueProofs, FiniteSetTheorems

\* First-order leaves go to Zenon, as in LeaseQueueProofs.
USE ZenonT(30)

\* The steps of the run that act on a lease it listed, and those on an avail/ entry.
Settling == {"has record", "write lost", "count lost", "lost body", "resolve", "recycle"}
Retiring == {"terminal", "system failure", "drop"}
Walking == {"expire", "bodies", "denials", "escalate"}

\* Whatever lease the run still means to settle had lapsed when the run began.
CronSoundOf(r) ==
    /\ \A l \in r.leases : l.key < r.t
    /\ r.pc \in Settling => r.key < r.t
    /\ r.pc \in Retiring => r.key = 0 \/ r.key < r.t
    /\ r.pc \in Walking => r.key = 0
    /\ r.ret \in {"idle", "next lease", "expire", "escalate"}
    /\ r.ret \in {"expire", "escalate"} => r.key = 0

CronSound == CronSoundOf(req[Cron])

\* A request leaves the local state of every other handler alone.
LEMMA OthersWait ==
    ASSUME TypeOK, NEW p \in Slots,
           \/ ClaimStep(p) \/ SubmitStep(p) \/ PatchStep(p) \/ SettleStep(p) \/ Crash(p)
           \/ \E op \in AllOps, c \in Clients, j \in Jobs : Start(p, op, c, j)
    PROVE  \A q \in Procs \ {p} : req'[q] = req[q]
<1> DEFINE Wait == \A q \in Procs \ {p} : req'[q] = req[q]
<1>1. \A r : Set(p, r) => Wait
    BY DEF TypeOK, Set
<1>2. (Done(p) \/ Return(p) \/ \E l : Goto(p, l)) => Wait
    BY ZenonT(60), <1>1 DEF Done, Return, Goto
<1> SUFFICES Wait
    OBVIOUS
<1> HIDE DEF Wait
<1>3. CASE ClaimStep(p)
    <2>1. CASE ReadSuspension(p) \/ ReadGate(p) \/ ClaimList(p) \/ ReadHeld(p) \/ HeldGate(p)
               \/ HandBack(p) \/ Candidates(p)
        BY <2>1, <1>1, <1>2 DEF ReadSuspension, ReadGate, ClaimList, ReadHeld,
           HeldGate, HandBack, Candidates
    <2>2. CASE Pick(p) \/ ClaimJob(p) \/ Regate(p) \/ SecondLease(p) \/ Suspend(p) \/ VaultCheck(p)
               \/ Deny(p)
        BY <2>2, <1>1, <1>2
           DEF Pick, ClaimJob, Regate, SecondLease, Suspend, VaultCheck, Deny
    <2> QED BY <1>3, <2>1, <2>2 DEF ClaimStep
<1>4. CASE SubmitStep(p)
    <2>1. (EndLeaseBranch(p) \/ EndAvailBranch(p)) => Wait
        BY ZenonT(60), <1>1, <1>2 DEF EndLeaseBranch, EndAvailBranch
    <2>2. CASE CheckReach(p) \/ BindClaim(p) \/ VerifyClaim(p) \/ RenewLease(p) \/ RecordSubmission(p)
               \/ OwnLease(p)
        BY <2>2, <1>1, <1>2
           DEF CheckReach, BindClaim, VerifyClaim, RenewLease, RecordSubmission, OwnLease
    <2>3. CASE TeardownLocate(p) \/ TeardownLease(p) \/ TeardownAvail(p) \/ TeardownError(p)
        BY ZenonT(60), <2>1, <2>3, <1>1
           DEF TeardownLocate, TeardownLease, TeardownAvail, TeardownError
    <2> QED BY <1>4, <2>2, <2>3 DEF SubmitStep
<1>5. CASE PatchStep(p)
    BY ZenonT(60), <1>5, <1>1, <1>2
       DEF PatchStep, FlagBefore, FlagAfter, WriteFlag, RelinquishList, RecheckRecord,
       DropRecycled, ReplaceClient
<1>6. CASE SettleStep(p)
    <2>1. p # Cron
        BY LeaseQueueAssumption
    <2> QED BY <1>6, <2>1, <1>1, <1>2
               DEF SettleStep, ResolveLease, DropEntry, RecycleLease, NextLease
<1>7. CASE Crash(p)
    BY SMTT(60), <1>7, <1>2 DEF Crash
<1>8. CASE \E op \in AllOps, c \in Clients, j \in Jobs : Start(p, op, c, j)
    BY <1>8, <1>1 DEF Start
<1> QED BY <1>3, <1>4, <1>5, <1>6, <1>7, <1>8

\* In particular, a request leaves the maintenance run's local state alone.
LEMMA SlotKeepsCron ==
    ASSUME TypeOK, NEW p \in Slots,
           \/ ClaimStep(p) \/ SubmitStep(p) \/ PatchStep(p) \/ SettleStep(p) \/ Crash(p)
           \/ \E op \in AllOps, c \in Clients, j \in Jobs : Start(p, op, c, j)
    PROVE  req'[Cron] = req[Cron]
<1>1. Cron \in Procs \ {p}
    BY LeaseQueueAssumption DEF Procs
<1> QED BY <1>1, OthersWait

\* What the run's own steps do to its local state.
LEMMA CronMoves ==
    ASSUME TypeOK, CronSound
    PROVE  /\ \A r : Set(Cron, r) /\ CronSoundOf(r) => CronSound'
           /\ Done(Cron) => CronSound'
           /\ \A l : Goto(Cron, l) /\ l \notin Settling \cup Retiring \cup Walking => CronSound'
           /\ Return(Cron) => CronSound'
<1> DEFINE me == req[Cron]
<1>p. Cron \in Procs
    BY DEF Procs
<1>r. me \in Request /\ CronSoundOf(me)
    BY <1>p DEF TypeOK, CronSound
<1>1. ASSUME NEW r, Set(Cron, r), CronSoundOf(r) PROVE CronSound'
    <2>1. req'[Cron] = r
        BY <1>1, <1>p DEF Set, TypeOK
    <2> QED BY <1>1, <2>1 DEF CronSound, CronSoundOf
<1>2. CronSoundOf(Idle)
    BY DEF CronSoundOf, Idle, Settling, Retiring, Walking
<1>3. ASSUME NEW l, l \notin Settling \cup Retiring, l \in Walking => me.key = 0
      PROVE  CronSoundOf([me EXCEPT !.pc = l])
    <2> DEFINE r == [me EXCEPT !.pc = l]
    <2>1. r.pc = l /\ r.leases = me.leases /\ r.t = me.t /\ r.ret = me.ret /\ r.key = me.key
        BY <1>r DEF Request
    <2> HIDE DEF r, me
    <2>2. CronSoundOf(r)
        BY <1>3, <1>r, <2>1 DEF CronSoundOf
    <2> QED BY <2>2 DEF r
<1>4. Done(Cron) => CronSound'
    BY <1>1, <1>2 DEF Done
<1>5. \A l : Goto(Cron, l) /\ l \notin Settling \cup Retiring \cup Walking => CronSound'
    BY <1>1, <1>3 DEF Goto
<1>6. Return(Cron) => CronSound'
    <2>1. me.ret \in {"next lease", "expire", "escalate"}
            => me.ret \notin Settling \cup Retiring /\ (me.ret \in Walking => me.key = 0)
        BY <1>r DEF CronSoundOf, Settling, Retiring, Walking
    <2>2. me.ret \in {"idle", "next lease", "expire", "escalate"}
        BY <1>r DEF CronSoundOf
    <2> QED BY <1>1, <1>3, <1>4, <2>1, <2>2 DEF Return, Goto
<1> QED BY <1>1, <1>4, <1>5, <1>6

\* A step of the run keeps it sound.
LEMMA CronStepSound ==
    ASSUME TypeOK, CronSound, CronStep \/ SettleStep(Cron) \/ StartMaintenance \/ Crash(Cron)
    PROVE  CronSound'
<1> DEFINE me == req[Cron]
<1>p. Cron \in Procs
    BY DEF Procs
<1>r. me \in Request /\ CronSoundOf(me)
    BY <1>p DEF TypeOK, CronSound
<1>f. me.t \in Nat /\ me.key \in Nat
    BY <1>r DEF Request
<1>m. /\ \A r : Set(Cron, r) /\ CronSoundOf(r) => CronSound'
      /\ Done(Cron) => CronSound'
      /\ \A l : Goto(Cron, l) /\ l \notin Settling \cup Retiring \cup Walking => CronSound'
      /\ Return(Cron) => CronSound'
    BY CronMoves
<1>g. ASSUME NEW l, Goto(Cron, l), me.pc \in Settling \/ l \in Retiring,
             me.pc \in Settling \cup Retiring, l \in Settling \cup Retiring
      PROVE  CronSound'
    <2> DEFINE r == [me EXCEPT !.pc = l]
    <2>1. r.pc = l /\ r.leases = me.leases /\ r.t = me.t /\ r.ret = me.ret /\ r.key = me.key
        BY <1>r DEF Request
    <2>2. Set(Cron, r)
        BY <1>g DEF Goto
    <2>3. l \notin Walking /\ (l \in Retiring => l \notin Settling)
        BY <1>g DEF Settling, Retiring, Walking
    <2> HIDE DEF r, me
    <2>4. CronSoundOf(r)
        BY <1>g, <1>r, <2>1, <2>3 DEF CronSoundOf
    <2> QED BY <1>m, <2>2, <2>4
<1> HIDE DEF me
<1>1. CASE SettleList
    <2> DEFINE ls == {LeaseItem(j) : j \in {i \in Jobs : /\ entry[i].at = "leased"
                                                        /\ entry[i].until < me.t}}
               r == [me EXCEPT !.pc = "next lease", !.leases = ls]
    <2>1. \A l \in ls : l.key < me.t
        BY SMT DEF LeaseItem
    <2> HIDE DEF ls
    <2>2. r.pc = "next lease" /\ r.leases = ls /\ r.t = me.t /\ r.ret = me.ret /\ r.key = me.key
        BY <1>r DEF Request
    <2> HIDE DEF r
    <2>3. CronSoundOf(r)
        BY ZenonT(60), <1>r, <2>1, <2>2 DEF CronSoundOf, Settling, Retiring, Walking
    <2> QED BY <1>1, <1>m, <2>3 DEF SettleList, me, r, ls
<1>2. CASE NextLease(Cron)
    <2>1. CASE me.leases = {}
        <3>1. PassAfter("settle") \notin Settling \cup Retiring \cup Walking
            BY DEF PassAfter, Settling, Retiring, Walking
        <3> QED BY <1>2, <1>m, <2>1, <3>1 DEF NextLease, EndPass, me
    <2>2. ASSUME NEW l \in me.leases, NEW pc \in {"has record", "resolve"}
          PROVE  CronSoundOf([me EXCEPT !.j = l.j, !.c = l.c, !.key = l.key, !.leases = @ \ {l},
                                        !.ret = "next lease", !.pc = pc])
        <3> DEFINE r == [me EXCEPT !.j = l.j, !.c = l.c, !.key = l.key, !.leases = @ \ {l},
                                   !.ret = "next lease", !.pc = pc]
        <3>1. r.pc = pc /\ r.leases = me.leases \ {l} /\ r.t = me.t /\ r.ret = "next lease" /\ r.key = l.key
            BY <1>r DEF Request
        <3>2. l.key < me.t
            BY <1>r DEF CronSoundOf
        <3> HIDE DEF r
        <3>3. CronSoundOf(r)
            BY <1>r, <3>1, <3>2 DEF CronSoundOf, Settling, Retiring, Walking
        <3> QED BY <3>3 DEF r
    <2> QED BY <1>2, <1>m, <2>1, <2>2 DEF NextLease, me
<1>3. CASE ResolveLease(Cron)
    BY <1>3, <1>g DEF ResolveLease, At, Settling, Retiring, me
<1>4. CASE DropEntry(Cron)
    BY SMTT(60), <1>4, <1>m DEF DropEntry
<1>5. CASE RecycleLease(Cron)
    BY ZenonT(60), <1>5, <1>m DEF RecycleLease, Settling, Retiring, Walking
<1>6. CASE SettleHasRecord \/ WriteLost
    BY ZenonT(60), <1>6, <1>g DEF SettleHasRecord, WriteLost, At, Settling, Retiring, me
<1>7. CASE CountLost
    BY <1>7, <1>g DEF CountLost, At, Settling, Retiring, me
<1>8. CASE LostBody
    BY <1>8, <1>g, <1>m DEF LostBody, At, Settling, Retiring, Walking, me
<1>9. CASE TerminalHasRecord \/ RecordSystemFailure
    BY ZenonT(60), <1>9, <1>g
       DEF TerminalHasRecord, RecordSystemFailure, At, Settling, Retiring, me
<1>10. CASE ListAvail
    <2>1. ASSUME NEW js
          PROVE  CronSoundOf([me EXCEPT !.pc = "expire", !.key = 0, !.ret = "expire", !.jobs = js])
        <3> DEFINE r == [me EXCEPT !.pc = "expire", !.key = 0, !.ret = "expire", !.jobs = js]
        <3>1. r.pc = "expire" /\ r.leases = me.leases /\ r.t = me.t /\ r.ret = "expire" /\ r.key = 0
            BY <1>r DEF Request
        <3> HIDE DEF r
        <3>2. CronSoundOf(r)
            BY <1>r, <3>1 DEF CronSoundOf, Settling, Retiring, Walking
        <3> QED BY <3>2 DEF r
    <2> QED BY <1>10, <1>m, <2>1 DEF ListAvail, me
<1>11. ASSUME NEW j, NEW js, NEW l \in Walking \cup {"terminal"}, me.pc \in Walking
       PROVE  CronSoundOf([me EXCEPT !.j = j, !.jobs = js, !.pc = l])
    <2> DEFINE r == [me EXCEPT !.j = j, !.jobs = js, !.pc = l]
    <2>1. r.pc = l /\ r.leases = me.leases /\ r.t = me.t /\ r.ret = me.ret /\ r.key = me.key
        BY <1>r DEF Request
    <2>2. l \notin Settling
        BY DEF Settling, Walking
    <2> HIDE DEF r
    <2>3. CronSoundOf(r)
        BY ZenonT(60), <1>11, <1>r, <2>1, <2>2 DEF CronSoundOf
    <2> QED BY <2>3 DEF r
<1>12. CASE ExpireOverdue
    <2>1. me.pc \in Walking /\ {"terminal", "expire"} \subseteq Walking \cup {"terminal"}
        BY <1>12 DEF ExpireOverdue, At, Walking, me
    <2>2. Goto(Cron, "bodies") => CronSound'
        <3> DEFINE r == [me EXCEPT !.pc = "bodies"]
        <3>1. r.pc = "bodies" /\ r.leases = me.leases /\ r.t = me.t /\ r.ret = me.ret /\ r.key = me.key
            BY <1>r DEF Request
        <3> HIDE DEF r
        <3>2. CronSoundOf(r)
            BY ZenonT(60), <1>r, <2>1, <3>1 DEF CronSoundOf, Settling, Retiring
        <3> QED BY <1>m, <3>2 DEF Goto, r, me
    <2> QED BY ZenonT(60), <1>12, <1>m, <1>11, <2>1, <2>2 DEF ExpireOverdue, me
<1>13. CASE ReadBodies \/ ListDenials
    <2>1. me.key = 0
        BY <1>13, <1>r DEF ReadBodies, ListDenials, At, CronSoundOf, Walking, me
    <2>2. ASSUME NEW js PROVE CronSoundOf([me EXCEPT !.pc = "denials", !.bodies = js])
        <3> DEFINE r == [me EXCEPT !.pc = "denials", !.bodies = js]
        <3>1. r.pc = "denials" /\ r.leases = me.leases /\ r.t = me.t /\ r.ret = me.ret /\ r.key = me.key
            BY <1>r DEF Request
        <3> HIDE DEF r
        <3>2. CronSoundOf(r)
            BY <1>r, <2>1, <3>1 DEF CronSoundOf, Settling, Retiring
        <3> QED BY <3>2 DEF r
    <2>3. ASSUME NEW js PROVE CronSoundOf([me EXCEPT !.pc = "escalate", !.ret = "escalate", !.jobs = js])
        <3> DEFINE r == [me EXCEPT !.pc = "escalate", !.ret = "escalate", !.jobs = js]
        <3>1. r.pc = "escalate" /\ r.leases = me.leases /\ r.t = me.t /\ r.ret = "escalate" /\ r.key = me.key
            BY <1>r DEF Request
        <3> HIDE DEF r
        <3>2. CronSoundOf(r)
            BY ZenonT(60), <1>r, <2>1, <3>1 DEF CronSoundOf, Settling, Retiring
        <3> QED BY <3>2 DEF r
    <2> QED BY <1>13, <1>m, <2>2, <2>3 DEF ReadBodies, ListDenials, me
<1>14. CASE EscalateAllDenied
    <2>1. me.pc \in Walking /\ {"terminal", "escalate"} \subseteq Walking \cup {"terminal"}
        BY <1>14 DEF EscalateAllDenied, At, Walking, me
    <2>2. EndPass("retire") => CronSound'
        <3>1. PassAfter("retire") \notin Settling \cup Retiring \cup Walking
            BY DEF PassAfter, Settling, Retiring, Walking
        <3> QED BY <1>m, <3>1 DEF EndPass
    <2> QED BY ZenonT(60), <1>14, <1>m, <1>11, <2>1, <2>2 DEF EscalateAllDenied, me
<1>15. ASSUME NEW r, r.leases = me.leases, r.t = me.t, r.ret = me.ret, r.key = me.key,
              r.pc \in {"next client", "rebuild"}
       PROVE  CronSoundOf(r)
    BY <1>15, <1>r DEF CronSoundOf, Settling, Retiring, Walking
<1>16. CASE ListFlags
    BY ZenonT(60), <1>16, <1>r, <1>m, <1>15 DEF ListFlags, Request, me
<1>17. CASE NextClient
    BY ZenonT(60), <1>17, <1>r, <1>m, <1>15 DEF NextClient, Request, me
<1>18. CASE RebuildClient
    BY <1>18, <1>m DEF RebuildClient, Settling, Retiring, Walking
<1>19. CASE RereadClient \/ DeleteFlags
    <2>1. CronSoundOf([me EXCEPT !.pc = "next client", !.seen[me.c] = {}])
        BY <1>r, <1>15 DEF Request
    <2> QED BY <1>19, <1>m, <2>1
               DEF RereadClient, DeleteFlags, Settling, Retiring, Walking, me
<1>20. CASE StartMaintenance
    <2>1. PassAfter("start") \notin Settling \cup Retiring \cup Walking
        BY DEF PassAfter, Settling, Retiring, Walking
    <2>2. CronSoundOf([Idle EXCEPT !.pc = PassAfter("start"), !.op = "maintenance", !.t = now])
        BY <2>1 DEF CronSoundOf, Idle
    <2> QED BY <1>20, <1>m, <2>2 DEF StartMaintenance
<1>21. CASE Crash(Cron)
    BY <1>21, <1>m DEF Crash
<1> QED BY SMTT(60), <1>1, <1>2, <1>3, <1>4, <1>5, <1>6, <1>7, <1>8, <1>9, <1>10,
           <1>12, <1>13, <1>14, <1>16,
           <1>17, <1>18, <1>19, <1>20, <1>21 DEF CronStep, SettleStep

\* Only maintenance runs touch what they know, so it stays true.
LEMMA CronSoundStep ==
    ASSUME TypeOK, CronSound, [Next]_vars
    PROVE  CronSound'
<1>1. ASSUME req'[Cron] = req[Cron] PROVE CronSound'
    BY <1>1 DEF CronSound, CronSoundOf
<1>2. CASE CronStep \/ SettleStep(Cron) \/ StartMaintenance \/ Crash(Cron)
    BY SMTT(60), <1>2, CronStepSound
<1>3. CASE Tick \/ (\E c \in Clients : Unsuspend(c)) \/ UNCHANGED vars
    BY <1>1, <1>3 DEF Tick, Unsuspend, vars
<1>4. CASE \E p \in Slots : \/ ClaimStep(p) \/ SubmitStep(p) \/ PatchStep(p) \/ SettleStep(p) \/ Crash(p)
                            \/ \E op \in AllOps, c \in Clients, j \in Jobs : Start(p, op, c, j)
    BY SMTT(60), <1>1, <1>4, SlotKeepsCron
<1> QED BY SMTT(60), <1>2, <1>3, <1>4 DEF Next, Procs

\* What a step does to a lease: a step that moves the run's local state leaves
\* every lease the run does not know to have lapsed where it is.
LEMMA LeaseStep ==
    ASSUME TypeOK, CronSound, [Next]_vars, req'[Cron] # req[Cron],
           NEW j \in Jobs, entry[j].at = "leased", entry'[j] # entry[j]
    PROVE  entry[j].until < req[Cron].t
<1>1. CASE CronStep
    BY ZenonT(60), <1>1 DEF CronStep, SettleList, SettleHasRecord, WriteLost,
       CountLost, LostBody, TerminalHasRecord,
       RecordSystemFailure, ListAvail, ExpireOverdue, ReadBodies, ListDenials, EscalateAllDenied, ListFlags,
       NextClient, RebuildClient, RereadClient, DeleteFlags, queue
<1>2. CASE SettleStep(Cron)
    <2>t. entry \in [Jobs -> Entries]
        BY SMTT(60) DEF TypeOK
    <2>1. CASE ResolveLease(Cron) \/ NextLease(Cron)
        BY <2>1 DEF ResolveLease, NextLease, queue
    <2>2. ASSUME DeleteAvail(Cron) PROVE FALSE
        BY SMTT(60), <2>2, <2>t DEF DeleteAvail, IsAvail, Rename, queue
    <2>3. ASSUME NEW e, entry[req[Cron].j] = Lease(req[Cron].c, req[Cron].key), Rename(req[Cron].j, e),
                 req[Cron].key < req[Cron].t
          PROVE  entry[j].until < req[Cron].t
        <3>1. j = req[Cron].j
            BY SMTT(60), <2>3, <2>t DEF Rename
        <3> QED BY SMT, <2>3, <3>1 DEF Lease
    <2>4. CASE DropEntry(Cron)
        <3>1. req[Cron].key # 0 /\ DeleteLease(Cron)
            BY SMTT(60), <2>2, <2>4 DEF DropEntry
        <3>2. req[Cron].key < req[Cron].t
            BY ZenonT(60), <2>4, <3>1 DEF DropEntry, At, CronSound, CronSoundOf, Retiring
        <3> QED BY SMTT(60), <2>3, <3>1, <3>2 DEF DeleteLease, queue
    <2>5. CASE RecycleLease(Cron)
        <3>1. req[Cron].key < req[Cron].t
            BY <2>5 DEF RecycleLease, At, CronSound, CronSoundOf, Settling
        <3> QED BY ZenonT(60), <2>3, <2>5, <3>1 DEF RecycleLease, queue
    <2> QED BY <1>2, <2>1, <2>4, <2>5 DEF SettleStep
<1>3. CASE StartMaintenance \/ Crash(Cron) \/ Tick \/ (\E c \in Clients : Unsuspend(c)) \/ UNCHANGED vars
    BY SMTT(60), <1>3 DEF StartMaintenance, Crash, Tick, Unsuspend, vars, queue
<1>4. CASE \E p \in Slots : \/ ClaimStep(p) \/ SubmitStep(p) \/ PatchStep(p) \/ SettleStep(p) \/ Crash(p)
                            \/ \E op \in AllOps, c \in Clients, i \in Jobs : Start(p, op, c, i)
    BY <1>4, SlotKeepsCron
<1> QED BY SMTT(60), <1>1, <1>2, <1>3, <1>4 DEF Next, Procs

\* A maintenance run leaves alone every lease that had not lapsed when the run
\* began: settle_expired_leases acts on the key it listed, so a lease renewed
\* since is out of its reach.
THEOREM LiveLeasesKept == Spec => MaintenanceKeepsLiveLeases
<1>1. Init => CronSound
    <2>1. CronSoundOf(Idle)
        BY DEF CronSoundOf, Idle, Settling, Retiring, Walking
    <2> QED BY SMTT(60), <2>1 DEF Init, CronSound, Procs
<1>2. TypeOK /\ CronSound /\ [Next]_vars => CronSound'
    BY CronSoundStep
<1>3. TypeOK /\ CronSound /\ [Next]_vars
      => [\A j \in Jobs : entry[j].at = "leased" /\ entry'[j] # entry[j] /\ req'[Cron] # req[Cron]
                          => entry[j].until < req[Cron].t]_vars
    BY LeaseStep
<1> QED BY <1>1, <1>2, <1>3, TypeCorrect, PTL DEF Spec, MaintenanceKeepsLiveLeases

-----------------------------------------------------------------------------
(* The flags that hold back a client whose eligible markers are out of date. *)

\* The steps of reindex_flagged_clients that work from a record they have read.
Rewriting == {"rebuild", "reread", "unflag"}

FlagComing(c) == \E p \in Slots : req[p].c = c /\ At(p, "flag after")

\* A flag's name is new, so one written after the listing is not among the listed.
Numbered ==
    \A c \in Clients : flags[c] \subseteq 1 .. flagged /\ req[Cron].seen[c] \subseteq 1 .. flagged

\* A record that moved on since the rebuild read it has a flag that the rebuild did not
\* list, or will have one.
FlagInv ==
    LET me == req[Cron]
    IN  /\ StaleIndexIsFlagged
        /\ me.pc \in Rewriting =>
              profile[me.c] = me.prof \/ FlagComing(me.c) \/ flags[me.c] \ me.seen[me.c] # {}
        /\ me.pc \in {"reread", "unflag"} => eligible[me.c] = Match[me.prof]

FlagsStay == \A q \in Slots : At(q, "flag after") => req'[q] = req[q]

\* A request other than a profile update past its relinquish leaves flags, records and
\* markers alone, and whoever has a second flag to write.
LEMMA RequestsLeaveFlags ==
    ASSUME TypeOK, NEW p \in Slots,
           \/ ClaimStep(p) \/ SubmitStep(p) \/ SettleStep(p)
           \/ RelinquishList(p) \/ RecheckRecord(p) \/ DropRecycled(p)
           \/ \E op \in AllOps, c \in Clients, j \in Jobs : Start(p, op, c, j)
    PROVE  UNCHANGED gate /\ FlagsStay
<1>1. \A r : Set(p, r) /\ ~ At(p, "flag after") => FlagsStay
    BY DEF TypeOK, Set, Procs, FlagsStay, At
<1>2. (Done(p) \/ Return(p) \/ \E l : Goto(p, l)) /\ ~ At(p, "flag after") => FlagsStay
    BY ZenonT(60), <1>1 DEF Done, Return, Goto
<1>a. ASSUME NEW l, At(p, l), l # "flag after" PROVE ~ At(p, "flag after")
    BY <1>a DEF At
<1>3. CASE ClaimStep(p)
    <2>1. CASE ReadSuspension(p) \/ ReadGate(p) \/ ClaimList(p) \/ ReadHeld(p) \/ HeldGate(p)
               \/ HandBack(p) \/ Candidates(p)
        <3>1. ~ At(p, "flag after") /\ UNCHANGED gate
            BY <2>1 DEF ReadSuspension, ReadGate, ClaimList, ReadHeld,
               HeldGate, HandBack, Candidates, At
        <3> QED BY <2>1, <3>1, <1>1, <1>2 DEF ReadSuspension, ReadGate, ClaimList, ReadHeld,
               HeldGate, HandBack, Candidates
    <2>2. CASE Pick(p) \/ ClaimJob(p) \/ Regate(p) \/ SecondLease(p) \/ Suspend(p) \/ VaultCheck(p)
               \/ Deny(p)
        <3>1. ~ At(p, "flag after") /\ UNCHANGED gate
            BY <2>2 DEF Pick, ClaimJob, Regate, SecondLease, Suspend, VaultCheck, Deny, At
        <3> QED BY <2>2, <3>1, <1>1, <1>2
               DEF Pick, ClaimJob, Regate, SecondLease, Suspend, VaultCheck, Deny
    <2> QED BY <1>3, <2>1, <2>2 DEF ClaimStep
<1>4. CASE SubmitStep(p)
    <2>1. (EndLeaseBranch(p) \/ EndAvailBranch(p)) /\ ~ At(p, "flag after") => FlagsStay
        BY ZenonT(60), <1>1, <1>2 DEF EndLeaseBranch, EndAvailBranch
    <2>2. CASE CheckReach(p) \/ BindClaim(p) \/ VerifyClaim(p) \/ RenewLease(p) \/ RecordSubmission(p)
               \/ OwnLease(p)
        <3>1. ~ At(p, "flag after") /\ UNCHANGED gate
            BY <2>2 DEF CheckReach, BindClaim, VerifyClaim, RenewLease, RecordSubmission, OwnLease, At
        <3> QED BY <2>2, <3>1, <1>1, <1>2
               DEF CheckReach, BindClaim, VerifyClaim, RenewLease, RecordSubmission, OwnLease
    <2>3. CASE TeardownLocate(p) \/ TeardownLease(p) \/ TeardownAvail(p) \/ TeardownError(p)
        <3>1. ~ At(p, "flag after") /\ UNCHANGED gate
            BY <2>3 DEF TeardownLocate, TeardownLease, TeardownAvail, TeardownError,
               InLeaseBranch, InAvailBranch, At
        <3> QED BY ZenonT(60), <2>1, <2>3, <3>1, <1>1
           DEF TeardownLocate, TeardownLease, TeardownAvail, TeardownError
    <2> QED BY <1>4, <2>2, <2>3 DEF SubmitStep
<1>5. CASE RelinquishList(p) \/ RecheckRecord(p) \/ DropRecycled(p)
    <2>1. ~ At(p, "flag after") /\ UNCHANGED gate
        BY <1>5 DEF RelinquishList, RecheckRecord, DropRecycled, At
    <2> QED BY ZenonT(60), <1>5, <2>1, <1>1, <1>2 DEF RelinquishList, RecheckRecord, DropRecycled
<1>6. CASE SettleStep(p)
    <2>1. p # Cron
        BY LeaseQueueAssumption
    <2>2. ~ At(p, "flag after") /\ UNCHANGED gate
        BY <1>6 DEF SettleStep, ResolveLease, DropEntry, RecycleLease, NextLease, At
    <2> QED BY <1>6, <2>1, <2>2, <1>1, <1>2
               DEF SettleStep, ResolveLease, DropEntry, RecycleLease, NextLease
<1>7. CASE \E op \in AllOps, c \in Clients, j \in Jobs : Start(p, op, c, j)
    <2>1. ~ At(p, "flag after") /\ UNCHANGED gate
        BY <1>7 DEF Start, At
    <2> QED BY <1>7, <1>1, <2>1 DEF Start
<1> QED BY <1>3, <1>4, <1>5, <1>6, <1>7

\* The settling and retiring passes of a run, its start and its listing of the flags come
\* before any rebuild, and change no flag, record or marker.
LEMMA RunLeavesFlags ==
    ASSUME TypeOK, CronSound,
           \/ SettleList \/ SettleHasRecord \/ WriteLost \/ CountLost \/ LostBody
           \/ TerminalHasRecord \/ RecordSystemFailure \/ ListAvail \/ ExpireOverdue
           \/ ReadBodies \/ ListDenials \/ EscalateAllDenied \/ ListFlags
           \/ SettleStep(Cron) \/ StartMaintenance \/ Crash(Cron)
    PROVE  /\ UNCHANGED gate
           /\ \A q \in Slots : req'[q] = req[q]
           /\ req'[Cron].pc \notin Rewriting
           /\ \A c \in Clients : req'[Cron].seen[c] \subseteq req[Cron].seen[c] \cup flags[c]
<1> DEFINE me == req[Cron]
           Calm == /\ \A q \in Slots : req'[q] = req[q]
                   /\ req'[Cron].pc \notin Rewriting
                   /\ \A c \in Clients : req'[Cron].seen[c] \subseteq me.seen[c] \cup flags[c]
<1>p. Cron \in Procs /\ Cron \notin Slots
    BY LeaseQueueAssumption DEF Procs
<1>r. me \in Request /\ CronSoundOf(me) /\ me.seen \in [Clients -> SUBSET Nat]
    BY <1>p DEF TypeOK, CronSound, Request
<1>1. ASSUME NEW r, Set(Cron, r), r.pc \notin Rewriting,
             r.seen = me.seen \/ r.seen = flags \/ r.seen = [c \in Clients |-> {}]
      PROVE  Calm
    <2>1. req'[Cron] = r /\ \A q \in Slots : req'[q] = req[q]
        BY <1>1, <1>p DEF Set, TypeOK, Procs
    <2> QED BY <1>1, <2>1
<1>2. Done(Cron) => Calm
    <2>1. Idle.pc \notin Rewriting /\ Idle.seen = [c \in Clients |-> {}]
        BY DEF Idle, Rewriting
    <2> QED BY <1>1, <2>1 DEF Done
<1>3. ASSUME NEW l, Goto(Cron, l), l \notin Rewriting PROVE Calm
    <2> DEFINE r == [me EXCEPT !.pc = l]
    <2>1. r.pc = l /\ r.seen = me.seen
        BY <1>r DEF Request
    <2>2. Set(Cron, r)
        BY <1>3 DEF Goto
    <2> HIDE DEF r, Calm
    <2> QED BY <1>1, <1>3, <2>1, <2>2
<1>4. Return(Cron) => Calm
    <2>1. me.ret \in {"idle", "next lease", "expire", "escalate"}
        BY <1>r DEF CronSoundOf
    <2>2. me.ret \notin Rewriting
        BY <2>1 DEF Rewriting
    <2> HIDE DEF Calm
    <2> QED BY <1>2, <1>3, <2>2 DEF Return
<1>5. \A s : PassAfter(s) \notin Rewriting
    BY DEF PassAfter, Rewriting
<1>6. \A s : EndPass(s) => Calm
    <2> HIDE DEF Calm
    <2> QED BY <1>2, <1>3, <1>5 DEF EndPass
<1> HIDE DEF Calm
<1>7. CASE SettleList
    <2> DEFINE ls == {LeaseItem(j) : j \in {i \in Jobs : /\ entry[i].at = "leased"
                                                        /\ entry[i].until < me.t}}
               r == [me EXCEPT !.pc = "next lease", !.leases = ls]
    <2>1. r.pc = "next lease" /\ r.seen = me.seen
        BY <1>r DEF Request
    <2>2. Set(Cron, r) /\ UNCHANGED gate
        BY <1>7 DEF SettleList
    <2> HIDE DEF r, ls
    <2> QED BY <1>1, <2>1, <2>2 DEF Calm, Rewriting
<1>8. CASE SettleHasRecord \/ WriteLost \/ CountLost \/ LostBody \/ TerminalHasRecord
           \/ RecordSystemFailure
    <2>1. UNCHANGED gate /\ (Return(Cron) \/ \E l : l \notin Rewriting /\ Goto(Cron, l))
        BY <1>8 DEF SettleHasRecord, WriteLost, CountLost, LostBody, TerminalHasRecord,
           RecordSystemFailure, Rewriting
    <2> QED BY <1>3, <1>4, <2>1 DEF Calm
<1>9. CASE ListAvail
    <2>1. ASSUME NEW s, Set(Cron, [me EXCEPT !.pc = "expire", !.key = 0, !.ret = "expire", !.jobs = s])
          PROVE  Calm
        <3> DEFINE r == [me EXCEPT !.pc = "expire", !.key = 0, !.ret = "expire", !.jobs = s]
        <3>1. r.pc = "expire" /\ r.seen = me.seen /\ Set(Cron, r)
            BY <1>r, <2>1 DEF Request
        <3> HIDE DEF r
        <3> QED BY <1>1, <3>1 DEF Rewriting
    <2> QED BY <1>9, <2>1 DEF ListAvail, Calm
<1>10. ASSUME NEW j, NEW js, NEW l, l \notin Rewriting,
              Set(Cron, [me EXCEPT !.j = j, !.jobs = js, !.pc = l])
       PROVE  Calm
    <2> DEFINE r == [me EXCEPT !.j = j, !.jobs = js, !.pc = l]
    <2>1. r.pc = l /\ r.seen = me.seen /\ Set(Cron, r)
        BY <1>r, <1>10 DEF Request
    <2> HIDE DEF r
    <2> QED BY <1>1, <1>10, <2>1
<1>11. CASE ExpireOverdue \/ EscalateAllDenied
    <2>1. "terminal" \notin Rewriting /\ "expire" \notin Rewriting /\ "escalate" \notin Rewriting
          /\ "bodies" \notin Rewriting
        BY DEF Rewriting
    <2> QED BY ZenonT(60), <1>11, <2>1, <1>3, <1>6, <1>10 DEF ExpireOverdue, EscalateAllDenied, Calm
<1>12. CASE ReadBodies \/ ListDenials
    <2>1. ASSUME NEW js, Set(Cron, [me EXCEPT !.pc = "denials", !.bodies = js]) PROVE Calm
        <3> DEFINE r == [me EXCEPT !.pc = "denials", !.bodies = js]
        <3>1. r.pc = "denials" /\ r.seen = me.seen /\ Set(Cron, r)
            BY <1>r, <2>1 DEF Request
        <3> HIDE DEF r
        <3> QED BY <1>1, <3>1 DEF Rewriting
    <2>2. ASSUME NEW js, Set(Cron, [me EXCEPT !.pc = "escalate", !.ret = "escalate", !.jobs = js])
          PROVE  Calm
        <3> DEFINE r == [me EXCEPT !.pc = "escalate", !.ret = "escalate", !.jobs = js]
        <3>1. r.pc = "escalate" /\ r.seen = me.seen /\ Set(Cron, r)
            BY <1>r, <2>2 DEF Request
        <3> HIDE DEF r
        <3> QED BY <1>1, <3>1 DEF Rewriting
    <2> QED BY <1>12, <2>1, <2>2 DEF ReadBodies, ListDenials, Calm
<1>13. CASE ListFlags
    <2> DEFINE r == [me EXCEPT !.pc = "next client", !.seen = flags, !.bodies = {}]
    <2>1. r.pc = "next client" /\ r.seen = flags /\ Set(Cron, r) /\ UNCHANGED gate
        BY <1>r, <1>13 DEF Request, ListFlags
    <2> HIDE DEF r
    <2> QED BY <1>1, <2>1 DEF Rewriting, Calm
<1>14. CASE ResolveLease(Cron) \/ DropEntry(Cron) \/ RecycleLease(Cron)
    <2>1. UNCHANGED gate
        BY <1>14 DEF ResolveLease, DropEntry, RecycleLease
    <2>2. Return(Cron) \/ \E l : l \notin Rewriting /\ Goto(Cron, l)
        BY <1>14 DEF ResolveLease, DropEntry, RecycleLease, Rewriting
    <2> QED BY <1>3, <1>4, <2>1, <2>2 DEF Calm
<1>15. CASE NextLease(Cron)
    <2>1. ASSUME NEW l, NEW pc \in {"has record", "resolve"},
                 Set(Cron, [me EXCEPT !.j = l.j, !.c = l.c, !.key = l.key, !.leases = @ \ {l},
                                      !.ret = "next lease", !.pc = pc])
          PROVE  Calm
        <3> DEFINE r == [me EXCEPT !.j = l.j, !.c = l.c, !.key = l.key, !.leases = @ \ {l},
                                   !.ret = "next lease", !.pc = pc]
        <3>1. r.pc = pc /\ r.seen = me.seen /\ Set(Cron, r)
            BY <1>r, <2>1 DEF Request
        <3> HIDE DEF r
        <3> QED BY <1>1, <3>1 DEF Rewriting
    <2> QED BY <1>15, <2>1, <1>6 DEF NextLease, Calm
<1>16. CASE StartMaintenance
    <2> DEFINE r == [Idle EXCEPT !.pc = PassAfter("start"), !.op = "maintenance", !.t = now]
    <2>1. r.pc = PassAfter("start") /\ r.seen = [c \in Clients |-> {}] /\ Set(Cron, r) /\ UNCHANGED gate
        BY <1>16 DEF Idle, StartMaintenance
    <2> HIDE DEF r
    <2> QED BY <1>1, <1>5, <2>1 DEF Calm
<1>17. CASE Crash(Cron)
    BY <1>2, <1>17 DEF Crash, Calm
<1> QED BY ZenonT(40), <1>7, <1>8, <1>9, <1>11, <1>12, <1>13, <1>14, <1>15, <1>16, <1>17 DEF SettleStep

\* A profile update that replaced the record writes its second flag.
UpdatesFinish == \A p \in Slots : At(p, "flag after") => ~ Crash(p)

\* Where the flags, the records, the markers and the run stay, so does what is known.
LEMMA FlagsKept ==
    ASSUME TypeOK, FlagInv, UNCHANGED gate, FlagsStay,
           \/ req'[Cron] = req[Cron]
           \/ req'[Cron].pc \notin Rewriting
    PROVE  FlagInv'
<1>1. \A c \in Clients : FlagComing(c) => FlagComing(c)'
    BY DEF FlagComing, FlagsStay, At
<1>2. StaleIndexIsFlagged'
    BY <1>1 DEF FlagInv, StaleIndexIsFlagged, FlagComing, gate
<1>3. req[Cron] \in Request /\ req[Cron].c \in Clients
    BY DEF TypeOK, Procs, Request
<1>4. {"reread", "unflag"} \subseteq Rewriting
    BY DEF Rewriting
<1>5. CASE req'[Cron] = req[Cron]
    BY <1>1, <1>2, <1>3, <1>5 DEF FlagInv, gate
<1>6. CASE req'[Cron].pc \notin Rewriting
    BY <1>2, <1>4, <1>6 DEF FlagInv
<1> QED BY <1>5, <1>6

\* The rebuild of a client's markers and the deletion of the flags listed before it.
LEMMA ReindexFlags ==
    ASSUME TypeOK, Numbered, FlagInv, NextClient \/ RebuildClient \/ RereadClient \/ DeleteFlags
    PROVE  FlagInv' /\ Numbered'
<1> DEFINE me == req[Cron]
<1>p. Cron \in Procs /\ Cron \notin Slots
    BY LeaseQueueAssumption DEF Procs
<1>r. me \in Request /\ me.c \in Clients /\ me.seen \in [Clients -> SUBSET Nat]
    BY <1>p DEF TypeOK, Request
<1>t. /\ flags \in [Clients -> SUBSET Nat] /\ eligible \in [Clients -> SUBSET Jobs]
      /\ profile \in [Clients -> Profiles]
    BY DEF TypeOK
<1>s. ASSUME NEW r, Set(Cron, r)
      PROVE  req'[Cron] = r /\ (\A q \in Slots : req'[q] = req[q])
             /\ \A c \in Clients : FlagComing(c) <=> FlagComing(c)'
    <2>1. req'[Cron] = r /\ \A q \in Slots : req'[q] = req[q]
        BY <1>s, <1>p DEF Set, TypeOK, Procs
    <2> QED BY <2>1 DEF FlagComing, At
<1>0. StaleIndexIsFlagged <=> \A c \in Clients : eligible[c] # Match[profile[c]] => flags[c] # {} \/ FlagComing(c)
    BY DEF StaleIndexIsFlagged, FlagComing
<1>a. StaleIndexIsFlagged' <=> \A c \in Clients : eligible'[c] # Match[profile'[c]]
                                                 => flags'[c] # {} \/ FlagComing(c)'
    BY DEF StaleIndexIsFlagged, FlagComing
<1>1. CASE NextClient
    <2>g. UNCHANGED gate
        BY <1>1 DEF NextClient
    <2>1. ASSUME Done(Cron) PROVE FlagInv' /\ Numbered'
        <3>1. req'[Cron] = Idle /\ \A q \in Slots : req'[q] = req[q]
            BY <1>s, <2>1 DEF Done
        <3>2. Idle.pc \notin Rewriting /\ Idle.seen = [c \in Clients |-> {}]
            BY DEF Idle, Rewriting
        <3>3. FlagInv'
            BY <2>g, <3>1, <3>2, FlagsKept DEF FlagsStay
        <3> QED BY <2>g, <3>1, <3>2, <3>3 DEF Numbered, gate
    <2>2. ASSUME NEW c \in Clients,
                 Set(Cron, [me EXCEPT !.pc = "rebuild", !.c = c, !.prof = profile[c]])
          PROVE  FlagInv' /\ Numbered'
        <3> DEFINE r == [me EXCEPT !.pc = "rebuild", !.c = c, !.prof = profile[c]]
        <3>1. r.pc = "rebuild" /\ r.c = c /\ r.prof = profile[c] /\ r.seen = me.seen /\ Set(Cron, r)
            BY <1>r, <2>2 DEF Request
        <3> HIDE DEF r
        <3>2. req'[Cron] = r /\ \A d \in Clients : FlagComing(d) <=> FlagComing(d)'
            BY <1>s, <3>1
        <3>3. StaleIndexIsFlagged'
            BY <1>0, <1>a, <2>g, <3>2 DEF FlagInv, gate
        <3> QED BY <2>g, <3>1, <3>2, <3>3 DEF FlagInv, Numbered, gate
    <2> QED BY <1>1, <2>1, <2>2 DEF NextClient
<1>2. CASE RebuildClient
    <2> DEFINE r == [me EXCEPT !.pc = "reread"]
    <2>1. r.pc = "reread" /\ r.c = me.c /\ r.prof = me.prof /\ r.seen = me.seen /\ Set(Cron, r)
        BY <1>r, <1>2 DEF Request, RebuildClient, Goto
    <2>g. UNCHANGED <<flags, flagged, profile>>
          /\ eligible' = [eligible EXCEPT ![me.c] = Match[me.prof]] /\ me.pc \in Rewriting
        BY <1>2 DEF RebuildClient, At, Rewriting
    <2> HIDE DEF r, me
    <2>2. req'[Cron] = r /\ \A d \in Clients : FlagComing(d) <=> FlagComing(d)'
        BY <1>s, <2>1
    <2>3. profile[me.c] = me.prof \/ FlagComing(me.c) \/ flags[me.c] \ me.seen[me.c] # {}
        BY <2>g DEF FlagInv, me
    <2>4. ASSUME NEW c \in Clients, eligible'[c] # Match[profile'[c]]
          PROVE  flags'[c] # {} \/ FlagComing(c)'
        <3>1. CASE c = me.c
            BY <1>t, <1>r, <2>g, <2>2, <2>3, <2>4, <3>1
        <3>2. CASE c # me.c
            BY <1>t, <1>0, <2>g, <2>2, <2>4, <3>2 DEF FlagInv
        <3> QED BY <3>1, <3>2
    <2>5. eligible'[me.c] = Match[me.prof]
        BY <1>t, <1>r, <2>g
    <2> QED BY <1>a, <1>r, <2>g, <2>1, <2>2, <2>3, <2>4, <2>5 DEF FlagInv, Numbered, me
<1>3. ASSUME NEW r, Set(Cron, r), r = [me EXCEPT !.pc = "next client", !.seen[me.c] = {}]
      PROVE  /\ req'[Cron] = r /\ r.pc \notin Rewriting
             /\ \A c \in Clients : r.seen[c] \subseteq me.seen[c]
    BY <1>s, <1>r, <1>3 DEF Rewriting, Request
<1>4. CASE RereadClient
    <2>g. UNCHANGED gate /\ me.pc = "reread"
        BY <1>4 DEF RereadClient, At
    <2>1. ASSUME profile[me.c] = me.prof, Goto(Cron, "unflag") PROVE FlagInv' /\ Numbered'
        <3> DEFINE r == [me EXCEPT !.pc = "unflag"]
        <3>1. r.pc = "unflag" /\ r.c = me.c /\ r.prof = me.prof /\ r.seen = me.seen /\ Set(Cron, r)
            BY <1>r, <2>1 DEF Request, Goto
        <3> HIDE DEF r
        <3>2. req'[Cron] = r /\ \A d \in Clients : FlagComing(d) <=> FlagComing(d)'
            BY <1>s, <3>1
        <3>3. StaleIndexIsFlagged'
            BY <1>0, <1>a, <2>g, <3>2 DEF FlagInv, gate
        <3> QED BY <2>1, <2>g, <3>1, <3>2, <3>3 DEF FlagInv, Numbered, gate
    <2>2. ASSUME Set(Cron, [me EXCEPT !.pc = "next client", !.seen[me.c] = {}])
          PROVE  FlagInv' /\ Numbered'
        <3>1. req'[Cron].pc \notin Rewriting /\ \A c \in Clients : req'[Cron].seen[c] \subseteq me.seen[c]
            BY <1>3, <2>2
        <3>2. FlagsStay
            BY <1>s, <2>2 DEF FlagsStay
        <3> QED BY <2>g, <3>1, <3>2, FlagsKept DEF Numbered, gate
    <2> QED BY <1>4, <2>1, <2>2 DEF RereadClient
<1>5. CASE DeleteFlags
    <2> DEFINE r == [me EXCEPT !.pc = "next client", !.seen[me.c] = {}]
    <2>1. /\ flags' = [flags EXCEPT ![me.c] = @ \ me.seen[me.c]]
          /\ UNCHANGED <<flagged, profile, eligible>> /\ Set(Cron, r) /\ me.pc = "unflag"
        BY <1>5 DEF DeleteFlags, At
    <2>2. /\ req'[Cron] = r /\ r.pc \notin Rewriting
          /\ \A c \in Clients : r.seen[c] \subseteq me.seen[c]
        BY <1>3, <2>1
    <2>3. \A d \in Clients : FlagComing(d) <=> FlagComing(d)'
        BY <1>s, <2>1
    <2> HIDE DEF r, me
    <2>4. eligible[me.c] = Match[me.prof]
          /\ (profile[me.c] = me.prof \/ FlagComing(me.c) \/ flags[me.c] \ me.seen[me.c] # {})
        BY <2>1 DEF FlagInv, Rewriting, me
    <2>5. ASSUME NEW c \in Clients, eligible'[c] # Match[profile'[c]]
          PROVE  flags'[c] # {} \/ FlagComing(c)'
        <3>1. CASE c = me.c
            BY <1>t, <1>r, <2>1, <2>3, <2>4, <2>5, <3>1
        <3>2. CASE c # me.c
            BY <1>t, <1>0, <2>1, <2>3, <2>5, <3>2 DEF FlagInv
        <3> QED BY <3>1, <3>2
    <2>6. FlagInv'
        BY <1>a, <2>2, <2>5 DEF FlagInv, Rewriting
    <2>7. \A c \in Clients : flags'[c] \subseteq flags[c]
        BY <1>t, <1>r, <2>1
    <2> QED BY <2>1, <2>2, <2>6, <2>7 DEF Numbered, me
<1> QED BY <1>1, <1>2, <1>4, <1>5

\* A profile update writes a flag no listing has seen on either side of its replacement of
\* the record.
LEMMA UpdateFlags ==
    ASSUME TypeOK, Numbered, FlagInv, NEW p \in Slots,
           FlagBefore(p) \/ FlagAfter(p) \/ ReplaceClient(p)
    PROVE  FlagInv'
<1> DEFINE me == req[Cron]
           u == req[p].c
<1>p. p \in Procs /\ Cron \in Procs /\ p # Cron
    BY LeaseQueueAssumption DEF Procs
<1>r. me \in Request /\ me.c \in Clients /\ me.seen \in [Clients -> SUBSET Nat]
      /\ req[p] \in Request /\ u \in Clients
    BY <1>p DEF TypeOK, Request
<1>t. /\ flags \in [Clients -> SUBSET Nat] /\ eligible \in [Clients -> SUBSET Jobs]
      /\ profile \in [Clients -> Profiles] /\ flagged \in Nat
    BY DEF TypeOK
<1>k. req'[Cron] = me
    BY SlotKeepsCron DEF PatchStep
<1>s. ASSUME NEW r, Set(p, r)
      PROVE  req'[p] = r /\ \A q \in Slots \ {p} : req'[q] = req[q]
    BY <1>s, <1>p DEF Set, TypeOK, Procs
<1>0. StaleIndexIsFlagged <=> \A c \in Clients : eligible[c] # Match[profile[c]] => flags[c] # {} \/ FlagComing(c)
    BY DEF StaleIndexIsFlagged, FlagComing
<1>a. StaleIndexIsFlagged' <=> \A c \in Clients : eligible'[c] # Match[profile'[c]]
                                                 => flags'[c] # {} \/ FlagComing(c)'
    BY DEF StaleIndexIsFlagged, FlagComing
<1>1. CASE FlagBefore(p) \/ FlagAfter(p)
    <2>1. /\ flags' = [flags EXCEPT ![u] = @ \cup {flagged + 1}]
          /\ UNCHANGED <<profile, eligible>> /\ \E r : Set(p, r)
        BY <1>1 DEF FlagBefore, FlagAfter, WriteFlag, Done
    <2>2. ASSUME NEW c \in Clients, c # u PROVE flags'[c] = flags[c] /\ (FlagComing(c) => FlagComing(c)')
        <3>1. \A q \in Slots : req[q].c = c => req'[q] = req[q]
            BY <1>s, <2>1, <2>2
        <3> QED BY <1>t, <2>1, <2>2, <3>1 DEF FlagComing, At
    <2>3. flags'[u] = flags[u] \cup {flagged + 1}
        BY <1>r, <1>t, <2>1
    <2>4. flagged + 1 \notin me.seen[u]
        <3>1. me.seen[u] \subseteq 1 .. flagged
            BY <1>r DEF Numbered
        <3> QED BY SMT, <1>t, <3>1
    <2> HIDE DEF u, me
    <2>5. StaleIndexIsFlagged'
        BY <1>0, <1>a, <2>1, <2>2, <2>3 DEF FlagInv
    <2>6. ASSUME NEW c \in Clients, c = me.c, me.pc \in Rewriting
          PROVE  profile'[c] = me.prof \/ FlagComing(c)' \/ flags'[c] \ me.seen[c] # {}
        <3>1. profile[c] = me.prof \/ FlagComing(c) \/ flags[c] \ me.seen[c] # {}
            BY <2>6 DEF FlagInv, me
        <3> QED BY <2>1, <2>2, <2>3, <2>4, <2>6, <3>1
    <2>7. me.pc \in {"reread", "unflag"} => eligible'[me.c] = Match[me.prof]
        BY <2>1 DEF FlagInv, me
    <2> QED BY <1>k, <1>r, <2>5, <2>6, <2>7 DEF FlagInv, me
<1>2. CASE ReplaceClient(p)
    <2>g. UNCHANGED <<flags, eligible>> /\ ~ At(p, "flag after")
        BY <1>2 DEF ReplaceClient, At
    <2>k. \A r : Set(p, r) => FlagsStay
        BY <1>s, <2>g DEF FlagsStay
    <2>1. CASE Done(p) /\ UNCHANGED profile
        BY <1>k, <1>2, <2>1, <2>k, FlagsKept DEF ReplaceClient, Done, gate
    <2>2. ASSUME NEW new, profile' = [profile EXCEPT ![u] = new], Goto(p, "flag after")
          PROVE  FlagInv'
        <3> DEFINE r == [req[p] EXCEPT !.pc = "flag after"]
        <3>1. r.pc = "flag after" /\ r.c = u /\ Set(p, r)
            BY <1>r, <2>2 DEF Request, Goto
        <3> HIDE DEF r
        <3>2. \A c \in Clients : c = u => FlagComing(c)'
            BY <1>s, <3>1 DEF FlagComing, At
        <3>3. \A c \in Clients : FlagComing(c) => FlagComing(c)'
            BY <2>k, <3>1 DEF FlagComing, FlagsStay, At
        <3>4. \A c \in Clients : c # u => profile'[c] = profile[c]
            BY <1>t, <2>2
        <3> HIDE DEF u, me
        <3>5. StaleIndexIsFlagged'
            BY <1>0, <1>a, <2>g, <3>2, <3>3, <3>4 DEF FlagInv
        <3> QED BY <1>k, <1>r, <2>g, <3>2, <3>3, <3>4, <3>5 DEF FlagInv, me
    <2> QED BY <1>2, <2>1, <2>2 DEF ReplaceClient
<1> QED BY <1>1, <1>2

\* The numbers of the flags only grow.
LEMMA NumberedStep ==
    ASSUME TypeOK, CronSound, Numbered, FlagInv, [Next]_vars
    PROVE  Numbered'
<1>c. Cron \in Procs /\ req[Cron].seen \in [Clients -> SUBSET Nat]
      /\ flags \in [Clients -> SUBSET Nat] /\ flagged \in Nat
    BY DEF TypeOK, Procs, Request
<1>1. ASSUME UNCHANGED gate,
             \A c \in Clients : req'[Cron].seen[c] \subseteq req[Cron].seen[c] \cup flags[c]
      PROVE  Numbered'
    BY <1>1 DEF Numbered, gate
<1>2. CASE NextClient \/ RebuildClient \/ RereadClient \/ DeleteFlags
    BY <1>2, ReindexFlags
<1>3. CASE (CronStep \/ SettleStep(Cron) \/ StartMaintenance \/ Crash(Cron))
           /\ ~ (NextClient \/ RebuildClient \/ RereadClient \/ DeleteFlags)
    BY <1>1, <1>3, RunLeavesFlags DEF CronStep
<1>4. ASSUME NEW p \in Slots, FlagBefore(p) \/ FlagAfter(p) PROVE Numbered'
    <2>1. req'[Cron] = req[Cron]
        BY <1>4, SlotKeepsCron DEF PatchStep
    <2>2. flagged' = flagged + 1 /\ flags' = [flags EXCEPT ![req[p].c] = @ \cup {flagged + 1}]
        BY <1>4 DEF FlagBefore, FlagAfter, WriteFlag
    <2>3. \A c \in Clients : flags'[c] \subseteq flags[c] \cup {flagged + 1}
        BY <1>c, <2>2
    <2>4. 1 .. flagged \subseteq 1 .. flagged' /\ flagged + 1 \in 1 .. flagged'
        BY SMT, <1>c, <2>2
    <2> QED BY <2>1, <2>3, <2>4 DEF Numbered
<1>5. ASSUME NEW p \in Slots,
             \/ ClaimStep(p) \/ SubmitStep(p) \/ PatchStep(p) \/ SettleStep(p) \/ Crash(p)
             \/ \E op \in AllOps, c \in Clients, j \in Jobs : Start(p, op, c, j)
      PROVE  Numbered'
    <2>1. req'[Cron] = req[Cron]
        BY <1>5, SlotKeepsCron
    <2>2. CASE ReplaceClient(p)
        BY <2>1, <2>2 DEF ReplaceClient, Numbered
    <2>3. CASE Crash(p)
        BY <2>1, <2>3 DEF Crash, Numbered, gate
    <2>4. CASE FlagBefore(p) \/ FlagAfter(p)
        BY <1>4, <2>4
    <2>5. CASE ~ (ReplaceClient(p) \/ Crash(p) \/ FlagBefore(p) \/ FlagAfter(p))
        BY <1>1, <1>5, <2>1, <2>5, RequestsLeaveFlags DEF PatchStep
    <2> QED BY <2>2, <2>3, <2>4, <2>5
<1>6. CASE Tick \/ (\E c \in Clients : Unsuspend(c)) \/ UNCHANGED vars
    BY <1>6 DEF Tick, Unsuspend, vars, Numbered, gate
<1> QED BY SMTT(60), <1>2, <1>3, <1>5, <1>6 DEF Next, Procs

\* Every step keeps the invariant, but for an update cut short before its second flag.
LEMMA FlagStep ==
    ASSUME TypeOK, CronSound, Numbered, FlagInv, [Next]_vars, [UpdatesFinish]_vars
    PROVE  FlagInv'
<1>1. CASE NextClient \/ RebuildClient \/ RereadClient \/ DeleteFlags
    BY <1>1, ReindexFlags
<1>2. CASE (CronStep \/ SettleStep(Cron) \/ StartMaintenance \/ Crash(Cron))
           /\ ~ (NextClient \/ RebuildClient \/ RereadClient \/ DeleteFlags)
    BY <1>2, RunLeavesFlags, FlagsKept DEF CronStep, FlagsStay
<1>3. ASSUME NEW p \in Slots,
             \/ ClaimStep(p) \/ SubmitStep(p) \/ PatchStep(p) \/ SettleStep(p) \/ Crash(p)
             \/ \E op \in AllOps, c \in Clients, j \in Jobs : Start(p, op, c, j)
      PROVE  FlagInv'
    <2>1. req'[Cron] = req[Cron]
        BY <1>3, SlotKeepsCron
    <2>2. CASE FlagBefore(p) \/ FlagAfter(p) \/ ReplaceClient(p)
        BY <2>2, UpdateFlags
    <2>3. CASE Crash(p)
        <3>1. ~ At(p, "flag after")
            <4>1. crashes \in Nat /\ crashes' = crashes + 1
                BY <2>3 DEF Crash, TypeOK
            <4>2. ~ UNCHANGED vars
                BY SMT, <4>1 DEF vars
            <4> QED BY <2>3, <4>2 DEF UpdatesFinish
        <3>2. UNCHANGED gate /\ Set(p, Idle)
            BY <2>3 DEF Crash, Done
        <3>3. FlagsStay
            BY <3>1, <3>2 DEF FlagsStay, Set, TypeOK, Procs
        <3> QED BY <2>1, <3>2, <3>3, FlagsKept
    <2>4. CASE ~ (FlagBefore(p) \/ FlagAfter(p) \/ ReplaceClient(p) \/ Crash(p))
        BY <1>3, <2>1, <2>4, RequestsLeaveFlags, FlagsKept DEF PatchStep
    <2> QED BY <2>2, <2>3, <2>4
<1>4. CASE Tick \/ (\E c \in Clients : Unsuspend(c)) \/ UNCHANGED vars
    <2>1. UNCHANGED gate /\ UNCHANGED req
        BY <1>4 DEF Tick, Unsuspend, vars
    <2> QED BY <2>1, FlagsKept DEF FlagsStay
<1> QED BY SMTT(60), <1>1, <1>2, <1>3, <1>4 DEF Next, Procs

\* The eligible markers of a client whose record moved on are flagged, or about to be, as long
\* as no update dies between replacing the record and its second flag
\* (update_own_client, reindex_flagged_clients).
THEOREM StaleIsFlagged == Spec /\ [][UpdatesFinish]_vars => []StaleIndexIsFlagged
<1>1. Init => CronSound
    <2>1. CronSoundOf(Idle)
        BY DEF CronSoundOf, Idle, Settling, Retiring, Walking
    <2> QED BY SMTT(60), <2>1 DEF Init, CronSound, Procs
<1>2. Init => Numbered /\ FlagInv
    <2> SUFFICES ASSUME Init PROVE Numbered /\ FlagInv
        OBVIOUS
    <2>1. req[Cron] = Idle /\ Idle.pc \notin Rewriting /\ Idle.seen = [c \in Clients |-> {}]
        BY DEF Init, Procs, Idle, Rewriting
    <2>2. Idle.pc \notin {"reread", "unflag"}
        BY DEF Idle
    <2>3. StaleIndexIsFlagged
        BY DEF Init, StaleIndexIsFlagged
    <2> QED BY <2>1, <2>2, <2>3 DEF Init, Numbered, FlagInv
<1>3. TypeOK /\ CronSound /\ [Next]_vars => CronSound'
    BY CronSoundStep
<1>4. TypeOK /\ CronSound /\ Numbered /\ FlagInv /\ [Next]_vars /\ [UpdatesFinish]_vars
      => Numbered' /\ FlagInv'
    BY NumberedStep, FlagStep
<1>5. FlagInv => StaleIndexIsFlagged
    BY DEF FlagInv
<1> QED BY <1>1, <1>2, <1>3, <1>4, <1>5, TypeCorrect, PTL DEF Spec

-----------------------------------------------------------------------------
(* The limit on lost leases, and a job finished while its lease is being settled. *)

\* What a step does to the queue entry of a job: nothing, or delete it, or recycle the
\* lease at the key the handler knows, or rename it to the lease of a running request.
LEMMA EntryStep ==
    ASSUME TypeOK, [Next]_vars, NEW j \in Jobs
    PROVE  \/ entry'[j] = entry[j]
           \/ entry'[j] = Gone
           \/ \E p \in Procs : /\ RecycleLease(p) /\ req[p].j = j /\ entry'[j] = Avail
                               /\ entry[j] = Lease(req[p].c, req[p].key)
           \/ \E p \in Slots : /\ ~ At(p, "idle") /\ UNCHANGED <<now, record, lost>>
                               /\ entry'[j] = Lease(req[p].c, LeaseExpiry(req[p].t))
<1> DEFINE Goal == \/ entry'[j] = entry[j]
                   \/ entry'[j] = Gone
                   \/ \E p \in Procs : /\ RecycleLease(p) /\ req[p].j = j /\ entry'[j] = Avail
                                       /\ entry[j] = Lease(req[p].c, req[p].key)
                   \/ \E p \in Slots : /\ ~ At(p, "idle") /\ UNCHANGED <<now, record, lost>>
                                       /\ entry'[j] = Lease(req[p].c, LeaseExpiry(req[p].t))
<1>1. UNCHANGED entry => Goal
    OBVIOUS
<1>2. UNCHANGED queue => Goal
    BY <1>1 DEF queue
<1>3. \A i, e : Rename(i, e) => entry'[j] = entry[j] \/ (i = j /\ entry'[j] = e)
    BY DEF Rename, TypeOK
<1>4. \A p : DeleteLease(p) \/ DeleteAvail(p) => Goal
    BY <1>2, <1>3 DEF DeleteLease, DeleteAvail
<1>5. ASSUME NEW p \in Slots, ClaimStep(p) PROVE Goal
    <2>1. CASE ClaimJob(p)
        BY <2>1, <1>2, <1>3 DEF ClaimJob, At, markers
    <2>2. CASE ~ ClaimJob(p)
        <3>1. UNCHANGED entry
            BY <1>5, <2>2 DEF ClaimStep, ReadSuspension, ReadGate, ClaimList, ReadHeld, HeldGate,
               HandBack, Candidates, Pick, Regate, SecondLease, Suspend, VaultCheck, Deny, queue
        <3> QED BY <1>1, <3>1
    <2> QED BY <2>1, <2>2
<1>6. ASSUME NEW p \in Slots, SubmitStep(p) PROVE Goal
    <2>1. CASE RenewLease(p)
        BY <2>1, <1>2, <1>3 DEF RenewLease, At, markers
    <2>2. CASE TeardownLease(p) \/ TeardownAvail(p)
        BY <2>2, <1>4 DEF TeardownLease, TeardownAvail
    <2>3. CASE CheckReach(p) \/ BindClaim(p) \/ VerifyClaim(p) \/ RecordSubmission(p)
               \/ TeardownLocate(p) \/ TeardownError(p) \/ OwnLease(p)
        BY <2>3, <1>2 DEF CheckReach, BindClaim, VerifyClaim, RecordSubmission, TeardownLocate,
           TeardownError, OwnLease
    <2> QED BY <1>6, <2>1, <2>2, <2>3 DEF SubmitStep
<1>7. ASSUME NEW p \in Slots, PatchStep(p) PROVE Goal
    BY <1>7, <1>2, <1>4 DEF PatchStep, FlagBefore, FlagAfter, WriteFlag, RelinquishList,
       RecheckRecord, DropRecycled, ReplaceClient
<1>8. ASSUME NEW p \in Procs, SettleStep(p) PROVE Goal
    <2>1. CASE RecycleLease(p)
        <3>1. UNCHANGED queue
              \/ (entry[req[p].j] = Lease(req[p].c, req[p].key) /\ Rename(req[p].j, Avail))
            BY <2>1 DEF RecycleLease
        <3> QED BY <2>1, <3>1, <1>2, <1>3
    <2>2. CASE ResolveLease(p) \/ DropEntry(p) \/ NextLease(p)
        BY <2>2, <1>2, <1>4 DEF ResolveLease, DropEntry, NextLease
    <2> QED BY <1>8, <2>1, <2>2 DEF SettleStep
<1>9. CASE CronStep
    BY <1>9, <1>2 DEF CronStep, SettleList, SettleHasRecord, WriteLost, CountLost, LostBody,
       TerminalHasRecord, RecordSystemFailure, ListAvail, ExpireOverdue, ReadBodies, ListDenials,
       EscalateAllDenied, ListFlags, NextClient, RebuildClient, RereadClient, DeleteFlags
<1>10. CASE StartMaintenance \/ Tick \/ (\E c \in Clients : Unsuspend(c))
            \/ (\E p \in Slots, op \in AllOps, c \in Clients, i \in Jobs : Start(p, op, c, i))
            \/ (\E p \in Procs : Crash(p)) \/ UNCHANGED vars
    BY <1>10, <1>2 DEF StartMaintenance, Tick, Unsuspend, Start, Crash, vars
<1> HIDE DEF Goal
<1> QED BY <1>5, <1>6, <1>7, <1>8, <1>9, <1>10 DEF Next, Goal

\* A job's first record is a submission of the holder or the maintenance run's own, and a
\* record is never taken back.
LEMMA RecordStep ==
    ASSUME TypeOK, [Next]_vars, NEW j \in Jobs
    PROVE  /\ HasRecord(j) => HasRecord(j)'
           /\ HasRecord(j)' => \/ HasRecord(j)
                               \/ \E p \in Slots : At(p, "record") /\ req[p].j = j
                               \/ At(Cron, "system failure")
<1> DEFINE Goal == /\ HasRecord(j) => HasRecord(j)'
                   /\ HasRecord(j)' => \/ HasRecord(j)
                                       \/ \E p \in Slots : At(p, "record") /\ req[p].j = j
                                       \/ At(Cron, "system failure")
<1>1. UNCHANGED record => Goal
    BY DEF HasRecord
<1>2. ASSUME NEW p \in Slots, ClaimStep(p) PROVE Goal
    BY <1>2, <1>1 DEF ClaimStep, ReadSuspension, ReadGate, ClaimList, ReadHeld, HeldGate, HandBack,
       Candidates, Pick, ClaimJob, Regate, SecondLease, Suspend, VaultCheck, Deny
<1>3. ASSUME NEW p \in Slots, SubmitStep(p) PROVE Goal
    <2>1. CASE RecordSubmission(p)
        <3>1. req[p].c \in Clients /\ req[p].c # "none" /\ record \in [Jobs -> Clients \cup {"none", "system"}]
            BY LeaseQueueAssumption DEF TypeOK, Request, Procs
        <3>2. record' = [record EXCEPT ![req[p].j] = req[p].c] /\ At(p, "record")
            BY <2>1 DEF RecordSubmission
        <3>3. record'[j] = IF j = req[p].j THEN req[p].c ELSE record[j]
            BY <3>1, <3>2
        <3> QED BY <3>1, <3>2, <3>3 DEF HasRecord
    <2>2. CASE ~ RecordSubmission(p)
        BY <1>3, <2>2, <1>1 DEF SubmitStep, CheckReach, BindClaim, VerifyClaim, RenewLease,
           TeardownLocate, TeardownLease, TeardownAvail, TeardownError, OwnLease
    <2> QED BY <2>1, <2>2
<1>4. ASSUME NEW p \in Slots, PatchStep(p) PROVE Goal
    BY <1>4, <1>1 DEF PatchStep, FlagBefore, FlagAfter, WriteFlag, RelinquishList,
       RecheckRecord, DropRecycled, ReplaceClient
<1>5. ASSUME NEW p \in Procs, SettleStep(p) PROVE Goal
    BY <1>5, <1>1 DEF SettleStep, ResolveLease, DropEntry, RecycleLease, NextLease
<1>6. CASE RecordSystemFailure
    <2>1. record' = [record EXCEPT ![req[Cron].j] = IF @ = "none" THEN "system" ELSE @]
          /\ At(Cron, "system failure")
        BY <1>6 DEF RecordSystemFailure
    <2>2. record \in [Jobs -> Clients \cup {"none", "system"}]
        BY DEF TypeOK
    <2>3. record'[j] \in {record[j], "system"}
        BY <2>1, <2>2
    <2>4. HasRecord(j) => HasRecord(j)'
        BY <2>3 DEF HasRecord
    <2> QED BY <2>1, <2>4
<1>7. CASE CronStep /\ ~ RecordSystemFailure
    BY <1>7, <1>1 DEF CronStep, SettleList, SettleHasRecord, WriteLost, CountLost, LostBody,
       TerminalHasRecord, ListAvail, ExpireOverdue, ReadBodies, ListDenials,
       EscalateAllDenied, ListFlags, NextClient, RebuildClient, RereadClient, DeleteFlags
<1>8. CASE StartMaintenance \/ Tick \/ (\E c \in Clients : Unsuspend(c))
            \/ (\E p \in Slots, op \in AllOps, c \in Clients, i \in Jobs : Start(p, op, c, i))
            \/ (\E p \in Procs : Crash(p)) \/ UNCHANGED vars
    BY <1>8, <1>1 DEF StartMaintenance, Tick, Unsuspend, Start, Crash, vars
<1> HIDE DEF Goal
<1> QED BY <1>2, <1>3, <1>4, <1>5, <1>6, <1>7, <1>8 DEF Next, Goal

\* A job's lost leases are counted by the request that hands it back and by the
\* maintenance run, one marker at a time.
LEMMA LostStep ==
    ASSUME TypeOK, [Next]_vars, NEW j \in Jobs
    PROVE  \/ lost'[j] = lost[j]
           \/ \E p \in Slots : /\ At(p, "hand back") /\ req[p].j = j
                               /\ lost'[j] = lost[j] \cup {<<req[p].c, req[p].key>>}
           \/ At(Cron, "write lost") /\ lost'[j] = lost[j] \cup {<<req[Cron].c, req[Cron].key>>}
<1> DEFINE Goal == \/ lost'[j] = lost[j]
                   \/ \E p \in Slots : /\ At(p, "hand back") /\ req[p].j = j
                                       /\ lost'[j] = lost[j] \cup {<<req[p].c, req[p].key>>}
                   \/ /\ At(Cron, "write lost")
                      /\ lost'[j] = lost[j] \cup {<<req[Cron].c, req[Cron].key>>}
<1>1. UNCHANGED lost => Goal
    OBVIOUS
<1>2. UNCHANGED markers => Goal
    BY <1>1 DEF markers
<1>3. \A i, x : lost' = [lost EXCEPT ![i] = @ \cup {x}]
                => lost'[j] = lost[j] \/ (i = j /\ lost'[j] = lost[j] \cup {x})
    BY DEF TypeOK
<1>4. ASSUME NEW p \in Slots, ClaimStep(p) PROVE Goal
    <2>1. CASE HandBack(p)
        BY <2>1, <1>1, <1>3 DEF HandBack
    <2>2. CASE Suspend(p) \/ Deny(p)
        BY <2>2, <1>1 DEF Suspend, Deny
    <2>3. CASE ~ (HandBack(p) \/ Suspend(p) \/ Deny(p))
        BY <1>4, <2>3, <1>2 DEF ClaimStep, ReadSuspension, ReadGate, ClaimList, ReadHeld, HeldGate,
           Candidates, Pick, ClaimJob, Regate, SecondLease, VaultCheck
    <2> QED BY <2>1, <2>2, <2>3
<1>5. ASSUME NEW p \in Slots, SubmitStep(p) PROVE Goal
    BY <1>5, <1>2 DEF SubmitStep, CheckReach, BindClaim, VerifyClaim, RenewLease, RecordSubmission,
       TeardownLocate, TeardownLease, TeardownAvail, TeardownError, OwnLease
<1>6. ASSUME NEW p \in Slots, PatchStep(p) PROVE Goal
    BY <1>6, <1>2 DEF PatchStep, FlagBefore, FlagAfter, WriteFlag, RelinquishList,
       RecheckRecord, DropRecycled, ReplaceClient
<1>7. ASSUME NEW p \in Procs, SettleStep(p) PROVE Goal
    BY <1>7, <1>2 DEF SettleStep, ResolveLease, DropEntry, RecycleLease, NextLease
<1>8. CASE WriteLost
    BY <1>8, <1>3 DEF WriteLost
<1>9. CASE CronStep /\ ~ WriteLost
    BY <1>9, <1>2 DEF CronStep, SettleList, SettleHasRecord, CountLost, LostBody,
       TerminalHasRecord, RecordSystemFailure, ListAvail, ExpireOverdue, ReadBodies, ListDenials,
       EscalateAllDenied, ListFlags, NextClient, RebuildClient, RereadClient, DeleteFlags
<1>10. CASE StartMaintenance \/ Tick \/ (\E c \in Clients : Unsuspend(c))
            \/ (\E p \in Slots, op \in AllOps, c \in Clients, i \in Jobs : Start(p, op, c, i))
            \/ (\E p \in Procs : Crash(p)) \/ UNCHANGED vars
    BY <1>10, <1>1, <1>2 DEF StartMaintenance, Tick, Unsuspend, Start, Crash, vars
<1> HIDE DEF Goal
<1> QED BY <1>4, <1>5, <1>6, <1>7, <1>8, <1>9, <1>10 DEF Next, Goal

\* The shortest lease: a key is truncated to the second (lease_expiry_from, leased_key).
LeastLease == LeaseSecs * Second - (Second - 1)

\* No request runs for half a lease.
BriefRequests == 2 * MaxStall <= LeastLease

\* A request that means to count the lease it holds as lost.
HandingBack(r) == r.pc \in {"held", "held gate", "hand back"} \/ (r.pc = "vault" /\ ~ r.grant)

\* The job's lease, if there is one, was renamed no earlier than one stall before the
\* request read its clock.
RenewedSince(r) ==
    entry[r.j].at = "leased" => r.t + LeastLease <= entry[r.j].until + MaxStall

Keeps(r) == entry[r.j] = Lease(r.c, r.key)
Shared == {"idle", "resolve", "pick", "next lease"}
Critical == {"record", "held", "held gate", "hand back", "vault"}

\* A request's clock reading is recent; one about to record a result has renewed the
\* lease, and one about to count a loss sees the lease it listed or a newer one.
Timely(r) ==
    /\ r.pc # "idle" => now <= r.t + MaxStall
    /\ r.ret \in Shared
    /\ r.pc = "record" => RenewedSince(r)
    /\ HandingBack(r) => RenewedSince(r) \/ Keeps(r)

AllTimely == \A p \in Slots : Timely(req[p])

\* The maintenance run recycles a lease at its listed key only when the job has no
\* record and the loss it counted stayed below the limit.
SettlesOnce(r) ==
    /\ r.pc = "count lost" => <<r.c, r.key>> \in lost[r.j]
    /\ r.pc = "recycle" /\ Keeps(r) => ~ HasRecord(r.j)
    /\ LostLimit > 0 /\ Keeps(r) /\ (r.pc = "recycle" \/ (r.pc = "resolve" /\ ~ HasRecord(r.j)))
          => <<r.c, r.key>> \in lost[r.j] /\ Cardinality(lost[r.j]) < LostLimit

LossesFinite == \A j \in Jobs : IsFiniteSet(lost[j])

\* A lease lasts at least LeastLease from the clock reading it was computed from.
LEMMA LeaseLasts == LeastLease \in Nat \ {0} /\ \A t \in Nat : t + LeastLease <= LeaseExpiry(t)
<1>s. LeaseSecs \in Nat \ {0} /\ Second \in Nat \ {0}
    BY LeaseQueueAssumption
<1>1. \A a, b \in Nat \ {0} : a * b \in Nat /\ b <= a * b
    BY SMT
<1>2. LeaseSecs * Second \in Nat /\ Second <= LeaseSecs * Second
    BY <1>1, <1>s
<1>3. \A a \in Nat, b \in Nat \ {0} : (a \div b) * b \in Nat /\ a < (a \div b) * b + b
    BY SMT
<1>4. ASSUME NEW t \in Nat PROVE t + LeastLease <= LeaseExpiry(t)
    <2> DEFINE l == LeaseSecs * Second
               u == ((t + l) \div Second) * Second
    <2>0. LeaseExpiry(t) = u /\ LeastLease = l - (Second - 1) /\ l \in Nat
        BY <1>2 DEF LeaseExpiry, LeastLease
    <2> HIDE DEF l
    <2>1. t + l \in Nat
        BY SMT, <2>0
    <2>2. u \in Nat /\ t + l < u + Second
        BY <1>3, <1>s, <2>1
    <2> HIDE DEF u
    <2> QED BY SMT, <1>s, <2>0, <2>2
<1>5. LeastLease \in Nat \ {0}
    <2> DEFINE l == LeaseSecs * Second
    <2>1. l \in Nat /\ Second <= l /\ LeastLease = l - (Second - 1)
        BY <1>2 DEF LeastLease
    <2> HIDE DEF l
    <2> QED BY SMT, <1>s, <2>1
<1> QED BY <1>4, <1>5

\* A rename dates the lease from the clock reading of a running request, so that the
\* lease outlasts the clock by a lease less one stall.
LEMMA RenamesLast ==
    ASSUME TypeOK, AllTimely, [Next]_vars, NEW j \in Jobs,
           entry'[j] # entry[j], entry'[j].at = "leased"
    PROVE  /\ entry'[j].until \in Nat /\ now + LeastLease <= entry'[j].until + MaxStall
           /\ UNCHANGED <<now, record, lost>>
<1>1. PICK p \in Slots : /\ ~ At(p, "idle") /\ UNCHANGED <<now, record, lost>>
                         /\ entry'[j] = Lease(req[p].c, LeaseExpiry(req[p].t))
    BY SMT, EntryStep DEF Gone, Avail
<1>2. req[p].t \in Nat /\ now \in Nat /\ MaxStall \in Nat
    BY LeaseQueueAssumption DEF TypeOK, Request, Procs
<1>3. now <= req[p].t + MaxStall
    BY <1>1 DEF AllTimely, Timely, At
<1>4. entry'[j].until = LeaseExpiry(req[p].t)
    BY SMT, <1>1 DEF Lease
<1>5. LeaseExpiry(req[p].t) \in Nat /\ req[p].t + LeastLease <= LeaseExpiry(req[p].t) /\ LeastLease \in Nat
    BY <1>2, LeaseExpiryTyped, LeaseLasts
<1> QED BY SMT, <1>1, <1>2, <1>3, <1>4, <1>5

\* What a request knows about the lease of its job survives the steps of the others.
LEMMA RenewalStays ==
    ASSUME TypeOK, AllTimely, [Next]_vars, NEW r \in Request, r.t <= now
    PROVE  /\ RenewedSince(r) => RenewedSince(r)'
           /\ Keeps(r) => (RenewedSince(r) \/ Keeps(r))'
<1> DEFINE j == r.j
<1>1. j \in Jobs /\ r.t \in Nat /\ now \in Nat /\ MaxStall \in Nat /\ LeastLease \in Nat
    BY LeaseQueueAssumption, LeaseLasts DEF TypeOK, Request
<1>2. CASE entry'[j] = entry[j]
    BY <1>2 DEF RenewedSince, Keeps
<1>3. CASE entry'[j].at # "leased"
    BY <1>3 DEF RenewedSince
<1>4. CASE entry'[j] # entry[j] /\ entry'[j].at = "leased"
    <2>1. entry'[j].until \in Nat /\ now + LeastLease <= entry'[j].until + MaxStall
        BY <1>1, <1>4, RenamesLast
    <2> DEFINE u == entry'[j].until
    <2>2. u \in Nat /\ now + LeastLease <= u + MaxStall
        BY <2>1
    <2> HIDE DEF u
    <2>3. r.t + LeastLease <= u + MaxStall
        BY SMT, <1>1, <2>2
    <2>4. RenewedSince(r)'
        BY <2>3 DEF RenewedSince, u
    <2> QED BY <2>4
<1> QED BY <1>2, <1>3, <1>4

\* Only the clock itself moves the clock.
LEMMA ClockStep ==
    ASSUME [Next]_vars
    PROVE  Tick \/ UNCHANGED now
<1>1. ASSUME NEW p, ClaimStep(p) PROVE UNCHANGED now
    BY <1>1 DEF ClaimStep, ReadSuspension, ReadGate, ClaimList, ReadHeld, HeldGate, HandBack,
       Candidates, Pick, ClaimJob, Regate, SecondLease, Suspend, VaultCheck, Deny
<1>2. ASSUME NEW p, SubmitStep(p) PROVE UNCHANGED now
    BY <1>2 DEF SubmitStep, CheckReach, BindClaim, VerifyClaim, RenewLease, RecordSubmission,
       TeardownLocate, TeardownLease, TeardownAvail, TeardownError, OwnLease
<1>3. ASSUME NEW p, PatchStep(p) \/ SettleStep(p) PROVE UNCHANGED now
    BY <1>3 DEF PatchStep, FlagBefore, FlagAfter, WriteFlag, RelinquishList, RecheckRecord,
       DropRecycled, ReplaceClient, SettleStep, ResolveLease, DropEntry, RecycleLease, NextLease
<1>4. CronStep => UNCHANGED now
    BY DEF CronStep, SettleList, SettleHasRecord, WriteLost, CountLost, LostBody,
       TerminalHasRecord, RecordSystemFailure, ListAvail, ExpireOverdue, ReadBodies, ListDenials,
       EscalateAllDenied, ListFlags, NextClient, RebuildClient, RereadClient, DeleteFlags
<1>5. StartMaintenance \/ (\E c \in Clients : Unsuspend(c))
      \/ (\E p \in Slots, op \in AllOps, c \in Clients, i \in Jobs : Start(p, op, c, i))
      \/ (\E p \in Procs : Crash(p)) \/ UNCHANGED vars => UNCHANGED now
    BY DEF StartMaintenance, Unsuspend, Start, Crash, vars
<1> QED BY <1>1, <1>2, <1>3, <1>4, <1>5 DEF Next

\* A request that does not move stays timely: the clock waits for it.
LEMMA WaitingTimely ==
    ASSUME IInv, AllTimely, [Next]_vars, NEW p \in Slots, req'[p] = req[p]
    PROVE  Timely(req[p])'
<1> DEFINE r == req[p]
<1>1. TypeOK /\ r \in Request /\ r.t <= now /\ Timely(r)
    BY DEF IInv, TypeOK, Procs, AllSound, Sound, AllTimely
<1>2. /\ RenewedSince(r) => (r.j \in Jobs /\ entry'[r.j].at = "leased" => r.t + LeastLease <= entry'[r.j].until + MaxStall)
      /\ Keeps(r) => \/ (entry'[r.j].at = "leased" => r.t + LeastLease <= entry'[r.j].until + MaxStall)
                     \/ entry'[r.j] = Lease(r.c, r.key)
    BY <1>1, RenewalStays DEF RenewedSince, Keeps
<1>3. r.pc # "idle" => now' <= r.t + MaxStall
    <2>1. CASE UNCHANGED now
        BY <1>1, <2>1 DEF Timely
    <2>2. CASE Tick
        <3>1. r.pc # "idle" => now < r.t + MaxStall
            BY <2>2 DEF Tick, At
        <3>2. now' = now + 1 /\ now \in Nat /\ r.t \in Nat /\ MaxStall \in Nat
            BY <1>1, <2>2, LeaseQueueAssumption DEF Tick, TypeOK, Request
        <3> HIDE DEF r
        <3> QED BY SMT, <3>1, <3>2
    <2>3. Tick \/ UNCHANGED now
        BY ClockStep
    <2> QED BY <2>1, <2>2, <2>3
<1>4. r.j \in Jobs
    BY <1>1 DEF Request
<1> QED BY <1>1, <1>2, <1>3, <1>4 DEF Timely, RenewedSince, Keeps, HandingBack

\* How a request moves on without the steps that need the lease to be recent.
LEMMA SlotMoves ==
    ASSUME IInv, AllTimely, [Next]_vars, NEW p \in Slots, ~ At(p, "idle"), UNCHANGED now
    PROVE  /\ \A r : Set(p, r) /\ r.pc \notin Critical /\ r.t = req[p].t /\ r.ret \in Shared
                     => Timely(req[p])'
           /\ Done(p) => Timely(req[p])'
           /\ \A l : Goto(p, l) /\ l \notin Critical => Timely(req[p])'
           /\ Return(p) => Timely(req[p])'
           /\ \A r : /\ Set(p, r) /\ r.t = req[p].t /\ r.j = req[p].j /\ r.c = req[p].c
                     /\ r.key = req[p].key /\ r.ret \in Shared
                     /\ r.pc # "record" /\ (HandingBack(r) => HandingBack(req[p]))
                     => Timely(req[p])'
<1> DEFINE me == req[p]
<1>1. TypeOK /\ me \in Request /\ me.t <= now /\ Timely(me) /\ p \in Procs
    BY DEF IInv, TypeOK, Procs, AllSound, Sound, AllTimely
<1>2. \A r : Set(p, r) => req'[p] = r
    BY <1>1 DEF Set, TypeOK
<1>3. now' <= me.t + MaxStall
    BY <1>1 DEF Timely, At
<1>4. ASSUME NEW r, Set(p, r), r.pc \notin Critical, r.t = me.t, r.ret \in Shared
      PROVE  Timely(req[p])'
    <2>1. r.pc # "record" /\ ~ HandingBack(r)
        BY <1>4 DEF Critical, HandingBack
    <2> QED BY <1>2, <1>3, <1>4, <2>1 DEF Timely, HandingBack
<1>5. Done(p) => Timely(req[p])'
    <2>1. Idle.pc = "idle" /\ Idle.ret = "idle"
        BY DEF Idle
    <2>2. Done(p) => req'[p].pc = "idle" /\ req'[p].ret = "idle"
        BY <1>2, <2>1 DEF Done
    <2> QED BY <2>2 DEF Timely, HandingBack, Shared
<1>6. ASSUME NEW l, Goto(p, l), l \notin Critical PROVE Timely(req[p])'
    <2> DEFINE r == [me EXCEPT !.pc = l]
    <2>1. r.pc = l /\ r.t = me.t /\ r.ret = me.ret
        BY <1>1 DEF Request
    <2>2. Set(p, r) /\ me.ret \in Shared
        BY <1>1, <1>6 DEF Goto, Timely
    <2> HIDE DEF r, me
    <2> QED BY <1>4, <1>6, <2>1, <2>2
<1>7. Return(p) => Timely(req[p])'
    <2>1. me.ret \notin Critical
        BY <1>1 DEF Timely, Shared, Critical
    <2> QED BY <1>5, <1>6, <2>1 DEF Return
<1>8. ASSUME NEW r, Set(p, r), r.t = me.t, r.j = me.j, r.c = me.c, r.key = me.key, r.ret \in Shared,
             r.pc # "record", HandingBack(r) => HandingBack(me)
      PROVE  Timely(req[p])'
    <2>1. req'[p] = r
        BY <1>2, <1>8
    <2>2. RenewedSince(me) \/ Keeps(me) =>
            \/ (entry'[me.j].at = "leased" => me.t + LeastLease <= entry'[me.j].until + MaxStall)
            \/ entry'[me.j] = Lease(me.c, me.key)
        BY <1>1, RenewalStays DEF RenewedSince, Keeps
    <2>3. HandingBack(r) =>
            \/ (entry'[r.j].at = "leased" => r.t + LeastLease <= entry'[r.j].until + MaxStall)
            \/ entry'[r.j] = Lease(r.c, r.key)
        BY <1>1, <1>8, <2>2 DEF Timely
    <2> HIDE DEF me
    <2> QED BY <1>3, <1>8, <2>1, <2>3 DEF Timely, HandingBack, RenewedSince, Keeps
<1> QED BY <1>4, <1>5, <1>6, <1>7, <1>8

\* A claim, and the gates of a renewal.
LEMMA ClaimTimely ==
    ASSUME IInv, AllTimely, [Next]_vars, NEW p \in Slots, ClaimStep(p)
    PROVE  Timely(req[p])'
<1> DEFINE me == req[p]
<1>r. TypeOK /\ me \in Request /\ me.t <= now /\ Timely(me) /\ p \in Procs
    BY DEF IInv, TypeOK, Procs, AllSound, Sound, AllTimely
<1>c. ~ At(p, "idle") /\ UNCHANGED now
    BY DEF ClaimStep, ReadSuspension, ReadGate, ClaimList, ReadHeld, HeldGate, HandBack,
       Candidates, Pick, ClaimJob, Regate, SecondLease, Suspend, VaultCheck, Deny, At
<1>a. \A r : Set(p, r) /\ r.pc \notin Critical /\ r.t = me.t /\ r.ret \in Shared => Timely(req[p])'
    BY <1>c, SlotMoves
<1>b. Done(p) => Timely(req[p])'
    BY <1>c, SlotMoves
<1>g. \A l : Goto(p, l) /\ l \notin Critical => Timely(req[p])'
    BY <1>c, SlotMoves
<1>h. \A r : /\ Set(p, r) /\ r.t = me.t /\ r.j = me.j /\ r.c = me.c /\ r.key = me.key
             /\ r.ret \in Shared /\ r.pc # "record" /\ (HandingBack(r) => HandingBack(me))
             => Timely(req[p])'
    BY <1>c, SlotMoves
<1>n. {"gate", "list", "reach", "suspend", "candidates", "pick", "take", "regate", "second", "deny",
       "resolve", "own lease", "recycle"} \cap Critical = {}
    BY DEF Critical
<1>s. me.ret \in Shared /\ {"idle", "resolve", "pick"} \subseteq Shared
    BY <1>r DEF Timely, Shared
<1>1. CASE ReadSuspension(p) \/ ReadGate(p)
    BY <1>1, <1>b, <1>g, <1>n DEF ReadSuspension, ReadGate
<1>2. CASE ClaimList(p)
    <2>1. ASSUME NEW l \in {"suspend", "candidates"}, NEW ret \in Shared, NEW js,
                 \/ Set(p, [me EXCEPT !.pc = l, !.ret = ret])
                 \/ Set(p, [me EXCEPT !.pc = l, !.jobs = js])
          PROVE  Timely(req[p])'
        <3>1. \A r \in {[me EXCEPT !.pc = l, !.ret = ret], [me EXCEPT !.pc = l, !.jobs = js]} :
                r.pc = l /\ r.t = me.t /\ r.ret \in Shared
            BY <1>r, <1>s DEF Request
        <3> QED BY <1>a, <1>n, <2>1, <3>1
    <2>2. ASSUME NEW j \in OwnLive(p), NEW js,
                 Set(p, [me EXCEPT !.pc = "held", !.j = j, !.key = entry[j].until, !.jobs = js]),
                 UNCHANGED entry
          PROVE  Timely(req[p])'
        <3> DEFINE r == [me EXCEPT !.pc = "held", !.j = j, !.key = entry[j].until, !.jobs = js]
        <3>1. r.pc = "held" /\ r.t = me.t /\ r.ret = me.ret /\ r.j = j /\ r.c = me.c
              /\ r.key = entry[j].until
            BY <1>r DEF Request
        <3>2. j \in Jobs /\ LeasedTo(j, me.c)
            BY DEF OwnLive, Live
        <3>3. entry[j] = Lease(me.c, entry[j].until)
            BY SMT, <1>r, <3>2 DEF TypeOK, Entries, LeasedTo, Lease, Avail, Gone
        <3>4. req'[p] = r
            BY <1>r, <2>2 DEF Set, TypeOK
        <3>5. now' <= r.t + MaxStall
            BY <1>c, <1>r, <3>1 DEF Timely, At
        <3> HIDE DEF r
        <3>6. entry'[r.j] = Lease(r.c, r.key)
            BY <2>2, <3>1, <3>3
        <3> QED BY <1>s, <3>1, <3>4, <3>5, <3>6 DEF Timely, Keeps
    <2>3. UNCHANGED entry
        BY <1>2 DEF ClaimList, queue
    <2> QED BY <1>2, <1>s, <2>1, <2>2, <2>3 DEF ClaimList
<1>3. CASE ReadHeld(p) \/ HeldGate(p) \/ VaultCheck(p)
    <2>1. ASSUME NEW l, Goto(p, l), l # "record", l \in Critical => HandingBack(me) /\ (l = "vault" => ~ me.grant)
          PROVE  Timely(req[p])'
        <3> DEFINE r == [me EXCEPT !.pc = l]
        <3>1. r.t = me.t /\ r.ret = me.ret /\ r.j = me.j /\ r.c = me.c /\ r.key = me.key /\ r.pc = l
              /\ r.grant = me.grant
            BY <1>r DEF Request
        <3>2. HandingBack(r) => HandingBack(me)
            BY <2>1, <3>1 DEF HandingBack, Critical
        <3>3. Set(p, r)
            BY <2>1 DEF Goto
        <3> HIDE DEF r, me
        <3> QED BY <1>h, <1>s, <2>1, <3>1, <3>2, <3>3
    <2>2. CASE ReadHeld(p)
        <3>1. HandingBack(me)
            BY <2>2 DEF ReadHeld, At, HandingBack
        <3> QED BY <2>1, <2>2, <3>1 DEF ReadHeld
    <2>3. CASE HeldGate(p)
        <3>1. HandingBack(me)
            BY <2>3 DEF HeldGate, At, HandingBack
        <3> DEFINE r == [me EXCEPT !.pc = "vault", !.ret = "idle"]
        <3>2. r.t = me.t /\ r.ret = "idle" /\ r.j = me.j /\ r.c = me.c /\ r.key = me.key /\ r.pc = "vault"
            BY <1>r DEF Request
        <3>3. Done(p) \/ Set(p, r)
            BY <2>3 DEF HeldGate
        <3> HIDE DEF r, me
        <3> QED BY <1>b, <1>h, <1>s, <3>1, <3>2, <3>3
    <2>4. CASE VaultCheck(p)
        <3>1. ~ me.grant => HandingBack(me)
            BY <2>4 DEF VaultCheck, At, HandingBack
        <3> QED BY <1>b, <1>g, <1>n, <2>1, <2>4, <3>1 DEF VaultCheck
    <2> QED BY <1>3, <2>2, <2>3, <2>4
<1>4. CASE HandBack(p)
    BY <1>4, <1>b DEF HandBack
<1>5. CASE Candidates(p)
    <2>1. ASSUME NEW js, Set(p, [me EXCEPT !.pc = "pick", !.key = 0, !.jobs = js])
          PROVE  Timely(req[p])'
        <3> DEFINE r == [me EXCEPT !.pc = "pick", !.key = 0, !.jobs = js]
        <3>1. r.pc = "pick" /\ r.t = me.t /\ r.ret = me.ret
            BY <1>r DEF Request
        <3> HIDE DEF r, me
        <3> QED BY <1>a, <1>n, <1>s, <2>1, <3>1 DEF r
    <2> QED BY <1>5, <2>1 DEF Candidates
<1>6. CASE Pick(p)
    <2>1. ASSUME NEW j, NEW js, NEW l \in {"pick", "take"}, Set(p, [me EXCEPT !.j = j, !.jobs = js, !.pc = l])
          PROVE  Timely(req[p])'
        <3> DEFINE r == [me EXCEPT !.j = j, !.jobs = js, !.pc = l]
        <3>1. r.pc = l /\ r.t = me.t /\ r.ret = me.ret
            BY <1>r DEF Request
        <3> HIDE DEF r, me
        <3> QED BY <1>a, <1>n, <1>s, <2>1, <3>1 DEF r
    <2> QED BY <1>6, <1>b, <2>1 DEF Pick
<1>7. CASE ClaimJob(p)
    <2>1. ASSUME NEW u, Set(p, [me EXCEPT !.pc = "regate", !.key = u, !.grant = TRUE])
          PROVE  Timely(req[p])'
        <3> DEFINE r == [me EXCEPT !.pc = "regate", !.key = u, !.grant = TRUE]
        <3>1. r.pc = "regate" /\ r.t = me.t /\ r.ret = me.ret
            BY <1>r DEF Request
        <3> HIDE DEF r, me
        <3> QED BY <1>a, <1>n, <1>s, <2>1, <3>1 DEF r
    <2> QED BY <1>7, <1>g, <1>n, <2>1 DEF ClaimJob
<1>8. ASSUME NEW l \in {"suspend", "resolve"}, NEW ret \in Shared,
             Set(p, [me EXCEPT !.pc = l, !.ret = ret])
      PROVE  Timely(req[p])'
    <2> DEFINE r == [me EXCEPT !.pc = l, !.ret = ret]
    <2>1. r.pc = l /\ r.t = me.t /\ r.ret = ret
        BY <1>r DEF Request
    <2> HIDE DEF r, me
    <2> QED BY <1>a, <1>n, <1>8, <2>1 DEF r
<1>9. CASE Regate(p) \/ Suspend(p)
    BY <1>9, <1>8, <1>b, <1>g, <1>n, <1>s DEF Regate, Suspend
<1>10. CASE SecondLease(p)
    <2>1. ASSUME NEW ret \in Shared, me.grant, Set(p, [me EXCEPT !.pc = "vault", !.ret = ret])
          PROVE  Timely(req[p])'
        <3> DEFINE r == [me EXCEPT !.pc = "vault", !.ret = ret]
        <3>1. r.t = me.t /\ r.ret = ret /\ r.j = me.j /\ r.c = me.c /\ r.key = me.key /\ r.pc = "vault"
              /\ r.grant = me.grant
            BY <1>r DEF Request
        <3>2. ~ HandingBack(r)
            BY <2>1, <3>1 DEF HandingBack
        <3> HIDE DEF r, me
        <3> QED BY <1>h, <2>1, <3>1, <3>2 DEF r
    <2> QED BY <1>10, <1>8, <1>b, <1>s, <2>1 DEF SecondLease
<1>11. CASE Deny(p)
    BY <1>11, <1>b, <1>g, <1>n DEF Deny
<1> QED BY <1>1, <1>2, <1>3, <1>4, <1>5, <1>6, <1>7, <1>9, <1>10, <1>11 DEF ClaimStep

\* A submission: the renewal that authorizes it dates the lease from its own clock.
LEMMA SubmitTimely ==
    ASSUME IInv, AllTimely, [Next]_vars, NEW p \in Slots, SubmitStep(p)
    PROVE  Timely(req[p])'
<1> DEFINE me == req[p]
<1>r. TypeOK /\ me \in Request /\ me.t <= now /\ Timely(me) /\ p \in Procs
    BY DEF IInv, TypeOK, Procs, AllSound, Sound, AllTimely
<1>c. ~ At(p, "idle") /\ UNCHANGED now
    BY DEF SubmitStep, CheckReach, BindClaim, VerifyClaim, RenewLease, RecordSubmission,
       TeardownLocate, TeardownLease, TeardownAvail, TeardownError, OwnLease, InLeaseBranch,
       InAvailBranch, At
<1>a. \A r : Set(p, r) /\ r.pc \notin Critical /\ r.t = me.t /\ r.ret \in Shared => Timely(req[p])'
    BY <1>c, SlotMoves
<1>b. Done(p) => Timely(req[p])'
    BY <1>c, SlotMoves
<1>g. \A l : Goto(p, l) /\ l \notin Critical => Timely(req[p])'
    BY <1>c, SlotMoves
<1>n. {"deny", "renew", "verify", "second", "teardown", "teardown lease", "teardown avail", "candidates",
       "recycle"} \cap Critical = {}
    BY DEF Critical
<1>s. me.ret \in Shared /\ "idle" \in Shared
    BY <1>r DEF Timely, Shared
<1>f. now \in Nat /\ MaxStall \in Nat /\ me.t \in Nat /\ me.j \in Jobs
    BY <1>r, LeaseQueueAssumption DEF TypeOK, Request
<1>k. ASSUME NEW l, l \notin Critical, NEW r, r.pc = l, r.t = me.t, r.ret = me.ret \/ r.ret = "idle", Set(p, r)
      PROVE  Timely(req[p])'
    BY <1>a, <1>k, <1>s
<1>1. CASE CheckReach(p)
    <2>1. ASSUME NEW u, Set(p, [me EXCEPT !.pc = "deny", !.key = u, !.ret = "idle"])
          PROVE  Timely(req[p])'
        <3> DEFINE r == [me EXCEPT !.pc = "deny", !.key = u, !.ret = "idle"]
        <3>1. r.pc = "deny" /\ r.t = me.t /\ r.ret = "idle"
            BY <1>r DEF Request
        <3> HIDE DEF r, me
        <3> QED BY <1>k, <1>n, <2>1, <3>1 DEF r
    <2> QED BY <1>1, <1>g, <1>n, <2>1 DEF CheckReach
<1>2. CASE BindClaim(p)
    <2>1. ASSUME NEW b, Set(p, [me EXCEPT !.pc = "verify", !.body = b])
          PROVE  Timely(req[p])'
        <3> DEFINE r == [me EXCEPT !.pc = "verify", !.body = b]
        <3>1. r.pc = "verify" /\ r.t = me.t /\ r.ret = me.ret
            BY <1>r DEF Request
        <3> HIDE DEF r, me
        <3> QED BY <1>k, <1>n, <2>1, <3>1 DEF r
    <2> QED BY <1>2, <1>b, <2>1 DEF BindClaim
<1>3. CASE VerifyClaim(p)
    <2> DEFINE r == [me EXCEPT !.pc = "renew", !.t = now]
    <2>1. r.pc = "renew" /\ r.t = now /\ r.ret = me.ret
        BY <1>r DEF Request
    <2>2. Done(p) \/ Set(p, r)
        BY <1>3 DEF VerifyClaim
    <2>3. Set(p, r) => req'[p] = r
        BY <1>r DEF Set, TypeOK
    <2>4. now <= now + MaxStall
        BY SMT, <1>f
    <2> HIDE DEF r
    <2> QED BY <1>b, <1>c, <1>s, <2>1, <2>2, <2>3, <2>4 DEF Timely, HandingBack
<1>4. CASE RenewLease(p)
    <2> DEFINE u == LeaseExpiry(me.t)
    <2>1. ASSUME NEW l \in {"second", "record", "deny"}, Rename(me.j, Lease(me.c, u)),
                 Set(p, [me EXCEPT !.pc = l, !.key = u])
          PROVE  Timely(req[p])'
        <3> DEFINE r == [me EXCEPT !.pc = l, !.key = u]
        <3>1. r.pc = l /\ r.t = me.t /\ r.ret = me.ret /\ r.j = me.j
            BY <1>r DEF Request
        <3>2. req'[p] = r
            BY <1>r, <2>1 DEF Set, TypeOK
        <3>3. entry'[me.j] = Lease(me.c, u)
            BY <1>r, <1>f, <2>1 DEF Rename, TypeOK
        <3>4. u \in Nat /\ me.t + LeastLease <= u /\ LeastLease \in Nat
            BY <1>f, LeaseExpiryTyped, LeaseLasts
        <3> HIDE DEF u
        <3>5. me.t + LeastLease <= u + MaxStall
            BY SMT, <1>f, <3>4
        <3>6. entry'[me.j].until = u
            BY SMT, <3>3 DEF Lease
        <3>7. now' <= me.t + MaxStall
            BY <1>c, <1>r DEF Timely, At
        <3> HIDE DEF r, me
        <3> QED BY <1>s, <3>1, <3>2, <3>5, <3>6, <3>7 DEF Timely, RenewedSince, HandingBack
    <2>2. AfterRenewal(me) # "idle" => AfterRenewal(me) \in {"second", "record", "deny"}
        BY DEF AfterRenewal
    <2> HIDE DEF u
    <2> QED BY <1>4, <1>b, <1>g, <1>n, <2>1, <2>2 DEF RenewLease, u
<1>5. CASE RecordSubmission(p)
    <2> DEFINE r == [me EXCEPT !.pc = "teardown", !.body = FALSE]
    <2>1. r.pc = "teardown" /\ r.t = me.t /\ r.ret = me.ret /\ Set(p, r)
        BY <1>r, <1>5 DEF Request, RecordSubmission
    <2> HIDE DEF r, me
    <2> QED BY <1>k, <1>n, <2>1
<1>6. EndLeaseBranch(p) => Timely(req[p])'
    BY <1>b, <1>g, <1>n DEF EndLeaseBranch
<1>7. ASSUME EndAvailBranch(p), InAvailBranch(p) PROVE Timely(req[p])'
    <2> DEFINE r == [me EXCEPT !.body = TRUE]
    <2>1. r.pc = me.pc /\ r.t = me.t /\ r.ret = me.ret
        BY <1>r DEF Request
    <2>2. me.pc \notin Critical
        BY <1>7 DEF InAvailBranch, InLeaseBranch, At, Critical
    <2>3. Done(p) \/ Set(p, r)
        BY <1>7 DEF EndAvailBranch
    <2> HIDE DEF r, me
    <2> QED BY <1>b, <1>k, <2>1, <2>2, <2>3
<1>8. CASE TeardownLocate(p)
    <2>1. ASSUME NEW u, Set(p, [me EXCEPT !.pc = "teardown lease", !.key = u])
          PROVE  Timely(req[p])'
        <3> DEFINE r == [me EXCEPT !.pc = "teardown lease", !.key = u]
        <3>1. r.pc = "teardown lease" /\ r.t = me.t /\ r.ret = me.ret
            BY <1>r DEF Request
        <3> HIDE DEF r, me
        <3> QED BY <1>k, <1>n, <2>1, <3>1 DEF r
    <2> QED BY <1>8, <1>6, <2>1 DEF TeardownLocate
<1>9. CASE TeardownLease(p) \/ TeardownAvail(p) \/ TeardownError(p)
    BY <1>9, <1>6, <1>7 DEF TeardownLease, TeardownAvail, TeardownError
<1>10. CASE OwnLease(p)
    <2>1. ASSUME NEW u, \/ Set(p, [me EXCEPT !.pc = "recycle", !.key = u])
                        \/ me.pc = "deny" /\ Set(p, [me EXCEPT !.grant = TRUE, !.key = u])
          PROVE  Timely(req[p])'
        <3> DEFINE r == [me EXCEPT !.pc = "recycle", !.key = u]
                   q == [me EXCEPT !.grant = TRUE, !.key = u]
        <3>1. r.pc = "recycle" /\ r.t = me.t /\ r.ret = me.ret
              /\ q.pc = me.pc /\ q.t = me.t /\ q.ret = me.ret
            BY <1>r DEF Request
        <3>2. Set(p, r) \/ (me.pc = "deny" /\ Set(p, q))
            BY <2>1
        <3> HIDE DEF r, q, me
        <3> QED BY <1>k, <1>n, <3>1, <3>2
    <2> QED BY <1>10, <1>b, <2>1 DEF OwnLease, At
<1> QED BY <1>1, <1>2, <1>3, <1>4, <1>5, <1>8, <1>9, <1>10 DEF SubmitStep

\* The reverts, the profile update, the start and the end of a request.
LEMMA OtherTimely ==
    ASSUME IInv, AllTimely, [Next]_vars, NEW p \in Slots,
           \/ PatchStep(p) \/ SettleStep(p) \/ Crash(p)
           \/ \E op \in AllOps, c \in Clients, j \in Jobs : Start(p, op, c, j)
    PROVE  Timely(req[p])'
<1> DEFINE me == req[p]
<1>r. TypeOK /\ me \in Request /\ me.t <= now /\ Timely(me) /\ p \in Procs /\ p # Cron
    BY LeaseQueueAssumption DEF IInv, TypeOK, Procs, AllSound, Sound, AllTimely
<1>s. me.ret \in Shared /\ "next lease" \in Shared
    BY <1>r DEF Timely, Shared
<1>f. now \in Nat /\ MaxStall \in Nat
    BY <1>r, LeaseQueueAssumption DEF TypeOK
<1>n. {"drop", "recycle", "resolve", "recheck record", "relinquish", "next lease", "replace",
       "drop recycled", "flag after"} \cap Critical = {}
    BY DEF Critical
<1>1. CASE PatchStep(p)
    <2>c. ~ At(p, "idle") /\ UNCHANGED now
        BY <1>1 DEF PatchStep, FlagBefore, FlagAfter, WriteFlag, RelinquishList, RecheckRecord,
           DropRecycled, ReplaceClient, At
    <2>a. \A r : Set(p, r) /\ r.pc \notin Critical /\ r.t = me.t /\ r.ret \in Shared => Timely(req[p])'
        BY <2>c, SlotMoves
    <2>b. Done(p) => Timely(req[p])'
        BY <2>c, SlotMoves
    <2>g. \A l : Goto(p, l) /\ l \notin Critical => Timely(req[p])'
        BY <2>c, SlotMoves
    <2>1. CASE FlagBefore(p) \/ FlagAfter(p)
        <3> DEFINE r == [me EXCEPT !.pc = "relinquish", !.seen = [c \in Clients |-> {flagged'}]]
        <3>1. r.pc = "relinquish" /\ r.t = me.t /\ r.ret = me.ret
            BY <1>r DEF Request
        <3>2. Done(p) \/ Set(p, r)
            BY <2>1 DEF FlagBefore, FlagAfter, WriteFlag
        <3> HIDE DEF r, me
        <3> QED BY <1>n, <1>s, <2>a, <2>b, <3>1, <3>2
    <2>2. CASE RelinquishList(p)
        <3>1. ASSUME NEW k, NEW ls, Set(p, [me EXCEPT !.pc = "next lease", !.pass = k, !.leases = ls])
              PROVE  Timely(req[p])'
            <4> DEFINE r == [me EXCEPT !.pc = "next lease", !.pass = k, !.leases = ls]
            <4>1. r.pc = "next lease" /\ r.t = me.t /\ r.ret = me.ret
                BY <1>r DEF Request
            <4> HIDE DEF r, me
            <4> QED BY <1>n, <1>s, <2>a, <3>1, <4>1 DEF r
        <3> QED BY <1>n, <2>2, <2>b, <2>g, <3>1 DEF RelinquishList
    <2>3. CASE RecheckRecord(p) \/ DropRecycled(p) \/ ReplaceClient(p)
        BY <1>n, <2>3, <2>b, <2>g DEF RecheckRecord, DropRecycled, ReplaceClient
    <2> QED BY <1>1, <2>1, <2>2, <2>3 DEF PatchStep
<1>2. CASE SettleStep(p)
    <2>c. ~ At(p, "idle") /\ UNCHANGED now
        BY <1>2 DEF SettleStep, ResolveLease, DropEntry, RecycleLease, NextLease, At
    <2>a. \A r : Set(p, r) /\ r.pc \notin Critical /\ r.t = me.t /\ r.ret \in Shared => Timely(req[p])'
        BY <2>c, SlotMoves
    <2>g. \A l : Goto(p, l) /\ l \notin Critical => Timely(req[p])'
        BY <2>c, SlotMoves
    <2>h. Return(p) => Timely(req[p])'
        BY <2>c, SlotMoves
    <2>1. CASE NextLease(p)
        <3>1. ASSUME NEW l, NEW ls, Set(p, [me EXCEPT !.j = l.j, !.c = l.c, !.key = l.key, !.leases = ls,
                                               !.ret = "next lease", !.pc = "resolve"])
              PROVE  Timely(req[p])'
            <4> DEFINE r == [me EXCEPT !.j = l.j, !.c = l.c, !.key = l.key, !.leases = ls,
                                       !.ret = "next lease", !.pc = "resolve"]
            <4>1. r.pc = "resolve" /\ r.t = me.t /\ r.ret = "next lease"
                BY <1>r DEF Request
            <4> HIDE DEF r, me
            <4> QED BY <1>n, <1>s, <2>a, <3>1, <4>1 DEF r
        <3> QED BY <1>n, <1>r, <2>1, <2>g, <3>1 DEF NextLease
    <2>2. CASE ResolveLease(p) \/ DropEntry(p) \/ RecycleLease(p)
        BY <1>n, <2>2, <2>g, <2>h DEF ResolveLease, DropEntry, RecycleLease
    <2> QED BY <1>2, <2>1, <2>2 DEF SettleStep
<1>3. CASE Crash(p)
    <2>1. ~ At(p, "idle") /\ UNCHANGED now /\ Done(p)
        BY <1>3 DEF Crash
    <2> QED BY <2>1, SlotMoves
<1>4. ASSUME NEW op \in AllOps, NEW c \in Clients, NEW j \in Jobs, Start(p, op, c, j)
      PROVE  Timely(req[p])'
    <2> DEFINE l == CASE op \in {"claim", "heartbeat", "reclaim"} -> "suspension"
                      [] op \in {"success", "failure", "retriable"} -> "bind"
                      [] op = "patch" -> "flag before"
               r == [Idle EXCEPT !.op = op, !.c = c, !.j = j, !.t = now, !.prof = profile[c], !.pc = l]
    <2>1. l \in {"suspension", "bind", "flag before"}
        BY DEF AllOps
    <2>2. Set(p, r) /\ UNCHANGED now
        BY <1>4 DEF Start
    <2> HIDE DEF l
    <2>3. r.pc = l /\ r.t = now /\ r.ret = "idle"
        BY DEF Idle
    <2>4. req'[p] = r
        BY <1>r, <2>2 DEF Set, TypeOK
    <2>5. now <= now + MaxStall
        BY SMT, <1>f
    <2> HIDE DEF r
    <2>6. r.pc # "record" /\ ~ HandingBack(r)
        BY <2>1, <2>3 DEF HandingBack
    <2> QED BY <2>2, <2>3, <2>4, <2>5, <2>6 DEF Timely, HandingBack, Shared
<1> QED BY <1>1, <1>2, <1>3, <1>4

\* The maintenance run leaves the local state of every request alone.
LEMMA CronKeepsSlots ==
    ASSUME TypeOK, CronStep \/ SettleStep(Cron) \/ StartMaintenance \/ Crash(Cron)
    PROVE  \A q \in Slots : req'[q] = req[q]
<1> DEFINE Wait == \A q \in Slots : req'[q] = req[q]
<1>1. \A r : Set(Cron, r) => Wait
    BY LeaseQueueAssumption DEF TypeOK, Set, Procs
<1>2. (Done(Cron) \/ Return(Cron) \/ (\E l : Goto(Cron, l)) \/ (\E d : EndPass(d))) => Wait
    BY <1>1 DEF Done, Return, Goto, EndPass
<1> SUFFICES Wait
    OBVIOUS
<1> HIDE DEF Wait
<1>3. CASE SettleList \/ SettleHasRecord \/ WriteLost \/ CountLost \/ LostBody \/ TerminalHasRecord
           \/ RecordSystemFailure \/ ListAvail \/ ExpireOverdue
    BY <1>3, <1>1, <1>2 DEF SettleList, SettleHasRecord, WriteLost, CountLost, LostBody,
       TerminalHasRecord, RecordSystemFailure, ListAvail, ExpireOverdue
<1>4. CASE ReadBodies \/ ListDenials \/ EscalateAllDenied \/ ListFlags \/ NextClient \/ RebuildClient
           \/ RereadClient \/ DeleteFlags
    BY <1>4, <1>1, <1>2 DEF ReadBodies, ListDenials, EscalateAllDenied, ListFlags, NextClient,
       RebuildClient, RereadClient, DeleteFlags
<1>5. CASE SettleStep(Cron)
    BY <1>5, <1>1, <1>2 DEF SettleStep, ResolveLease, DropEntry, RecycleLease, NextLease
<1>6. CASE StartMaintenance \/ Crash(Cron)
    BY <1>6, <1>1, <1>2 DEF StartMaintenance, Crash
<1> QED BY <1>3, <1>4, <1>5, <1>6 DEF CronStep

\* Requests stay timely, whatever step the system takes.
LEMMA TimelyStep ==
    ASSUME IInv, AllTimely, [Next]_vars
    PROVE  AllTimely'
<1>t. TypeOK
    BY DEF IInv
<1> SUFFICES ASSUME NEW q \in Slots, req'[q] # req[q] PROVE Timely(req[q])'
    BY WaitingTimely DEF AllTimely
<1>q. q \in Procs
    BY DEF Procs
<1>1. CASE CronStep \/ SettleStep(Cron) \/ StartMaintenance \/ Crash(Cron)
    BY <1>1, <1>t, CronKeepsSlots
<1>2. CASE Tick \/ (\E c \in Clients : Unsuspend(c)) \/ UNCHANGED vars
    BY <1>2 DEF Tick, Unsuspend, vars
<1>3. ASSUME NEW p \in Slots,
             \/ ClaimStep(p) \/ SubmitStep(p) \/ PatchStep(p) \/ SettleStep(p) \/ Crash(p)
             \/ \E op \in AllOps, c \in Clients, j \in Jobs : Start(p, op, c, j)
      PROVE  Timely(req[q])'
    <2>1. q = p
        BY <1>3, <1>q, <1>t, OthersWait
    <2> QED BY <1>3, <2>1, ClaimTimely, SubmitTimely, OtherTimely
<1> QED BY SMTT(60), <1>1, <1>2, <1>3 DEF Next, Procs

\* While the lease of a settled job is at its listed key, no running request has seen it
\* renewed, and once it left that key it does not come back.
LEMMA LapsedStays ==
    ASSUME BriefRequests, IInv, AllTimely, [Next]_vars, req[Cron].key < req[Cron].t
    PROVE  /\ entry'[req[Cron].j] = Lease(req[Cron].c, req[Cron].key) => Keeps(req[Cron])
           /\ \A p \in Slots : Keeps(req[Cron]) /\ ~ At(p, "idle") /\ req[p].j = req[Cron].j
                               => ~ RenewedSince(req[p])
<1> DEFINE me == req[Cron]
           k == me.key
<1>1. TypeOK /\ me.j \in Jobs /\ k \in Nat /\ me.t \in Nat /\ me.t <= now /\ now \in Nat
    BY DEF IInv, TypeOK, Request, AllSound, Sound, Procs
<1>2. LeastLease \in Nat /\ MaxStall \in Nat /\ 2 * MaxStall <= LeastLease
    BY LeaseLasts, LeaseQueueAssumption DEF BriefRequests
<1>3. k < now
    <2>1. k < me.t
        OBVIOUS
    <2> HIDE DEF me, k
    <2> QED BY SMT, <1>1, <2>1
<1>l. Lease(me.c, k).at = "leased" /\ Lease(me.c, k).until = k
    BY DEF Lease
<1>4. ASSUME entry'[me.j] = Lease(me.c, k), ~ Keeps(me) PROVE FALSE
    <2>1. entry'[me.j] # entry[me.j]
        BY <1>4 DEF Keeps
    <2>2. now + LeastLease <= entry'[me.j].until + MaxStall
        BY <1>1, <1>4, <1>l, <2>1, RenamesLast
    <2>3. now + LeastLease <= k + MaxStall
        BY <1>4, <1>l, <2>2
    <2> HIDE DEF me, k
    <2> QED BY SMT, <1>1, <1>2, <1>3, <2>3
<1>5. ASSUME NEW p \in Slots, Keeps(me), ~ At(p, "idle"), req[p].j = me.j, RenewedSince(req[p])
      PROVE  FALSE
    <2> DEFINE t == req[p].t
    <2>1. t \in Nat /\ now <= t + MaxStall
        BY <1>1, <1>5 DEF TypeOK, Request, Procs, AllTimely, Timely, At
    <2>2. t + LeastLease <= k + MaxStall
        BY <1>5, <1>l DEF RenewedSince, Keeps
    <2> HIDE DEF me, k, t
    <2> QED BY SMT, <1>1, <1>2, <1>3, <2>1, <2>2
<1> QED BY <1>4, <1>5

\* What the run knows of the lease it settles survives the steps of the requests: none of
\* them records a result or counts another loss while the lease is at its listed key.
LEMMA WaitingSettles ==
    ASSUME BriefRequests, IInv, CronSound, AllTimely, SettlesOnce(req[Cron]), [Next]_vars,
           req'[Cron] = req[Cron]
    PROVE  SettlesOnce(req[Cron])'
<1> DEFINE me == req[Cron]
           x == <<me.c, me.key>>
<1>t. TypeOK /\ me.j \in Jobs
    BY DEF IInv, TypeOK, Request, Procs
<1>1. x \in lost[me.j] => x \in lost'[me.j]
    BY <1>t, LostStep
<1>2. HasRecord(me.j) => HasRecord(me.j)'
    BY <1>t, RecordStep
<1> SUFFICES ASSUME me.pc \in {"recycle", "resolve"}, entry'[me.j] = Lease(me.c, me.key)
             PROVE  /\ me.pc = "recycle" => ~ HasRecord(me.j)'
                    /\ LostLimit > 0 /\ (me.pc = "recycle" \/ ~ HasRecord(me.j)')
                       => x \in lost'[me.j] /\ Cardinality(lost'[me.j]) < LostLimit
    BY <1>1 DEF SettlesOnce, Keeps, HasRecord
<1>3. me.key < me.t
    BY DEF CronSound, CronSoundOf, Settling
<1>4. Keeps(me) /\ \A p \in Slots : ~ At(p, "idle") /\ req[p].j = me.j => ~ RenewedSince(req[p])
    BY <1>3, LapsedStays
<1>5. ~ At(Cron, "system failure") /\ ~ At(Cron, "write lost")
    BY DEF At
<1>6. HasRecord(me.j)' => HasRecord(me.j)
    <2>1. ASSUME NEW p \in Slots, At(p, "record"), req[p].j = me.j PROVE FALSE
        <3>1. RenewedSince(req[p]) /\ ~ At(p, "idle")
            BY <2>1 DEF AllTimely, Timely, At
        <3> QED BY <1>4, <2>1, <3>1
    <2> QED BY <1>t, <1>5, <2>1, RecordStep
<1>7. ASSUME x \in lost[me.j] PROVE lost'[me.j] = lost[me.j]
    <2>1. ASSUME NEW p \in Slots, At(p, "hand back"), req[p].j = me.j
          PROVE  <<req[p].c, req[p].key>> = x
        <3>1. (RenewedSince(req[p]) \/ Keeps(req[p])) /\ ~ At(p, "idle")
            BY <2>1 DEF AllTimely, Timely, At, HandingBack
        <3>2. Lease(req[p].c, req[p].key) = Lease(me.c, me.key)
            BY <1>4, <2>1, <3>1 DEF Keeps
        <3>3. \A c, d, u, v : Lease(c, u) = Lease(d, v) => c = d /\ u = v
            <4>1. \A c, u : Lease(c, u).by = c /\ Lease(c, u).until = u
                BY DEF Lease
            <4> QED BY SMT, <4>1
        <3> QED BY SMT, <3>2, <3>3
    <2>2. lost'[me.j] = lost[me.j] \/ lost'[me.j] = lost[me.j] \cup {x}
        BY <1>t, <1>5, <2>1, LostStep
    <2> QED BY <1>7, <2>2
<1>8. me.pc = "recycle" => ~ HasRecord(me.j)
    BY <1>4 DEF SettlesOnce
<1>9. LostLimit > 0 /\ (me.pc = "recycle" \/ ~ HasRecord(me.j))
      => x \in lost[me.j] /\ Cardinality(lost[me.j]) < LostLimit
    BY <1>4 DEF SettlesOnce
<1> QED BY <1>1, <1>2, <1>6, <1>7, <1>8, <1>9

\* The run's own steps: the count comes before the recycle, and the record check right
\* before it.
LEMMA CronSettles ==
    ASSUME TypeOK, CronSound, LossesFinite, SettlesOnce(req[Cron]),
           CronStep \/ SettleStep(Cron) \/ StartMaintenance \/ Crash(Cron)
    PROVE  SettlesOnce(req[Cron])'
<1> DEFINE me == req[Cron]
           Decisive == {"count lost", "recycle", "resolve"}
<1>r. me \in Request /\ Cron \in Procs /\ me.j \in Jobs
    BY DEF TypeOK, Request, Procs
<1>1. \A r : Set(Cron, r) => req'[Cron] = r
    BY <1>r DEF Set, TypeOK
<1>2. \A r : Set(Cron, r) /\ r.pc \notin Decisive => SettlesOnce(req[Cron])'
    BY <1>1 DEF SettlesOnce
<1>3. Done(Cron) => SettlesOnce(req[Cron])'
    BY <1>2 DEF Done, Idle
<1>4. ASSUME NEW l, Goto(Cron, l)
      PROVE  /\ req'[Cron].pc = l /\ req'[Cron].c = me.c /\ req'[Cron].key = me.key
             /\ req'[Cron].j = me.j
    <2> DEFINE r == [me EXCEPT !.pc = l]
    <2>1. r.pc = l /\ r.c = me.c /\ r.key = me.key /\ r.j = me.j
        BY <1>r DEF Request
    <2>2. req'[Cron] = r
        BY <1>1, <1>4 DEF Goto
    <2> HIDE DEF r, me
    <2> QED BY <2>1, <2>2
<1>5. \A l : Goto(Cron, l) /\ l \notin Decisive => SettlesOnce(req[Cron])'
    BY <1>4 DEF SettlesOnce
<1>6. Return(Cron) => SettlesOnce(req[Cron])'
    <2>1. me.ret \notin Decisive
        BY DEF CronSound, CronSoundOf
    <2> QED BY <1>3, <1>5, <2>1 DEF Return
<1>7. \A d : EndPass(d) => SettlesOnce(req[Cron])'
    BY <1>3, <1>5 DEF EndPass, PassAfter
<1>e. ASSUME NEW l, Goto(Cron, l),
             l = "count lost" => <<me.c, me.key>> \in lost'[me.j],
             l = "recycle" => record'[me.j] = "none",
             /\ LostLimit > 0 /\ entry'[me.j] = Lease(me.c, me.key)
             /\ l = "recycle" \/ (l = "resolve" /\ record'[me.j] = "none")
             => <<me.c, me.key>> \in lost'[me.j] /\ Cardinality(lost'[me.j]) < LostLimit
      PROVE  SettlesOnce(req[Cron])'
    <2> DEFINE r == req'[Cron]
    <2>1. r.pc = l /\ r.c = me.c /\ r.key = me.key /\ r.j = me.j
        BY <1>4, <1>e
    <2> HIDE DEF me, r
    <2>2. /\ r.pc = "count lost" => <<r.c, r.key>> \in lost'[r.j]
          /\ r.pc = "recycle" => ~ (record'[r.j] # "none")
          /\ /\ LostLimit > 0 /\ entry'[r.j] = Lease(r.c, r.key)
             /\ r.pc = "recycle" \/ (r.pc = "resolve" /\ ~ (record'[r.j] # "none"))
             => <<r.c, r.key>> \in lost'[r.j] /\ Cardinality(lost'[r.j]) < LostLimit
        BY <1>e, <2>1
    <2> QED BY <2>2 DEF SettlesOnce, Keeps, HasRecord, r
<1> HIDE DEF Decisive
<1>8. CASE SettleHasRecord
    <2>1. ASSUME HasRecord(me.j), Goto(Cron, "resolve"), UNCHANGED record PROVE SettlesOnce(req[Cron])'
        BY <1>e, <2>1 DEF HasRecord
    <2> QED BY <1>5, <1>8, <2>1 DEF SettleHasRecord, Decisive
<1>9. CASE WriteLost
    <2>1. Goto(Cron, "count lost") /\ lost' = [lost EXCEPT ![me.j] = @ \cup {<<me.c, me.key>>}]
        BY <1>9 DEF WriteLost
    <2>2. <<me.c, me.key>> \in lost'[me.j]
        BY <1>r, <2>1 DEF TypeOK
    <2> QED BY <1>e, <2>1, <2>2
<1>10. CASE CountLost
    <2>1. ASSUME Goto(Cron, "resolve"), ~ (Cardinality(lost[me.j]) >= LostLimit), UNCHANGED markers
          PROVE  SettlesOnce(req[Cron])'
        <3>1. <<me.c, me.key>> \in lost[me.j]
            BY <1>10 DEF CountLost, At, SettlesOnce
        <3>2. Cardinality(lost[me.j]) \in Nat /\ LostLimit \in Nat
            BY <1>r, FS_CardinalityType, LeaseQueueAssumption DEF LossesFinite
        <3>3. Cardinality(lost[me.j]) < LostLimit
            BY SMT, <2>1, <3>2
        <3>4. UNCHANGED lost
            BY <2>1 DEF markers
        <3> QED BY <1>e, <2>1, <3>1, <3>3, <3>4
    <2> QED BY <1>5, <1>10, <2>1 DEF CountLost, Decisive
<1>11. CASE ResolveLease(Cron)
    <2>1. ASSUME Goto(Cron, "recycle"), ~ HasRecord(me.j)
          PROVE  SettlesOnce(req[Cron])'
        <3>1. UNCHANGED <<entry, record, lost>> /\ me.pc = "resolve"
            BY <1>11 DEF ResolveLease, queue, markers, At
        <3>2. LostLimit > 0 /\ entry[me.j] = Lease(me.c, me.key)
              => <<me.c, me.key>> \in lost[me.j] /\ Cardinality(lost[me.j]) < LostLimit
            BY <2>1, <3>1 DEF SettlesOnce, Keeps
        <3> QED BY <1>e, <2>1, <3>1, <3>2 DEF HasRecord
    <2> QED BY <1>5, <1>11, <2>1 DEF ResolveLease, Decisive
<1>12. CASE NextLease(Cron)
    <2>1. ASSUME NEW l \in me.leases, NEW ls, NEW pc \in {"has record", "resolve"},
                 pc = "resolve" => ~ (LostLimit > 0),
                 Set(Cron, [me EXCEPT !.j = l.j, !.c = l.c, !.key = l.key, !.leases = ls,
                                      !.ret = "next lease", !.pc = pc])
          PROVE  SettlesOnce(req[Cron])'
        <3> DEFINE r == [me EXCEPT !.j = l.j, !.c = l.c, !.key = l.key, !.leases = ls,
                                   !.ret = "next lease", !.pc = pc]
        <3>1. r.pc = pc
            BY <1>r DEF Request
        <3>2. req'[Cron] = r
            BY <1>1, <2>1
        <3> HIDE DEF r, me
        <3> QED BY <2>1, <3>1, <3>2 DEF SettlesOnce
    <2> QED BY <1>7, <1>12, <2>1 DEF NextLease
<1>13. CASE DropEntry(Cron) \/ RecycleLease(Cron)
    BY <1>5, <1>6, <1>13 DEF DropEntry, RecycleLease, Decisive
<1>14. CASE LostBody \/ TerminalHasRecord \/ RecordSystemFailure \/ RebuildClient
    BY <1>5, <1>14 DEF LostBody, TerminalHasRecord, RecordSystemFailure, RebuildClient, Decisive
<1>n. {"next lease", "expire", "terminal", "bodies", "denials", "escalate", "next client", "rebuild",
       "unflag"} \cap Decisive = {}
    BY DEF Decisive
<1>15. CASE SettleList
    <2>1. ASSUME NEW a PROVE [me EXCEPT !.pc = "next lease", !.leases = a].pc = "next lease"
        BY <1>r DEF Request
    <2> QED BY <1>2, <1>15, <1>n, <2>1 DEF SettleList
<1>16. CASE ListAvail
    <2>1. ASSUME NEW a
          PROVE  [me EXCEPT !.pc = "expire", !.key = 0, !.ret = "expire", !.jobs = a].pc = "expire"
        BY <1>r DEF Request
    <2> QED BY <1>2, <1>16, <1>n, <2>1 DEF ListAvail
<1>17. CASE ExpireOverdue \/ EscalateAllDenied
    <2>1. ASSUME NEW j, NEW js, NEW l \in {"terminal", "expire", "escalate"},
                 Set(Cron, [me EXCEPT !.j = j, !.jobs = js, !.pc = l])
          PROVE  SettlesOnce(req[Cron])'
        <3>1. [me EXCEPT !.j = j, !.jobs = js, !.pc = l].pc = l
            BY <1>r DEF Request
        <3> QED BY <1>2, <1>n, <2>1, <3>1
    <2>2. CASE ExpireOverdue
        BY <1>5, <1>n, <2>1, <2>2 DEF ExpireOverdue
    <2>3. CASE EscalateAllDenied
        BY <1>7, <2>1, <2>3 DEF EscalateAllDenied
    <2> QED BY <1>17, <2>2, <2>3
<1>18. CASE ReadBodies \/ ListDenials \/ ListFlags
    <2>1. ASSUME NEW a PROVE [me EXCEPT !.pc = "denials", !.bodies = a].pc = "denials"
        BY <1>r DEF Request
    <2>2. ASSUME NEW a
          PROVE  [me EXCEPT !.pc = "escalate", !.ret = "escalate", !.jobs = a].pc = "escalate"
        BY <1>r DEF Request
    <2>3. [me EXCEPT !.pc = "next client", !.seen = flags, !.bodies = {}].pc = "next client"
        BY <1>r DEF Request
    <2>4. CASE ReadBodies
        BY <1>2, <1>n, <2>1, <2>4 DEF ReadBodies
    <2>5. CASE ListDenials
        BY <1>2, <1>n, <2>2, <2>5 DEF ListDenials
    <2>6. CASE ListFlags
        BY <1>2, <1>n, <2>3, <2>6 DEF ListFlags
    <2> QED BY <1>18, <2>4, <2>5, <2>6
<1>19. CASE NextClient
    <2>1. ASSUME NEW a, NEW b PROVE [me EXCEPT !.pc = "rebuild", !.c = a, !.prof = b].pc = "rebuild"
        BY <1>r DEF Request
    <2> QED BY <1>2, <1>3, <1>19, <1>n, <2>1 DEF NextClient
<1>20. CASE RereadClient \/ DeleteFlags
    <2>1. [me EXCEPT !.pc = "next client", !.seen[me.c] = {}].pc = "next client"
        BY <1>r DEF Request
    <2> QED BY <1>2, <1>5, <1>20, <1>n, <2>1 DEF RereadClient, DeleteFlags
<1>21. CASE StartMaintenance
    <2> DEFINE r == [Idle EXCEPT !.pc = PassAfter("start"), !.op = "maintenance", !.t = now]
    <2>1. r.pc = PassAfter("start") /\ Set(Cron, r)
        BY <1>21 DEF Idle, StartMaintenance
    <2>2. PassAfter("start") \notin Decisive
        BY DEF PassAfter, Decisive
    <2> HIDE DEF r
    <2> QED BY <1>2, <2>1, <2>2
<1>22. CASE Crash(Cron)
    BY <1>3, <1>22 DEF Crash
<1> QED BY <1>8, <1>9, <1>10, <1>11, <1>12, <1>13, <1>14, <1>15, <1>16, <1>17, <1>18, <1>19, <1>20,
           <1>21, <1>22 DEF CronStep, SettleStep

\* Markers are added one at a time, so there are finitely many of a job.
LEMMA FiniteStep ==
    ASSUME TypeOK, LossesFinite, [Next]_vars
    PROVE  LossesFinite'
<1> SUFFICES ASSUME NEW j \in Jobs PROVE IsFiniteSet(lost'[j])
    BY DEF LossesFinite
<1>1. IsFiniteSet(lost[j])
    BY DEF LossesFinite
<1>2. lost'[j] = lost[j] \/ \E x : lost'[j] = lost[j] \cup {x}
    BY LostStep
<1> QED BY <1>1, <1>2, FS_AddElement

\* The lapsed lease of a job is settled on facts that are still true.
SettleInv == CronSound /\ AllTimely /\ LossesFinite /\ SettlesOnce(req[Cron])

\* Every step keeps what the settling of a lease rests on.
LEMMA SettleInvStep ==
    ASSUME BriefRequests, IInv, SettleInv, [Next]_vars
    PROVE  SettleInv'
<1>1. TypeOK /\ CronSound /\ AllTimely /\ LossesFinite /\ SettlesOnce(req[Cron])
    BY DEF IInv, SettleInv
<1>2. CronSound' /\ AllTimely' /\ LossesFinite'
    BY <1>1, CronSoundStep, TimelyStep, FiniteStep
<1>3. CASE CronStep \/ SettleStep(Cron) \/ StartMaintenance \/ Crash(Cron)
    BY <1>1, <1>2, <1>3, CronSettles DEF SettleInv
<1>4. CASE req'[Cron] = req[Cron]
    BY <1>1, <1>2, <1>4, WaitingSettles DEF SettleInv
<1>5. CASE Tick \/ (\E c \in Clients : Unsuspend(c)) \/ UNCHANGED vars
    BY <1>4, <1>5 DEF Tick, Unsuspend, vars
<1>6. CASE \E p \in Slots : \/ ClaimStep(p) \/ SubmitStep(p) \/ PatchStep(p) \/ SettleStep(p) \/ Crash(p)
                            \/ \E op \in AllOps, c \in Clients, j \in Jobs : Start(p, op, c, j)
    BY <1>1, <1>4, <1>6, SlotKeepsCron
<1> QED BY SMTT(60), <1>3, <1>5, <1>6 DEF Next, Procs

\* The initial state knows nothing that could be wrong.
LEMMA SettleInvInit == Init => SettleInv
<1> SUFFICES ASSUME Init PROVE SettleInv
    OBVIOUS
<1>1. \A p \in Procs : req[p] = Idle
    BY DEF Init
<1>2. CronSoundOf(Idle) /\ Timely(Idle) /\ SettlesOnce(Idle)
    BY DEF CronSoundOf, Idle, Settling, Retiring, Walking, Timely, Shared, HandingBack, SettlesOnce
<1>3. LossesFinite
    BY FS_EmptySet DEF Init, LossesFinite
<1> QED BY <1>1, <1>2, <1>3 DEF SettleInv, CronSound, AllTimely, Procs

\* Only recycle_lease brings a job back to avail/, at the key its handler knows.
LEMMA RecycledBy ==
    ASSUME TypeOK, [Next]_vars, NEW j \in Jobs, ~ IsAvail(j), entry'[j].at = "avail"
    PROVE  \E p \in Procs : /\ RecycleLease(p) /\ req[p].j = j /\ entry'[j] = Avail
                            /\ entry[j] = Lease(req[p].c, req[p].key)
<1>1. entry'[j] # entry[j] /\ entry'[j] # Gone
    BY SMT DEF IsAvail, Gone
<1>2. \A c, u : entry'[j] # Lease(c, u)
    <2>1. \A c, u : Lease(c, u).at = "leased"
        BY DEF Lease
    <2> QED BY <2>1
<1> QED BY <1>1, <1>2, EntryStep

\* When no request runs for half a lease, a maintenance run never puts a job back in
\* avail/ once its losses reach plan_lost_lease_limit: the count it made still stands,
\* since nobody counts another lease of the job while this one is at its listed key
\* (settle_expired_lease, list_lost_leases).
THEOREM LimitRetires == BriefRequests => (Spec => LostLimitRetires)
<1> SUFFICES ASSUME BriefRequests PROVE Spec => LostLimitRetires
    OBVIOUS
<1>1. Init => SettleInv
    BY SettleInvInit
<1>2. IInv /\ SettleInv /\ [Next]_vars => SettleInv'
    BY SettleInvStep
<1>3. IInv /\ SettleInv /\ [Next]_vars
      => [\A j \in Jobs : LostLimit > 0 /\ req'[Cron] # req[Cron]
                          /\ entry[j].at = "leased" /\ entry'[j].at = "avail"
                          => Cardinality(lost[j]) < LostLimit]_vars
    <2> SUFFICES ASSUME IInv, SettleInv, [Next]_vars, NEW j \in Jobs, LostLimit > 0,
                        req'[Cron] # req[Cron], entry[j].at = "leased", entry'[j].at = "avail"
                 PROVE  Cardinality(lost[j]) < LostLimit
        OBVIOUS
    <2>1. TypeOK /\ ~ IsAvail(j)
        BY DEF IInv, IsAvail
    <2>2. PICK p \in Procs : RecycleLease(p) /\ req[p].j = j /\ entry[j] = Lease(req[p].c, req[p].key)
        BY <2>1, RecycledBy
    <2>3. p = Cron
        BY <2>1, <2>2, SlotKeepsCron DEF SettleStep, Procs
    <2> QED BY <2>2, <2>3 DEF SettleInv, SettlesOnce, Keeps, RecycleLease, At
<1> QED BY <1>1, <1>2, <1>3, Invariant, PTL DEF Spec, LostLimitRetires

\* When no request runs for half a lease, no maintenance run brings a recorded job back to
\* avail/; only a request of the holder may, and a profile update that does so looks at the
\* record again (resolve_or_recycle_lease, verify_claim, delete_recycled_entry_if_recorded).
THEOREM FinishedStays == BriefRequests => (Spec => FinishedStaysFinished)
<1> SUFFICES ASSUME BriefRequests PROVE Spec => FinishedStaysFinished
    OBVIOUS
<1>1. Init => SettleInv
    BY SettleInvInit
<1>2. IInv /\ SettleInv /\ [Next]_vars => SettleInv'
    BY SettleInvStep
<1>3. IInv /\ SettleInv /\ [Next]_vars
      => [\A j \in Jobs : HasRecord(j) /\ ~ IsAvail(j) /\ entry'[j].at = "avail" =>
             \E p \in Slots : /\ req'[p] # req[p] /\ req[p].j = j /\ LeasedTo(j, req[p].c)
                              /\ req[p].op = "patch" => req'[p].pc = "recheck record"]_vars
    <2> SUFFICES ASSUME IInv, SettleInv, [Next]_vars, NEW j \in Jobs,
                        HasRecord(j), ~ IsAvail(j), entry'[j].at = "avail"
                 PROVE  \E p \in Slots : /\ req'[p] # req[p] /\ req[p].j = j /\ LeasedTo(j, req[p].c)
                                         /\ req[p].op = "patch" => req'[p].pc = "recheck record"
        OBVIOUS
    <2>1. TypeOK
        BY DEF IInv
    <2>2. PICK p \in Procs : /\ RecycleLease(p) /\ req[p].j = j /\ entry'[j] = Avail
                             /\ entry[j] = Lease(req[p].c, req[p].key)
        BY <2>1, RecycledBy
    <2>3. p # Cron
        BY <2>2 DEF SettleInv, SettlesOnce, Keeps, RecycleLease, At
    <2>4. p \in Slots
        BY <2>3 DEF Procs
    <2>5. LeasedTo(j, req[p].c)
        <3>1. \A c, u : Lease(c, u).at = "leased" /\ Lease(c, u).by = c
            BY DEF Lease
        <3> QED BY SMT, <2>2, <3>1 DEF LeasedTo
    <2>6. req[p].pc = "recycle" /\ req[p].ret \in Shared /\ req[p] \in Request
        BY <2>1, <2>2, <2>4 DEF RecycleLease, At, SettleInv, AllTimely, Timely, TypeOK
    <2>7. \A r : Set(p, r) => req'[p] = r
        BY <2>1 DEF Set, TypeOK
    <2>8. \A l : Goto(p, l) => req'[p].pc = l
        BY <2>6, <2>7 DEF Goto, Request
    <2>9. CASE req[p].op = "patch"
        <3>1. Goto(p, "recheck record")
            BY <2>2, <2>9 DEF RecycleLease, Avail
        <3>2. req'[p].pc = "recheck record"
            BY <2>8, <3>1
        <3> QED BY <2>2, <2>4, <2>5, <2>6, <3>2
    <2>10. CASE req[p].op # "patch"
        <3>1. Return(p)
            BY <2>2, <2>10 DEF RecycleLease
        <3>2. req'[p].pc # "recycle"
            <4>1. Done(p) => req'[p].pc = "idle"
                <5>1. Idle.pc = "idle"
                    BY DEF Idle
                <5> QED BY <2>7, <5>1 DEF Done
            <4>2. req[p].ret # "recycle"
                BY <2>6 DEF Shared
            <4> QED BY <2>8, <3>1, <4>1, <4>2 DEF Return
        <3> QED BY <2>2, <2>4, <2>5, <2>6, <2>10, <3>2
    <2> QED BY <2>9, <2>10
<1> QED BY <1>1, <1>2, <1>3, Invariant, PTL DEF Spec, FinishedStaysFinished
=============================================================================
