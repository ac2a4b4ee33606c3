------------------------ MODULE EligibleIndexProofs ------------------------
(* Type correctness of EligibleIndex, and what a run that may be cut short at *)
(* any step leaves on record about every client and job it offers wrongly:    *)
(* for every number of clients, jobs, profiles and disturbances.              *)
EXTENDS EligibleIndex, FiniteSetTheorems, TLAPS

\* First-order leaves go to Zenon; those that need arithmetic or set encodings name SMT.
USE ZenonT(30)

RunLabels == {"idle", "leases", "avail", "leased", "expire", "flag job", "workers", "index", "flags",
              "client", "rebuild", "unflag", "jobs", "settle", "unflag job", "stage"}
ClaimLabels == {"idle", "take", "current", "retake", "regate"}

Runs == [pc : RunLabels, t : Times, prior : Staged, held : SUBSET Jobs, avail : SUBSET Keys,
         leased : SUBSET Keys, missed : SUBSET Jobs, gone : SUBSET Jobs, bodies : SUBSET Keys,
         todo : SUBSET Keys, jobs : SUBSET Jobs, workers : SUBSET Clients, joined : SUBSET Clients,
         prof : [Clients -> Profiles], captured : [Clients -> SUBSET Nat],
         clients : SUBSET Clients, c : Clients, j : Jobs]

\* Names of flags are never used up, because there are finitely many of them.
Named == \A c \in Clients : IsFiniteSet(flags[c]) /\ IsFiniteSet(run.captured[c])

Typed == TypeOK /\ run \in Runs /\ Named

-----------------------------------------------------------------------------
(* The inductive invariant. *)

\* The steps of a run that know both listings, and those that know the workers
\* while .eligible-workers still holds the ones before.
Listed == {"expire", "flag job", "workers", "index", "flags", "client", "rebuild", "unflag", "jobs",
           "settle", "unflag job"}
Tracked == {"index", "flags", "client", "rebuild", "unflag"}
Rebuilding == {"rebuild", "unflag"}
Settling == {"jobs", "settle", "unflag job"}

Alive(j) == entry[j].at \in {"avail", "leased"}
ClaimOn(j) == \E c \in Clients : claim[c].pc \in {"take", "current", "retake"} /\ claim[c].job = j

\* A job that no run has offered yet: nobody can have claimed it.
Fresh(j) == /\ entry[j].at \in {"none", "avail"}
            /\ Key(j, entry[j].exp) \notin indexed
            /\ \A m \in eligible : m.job # j
            /\ ~ ClaimOn(j)

Flagged(c) == flags[c] # {} \/ patch[c] = "flag"
Late(j) == entry[j].exp < now

\* The clients that the rebuilds so far answer for.
Answered == seen \cup (IF run.pc \in {"client"} \cup Rebuilding
                       THEN run.workers \ (run.clients \cup (IF run.pc \in Rebuilding THEN {run.c} ELSE {}))
                       ELSE {})

\* What Crash writes down as overlooked.
Excused(c, j) == \/ At("flag job") /\ j = run.j
                 \/ run.pc \in Tracked /\ c \notin run.workers

\* The marker is there if it should be, or a later run looks at the client or the job.
Marked(c, j) == \/ Matches(c, j) => Offered(c, j)
                \/ Late(j) \/ Flagged(c) \/ <<c, j>> \in overlooked
Served(c, j) == Marked(c, j) \/ j \in jobFlags \/ Excused(c, j)

\* A marker that should not be there belongs to a flagged client: a flag of the job
\* would not remove it.
NoneWrong == \A m \in eligible : m.job \in Match[profile[m.client]] \/ Flagged(m.client)
NoneMissing == \A c \in Answered, j \in Jobs : Alive(j) => Served(c, j) \/ Fresh(j)
Unborn == \A j \in Jobs : entry[j].at = "none"
             => Fresh(j) /\ \A k \in run.avail \cup run.leased : k.job # j

\* What a run knows of the keys it listed.
Listings ==
    /\ run.t <= now
    /\ \A k \in run.avail : k.exp = entry[k.job].exp
    /\ \A j \in run.gone : entry[j].at = "done"
    /\ run.pc \in {"index", "rebuild"} => run.todo \subseteq run.avail
    /\ run.pc \in Listed => \A j \in Jobs : Alive(j) =>
          \/ j \in JobsOf(run.avail \cup run.leased) \/ j \in run.missed
          \/ Late(j) \/ Fresh(j)

\* Every key of the set it is about to write has been offered.
Indexing ==
    /\ run.pc \in {"expire", "flag job", "workers", "index"} =>
          \A k \in run.leased, c \in Answered : Alive(k.job) => Served(c, k.job)
    /\ run.pc = "index" =>
          \A k \in run.avail \ run.todo, c \in Answered : Alive(k.job) => Served(c, k.job)
    /\ run.pc \in (Tracked \cup Settling) \ {"index"} => run.avail \subseteq indexed
    /\ run.pc \in {"index", "flags"} => run.joined = run.workers \ seen

\* The records a pass works from are current, or the client is flagged anew.
Records ==
    /\ run.pc \in {"index", "settle", "unflag job"} =>
          \A c \in Clients : profile[c] = run.prof[c] \/ Flagged(c)
    /\ run.pc \in Rebuilding =>
          \/ profile[run.c] = run.prof[run.c]
          \/ patch[run.c] = "flag" \/ flags[run.c] \ run.captured[run.c] # {}

\* The rebuild of the flagged clients and of the new workers.
Rebuild ==
    /\ run.pc \in {"client"} \cup Rebuilding =>
          /\ \A c \in run.clients : flags[c] # {} \/ c \notin seen
          /\ run.clients \cap run.workers # {} => \A k \in run.leased : k.job \in jobFlags
    /\ run.pc \in Rebuilding =>
          /\ run.c \notin run.clients
          /\ flags[run.c] # {} \/ run.c \notin seen
          /\ \A m \in eligible : m.client = run.c => m.job \in Match[run.prof[run.c]]
          /\ run.c \in run.workers => \A j \in Jobs : Alive(j) =>
                \/ j \in Match[run.prof[run.c]] => Offered(run.c, j)
                \/ Late(j) \/ <<run.c, j>> \in overlooked \/ j \in jobFlags \/ Fresh(j)
                \/ run.pc = "rebuild" /\ j \in JobsOf(run.todo)

\* The settling of the jobs owed a rewrite.
Settle ==
    /\ run.pc \in Settling => seen = run.workers
    /\ run.pc = "unflag job" => /\ entry[run.j].at # "none"
                                /\ Alive(run.j) => \A c \in seen : Marked(c, run.j)

EInv == NoneWrong /\ NoneMissing /\ Unborn /\ Listings /\ Indexing /\ Records /\ Rebuild /\ Settle

-----------------------------------------------------------------------------
(* Type correctness. *)

Entries == [at : {"none", "avail", "leased", "done"}, exp : Times, by : Clients \cup {"none"}]
Claims == [pc : ClaimLabels, job : Jobs, exp : Times, t : Times, old : BOOLEAN]

\* The clock starts at a moment a deadline may name.
LEMMA TimesNat == 0 \in Times /\ Times \subseteq Nat
BY SMT, IndexAssumption DEF Times

\* A run and a claim that have not started have the shape of a run and of a claim.
LEMMA IdleTyped == NoRun \in Runs /\ NoClaim \in Claims /\ Nobody \in [Clients -> SUBSET Nat]
<1>1. /\ (CHOOSE c \in Clients : TRUE) \in Clients
      /\ (CHOOSE j \in Jobs : TRUE) \in Jobs
      /\ (CHOOSE p \in Profiles : TRUE) \in Profiles
    BY IndexAssumption
<1>2. Unstaged \in Staged
    BY DEF Unstaged, Staged
<1>3. Nobody \in [Clients -> SUBSET Nat]
    BY DEF Nobody
<1>4. NoClaim \in Claims
    BY <1>1, TimesNat DEF NoClaim, Claims, ClaimLabels
<1>5. [c \in Clients |-> CHOOSE p \in Profiles : TRUE] \in [Clients -> Profiles]
    BY <1>1
<1>6. NoRun \in Runs
    BY <1>1, <1>2, <1>3, <1>5, TimesNat DEF NoRun, Runs, RunLabels
<1> QED BY <1>3, <1>4, <1>6

\* write_pending_reindex finds a name that is not in use.
LEMMA FreshNameFree ==
    ASSUME NEW S \in SUBSET Nat, IsFiniteSet(S)
    PROVE  FreshName(S) \in Nat /\ FreshName(S) \notin S
<1> DEFINE n == Cardinality(S)
<1>1. n \in Nat
    BY FS_CardinalityType
<1>2. IsFiniteSet(0 .. n) /\ Cardinality(0 .. n) = n + 1
    <2>1. 0 \in Int /\ n \in Int
        BY SMT, <1>1
    <2>2. Cardinality(0 .. n) = IF 0 > n THEN 0 ELSE n - 0 + 1
        BY <2>1, FS_Interval
    <2>3. IsFiniteSet(0 .. n)
        BY <2>1, FS_Interval
    <2> HIDE DEF n
    <2> QED BY SMT, <1>1, <2>2, <2>3
<1>3. ~ (0 .. n \subseteq S)
    <2> SUFFICES ASSUME 0 .. n \subseteq S PROVE FALSE
        OBVIOUS
    <2>1. Cardinality(0 .. n) <= Cardinality(S)
        BY FS_Subset
    <2> QED BY SMT, <1>1, <1>2, <2>1
<1>4. \E i \in 0 .. n : i \notin S
    BY <1>3
<1>5. FreshName(S) \in 0 .. n /\ FreshName(S) \notin S
    BY <1>4 DEF FreshName
<1> QED BY SMT, <1>1, <1>5

\* Typed, with the types named.
Shape == /\ now \in Times /\ entry \in [Jobs -> Entries]
         /\ eligible \subseteq Markers /\ indexed \subseteq Keys /\ seen \subseteq Clients
         /\ candidates \in Staged
         /\ flags \in [Clients -> SUBSET Nat] /\ jobFlags \subseteq Jobs
         /\ profile \in [Clients -> Profiles] /\ workers \subseteq Clients
         /\ claim \in [Clients -> Claims]
         /\ patch \in [Clients -> {"idle", "relinquish", "replace", "flag"}]
         /\ overlooked \subseteq Clients \X Jobs
         /\ run \in Runs

\* The type invariant is no more than that, and the finiteness of the flags.
LEMMA TypedAs == Typed <=> Shape /\ Named
<1>1. run \in Runs => /\ run.prior \in Staged
                      /\ run.avail \cup run.leased \cup run.bodies \cup run.todo \subseteq Keys
                      /\ run.jobs \cup run.held \cup run.gone \cup run.missed \subseteq Jobs
    BY DEF Runs
<1> QED BY <1>1 DEF Typed, TypeOK, Shape, Entries, Claims, ClaimLabels

\* The same in the next state.
LEMMA TypedNext == Shape' /\ Named' => Typed'
<1>1. run' \in Runs => /\ run'.prior \in Staged
                       /\ run'.avail \cup run'.leased \cup run'.bodies \cup run'.todo \subseteq Keys
                       /\ run'.jobs \cup run'.held \cup run'.gone \cup run'.missed \subseteq Jobs
    BY DEF Runs
<1> QED BY <1>1 DEF Typed, TypeOK, Shape, Entries, Claims, ClaimLabels

\* The listings of the queue are keys.
LEMMA KeysTyped ==
    ASSUME entry \in [Jobs -> Entries]
    PROVE  /\ AvailKeys \subseteq Keys /\ LeasedKeys \subseteq Keys
           /\ JobsOf(AvailKeys) \subseteq Jobs /\ JobsOf(LeasedKeys) \subseteq Jobs
           /\ \A S \in SUBSET Keys : JobsOf(S) \subseteq Jobs
<1>1. \A j \in Jobs : Key(j, entry[j].exp) \in Keys
    BY DEF Entries, Keys, Key
<1>2. AvailKeys \subseteq Keys /\ LeasedKeys \subseteq Keys
    BY <1>1 DEF AvailKeys, LeasedKeys
<1>3. \A S \in SUBSET Keys : JobsOf(S) \subseteq Jobs
    BY DEF Keys, JobsOf
<1> QED BY <1>2, <1>3

\* The move of an entry keeps its shape, and its deadline.
LEMMA MoveTyped ==
    ASSUME entry \in [Jobs -> Entries], NEW j \in Jobs, NEW at \in {"avail", "leased", "done"},
           NEW by \in Clients \cup {"none"}, Move(j, at, by)
    PROVE  /\ entry' \in [Jobs -> Entries]
           /\ \A i \in Jobs : entry'[i].exp = entry[i].exp
           /\ \A i \in Jobs \ {j} : entry'[i] = entry[i]
           /\ entry'[j].at = at
<1> DEFINE e == [entry[j] EXCEPT !.at = at, !.by = by]
<1>1. e \in Entries /\ e.exp = entry[j].exp /\ e.at = at
    BY DEF Entries
<1>2. entry' = [entry EXCEPT ![j] = e]
    BY DEF Move
<1> HIDE DEF e
<1> QED BY <1>1, <1>2

-----------------------------------------------------------------------------
(* The queue, the claims and the workers. *)

\* What the steps of the queue and of the claims leave alone: markers, debts and the
\* run.  A job is leased only to a claim that chose it, and chosen only by a marker.
QueueMoves ==
    /\ UNCHANGED <<eligible, indexed, seen, flags, jobFlags, profile, run, overlooked>>
    /\ now <= now'
    /\ \A j \in Jobs : entry'[j].exp = entry[j].exp
    /\ \A j \in Jobs : \/ entry'[j].at = entry[j].at
                       \/ entry[j].at = "none" /\ entry'[j].at = "avail"
                       \/ entry[j].at = "avail" /\ entry'[j].at = "leased" /\ ClaimOn(j)
                       \/ entry[j].at = "leased" /\ entry'[j].at \in {"avail", "done"}
    /\ \A j \in Jobs : ClaimOn(j)' => ClaimOn(j) \/ \E m \in eligible : m.job = j
    /\ \A c \in Clients : patch'[c] = "flag" <=> patch[c] = "flag"

\* The clock, promotions and ends of leases.
LEMMA QueueSteps ==
    ASSUME Typed, Tick \/ \E j \in Jobs : Promote(j) \/ EndLease(j)
    PROVE  Typed' /\ QueueMoves
<1>1. CASE Tick
    <2>1. now \in Nat /\ now' \in Times /\ now <= now'
        BY SMT, <1>1, IndexAssumption, TypedAs DEF Shape, Tick, Times
    <2>2. UNCHANGED <<entry, eligible, indexed, seen, candidates, flags, jobFlags, profile, workers,
                      claim, patch, run, churn, overlooked>>
        BY <1>1 DEF Tick, index, debts, roster, requests
    <2>3. Typed'
        BY <2>1, <2>2, TypedAs, TypedNext DEF Shape, Named
    <2> QED BY <2>1, <2>2, <2>3 DEF QueueMoves, ClaimOn
<1>2. ASSUME NEW j \in Jobs, Promote(j) \/ EndLease(j) PROVE Typed' /\ QueueMoves
    <2>1. UNCHANGED <<now, eligible, indexed, seen, candidates, flags, jobFlags, profile, workers,
                      claim, patch, run, churn, overlooked>>
        BY <1>2 DEF Promote, EndLease, index, debts, roster, requests
    <2>2. entry \in [Jobs -> Entries] /\ now \in Nat
        BY TypedAs, TimesNat DEF Shape
    <2>3. \/ entry[j].at = "none" /\ Move(j, "avail", "none")
          \/ entry[j].at = "leased" /\ (Move(j, "avail", "none") \/ Move(j, "done", "none"))
        BY <1>2 DEF Promote, EndLease
    <2>4. entry' \in [Jobs -> Entries] /\ \A i \in Jobs : entry'[i].exp = entry[i].exp
        BY <2>2, <2>3, MoveTyped
    <2>5. \A i \in Jobs \ {j} : entry'[i] = entry[i]
        BY <2>2, <2>3, MoveTyped
    <2>6. \/ entry[j].at = "none" /\ entry'[j].at = "avail"
          \/ entry[j].at = "leased" /\ entry'[j].at \in {"avail", "done"}
        BY <2>2, <2>3, MoveTyped
    <2>7. Typed'
        BY <2>1, <2>4, TypedAs, TypedNext DEF Shape, Named
    <2>8. \A i \in Jobs : ClaimOn(i)' <=> ClaimOn(i)
        BY <2>1 DEF ClaimOn
    <2> QED BY SMT, <2>1, <2>2, <2>4, <2>5, <2>6, <2>7, <2>8 DEF QueueMoves
<1> QED BY <1>1, <1>2

\* The requests of a client and its worker role.
LEMMA ClaimSteps ==
    ASSUME Typed, NEW c \in Clients,
           ListEligible(c) \/ ClaimStep(c) \/ RelinquishClientLeases(c) \/ ChangeWorkers(c)
    PROVE  Typed' /\ QueueMoves
<1>t. /\ now \in Times /\ now \in Nat /\ entry \in [Jobs -> Entries] /\ eligible \subseteq Markers
      /\ claim \in [Clients -> Claims] /\ claim[c] \in Claims /\ NoClaim \in Claims
      /\ patch \in [Clients -> {"idle", "relinquish", "replace", "flag"}] /\ workers \subseteq Clients
    BY TypedAs, TimesNat, IdleTyped DEF Shape
<1>q. ASSUME UNCHANGED <<now, eligible, indexed, seen, candidates, flags, jobFlags, profile, run, overlooked>>,
             entry' \in [Jobs -> Entries], claim' \in [Clients -> Claims], workers' \subseteq Clients,
             patch' \in [Clients -> {"idle", "relinquish", "replace", "flag"}]
      PROVE  Typed' /\ now <= now'
    BY SMT, <1>q, <1>t, TypedAs, TypedNext DEF Shape, Named
<1>n. NoClaim.pc = "idle"
    BY DEF NoClaim
<1>c. ASSUME NEW r \in Claims, claim' = [claim EXCEPT ![c] = r],
             r.pc \in {"take", "current", "retake"} =>
                \/ \E m \in eligible : m.job = r.job
                \/ claim[c].pc \in {"take", "current", "retake"} /\ claim[c].job = r.job
      PROVE  /\ claim' \in [Clients -> Claims]
             /\ \A j \in Jobs : ClaimOn(j)' => ClaimOn(j) \/ \E m \in eligible : m.job = j
    <2>1. claim'[c] = r /\ \A d \in Clients \ {c} : claim'[d] = claim[d]
        BY <1>t, <1>c
    <2> QED BY <1>t, <1>c, <2>1 DEF ClaimOn
<1>e. ASSUME UNCHANGED entry
      PROVE  entry' \in [Jobs -> Entries] /\ \A j \in Jobs : entry'[j].exp = entry[j].exp /\ entry'[j].at = entry[j].at
    BY <1>e, <1>t
<1>1. CASE ListEligible(c)
    <2>1. UNCHANGED <<now, entry, eligible, indexed, seen, candidates, flags, jobFlags, profile, workers, patch,
                      run, overlooked>>
        BY <1>1 DEF ListEligible, queue, index, debts, roster
    <2>2. PICK m \in Partition(c) :
             claim' = [claim EXCEPT ![c] = [NoClaim EXCEPT !.pc = "take", !.job = m.job,
                                                           !.exp = m.exp, !.t = now]]
        BY <1>1 DEF ListEligible
    <2> DEFINE r == [NoClaim EXCEPT !.pc = "take", !.job = m.job, !.exp = m.exp, !.t = now]
    <2>3. m \in eligible /\ m.job \in Jobs /\ m.exp \in Times
        BY <1>t DEF Partition, Markers
    <2>4. r \in Claims /\ r.job = m.job
        BY <1>t, <2>3 DEF Claims, ClaimLabels
    <2> HIDE DEF r
    <2>5. /\ claim' \in [Clients -> Claims]
          /\ \A j \in Jobs : ClaimOn(j)' => ClaimOn(j) \/ \E n \in eligible : n.job = j
        BY <1>c, <2>2, <2>3, <2>4 DEF r
    <2> QED BY <1>q, <1>e, <1>t, <2>1, <2>5 DEF QueueMoves
<1>2. ASSUME NEW l, NEW miss \in {"current", "idle"}, ClaimJob(c, l, miss), l \in {"take", "retake"}
      PROVE  Typed' /\ QueueMoves
    <2> DEFINE j == claim[c].job
    <2>1. UNCHANGED <<now, eligible, indexed, seen, candidates, flags, jobFlags, profile, workers, patch,
                      run, overlooked>>
        BY <1>2 DEF ClaimJob, index, debts, roster
    <2>2. j \in Jobs /\ ClaimOn(j)
        BY <1>t, <1>2 DEF ClaimJob, ClaimOn, Claims
    <2>3. CASE AvailAt(claim[c])
        <3> DEFINE r == [claim[c] EXCEPT !.pc = "regate", !.exp = 0, !.t = 0]
        <3>1. r \in Claims /\ r.pc = "regate"
            BY <1>t, TimesNat DEF Claims, ClaimLabels
        <3>2. Move(j, "leased", c) /\ claim' = [claim EXCEPT ![c] = r]
            BY <1>2, <2>3 DEF ClaimJob
        <3> HIDE DEF r
        <3>3. /\ claim' \in [Clients -> Claims]
              /\ \A i \in Jobs : ClaimOn(i)' => ClaimOn(i) \/ \E m \in eligible : m.job = i
            BY <1>c, <3>1, <3>2
        <3>4. entry[j].at = "avail"
            BY <2>3 DEF AvailAt
        <3> HIDE DEF j
        <3>5. /\ entry' \in [Jobs -> Entries]
              /\ \A i \in Jobs : entry'[i].exp = entry[i].exp
              /\ \A i \in Jobs \ {j} : entry'[i] = entry[i]
              /\ entry'[j].at = "leased"
            BY <1>t, <2>2, <3>2, MoveTyped
        <3> QED BY <1>q, <1>t, <2>1, <2>2, <3>3, <3>4, <3>5 DEF QueueMoves
    <2>4. CASE ~ AvailAt(claim[c])
        <3> DEFINE r == IF miss = "idle" THEN NoClaim ELSE [claim[c] EXCEPT !.pc = miss]
        <3>1. r \in Claims /\ (r.pc # "idle" => r.job = claim[c].job)
            BY <1>t, <1>n DEF Claims, ClaimLabels
        <3>2. UNCHANGED entry /\ claim' = [claim EXCEPT ![c] = r]
            BY <1>2, <2>4 DEF ClaimJob
        <3>3. claim[c].pc \in {"take", "retake"}
            BY <1>2 DEF ClaimJob
        <3> HIDE DEF r
        <3>4. /\ claim' \in [Clients -> Claims]
              /\ \A i \in Jobs : ClaimOn(i)' => ClaimOn(i) \/ \E m \in eligible : m.job = i
            BY <1>c, <3>1, <3>2, <3>3
        <3> QED BY <1>q, <1>e, <1>t, <2>1, <3>2, <3>4 DEF QueueMoves
    <2> QED BY <2>3, <2>4
<1>3. CASE TakeMarker(c) \/ TakeCurrent(c)
    BY <1>2, <1>3 DEF TakeMarker, TakeCurrent
<1>4. CASE ClaimAtCurrentKey(c)
    <2> DEFINE j == claim[c].job
               again == entry[j].at = "avail" /\ entry[j].exp # claim[c].exp /\ entry[j].exp >= claim[c].t
               r == IF again THEN [claim[c] EXCEPT !.pc = "retake", !.exp = entry[j].exp] ELSE NoClaim
    <2>1. UNCHANGED <<now, entry, eligible, indexed, seen, candidates, flags, jobFlags, profile, workers, patch,
                      run, overlooked>> /\ claim[c].pc = "current"
        BY <1>4 DEF ClaimAtCurrentKey, queue, index, debts, roster
    <2>2. j \in Jobs /\ entry[j].exp \in Times
        BY <1>t DEF Claims, Entries
    <2>3. claim' = [claim EXCEPT ![c] = r]
        BY <1>4 DEF ClaimAtCurrentKey
    <2>4. r \in Claims /\ (r.pc # "idle" => r.job = claim[c].job)
        <3> HIDE DEF again, j
        <3> QED BY <1>t, <1>n, <2>2 DEF Claims, ClaimLabels, j
    <2> HIDE DEF r
    <2>5. /\ claim' \in [Clients -> Claims]
          /\ \A i \in Jobs : ClaimOn(i)' => ClaimOn(i) \/ \E m \in eligible : m.job = i
        BY <1>c, <2>1, <2>3, <2>4
    <2> QED BY <1>q, <1>e, <1>t, <2>1, <2>5 DEF QueueMoves
<1>5. CASE Regate(c)
    <2> DEFINE j == claim[c].job
    <2>1. UNCHANGED <<now, eligible, indexed, seen, candidates, flags, jobFlags, profile, workers, patch,
                      run, overlooked>>
        BY <1>5 DEF Regate, index, debts, roster
    <2>2. j \in Jobs /\ claim' = [claim EXCEPT ![c] = NoClaim]
        BY <1>t, <1>5 DEF Claims, Regate
    <2>3. /\ claim' \in [Clients -> Claims]
          /\ \A i \in Jobs : ClaimOn(i)' => ClaimOn(i) \/ \E m \in eligible : m.job = i
        BY <1>c, <1>t, <1>n, <2>2
    <2>4. (entry[j].at = "leased" /\ Move(j, "avail", "none")) \/ UNCHANGED entry
        BY <1>5 DEF Regate
    <2> HIDE DEF j
    <2>5. /\ entry' \in [Jobs -> Entries]
          /\ \A i \in Jobs : entry'[i].exp = entry[i].exp
          /\ \A i \in Jobs \ {j} : entry'[i] = entry[i]
          /\ entry'[j] = entry[j] \/ (entry[j].at = "leased" /\ entry'[j].at = "avail")
        BY <1>t, <2>2, <2>4, MoveTyped
    <2> QED BY <1>q, <1>t, <2>1, <2>2, <2>3, <2>5 DEF QueueMoves
<1>6. CASE RelinquishClientLeases(c)
    <2>1. UNCHANGED <<now, eligible, indexed, seen, candidates, flags, jobFlags, profile, workers, claim,
                      run, overlooked>>
          /\ patch[c] = "relinquish" /\ patch' = [patch EXCEPT ![c] = "replace"]
        BY <1>6 DEF RelinquishClientLeases, index, debts, roster
    <2> DEFINE back(e) == [e EXCEPT !.at = "avail", !.by = "none"]
    <2>2. \A e \in Entries : back(e) \in Entries /\ back(e).exp = e.exp /\ back(e).at = "avail"
        BY DEF Entries
    <2>3. entry' = [j \in Jobs |-> IF entry[j].at = "leased" /\ entry[j].by = c
                                   THEN back(entry[j]) ELSE entry[j]]
        BY <1>6 DEF RelinquishClientLeases
    <2> HIDE DEF back
    <2>4. /\ entry' \in [Jobs -> Entries]
          /\ \A i \in Jobs : /\ entry'[i].exp = entry[i].exp
                             /\ entry'[i] = entry[i] \/ (entry[i].at = "leased" /\ entry'[i].at = "avail")
        BY <1>t, <2>2, <2>3
    <2>5. /\ patch' \in [Clients -> {"idle", "relinquish", "replace", "flag"}]
          /\ \A d \in Clients : patch'[d] = "flag" <=> patch[d] = "flag"
        BY <1>t, <2>1
    <2>6. \A i \in Jobs : ClaimOn(i)' <=> ClaimOn(i)
        BY <2>1 DEF ClaimOn
    <2> QED BY <1>q, <1>t, <2>1, <2>4, <2>5, <2>6 DEF QueueMoves
<1>7. CASE ChangeWorkers(c)
    <2>1. UNCHANGED <<now, entry, eligible, indexed, seen, candidates, flags, jobFlags, profile, claim, patch,
                      run, overlooked>> /\ workers' \subseteq Clients
        BY <1>t, <1>7 DEF ChangeWorkers, queue, index, debts, requests
    <2>2. \A i \in Jobs : ClaimOn(i)' <=> ClaimOn(i)
        BY <2>1 DEF ClaimOn
    <2> QED BY <1>q, <1>e, <1>t, <2>1, <2>2 DEF QueueMoves
<1> QED BY <1>1, <1>3, <1>4, <1>5, <1>6, <1>7 DEF ClaimStep

\* A job stays fresh until it is offered, and a debt stays until a run pays it.
LEMMA QueueKeeps ==
    ASSUME Typed, Typed', EInv, QueueMoves
    PROVE  EInv'
<1>t. /\ now \in Nat /\ now' \in Nat /\ entry \in [Jobs -> Entries] /\ run \in Runs
      /\ \A j \in Jobs : entry[j].exp \in Nat /\ entry[j].at \in {"none", "avail", "leased", "done"}
      /\ run.c \in Clients /\ run.j \in Jobs /\ run.t \in Nat
      /\ \A k \in run.avail \cup run.leased \cup run.todo : k.job \in Jobs
      /\ run.gone \subseteq Jobs
    <2>1. Shape /\ now' \in Times
        BY TypedAs DEF Typed, TypeOK
    <2> QED BY <2>1, TimesNat DEF Shape, Entries, Runs, Keys
<1>u. /\ eligible' = eligible /\ indexed' = indexed /\ seen' = seen /\ flags' = flags
      /\ jobFlags' = jobFlags /\ profile' = profile /\ run' = run /\ overlooked' = overlooked
    BY DEF QueueMoves
<1>1. \A j \in Jobs : Late(j) => Late(j)'
    BY SMT, <1>t DEF QueueMoves, Late
<1>2. \A c \in Clients : Flagged(c)' <=> Flagged(c)
    BY <1>u DEF QueueMoves, Flagged
<1>3. \A c, j : j \in Jobs => (Offered(c, j)' <=> Offered(c, j)) /\ (Matches(c, j)' <=> Matches(c, j))
    BY <1>u DEF QueueMoves, Offered, Matches
<1>4. \A c \in Clients, j \in Jobs : Marked(c, j) => Marked(c, j)'
    BY <1>1, <1>2, <1>3, <1>u DEF Marked
<1>5. \A c \in Clients, j \in Jobs : Served(c, j) => Served(c, j)'
    BY <1>4, <1>u DEF Served, Excused, At
<1>6. \A j \in Jobs : Fresh(j) => Fresh(j)'
    BY <1>t, <1>u DEF QueueMoves, Fresh
<1>7. \A j \in Jobs : Alive(j)' => Alive(j) \/ entry[j].at = "none"
    BY <1>t DEF QueueMoves, Alive
<1>8. \A j \in Jobs : entry[j].at = "none" => Fresh(j) /\ \A k \in run.avail \cup run.leased : k.job # j
    BY DEF EInv, Unborn
<1>9. Answered' = Answered /\ Answered \subseteq Clients
    <2>1. seen \subseteq Clients /\ run.workers \subseteq Clients
        BY TypedAs DEF Shape, Runs
    <2> QED BY <1>u, <2>1 DEF Answered
<1>10. NoneWrong'
    <2>1. \A m \in eligible : m.client \in Clients
        BY TypedAs DEF Shape, Markers
    <2> QED BY <1>2, <1>u, <2>1 DEF EInv, NoneWrong
<1>11. NoneMissing'
    BY <1>5, <1>6, <1>7, <1>8, <1>9 DEF EInv, NoneMissing
<1>12. Unborn'
    <2>1. \A j \in Jobs : entry'[j].at = "none" => entry[j].at = "none"
        BY <1>t DEF QueueMoves
    <2> QED BY <1>6, <1>8, <1>u, <2>1 DEF Unborn
<1>13. Listings'
    <2>1. run.t <= now'
        BY SMT, <1>t DEF EInv, Listings, QueueMoves
    <2>2. \A k \in run.avail : k.exp = entry'[k.job].exp
        BY SMT, <1>t DEF EInv, Listings, QueueMoves
    <2>3. \A j \in run.gone : entry'[j].at = "done"
        BY <1>t DEF EInv, Listings, QueueMoves
    <2>4. ASSUME run.pc \in Listed, NEW j \in Jobs, Alive(j)'
          PROVE  \/ j \in JobsOf(run.avail \cup run.leased) \/ j \in run.missed \/ Late(j)' \/ Fresh(j)'
        BY <1>1, <1>6, <1>7, <1>8, <2>4 DEF EInv, Listings
    <2> QED BY <1>u, <2>1, <2>2, <2>3, <2>4 DEF EInv, Listings
<1>14. Indexing'
    <2>1. \A k \in run.avail \cup run.leased : Alive(k.job)' => Alive(k.job)
        BY <1>t, <1>7, <1>8
    <2> QED BY <1>t, <1>5, <1>9, <1>u, <2>1 DEF EInv, Indexing
<1>15. Records'
    BY <1>t, <1>2, <1>u DEF EInv, Records, QueueMoves
<1>16. Rebuild'
    <2>1. ASSUME run.pc \in Rebuilding, run.c \in run.workers, NEW j \in Jobs, Alive(j)'
          PROVE  \/ j \in Match[run.prof[run.c]] => Marker(run.c, j, entry'[j].exp) \in eligible
                 \/ Late(j)' \/ <<run.c, j>> \in overlooked \/ j \in jobFlags \/ Fresh(j)'
                 \/ run.pc = "rebuild" /\ j \in JobsOf(run.todo)
        <3>1. CASE Alive(j)
            BY <1>1, <1>6, <2>1, <3>1 DEF EInv, Rebuild, Offered, QueueMoves
        <3>2. CASE entry[j].at = "none"
            BY <1>6, <1>8, <3>2
        <3> QED BY <1>7, <2>1, <3>1, <3>2
    <2> QED BY <1>u, <2>1 DEF EInv, Rebuild, Offered
<1>17. Settle'
    <2>1. \A c \in seen : c \in Clients
        BY TypedAs DEF Shape
    <2>2. ASSUME run.pc = "unflag job", NEW j \in Jobs, j = run.j
          PROVE  entry'[j].at # "none" /\ (Alive(j)' => \A c \in seen : Marked(c, j)')
        <3>1. entry[j].at # "none" /\ (Alive(j) => \A c \in seen : Marked(c, j))
            BY <2>2 DEF EInv, Settle
        <3>2. entry'[j].at # "none"
            BY <1>t, <3>1 DEF QueueMoves
        <3> QED BY <1>4, <1>7, <2>1, <3>1, <3>2
    <2> QED BY <1>t, <1>u, <2>2 DEF EInv, Settle
<1> QED BY <1>10, <1>11, <1>12, <1>13, <1>14, <1>15, <1>16, <1>17 DEF EInv

-----------------------------------------------------------------------------
(* The profile updates. *)

\* A record changes only between two flags, and the second has a name that no run has
\* captured.
PatchMoves ==
    /\ UNCHANGED <<now, entry, eligible, indexed, seen, jobFlags, run, overlooked, claim>>
    /\ \A c \in Clients :
          /\ flags[c] \subseteq flags'[c]
          /\ patch[c] = "flag" => patch'[c] = "flag" \/ flags'[c] \ run.captured[c] # {}
          /\ profile'[c] = profile[c] \/ patch'[c] = "flag"

\* update_own_client
LEMMA PatchSteps ==
    ASSUME Typed, NEW c \in Clients, FlagBefore(c) \/ ReplaceClient(c) \/ FlagAfter(c)
    PROVE  Typed' /\ PatchMoves
<1>t. /\ flags \in [Clients -> SUBSET Nat] /\ run.captured \in [Clients -> SUBSET Nat]
      /\ patch \in [Clients -> {"idle", "relinquish", "replace", "flag"}]
      /\ profile \in [Clients -> Profiles] /\ Named
    BY TypedAs DEF Shape, Runs
<1>1. ASSUME NEW from, NEW to \in {"relinquish", "idle"}, WritePendingReindex(c, from, to),
             from # "flag" \/ to = "idle"
      PROVE  Typed' /\ PatchMoves
    <2> DEFINE used == flags[c] \cup run.captured[c]
               n == FreshName(used)
    <2>1. UNCHANGED <<now, entry, eligible, indexed, seen, candidates, jobFlags, profile, workers,
                      claim, run, overlooked>>
        BY <1>1 DEF WritePendingReindex, queue, index, roster
    <2>2. flags' = [flags EXCEPT ![c] = @ \cup {n}] /\ patch' = [patch EXCEPT ![c] = to]
        BY <1>1 DEF WritePendingReindex
    <2>3. used \in SUBSET Nat /\ IsFiniteSet(used)
        BY <1>t, FS_Union DEF Named
    <2>4. n \in Nat /\ n \notin used
        BY <2>3, FreshNameFree
    <2> HIDE DEF n
    <2>5. flags' \in [Clients -> SUBSET Nat] /\ patch' \in [Clients -> {"idle", "relinquish", "replace", "flag"}]
        BY <1>t, <2>2, <2>4
    <2>6. ASSUME NEW d \in Clients PROVE IsFiniteSet(flags'[d])
        <3>1. flags'[d] = flags[d] \/ flags'[d] = flags[d] \cup {n}
            BY <1>t, <2>2
        <3>2. IsFiniteSet(flags[d])
            BY <1>t DEF Named
        <3>3. IsFiniteSet(flags[d] \cup {n})
            BY <3>2, FS_AddElement
        <3> QED BY <3>1, <3>2, <3>3
    <2>7. Typed'
        BY <1>t, <2>1, <2>5, <2>6, TypedAs, TypedNext DEF Shape, Named
    <2>8. ASSUME NEW d \in Clients
          PROVE  /\ flags[d] \subseteq flags'[d]
                 /\ patch[d] = "flag" => patch'[d] = "flag" \/ flags'[d] \ run.captured[d] # {}
        BY <1>t, <2>2, <2>4
    <2> QED BY <2>1, <2>7, <2>8 DEF PatchMoves
<1>2. CASE FlagBefore(c) \/ FlagAfter(c)
    BY <1>1, <1>2 DEF FlagBefore, FlagAfter
<1>3. CASE ReplaceClient(c)
    <2>1. UNCHANGED <<now, entry, eligible, indexed, seen, candidates, flags, jobFlags, workers,
                      claim, run, overlooked>>
          /\ patch' = [patch EXCEPT ![c] = "flag"]
        BY <1>3 DEF ReplaceClient, queue, index, debts
    <2>2. PICK p \in Profiles : profile' = [profile EXCEPT ![c] = p]
        BY <1>3 DEF ReplaceClient
    <2>3. profile' \in [Clients -> Profiles] /\ patch' \in [Clients -> {"idle", "relinquish", "replace", "flag"}]
        BY <1>t, <2>1, <2>2
    <2>4. Typed'
        BY <2>1, <2>3, TypedAs, TypedNext DEF Shape, Named
    <2>5. \A d \in Clients : /\ profile'[d] = profile[d] \/ patch'[d] = "flag"
                             /\ patch[d] = "flag" => patch'[d] = "flag"
        BY <1>t, <2>1, <2>2
    <2> QED BY <2>1, <2>4, <2>5 DEF PatchMoves
<1> QED BY <1>2, <1>3

\* A flag only adds to what is owed.
LEMMA PatchKeeps ==
    ASSUME Typed, EInv, PatchMoves
    PROVE  EInv'
<1>t. /\ run \in Runs /\ run.c \in Clients /\ run.j \in Jobs /\ seen \subseteq Clients
      /\ run.clients \subseteq Clients /\ run.workers \subseteq Clients
      /\ \A k \in run.avail \cup run.leased : k.job \in Jobs
      /\ \A m \in eligible : m.client \in Clients
    BY SMT, TypedAs DEF Shape, Runs, Keys, Markers
<1>u. /\ now' = now /\ entry' = entry /\ eligible' = eligible /\ indexed' = indexed /\ seen' = seen
      /\ jobFlags' = jobFlags /\ run' = run /\ overlooked' = overlooked /\ claim' = claim
    BY DEF PatchMoves
<1>f. \A c \in Clients : /\ flags[c] \subseteq flags'[c]
                         /\ patch[c] = "flag" => patch'[c] = "flag" \/ flags'[c] \ run.captured[c] # {}
                         /\ profile'[c] = profile[c] \/ patch'[c] = "flag"
    BY DEF PatchMoves
<1>1. \A c \in Clients : Flagged(c) => Flagged(c)'
    BY <1>f DEF Flagged
<1>2. \A c \in Clients : profile'[c] = profile[c] \/ Flagged(c)'
    BY <1>f DEF Flagged
<1>3. \A j \in Jobs : (Fresh(j)' <=> Fresh(j)) /\ (Late(j)' <=> Late(j)) /\ (Alive(j)' <=> Alive(j))
    BY <1>u DEF Fresh, Late, Alive, ClaimOn
<1>4. \A c \in Clients, j \in Jobs : Marked(c, j) => Marked(c, j)'
    BY <1>1, <1>2, <1>3, <1>u DEF Marked, Matches, Offered
<1>5. \A c \in Clients, j \in Jobs : Served(c, j) => Served(c, j)'
    BY <1>4, <1>u DEF Served, Excused, At
<1>6. Answered' = Answered /\ Answered \subseteq Clients
    BY <1>t, <1>u DEF Answered
<1>7. NoneWrong'
    BY <1>t, <1>1, <1>2, <1>u DEF EInv, NoneWrong
<1>8. NoneMissing'
    BY <1>3, <1>5, <1>6 DEF EInv, NoneMissing
<1>9. Unborn' /\ Listings'
    <2>1. Unborn'
        BY <1>3, <1>u DEF EInv, Unborn
    <2>2. Listings'
        BY <1>3, <1>u DEF EInv, Listings
    <2> QED BY <2>1, <2>2
<1>10. Indexing'
    BY <1>t, <1>3, <1>5, <1>6, <1>u DEF EInv, Indexing
<1>11. Records'
    <2>1. \A c \in Clients : patch[c] = "flag" \/ flags[c] \ run.captured[c] # {}
             => patch'[c] = "flag" \/ flags'[c] \ run.captured[c] # {}
        BY <1>f
    <2> QED BY <1>t, <1>f, <1>1, <1>2, <1>u, <2>1 DEF EInv, Records
<1>12. Rebuild'
    <2>1. \A c \in Clients : flags[c] # {} => flags'[c] # {}
        BY <1>f
    <2> QED BY <1>t, <1>3, <1>u, <2>1 DEF EInv, Rebuild, Offered
<1>13. Settle'
    BY <1>t, <1>3, <1>4, <1>u DEF EInv, Settle
<1> QED BY <1>7, <1>8, <1>9, <1>10, <1>11, <1>12, <1>13 DEF EInv

-----------------------------------------------------------------------------
(* The start and the end of a run. *)

\* The run's own steps leave the clock, the records and the requests alone.
Outside == /\ UNCHANGED <<now, profile, patch>>
           /\ \A j \in Jobs : ClaimOn(j)' <=> ClaimOn(j)

\* Before its second listing and after its sweep a run knows no more than which keys it saw.
LEMMA Resting ==
    ASSUME Typed, EInv, Outside, UNCHANGED <<entry, indexed, flags>>, eligible' \subseteq eligible,
           run'.pc \notin Listed, run'.t <= now,
           \A k \in run'.avail : k.job \in Jobs /\ k.exp = entry[k.job].exp,
           \A k \in run'.avail \cup run'.leased : entry[k.job].at # "none",
           \A j \in run'.gone : entry[j].at = "done",
           NoneMissing'
    PROVE  EInv'
<1>1. \A j \in Jobs : Fresh(j) => Fresh(j)'
    BY DEF Outside, Fresh
<1>2. Unborn'
    BY <1>1 DEF EInv, Unborn
<1>3. NoneWrong'
    BY DEF EInv, NoneWrong, Outside, Flagged
<1>4. /\ run'.pc \notin {"expire", "flag job", "workers", "index"} /\ run'.pc \notin {"index", "rebuild"}
      /\ run'.pc # "index" /\ run'.pc \notin (Tracked \cup Settling) \ {"index"}
      /\ run'.pc \notin {"index", "flags"} /\ run'.pc \notin {"index", "settle", "unflag job"}
      /\ run'.pc \notin Rebuilding /\ run'.pc \notin {"client"} \cup Rebuilding /\ run'.pc \notin Settling
      /\ run'.pc # "unflag job"
    BY DEF Listed, Tracked, Rebuilding, Settling
<1>5. Listings'
    BY <1>4 DEF Listings, Outside
<1>6. Indexing' /\ Records' /\ Rebuild' /\ Settle'
    BY <1>4 DEF Indexing, Records, Rebuild, Settle
<1> QED BY <1>2, <1>3, <1>5, <1>6 DEF EInv

\* Where nobody is answered for but the workers on record, that is NoneMissing.
LEMMA RestingAnswers ==
    ASSUME run.pc \notin Listed
    PROVE  Answered = seen /\ \A c, j : ~ Excused(c, j)
BY DEF Listed, Tracked, Rebuilding, Answered, Excused, At

\* The same in the next state.
LEMMA RestingAnswersNext ==
    ASSUME run'.pc \notin Listed
    PROVE  Answered' = seen' /\ \A c, j : ~ Excused(c, j)'
BY DEF Listed, Tracked, Rebuilding, Answered, Excused, At

\* The start of a run and its first listings.
LEMMA FirstSteps ==
    ASSUME Typed, EInv, StartRun \/ ListRecycled \/ ListAvail \/ WriteGcCandidates
    PROVE  Typed' /\ EInv'
<1>t. /\ Shape /\ Named /\ run \in Runs /\ entry \in [Jobs -> Entries] /\ now \in Times /\ 0 \in Times
      /\ now \in Nat /\ run.t \in Nat /\ NoRun \in Runs /\ 0 \in Nat
      /\ claim \in [Clients -> Claims] /\ candidates \in Staged
    BY TypedAs, TimesNat, IdleTyped DEF Shape, Runs
<1>l. Listings /\ Unborn
    BY DEF EInv
<1>n. /\ NoRun.avail = {} /\ NoRun.leased = {} /\ NoRun.gone = {} /\ NoRun.t = 0
      /\ NoRun.captured = Nobody /\ NoRun.pc = "idle"
    BY DEF NoRun
<1>f. \A c \in Clients : IsFiniteSet(Nobody[c])
    BY FS_EmptySet DEF Nobody
<1>1. ASSUME NEW r \in Runs, run' = r, r.pc \in {"idle", "leases", "avail", "leased"},
             run.pc \notin Listed, r.t <= now,
             r.captured = Nobody \/ r.captured = run.captured,
             \A k \in r.avail : k.job \in Jobs /\ k.exp = entry[k.job].exp,
             \A k \in r.avail \cup r.leased : entry[k.job].at # "none",
             \A j \in r.gone : entry[j].at = "done",
             UNCHANGED <<now, entry, eligible, indexed, seen, flags, jobFlags, profile, workers, patch, overlooked>>,
             candidates' \in Staged, claim' \in [Clients -> Claims],
             \A j \in Jobs : ClaimOn(j)' <=> ClaimOn(j)
      PROVE  Typed' /\ EInv'
    <2>1. Typed'
        BY <1>1, <1>t, <1>f, TypedNext DEF Shape, Named
    <2>2. r.pc \notin Listed
        BY <1>1 DEF Listed
    <2>3. Answered = seen /\ Answered' = seen /\ \A c, j : ~ Excused(c, j) /\ ~ Excused(c, j)'
        BY <1>1, <2>2, RestingAnswers, RestingAnswersNext
    <2>4. \A c \in seen, j \in Jobs : Alive(j) => Served(c, j) \/ Fresh(j)
        BY <2>3 DEF EInv, NoneMissing
    <2>5. \A c \in seen, j \in Jobs : /\ Alive(j)' <=> Alive(j)
                                      /\ Marked(c, j)' <=> Marked(c, j)
                                      /\ Fresh(j)' <=> Fresh(j)
        BY <1>1 DEF Alive, Marked, Matches, Offered, Late, Flagged, Fresh
    <2>6. \A c \in seen, j \in Jobs : Served(c, j)' <=> Served(c, j)
        BY <1>1, <2>3, <2>5 DEF Served
    <2>7. NoneMissing'
        BY <2>3, <2>4, <2>5, <2>6 DEF NoneMissing
    <2>8. Outside
        BY <1>1 DEF Outside
    <2> QED BY <1>1, <2>1, <2>2, <2>7, <2>8, Resting
<1>2. UNCHANGED claim => \A j \in Jobs : ClaimOn(j)' <=> ClaimOn(j)
    BY DEF ClaimOn
<1>3. CASE StartRun
    <2> DEFINE r == [NoRun EXCEPT !.pc = "leases", !.t = now, !.prior = candidates]
    <2>1. r \in Runs /\ r.pc = "leases" /\ r.t = now /\ r.captured = NoRun.captured /\ r.avail = NoRun.avail
          /\ r.leased = NoRun.leased /\ r.gone = NoRun.gone
        BY <1>t DEF Runs, RunLabels
    <2>2. run' = r /\ run.pc \notin Listed /\ candidates' \in Staged
          /\ UNCHANGED <<now, entry, eligible, indexed, seen, flags, jobFlags, profile, workers, claim, patch, overlooked>>
        BY <1>3, <1>t DEF StartRun, Step, At, Listed, queue, debts, roster, requests, Unstaged, Staged
    <2> HIDE DEF r
    <2> QED BY SMT, <1>1, <1>2, <1>n, <1>t, <2>1, <2>2
<1>4. CASE ListRecycled
    <2> DEFINE held == JobsOf(LeasedKeys)
               r == [run EXCEPT !.pc = "avail", !.held = held]
    <2>0. held \subseteq Jobs
        BY <1>t, KeysTyped
    <2> HIDE DEF held
    <2>1. r \in Runs /\ r.pc = "avail" /\ r.t = run.t /\ r.captured = run.captured /\ r.avail = run.avail
          /\ r.leased = run.leased /\ r.gone = run.gone
        BY <1>t, <2>0 DEF Runs, RunLabels
    <2>2. run' = r /\ run.pc \notin Listed
          /\ UNCHANGED <<now, entry, eligible, indexed, seen, candidates, flags, jobFlags, profile, workers, claim, patch, overlooked>>
        BY <1>4 DEF ListRecycled, QueueAlone, Step, At, Listed, queue, index, debts, roster, requests, held
    <2> HIDE DEF r
    <2>3. /\ \A k \in run.avail : k.job \in Jobs /\ k.exp = entry[k.job].exp
          /\ \A k \in run.avail \cup run.leased : k.job \in Jobs
          /\ \A j \in run.gone : entry[j].at = "done"
          /\ run.t <= now
        BY <1>l, <1>t DEF Listings, Runs, Keys
    <2>4. \A k \in run.avail \cup run.leased : entry[k.job].at # "none"
        BY <1>l, <2>3 DEF Unborn
    <2> QED BY <1>1, <1>2, <1>t, <2>1, <2>2, <2>3, <2>4
<1>5. CASE ListAvail
    <2> DEFINE r == [run EXCEPT !.pc = "leased", !.avail = AvailKeys]
    <2>0. AvailKeys \subseteq Keys
        BY <1>t, KeysTyped
    <2>1. r \in Runs /\ r.pc = "leased" /\ r.t = run.t /\ r.captured = run.captured /\ r.avail = AvailKeys
          /\ r.leased = run.leased /\ r.gone = run.gone
        <3> HIDE DEF AvailKeys
        <3> QED BY <1>t, <2>0 DEF Runs, RunLabels
    <2>2. run' = r /\ run.pc \notin Listed
          /\ UNCHANGED <<now, entry, eligible, indexed, seen, candidates, flags, jobFlags, profile, workers, claim, patch, overlooked>>
        BY <1>5 DEF ListAvail, QueueAlone, Step, At, Listed, queue, index, debts, roster, requests
    <2> HIDE DEF r
    <2>3. /\ \A k \in run.leased : k.job \in Jobs
          /\ \A j \in run.gone : entry[j].at = "done"
          /\ run.t <= now
        BY <1>l, <1>t DEF Listings, Runs, Keys
    <2>4. \A k \in AvailKeys : k.job \in Jobs /\ k.exp = entry[k.job].exp /\ entry[k.job].at # "none"
        BY SMT DEF AvailKeys, Key
    <2>5. \A k \in run.leased : entry[k.job].at # "none"
        BY <1>l, <2>3 DEF Unborn
    <2>6. r.t <= now /\ \A k \in r.avail \cup r.leased : entry[k.job].at # "none"
        BY <2>1, <2>3, <2>4, <2>5
    <2> QED BY <1>1, <1>2, <1>t, <2>1, <2>2, <2>3, <2>4, <2>6
<1>6. CASE WriteGcCandidates
    <2> DEFINE aged(q) == [q EXCEPT !.old = q.pc # "idle"]
    <2>1. run' = NoRun /\ run.pc \notin Listed /\ candidates' \in Staged
          /\ UNCHANGED <<now, entry, eligible, indexed, seen, flags, jobFlags, profile, workers, patch, overlooked>>
        BY <1>6, <1>t DEF WriteGcCandidates, Step, At, Listed, queue, debts, roster, Runs
    <2>2. \A q \in Claims : aged(q) \in Claims /\ aged(q).pc = q.pc /\ aged(q).job = q.job
        BY DEF Claims
    <2>3. claim' = [c \in Clients |-> aged(claim[c])]
        BY <1>6 DEF WriteGcCandidates
    <2> HIDE DEF aged
    <2>4. claim' \in [Clients -> Claims]
          /\ \A c \in Clients : claim'[c].pc = claim[c].pc /\ claim'[c].job = claim[c].job
        BY <1>t, <2>2, <2>3
    <2>5. \A j \in Jobs : ClaimOn(j)' <=> ClaimOn(j)
        BY <2>4 DEF ClaimOn
    <2> QED BY SMT, <1>1, <1>n, <1>t, <2>1, <2>4, <2>5
<1> QED BY <1>3, <1>4, <1>5, <1>6

-----------------------------------------------------------------------------
(* The overdue jobs. *)

\* Until the records are read, a run knows its listings, and that the leased jobs
\* have been offered.
LEMMA Expiring ==
    ASSUME run'.pc \in {"expire", "flag job", "workers"}, NoneWrong', NoneMissing', Unborn', Listings',
           \A k \in run'.leased, c \in Answered' : Alive(k.job)' => Served(c, k.job)'
    PROVE  EInv'
<1>1. /\ run'.pc # "index" /\ run'.pc \notin (Tracked \cup Settling) \ {"index"}
      /\ run'.pc \notin {"index", "flags"} /\ run'.pc \notin {"index", "settle", "unflag job"}
      /\ run'.pc \notin Rebuilding /\ run'.pc \notin {"client"} \cup Rebuilding /\ run'.pc \notin Settling
      /\ run'.pc # "unflag job"
    BY DEF Tracked, Rebuilding, Settling
<1>2. Indexing'
    BY <1>1 DEF Indexing
<1>3. Records' /\ Rebuild' /\ Settle'
    BY <1>1 DEF Records, Rebuild, Settle
<1> QED BY <1>2, <1>3 DEF EInv

\* In these steps a run answers for the workers on record, and only a re-dated job is excused.
LEMMA ExpiringAnswers ==
    ASSUME run.pc \in {"expire", "flag job", "workers"}
    PROVE  Answered = seen /\ \A c, j : Excused(c, j) <=> run.pc = "flag job" /\ j = run.j
BY DEF Tracked, Rebuilding, Answered, Excused, At

\* The same in the next state.
LEMMA ExpiringAnswersNext ==
    ASSUME run'.pc \in {"expire", "flag job", "workers"}
    PROVE  Answered' = seen' /\ \A c, j : Excused(c, j)' <=> run'.pc = "flag job" /\ j = run'.j
BY DEF Tracked, Rebuilding, Answered, Excused, At

\* The second listing: a job that is in neither moved between the two.
LEMMA ListLeasedKeeps ==
    ASSUME Typed, EInv, ListLeased
    PROVE  Typed' /\ EInv'
<1>t. /\ Shape /\ Named /\ run \in Runs /\ entry \in [Jobs -> Entries] /\ seen \subseteq Clients
      /\ run.missed \subseteq Jobs /\ run.avail \subseteq Keys
      /\ \A k \in run.avail : k.job \in Jobs
    BY SMT, TypedAs DEF Shape, Runs, Keys
<1> DEFINE missed == JobsOf(AvailKeys) \ JobsOf(run.avail)
           r == [run EXCEPT !.pc = "expire", !.leased = LeasedKeys, !.missed = missed]
<1>1. LeasedKeys \subseteq Keys /\ missed \subseteq Jobs
    BY <1>t, KeysTyped
<1>2. r \in Runs /\ r.pc = "expire" /\ r.t = run.t /\ r.captured = run.captured /\ r.avail = run.avail
      /\ r.leased = LeasedKeys /\ r.gone = run.gone /\ r.missed = missed
    <2> HIDE DEF LeasedKeys, missed
    <2> QED BY <1>t, <1>1 DEF Runs, RunLabels
<1>3. run' = r /\ run.pc \notin Listed
      /\ UNCHANGED <<now, entry, eligible, indexed, seen, candidates, flags, jobFlags, profile, workers,
                     claim, patch, overlooked>>
    BY DEF ListLeased, QueueAlone, Step, At, Listed, queue, index, debts, roster, requests
<1> HIDE DEF r
<1>4. Typed'
    BY <1>t, <1>2, <1>3, TypedNext DEF Shape, Named
<1>5. Answered = seen /\ Answered' = seen /\ \A c, j : ~ Excused(c, j) /\ ~ Excused(c, j)'
    BY <1>2, <1>3, RestingAnswers, ExpiringAnswersNext
<1>6. \A c, j : /\ Alive(j)' <=> Alive(j)
                /\ Marked(c, j)' <=> Marked(c, j)
                /\ Fresh(j)' <=> Fresh(j)
                /\ Late(j)' <=> Late(j)
    BY <1>3 DEF Alive, Marked, Matches, Offered, Late, Flagged, Fresh, ClaimOn
<1>7. \A c, j : Served(c, j)' <=> Served(c, j)
    BY <1>3, <1>5, <1>6 DEF Served
<1>8. NoneMissing'
    BY <1>5, <1>6, <1>7 DEF EInv, NoneMissing
<1>9. NoneWrong'
    BY <1>3 DEF EInv, NoneWrong, Flagged
<1>10. \A k \in LeasedKeys : k.job \in Jobs /\ entry[k.job].at = "leased"
    BY SMT DEF LeasedKeys, Key
<1>11. Unborn'
    BY <1>2, <1>3, <1>6, <1>10 DEF EInv, Unborn
<1>12. ASSUME NEW j \in Jobs, Alive(j)
       PROVE  j \in JobsOf(run.avail \cup LeasedKeys) \/ j \in missed
    <2>1. CASE entry[j].at = "avail"
        <3>1. Key(j, entry[j].exp) \in AvailKeys /\ Key(j, entry[j].exp).job = j
            BY <2>1 DEF AvailKeys, Key
        <3> QED BY <3>1 DEF JobsOf
    <2>2. CASE entry[j].at = "leased"
        <3>1. Key(j, entry[j].exp) \in LeasedKeys /\ Key(j, entry[j].exp).job = j
            BY <2>2 DEF LeasedKeys, Key
        <3> QED BY <3>1 DEF JobsOf
    <2> QED BY <1>12, <2>1, <2>2 DEF Alive
<1>13. Listings'
    BY <1>2, <1>3, <1>6, <1>12 DEF EInv, Listings
<1>14. \A k \in LeasedKeys, c \in seen : Served(c, k.job)
    BY <1>5, <1>10 DEF EInv, NoneMissing, Alive, Fresh
<1> QED BY <1>2, <1>3, <1>4, <1>5, <1>7, <1>8, <1>9, <1>11, <1>13, <1>14, Expiring

\* settle_overdue_job: what leaves the listing is overdue or done, and a re-dated job is
\* excused until its flag is written.
LEMMA SettleOverdueKeeps ==
    ASSUME Typed, EInv, SettleOverdueJob
    PROVE  Typed' /\ EInv'
<1>t. /\ Shape /\ Named /\ run \in Runs /\ entry \in [Jobs -> Entries] /\ seen \subseteq Clients
      /\ run.avail \subseteq Keys /\ now \in Nat /\ run.t \in Nat /\ run.gone \subseteq Jobs
      /\ run.j \in Jobs
      /\ \A q \in run.avail \cup run.leased : q.job \in Jobs
      /\ \A q \in run.avail : q.exp \in Nat
    <2>1. Shape /\ Named
        BY TypedAs
    <2>2. \A q \in Keys : q.job \in Jobs /\ q.exp \in Nat
        BY TimesNat DEF Keys
    <2>3. run.avail \subseteq Keys /\ run.leased \subseteq Keys /\ now \in Nat /\ run.t \in Nat
        BY <2>1, TimesNat DEF Shape, Runs
    <2> QED BY <2>1, <2>2, <2>3 DEF Shape, Runs
<1>p. run.pc = "expire"
    BY DEF SettleOverdueJob, At
<1>i. /\ Answered = seen /\ \A c, j : ~ Excused(c, j)
    BY <1>p, ExpiringAnswers
<1>l. /\ run.t <= now
      /\ \A q \in run.avail : q.exp = entry[q.job].exp
      /\ \A j \in run.gone : entry[j].at = "done"
      /\ \A j \in Jobs : Alive(j) => j \in JobsOf(run.avail \cup run.leased) \/ j \in run.missed \/ Late(j) \/ Fresh(j)
      /\ \A q \in run.leased, c \in seen : Alive(q.job) => Served(c, q.job)
      /\ \A c \in seen, j \in Jobs : Alive(j) => Served(c, j) \/ Fresh(j)
      /\ \A q \in run.avail \cup run.leased : entry[q.job].at # "none"
    <2>1. Listings /\ Indexing /\ NoneMissing /\ Unborn
        BY DEF EInv
    <2>2. run.pc \in Listed
        BY <1>p DEF Listed
    <2> QED BY <1>p, <1>i, <1>t, <2>1, <2>2 DEF Listings, Indexing, NoneMissing, Unborn
<1>w. PICK k \in Overdue(run.avail) :
         \/ \E e \in Times : RedateAvail(k, Key(k.job, e))
         \/ ExpireOneJob(k)
    BY DEF SettleOverdueJob
<1> DEFINE j == k.job
<1>k. k \in run.avail /\ k.exp < run.t /\ j \in Jobs /\ k.exp = entry[j].exp /\ entry[j].exp < now /\ k \in Keys
    <2>1. k \in run.avail /\ k.exp < run.t
        BY DEF Overdue
    <2> QED BY SMT, <1>l, <1>t, <2>1
<1>u. UNCHANGED <<now, eligible, indexed, seen, candidates, flags, jobFlags, profile, workers,
                  claim, patch, overlooked>>
    BY <1>w DEF RedateAvail, ExpireOneJob, index, debts, roster, requests
<1>c. \A i : ClaimOn(i)' <=> ClaimOn(i)
    BY <1>u DEF ClaimOn
<1>n. NoneWrong'
    BY <1>u DEF EInv, NoneWrong, Flagged
<1>s. ASSUME NEW i, entry'[i] = entry[i], run'.pc \in {"expire", "flag job"}
      PROVE  /\ Alive(i)' <=> Alive(i)
             /\ Fresh(i)' <=> Fresh(i)
             /\ Late(i)' <=> Late(i)
             /\ \A c : Served(c, i) => Served(c, i)'
    <2>1. /\ Alive(i)' <=> Alive(i)
          /\ Late(i)' <=> Late(i)
          /\ Fresh(i)' <=> Fresh(i)
        BY <1>s, <1>u, <1>c DEF Alive, Late, Fresh
    <2>2. ASSUME NEW c PROVE Marked(c, i) => Marked(c, i)'
        BY <1>s, <1>u, <2>1 DEF Marked, Matches, Offered, Flagged
    <2> QED BY <1>i, <1>u, <2>1, <2>2 DEF Served
<1>1. CASE ~ AvailAt(k)
    <2> DEFINE r == [run EXCEPT !.avail = @ \ {k}]
    <2>1. r \in Runs /\ r.pc = "expire" /\ r.t = run.t /\ r.captured = run.captured /\ r.avail = run.avail \ {k}
          /\ r.leased = run.leased /\ r.gone = run.gone /\ r.missed = run.missed /\ r.j = run.j
        BY <1>t, <1>p DEF Runs
    <2>2. run' = r /\ entry' = entry
        BY <1>w, <1>1 DEF RedateAvail, ExpireOneJob, Step
    <2> HIDE DEF r, j
    <2>3. Typed'
        BY <1>t, <1>u, <2>1, <2>2, TypedNext DEF Shape, Named
    <2>4. Answered' = seen
        BY <1>u, <2>1, <2>2, ExpiringAnswersNext
    <2>5. \A i : /\ Alive(i)' <=> Alive(i)
                 /\ Fresh(i)' <=> Fresh(i)
                 /\ Late(i)' <=> Late(i)
                 /\ \A c : Served(c, i) => Served(c, i)'
        BY <1>s, <2>1, <2>2
    <2>6. NoneMissing'
        BY <1>l, <2>4, <2>5 DEF NoneMissing
    <2>7. Unborn'
        BY <2>1, <2>2, <2>5 DEF EInv, Unborn
    <2>8. ASSUME NEW i \in Jobs, i \in JobsOf(run.avail \cup run.leased)
          PROVE  i \in JobsOf(r.avail \cup r.leased) \/ Late(i)
        <3>1. PICK q \in run.avail \cup run.leased : q.job = i
            BY <2>8 DEF JobsOf
        <3>2. CASE q = k
            BY <1>k, <3>1, <3>2 DEF Late, j
        <3>3. CASE q # k
            BY <2>1, <3>1, <3>3 DEF JobsOf
        <3> QED BY <3>2, <3>3
    <2>9. Listings'
        <3>1. r.pc \notin {"index", "rebuild"}
            BY <2>1
        <3>2. \A i \in Jobs : Alive(i) => i \in JobsOf(r.avail \cup r.leased) \/ i \in r.missed \/ Late(i) \/ Fresh(i)
            BY <1>l, <2>1, <2>8
        <3> QED BY <1>l, <1>u, <2>1, <2>2, <2>5, <3>1, <3>2 DEF Listings
    <2>10. \A q \in r.leased, c \in seen : Alive(q.job)' => Served(c, q.job)'
        BY <1>l, <2>1, <2>5
    <2> QED BY <1>n, <2>1, <2>2, <2>3, <2>4, <2>6, <2>7, <2>9, <2>10, Expiring
<1>2. ASSUME AvailAt(k), NEW e \in Times, RedateAvail(k, Key(j, e)) PROVE Typed' /\ EInv'
    <2> DEFINE to == Key(j, e)
               r == [run EXCEPT !.pc = "flag job", !.j = j, !.avail = (@ \ {k}) \cup {to}]
    <2>1. to \in Keys /\ to.job = j /\ to.exp = e
        BY <1>k DEF Key, Keys
    <2>2. run' = r /\ entry' = [entry EXCEPT ![j].exp = e]
        BY <1>2, <2>1 DEF RedateAvail, Step
    <2> HIDE DEF to
    <2>3. r \in Runs /\ r.pc = "flag job" /\ r.t = run.t /\ r.captured = run.captured
          /\ r.avail = (run.avail \ {k}) \cup {to}
          /\ r.leased = run.leased /\ r.gone = run.gone /\ r.missed = run.missed /\ r.j = j
        BY <1>t, <1>k, <2>1 DEF Runs, RunLabels
    <2> DEFINE d == [entry[j] EXCEPT !.exp = e]
    <2>4. d \in Entries /\ d.exp = e /\ d.at = entry[j].at /\ entry' = [entry EXCEPT ![j] = d]
        BY <1>t, <1>k, <2>2 DEF Entries
    <2> HIDE DEF r, d, j
    <2>5. /\ entry' \in [Jobs -> Entries]
          /\ \A i \in Jobs \ {j} : entry'[i] = entry[i]
          /\ entry'[j].exp = e /\ entry'[j].at = entry[j].at
        BY <1>t, <1>k, <2>4
    <2>6. Typed'
        BY <1>t, <1>u, <2>2, <2>3, <2>5, TypedNext DEF Shape, Named
    <2>7. Answered' = seen /\ \A c : Excused(c, j)'
        BY <1>u, <2>2, <2>3, ExpiringAnswersNext
    <2>8. \A i \in Jobs : Alive(i)' <=> Alive(i)
        BY <2>5 DEF Alive
    <2>9. \A i \in Jobs \ {j} : /\ Fresh(i)' <=> Fresh(i)
                                /\ Late(i)' <=> Late(i)
                                /\ \A c : Served(c, i) => Served(c, i)'
        BY <1>s, <2>2, <2>3, <2>5
    <2>10. \A c : Served(c, j)'
        BY <2>7 DEF Served
    <2>11. NoneMissing'
        BY <1>l, <2>7, <2>8, <2>9, <2>10 DEF NoneMissing
    <2>12. Unborn'
        <3>1. entry[j].at # "none"
            BY <1>k, <1>l DEF j
        <3>2. \A q \in r.avail \cup r.leased : q = to \/ q \in run.avail \cup run.leased
            BY <2>3
        <3> QED BY <2>1, <2>2, <2>5, <2>9, <3>1, <3>2 DEF EInv, Unborn
    <2>13. \A q \in r.avail : q.exp = entry'[q.job].exp
        <3> SUFFICES ASSUME NEW q \in r.avail PROVE q.exp = entry'[q.job].exp
            OBVIOUS
        <3>1. CASE q = to
            BY <2>1, <2>5, <3>1
        <3>2. CASE q \in run.avail /\ q # k
            <4>1. q.job \in Jobs /\ q.exp = entry[q.job].exp /\ q \in Keys
                BY <1>l, <1>t, <3>2
            <4>2. q.job # j
                BY SMT, <1>k, <3>2, <4>1 DEF Keys, j
            <4> QED BY <2>5, <4>1, <4>2
        <3> QED BY <2>3, <3>1, <3>2
    <2>14. \A i \in Jobs : i \in JobsOf(run.avail \cup run.leased) => i \in JobsOf(r.avail \cup r.leased)
        BY <2>1, <2>3 DEF JobsOf, j
    <2>15. j \in JobsOf(r.avail \cup r.leased)
        BY <2>1, <2>3 DEF JobsOf
    <2>16. Listings'
        <3>1. r.pc \notin {"index", "rebuild"}
            BY <2>3
        <3>2. \A i \in r.gone : entry'[i].at = "done"
            BY <1>l, <1>t, <2>3, <2>5
        <3>3. \A i \in Jobs : Alive(i)' => i \in JobsOf(r.avail \cup r.leased) \/ i \in r.missed \/ Late(i)' \/ Fresh(i)'
            BY <1>l, <2>3, <2>8, <2>9, <2>14, <2>15
        <3> QED BY <1>l, <1>u, <2>2, <2>3, <2>13, <3>1, <3>2, <3>3 DEF Listings
    <2>17. \A q \in r.leased, c \in seen : Alive(q.job)' => Served(c, q.job)'
        BY <1>l, <1>t, <2>3, <2>8, <2>9, <2>10
    <2> QED BY <1>n, <2>2, <2>3, <2>6, <2>7, <2>11, <2>12, <2>16, <2>17, Expiring
<1>3. ASSUME AvailAt(k), ExpireOneJob(k) PROVE Typed' /\ EInv'
    <2> DEFINE r == [run EXCEPT !.avail = @ \ {k}, !.gone = @ \cup {j}]
    <2>1. run' = r /\ Move(j, "done", "none")
        BY <1>3 DEF ExpireOneJob, Step
    <2>2. r \in Runs /\ r.pc = "expire" /\ r.t = run.t /\ r.captured = run.captured /\ r.avail = run.avail \ {k}
          /\ r.leased = run.leased /\ r.gone = run.gone \cup {j} /\ r.missed = run.missed /\ r.j = run.j
        BY <1>t, <1>p, <1>k DEF Runs
    <2> HIDE DEF r, j
    <2>3. /\ entry' \in [Jobs -> Entries]
          /\ \A i \in Jobs : entry'[i].exp = entry[i].exp
          /\ \A i \in Jobs \ {j} : entry'[i] = entry[i]
          /\ entry'[j].at = "done"
        BY <1>t, <1>k, <2>1, MoveTyped
    <2>4. Typed'
        BY <1>t, <1>u, <2>1, <2>2, <2>3, TypedNext DEF Shape, Named
    <2>5. Answered' = seen
        BY <1>u, <2>1, <2>2, ExpiringAnswersNext
    <2>6. \A i \in Jobs \ {j} : /\ Alive(i)' <=> Alive(i)
                                /\ Fresh(i)' <=> Fresh(i)
                                /\ Late(i)' <=> Late(i)
                                /\ \A c : Served(c, i) => Served(c, i)'
        BY <1>s, <2>1, <2>2, <2>3
    <2>7. ~ Alive(j)'
        BY <2>3 DEF Alive
    <2>8. NoneMissing'
        BY <1>l, <2>5, <2>6, <2>7 DEF NoneMissing
    <2>9. Unborn'
        BY <2>1, <2>2, <2>3, <2>6 DEF EInv, Unborn
    <2>10. ASSUME NEW i \in Jobs \ {j}, i \in JobsOf(run.avail \cup run.leased)
           PROVE  i \in JobsOf(r.avail \cup r.leased)
        BY <2>2, <2>10 DEF JobsOf, j
    <2>11. Listings'
        <3>1. r.pc \notin {"index", "rebuild"}
            BY <2>2
        <3>2. \A i \in r.gone : entry'[i].at = "done"
            BY <1>l, <1>t, <2>2, <2>3
        <3>3. \A i \in Jobs : Alive(i)' => i \in JobsOf(r.avail \cup r.leased) \/ i \in r.missed \/ Late(i)' \/ Fresh(i)'
            BY <1>l, <2>2, <2>6, <2>7, <2>10
        <3>4. \A q \in r.avail : q.exp = entry'[q.job].exp
            BY <1>l, <1>t, <2>2, <2>3
        <3> QED BY <1>l, <1>u, <2>1, <2>2, <3>1, <3>2, <3>3, <3>4 DEF Listings
    <2>12. \A q \in r.leased, c \in seen : Alive(q.job)' => Served(c, q.job)'
        BY <1>l, <1>t, <2>2, <2>6, <2>7
    <2> QED BY <1>n, <2>1, <2>2, <2>4, <2>5, <2>8, <2>9, <2>11, <2>12, Expiring
<1> QED BY <1>w, <1>1, <1>2, <1>3

\* The flag of the re-dated job, and the reading of the bodies.
LEMMA FlagRedatedKeeps ==
    ASSUME Typed, EInv, FlagRedated \/ ReadBodies
    PROVE  Typed' /\ EInv'
<1>t. /\ Shape /\ Named /\ run \in Runs /\ seen \subseteq Clients /\ run.j \in Jobs /\ 0 \in Times
      /\ now \in Nat /\ 0 <= now
    <2>1. Shape /\ Named /\ now \in Nat
        BY TypedAs, TimesNat DEF Shape
    <2> QED BY SMT, <2>1, TimesNat DEF Shape, Runs
<1>u. UNCHANGED <<now, entry, eligible, indexed, seen, candidates, flags, profile, workers, claim, patch, overlooked>>
    BY DEF FlagRedated, ReadBodies, QueueAlone, queue, index, debts, roster, requests
<1>p. run.pc \in {"expire", "flag job"} /\ run.pc \in Listed
    BY DEF FlagRedated, ReadBodies, At, Listed
<1>1. ASSUME NEW r \in Runs, run' = r, r.pc \in {"expire", "workers"}, r.t \in {0, run.t}, r.captured = run.captured,
             r.avail = run.avail, r.leased = run.leased, r.gone = run.gone, r.missed = run.missed,
             jobFlags \subseteq jobFlags', jobFlags' \subseteq Jobs, run.pc = "flag job" => run.j \in jobFlags'
      PROVE  Typed' /\ EInv'
    <2>1. Typed'
        BY <1>1, <1>t, <1>u, TypedNext DEF Shape, Named
    <2>2. /\ Answered = seen /\ \A c, j : Excused(c, j) => run.pc = "flag job" /\ j = run.j
          /\ Answered' = seen /\ \A c, j : ~ Excused(c, j)'
        BY <1>1, <1>p, <1>u, ExpiringAnswers, ExpiringAnswersNext
    <2>3. \A c, j : /\ Alive(j)' <=> Alive(j)
                    /\ Marked(c, j)' <=> Marked(c, j)
                    /\ Fresh(j)' <=> Fresh(j)
                    /\ Late(j)' <=> Late(j)
        BY <1>u DEF Alive, Marked, Matches, Offered, Late, Flagged, Fresh, ClaimOn
    <2>4. \A c, j : Served(c, j) => Served(c, j)'
        BY <1>1, <2>2, <2>3 DEF Served
    <2>5. NoneMissing' /\ NoneWrong' /\ Unborn'
        <3>1. NoneMissing'
            BY <2>2, <2>3, <2>4 DEF EInv, NoneMissing
        <3>2. NoneWrong'
            BY <1>u DEF EInv, NoneWrong, Flagged
        <3>3. Unborn'
            BY <1>1, <1>u, <2>3 DEF EInv, Unborn
        <3> QED BY <3>1, <3>2, <3>3
    <2>6. Listings'
        <3>1. r.pc \notin {"index", "rebuild"} /\ r.t <= now
            BY <1>1, <1>t DEF EInv, Listings
        <3> QED BY <1>1, <1>p, <1>u, <2>3, <3>1 DEF EInv, Listings
    <2>7. \A k \in r.leased, c \in seen : Alive(k.job)' => Served(c, k.job)'
        BY <1>1, <1>p, <2>2, <2>3, <2>4 DEF EInv, Indexing
    <2> QED BY <1>1, <2>1, <2>2, <2>5, <2>6, <2>7, Expiring
<1>2. CASE FlagRedated
    <2> DEFINE r == [run EXCEPT !.pc = "expire"]
    <2>1. r \in Runs /\ r.pc = "expire" /\ r.t = run.t /\ r.captured = run.captured /\ r.avail = run.avail
          /\ r.leased = run.leased /\ r.gone = run.gone /\ r.missed = run.missed
        BY <1>t DEF Runs, RunLabels
    <2>2. run' = r /\ jobFlags' = jobFlags \cup {run.j}
        BY <1>2 DEF FlagRedated, Goto, Step
    <2>3. jobFlags \subseteq Jobs
        BY <1>t DEF Shape
    <2> HIDE DEF r
    <2> QED BY <1>1, <1>t, <2>1, <2>2, <2>3
<1>3. CASE ReadBodies
    <2> DEFINE bodies == {k \in run.avail : AvailAt(k)}
               r == [run EXCEPT !.pc = "workers", !.t = 0, !.bodies = bodies]
    <2>1. bodies \subseteq Keys
        BY <1>t DEF Runs
    <2> HIDE DEF bodies
    <2>2. r \in Runs /\ r.pc = "workers" /\ r.t = 0 /\ r.captured = run.captured /\ r.avail = run.avail
          /\ r.leased = run.leased /\ r.gone = run.gone /\ r.missed = run.missed
        BY <1>t, <2>1 DEF Runs, RunLabels
    <2>3. run' = r /\ jobFlags' = jobFlags /\ run.pc # "flag job"
        BY <1>3 DEF ReadBodies, QueueAlone, debts, Step, At, bodies
    <2>4. jobFlags \subseteq Jobs
        BY <1>t DEF Shape
    <2> HIDE DEF r
    <2> QED BY <1>1, <1>t, <2>2, <2>3, <2>4
<1> QED BY <1>2, <1>3

-----------------------------------------------------------------------------
(* New keys. *)

\* A key is its job and its deadline.
LEMMA KeyIs == \A k \in Keys : k = Key(k.job, k.exp) /\ k.job \in Jobs /\ k.exp \in Times
BY SMT DEF Keys, Key

\* A marker names its client, its job and its deadline.
LEMMA MarkerIs == \A c, j, e : Marker(c, j, e).client = c /\ Marker(c, j, e).job = j /\ Marker(c, j, e).exp = e
BY DEF Marker

\* In the index pass a run answers for the workers on record, and those that left are excused.
LEMMA IndexAnswers ==
    ASSUME run.pc \in {"index", "flags"}
    PROVE  Answered = seen /\ \A c, j : Excused(c, j) <=> c \notin run.workers
BY DEF Tracked, Rebuilding, Answered, Excused, At

\* The same in the next state.
LEMMA IndexAnswersNext ==
    ASSUME run'.pc \in {"index", "flags"}
    PROVE  Answered' = seen' /\ \A c, j : Excused(c, j)' <=> c \notin run'.workers
BY DEF Tracked, Rebuilding, Answered, Excused, At

\* In these steps nothing is rebuilt or settled yet.
LEMMA IndexRest ==
    ASSUME run'.pc \in {"index", "flags"}
    PROVE  Rebuild' /\ Settle' /\ (run'.pc = "flags" => Records')
<1>1. /\ run'.pc \notin Rebuilding /\ run'.pc \notin {"client"} \cup Rebuilding /\ run'.pc \notin Settling
      /\ run'.pc # "unflag job" /\ (run'.pc = "flags" => run'.pc \notin {"index", "settle", "unflag job"})
    BY DEF Rebuilding, Settling
<1> QED BY <1>1 DEF Rebuild, Settle, Records

\* track_worker_changes: the markers of a worker that left are gone.
LEMMA TrackKeeps ==
    ASSUME Typed, EInv, TrackWorkerChanges
    PROVE  Typed' /\ EInv'
<1>t. /\ Shape /\ Named /\ run \in Runs /\ seen \subseteq Clients /\ workers \subseteq Clients
      /\ run.avail \subseteq Keys /\ run.leased \subseteq Keys /\ profile \in [Clients -> Profiles]
      /\ eligible \subseteq Markers
    BY TypedAs DEF Shape, Runs
<1> DEFINE r == [run EXCEPT !.pc = "index", !.prof = profile, !.workers = workers,
                            !.joined = workers \ seen, !.todo = run.avail \ indexed]
<1>1. r \in Runs /\ r.pc = "index" /\ r.t = run.t /\ r.captured = run.captured /\ r.avail = run.avail
      /\ r.leased = run.leased /\ r.gone = run.gone /\ r.missed = run.missed /\ r.workers = workers
      /\ r.prof = profile /\ r.joined = workers \ seen /\ r.todo = run.avail \ indexed
    BY <1>t DEF Runs, RunLabels
<1>2. run' = r /\ run.pc = "workers" /\ eligible' = {m \in eligible : m.client \notin seen \ workers}
      /\ UNCHANGED <<now, entry, indexed, seen, candidates, flags, jobFlags, profile, workers,
                     claim, patch, overlooked>>
    BY DEF TrackWorkerChanges, QueueAlone, Step, At, queue, debts, roster, requests
<1> HIDE DEF r
<1>3. Typed'
    BY <1>t, <1>1, <1>2, TypedNext DEF Shape, Named
<1>4. /\ Answered = seen /\ \A c, j : ~ Excused(c, j)
      /\ Answered' = seen /\ \A c, j : Excused(c, j)' <=> c \notin workers
    BY <1>1, <1>2, ExpiringAnswers, IndexAnswersNext
<1>5. \A j : /\ Alive(j)' <=> Alive(j)
             /\ Fresh(j) => Fresh(j)'
             /\ Late(j)' <=> Late(j)
    BY <1>2 DEF Alive, Late, Fresh, ClaimOn
<1>6. ASSUME NEW c \in seen, NEW j, Served(c, j) PROVE Served(c, j)'
    <2>1. CASE c \notin workers
        BY <1>4, <2>1 DEF Served
    <2>2. CASE c \in workers
        <3>1. Offered(c, j) => Offered(c, j)'
            BY <1>2, <2>2, MarkerIs DEF Offered
        <3>2. Marked(c, j) => Marked(c, j)'
            BY <1>2, <1>5, <3>1 DEF Marked, Matches, Flagged
        <3> QED BY <1>2, <1>4, <1>6, <3>2 DEF Served
    <2> QED BY <2>1, <2>2
<1>7. NoneMissing'
    BY <1>4, <1>5, <1>6 DEF EInv, NoneMissing
<1>8. NoneWrong'
    BY <1>2 DEF EInv, NoneWrong, Flagged
<1>9. Unborn'
    BY <1>1, <1>2, <1>5 DEF EInv, Unborn
<1>10. Listings'
    <2>1. run.pc \in Listed
        BY <1>2 DEF Listed
    <2> QED BY <1>1, <1>2, <1>5, <2>1 DEF EInv, Listings
<1>11. Indexing'
    <2>1. \A k \in run.leased, c \in seen : Alive(k.job)' => Served(c, k.job)'
        BY <1>2, <1>4, <1>5, <1>6 DEF EInv, Indexing
    <2>2. ASSUME NEW k \in run.avail \ r.todo, NEW c \in seen, Alive(k.job)' PROVE Served(c, k.job)'
        <3>1. k \in indexed /\ k = Key(k.job, entry[k.job].exp) /\ k.job \in Jobs
            BY <1>1, <1>t, KeyIs DEF EInv, Listings
        <3>2. ~ Fresh(k.job)
            BY <3>1 DEF Fresh
        <3> QED BY <1>4, <1>5, <1>6, <2>2, <3>1, <3>2 DEF EInv, NoneMissing
    <2>3. r.pc \notin (Tracked \cup Settling) \ {"index"}
        BY <1>1 DEF Tracked, Settling
    <2> QED BY <1>1, <1>2, <1>4, <2>1, <2>2, <2>3 DEF Indexing
<1>12. Records'
    BY <1>1, <1>2 DEF Records, Rebuilding
<1> QED BY <1>1, <1>2, <1>3, <1>7, <1>8, <1>9, <1>10, <1>11, <1>12, IndexRest DEF EInv

\* index_new_jobs: the key's job is offered to the workers its record matched; a key that
\* is gone was claimed, so it had been offered before.
LEMMA IndexJobKeeps ==
    ASSUME Typed, EInv, IndexJob
    PROVE  Typed' /\ EInv'
<1>t. /\ Shape /\ Named /\ run \in Runs /\ seen \subseteq Clients
      /\ run.avail \subseteq Keys /\ run.leased \subseteq Keys /\ run.todo \subseteq Keys /\ run.bodies \subseteq Keys
      /\ eligible \subseteq Markers /\ run.workers \subseteq Clients
    BY TypedAs DEF Shape, Runs
<1>p. run.pc = "index" /\ run.pc \in Listed
    BY DEF IndexJob, At, Listed
<1>k. PICK k \in run.todo :
          /\ eligible' = eligible \cup
                (IF Present(k)
                 THEN {Marker(c, k.job, k.exp) :
                          c \in {w \in run.workers : k.job \in Match[run.prof[w]]}}
                 ELSE {})
          /\ run' = [run EXCEPT !.todo = @ \ {k},
                                !.bodies = @ \cup (IF Present(k) THEN {k} ELSE {})]
    BY DEF IndexJob, Step
<1> DEFINE j == k.job
           new == IF Present(k) THEN {Marker(c, j, k.exp) : c \in {w \in run.workers : j \in Match[run.prof[w]]}}
                  ELSE {}
           bodies == run.bodies \cup (IF Present(k) THEN {k} ELSE {})
           r == [run EXCEPT !.todo = @ \ {k}, !.bodies = bodies]
<1>0. k \in run.avail /\ k \in Keys /\ k = Key(j, entry[j].exp) /\ j \in Jobs /\ k.exp = entry[j].exp /\ k.exp \in Times
      /\ entry[j].at # "none" /\ bodies \subseteq Keys
    <2>1. k \in run.avail /\ k \in Keys
        BY <1>p, <1>t DEF EInv, Listings
    <2>2. k.exp = entry[j].exp
        BY <2>1 DEF EInv, Listings
    <2>3. entry[j].at # "none"
        BY <2>1, KeyIs DEF EInv, Unborn
    <2> QED BY <1>t, <2>1, <2>2, <2>3, KeyIs
<1> HIDE DEF bodies
<1>1. r \in Runs /\ r.pc = "index" /\ r.t = run.t /\ r.captured = run.captured /\ r.avail = run.avail
      /\ r.leased = run.leased /\ r.gone = run.gone /\ r.missed = run.missed /\ r.workers = run.workers
      /\ r.prof = run.prof /\ r.joined = run.joined /\ r.todo = run.todo \ {k}
    BY <1>t, <1>p, <1>0 DEF Runs
<1>2. run' = r /\ eligible' = eligible \cup new
      /\ UNCHANGED <<now, entry, indexed, seen, candidates, flags, jobFlags, profile, workers,
                     claim, patch, overlooked>>
    BY <1>k DEF IndexJob, QueueAlone, queue, debts, roster, requests, bodies
<1> HIDE DEF r
<1>3. \A m \in new : /\ m.job = j /\ m \in Markers /\ m.client \in run.workers
                     /\ j \in Match[run.prof[m.client]]
    <2>1. \A c \in Clients : Marker(c, j, k.exp) \in Markers
        BY <1>0 DEF Marker, Markers
    <2> QED BY SMT, <1>t, <2>1, MarkerIs
<1> HIDE DEF new, j
<1>4. Typed'
    BY <1>t, <1>1, <1>2, <1>3, TypedNext DEF Shape, Named
<1>5. /\ Answered = seen /\ \A c, i : Excused(c, i) <=> c \notin run.workers
      /\ Answered' = seen /\ \A c, i : Excused(c, i)' <=> c \notin run.workers
    BY <1>1, <1>2, <1>p, IndexAnswers, IndexAnswersNext
<1>6. \A i : /\ Alive(i)' <=> Alive(i)
             /\ Late(i)' <=> Late(i)
    BY <1>2 DEF Alive, Late
<1>7. \A i : i # j /\ Fresh(i) => Fresh(i)'
    BY SMT, <1>2, <1>3 DEF Fresh, ClaimOn
<1>8. ASSUME NEW c, NEW i, Served(c, i) PROVE Served(c, i)'
    <2>1. Marked(c, i) => Marked(c, i)'
        BY <1>2, <1>6 DEF Marked, Matches, Offered, Flagged
    <2> QED BY <1>2, <1>5, <1>8, <2>1 DEF Served
<1>9. ASSUME NEW c \in seen, Alive(j) PROVE Served(c, j)'
    <2>1. CASE c \notin run.workers
        BY <1>5, <2>1 DEF Served
    <2>2. CASE c \in run.workers /\ Present(k)
        <3>1. profile[c] = run.prof[c] \/ Flagged(c)
            BY <1>p, <1>t DEF EInv, Records
        <3>2. ASSUME profile[c] = run.prof[c], Matches(c, j) PROVE Offered(c, j)'
            BY <1>0, <1>2, <2>2, <3>2 DEF Offered, Matches, new, j
        <3>3. Flagged(c) <=> Flagged(c)'
            BY <1>2 DEF Flagged
        <3>4. Matches(c, j)' <=> Matches(c, j)
            BY <1>2 DEF Matches
        <3> QED BY <3>1, <3>2, <3>3, <3>4 DEF Served, Marked
    <2>3. CASE ~ Present(k)
        <3>1. entry[j].at # "avail"
            BY <1>0, <2>3 DEF Present, AvailAt, j
        <3>2. ~ Fresh(j)
            BY <1>0, <3>1 DEF Fresh
        <3> QED BY <1>0, <1>5, <1>8, <1>9, <3>2 DEF EInv, NoneMissing
    <2> QED BY <2>1, <2>2, <2>3
<1>10. NoneMissing'
    BY <1>5, <1>6, <1>7, <1>8, <1>9 DEF EInv, NoneMissing
<1>11. NoneWrong'
    <2>1. ASSUME NEW m \in eligible' PROVE m.job \in Match[profile'[m.client]] \/ Flagged(m.client)'
        <3>1. CASE m \in eligible
            BY <1>2, <3>1 DEF EInv, NoneWrong, Flagged
        <3>2. CASE m \in new
            <4>1. profile[m.client] = run.prof[m.client] \/ Flagged(m.client)
                BY <1>p, <1>t, <1>3, <3>2 DEF EInv, Records
            <4> QED BY <1>2, <1>3, <3>2, <4>1 DEF Flagged
        <3> QED BY <1>2, <2>1, <3>1, <3>2
    <2> QED BY <2>1 DEF NoneWrong, Flagged
<1>12. Unborn'
    BY <1>0, <1>1, <1>2, <1>7 DEF EInv, Unborn
<1>13. Listings'
    <2>1. j \in JobsOf(run.avail \cup run.leased)
        BY <1>0 DEF JobsOf, j
    <2> QED BY <1>p, <1>1, <1>2, <1>6, <1>7, <2>1 DEF EInv, Listings
<1>14. Indexing'
    <2>1. \A q \in run.leased, c \in seen : Alive(q.job)' => Served(c, q.job)'
        BY <1>p, <1>5, <1>6, <1>8 DEF EInv, Indexing
    <2>2. ASSUME NEW q \in run.avail \ r.todo, NEW c \in seen, Alive(q.job)' PROVE Served(c, q.job)'
        <3>1. CASE q = k
            BY <1>6, <1>9, <2>2, <3>1 DEF j
        <3>2. CASE q # k
            BY <1>p, <1>1, <1>5, <1>6, <1>8, <2>2, <3>2 DEF EInv, Indexing
        <3> QED BY <3>1, <3>2
    <2>3. r.pc \notin (Tracked \cup Settling) \ {"index"}
        BY <1>1 DEF Tracked, Settling
    <2>4. run.joined = run.workers \ seen
        BY <1>p DEF EInv, Indexing
    <2> QED BY <1>1, <1>2, <1>5, <2>1, <2>2, <2>3, <2>4 DEF Indexing
<1>15. Records'
    BY <1>p, <1>1, <1>2 DEF EInv, Records, Rebuilding, Flagged
<1> QED BY <1>1, <1>2, <1>4, <1>10, <1>11, <1>12, <1>13, <1>14, <1>15, IndexRest DEF EInv

\* write_eligible_indexed: every key written has been offered.
LEMMA WriteIndexedKeeps ==
    ASSUME Typed, EInv, WriteEligibleIndexed
    PROVE  Typed' /\ EInv'
<1>t. /\ Shape /\ Named /\ run \in Runs /\ seen \subseteq Clients
      /\ run.avail \subseteq Keys /\ run.leased \subseteq Keys
    BY TypedAs DEF Shape, Runs
<1> DEFINE r == [run EXCEPT !.pc = "flags"]
<1>1. r \in Runs /\ r.pc = "flags" /\ r.t = run.t /\ r.captured = run.captured /\ r.avail = run.avail
      /\ r.leased = run.leased /\ r.gone = run.gone /\ r.missed = run.missed /\ r.workers = run.workers
      /\ r.joined = run.joined
    BY <1>t DEF Runs, RunLabels
<1>2. run' = r /\ indexed' = run.avail \cup run.leased /\ run.pc = "index" /\ run.pc \in Listed /\ run.todo = {}
      /\ UNCHANGED <<now, entry, eligible, seen, candidates, flags, jobFlags, profile, workers,
                     claim, patch, overlooked>>
    BY DEF WriteEligibleIndexed, QueueAlone, Goto, Step, At, Listed, queue, debts, roster, requests
<1> HIDE DEF r
<1>3. Typed'
    BY <1>t, <1>1, <1>2, TypedNext DEF Shape, Named
<1>4. /\ Answered = seen /\ \A c, i : Excused(c, i) <=> c \notin run.workers
      /\ Answered' = seen /\ \A c, i : Excused(c, i)' <=> c \notin run.workers
    BY <1>1, <1>2, IndexAnswers, IndexAnswersNext
<1>5. \A c, i : /\ Alive(i)' <=> Alive(i)
                /\ Late(i)' <=> Late(i)
                /\ Marked(c, i)' <=> Marked(c, i)
    BY <1>2 DEF Alive, Late, Marked, Matches, Offered, Flagged
<1>6. \A c, i : Served(c, i)' <=> Served(c, i)
    BY <1>2, <1>4, <1>5 DEF Served
<1>7. \A j \in Jobs : Fresh(j) /\ j \notin JobsOf(run.avail \cup run.leased) => Fresh(j)'
    <2>1. \A j, e : Key(j, e).job = j
        BY DEF Key
    <2> QED BY <1>2, <2>1 DEF Fresh, ClaimOn, JobsOf
<1>8. \A k \in run.avail \cup run.leased, c \in seen : Alive(k.job) => Served(c, k.job)
    BY <1>2, <1>4 DEF EInv, Indexing
<1>9. \A j \in JobsOf(run.avail \cup run.leased), c \in seen : Alive(j) => Served(c, j)
    BY <1>8 DEF JobsOf
<1>10. NoneMissing'
    BY <1>4, <1>5, <1>6, <1>7, <1>9 DEF EInv, NoneMissing
<1>11. NoneWrong'
    BY <1>2 DEF EInv, NoneWrong, Flagged
<1>12. Unborn'
    BY <1>1, <1>2, <1>7 DEF EInv, Unborn, JobsOf
<1>13. Listings'
    BY <1>1, <1>2, <1>5, <1>7 DEF EInv, Listings
<1>14. Indexing'
    <2>1. run.joined = run.workers \ seen
        BY <1>2 DEF EInv, Indexing
    <2> QED BY <1>1, <1>2, <2>1 DEF Indexing
<1> QED BY <1>1, <1>2, <1>3, <1>10, <1>11, <1>12, <1>13, <1>14, IndexRest DEF EInv

-----------------------------------------------------------------------------
(* The rebuild of the flagged clients and of the new workers. *)

\* In the rebuild pass, the workers that left are excused.
LEMMA RebuildExcuses ==
    ASSUME run.pc \in {"client", "rebuild", "unflag"}
    PROVE  \A c, j : Excused(c, j) <=> c \notin run.workers
BY DEF Tracked, Excused, At

\* The same in the next state.
LEMMA RebuildExcusesNext ==
    ASSUME run'.pc \in {"client", "rebuild", "unflag"}
    PROVE  \A c, j : Excused(c, j)' <=> c \notin run'.workers
BY DEF Tracked, Excused, At

\* What a step of the rebuild pass has to keep, besides the rebuild itself.
LEMMA RebuildPass ==
    ASSUME Typed, EInv, run.pc \in {"flags", "client", "rebuild", "unflag"},
           run'.pc \in {"client", "rebuild", "unflag"},
           UNCHANGED <<now, entry, indexed, seen, profile, claim, patch>>,
           run'.t = run.t, run'.avail = run.avail, run'.leased = run.leased, run'.gone = run.gone,
           run'.missed = run.missed,
           run'.pc = "rebuild" => run'.todo \subseteq run.avail,
           \A j \in Jobs : Fresh(j) => Fresh(j)',
           NoneWrong', NoneMissing', Rebuild',
           run'.pc \in Rebuilding =>
               \/ profile[run'.c] = run'.prof[run'.c]
               \/ patch[run'.c] = "flag" \/ flags'[run'.c] \ run'.captured[run'.c] # {}
    PROVE  EInv'
<1>1. /\ run.pc \in Listed /\ run.pc \in (Tracked \cup Settling) \ {"index"}
      /\ run'.pc \notin {"expire", "flag job", "workers", "index"} /\ run'.pc # "index"
      /\ run'.pc \notin {"index", "flags"} /\ run'.pc \notin {"index", "settle", "unflag job"}
      /\ run'.pc \notin Settling /\ run'.pc # "unflag job"
    BY DEF Listed, Tracked, Settling
<1>2. Unborn'
    BY DEF EInv, Unborn
<1>3. Listings'
    BY <1>1 DEF EInv, Listings, Alive, Late
<1>4. Indexing'
    BY <1>1 DEF EInv, Indexing
<1>5. Records'
    BY <1>1 DEF Records
<1>6. Settle'
    BY <1>1 DEF Settle
<1> QED BY <1>2, <1>3, <1>4, <1>5, <1>6 DEF EInv

\* reindex_flagged_clients: every client that it will not rebuild is on record, and
\* the leased jobs are flagged if it rebuilds any.
LEMMA ListPendingKeeps ==
    ASSUME Typed, EInv, ListPendingReindex
    PROVE  Typed' /\ EInv'
<1>t. /\ Shape /\ Named /\ run \in Runs /\ seen \subseteq Clients
      /\ run.leased \subseteq Keys /\ flags \in [Clients -> SUBSET Nat] /\ run.joined \subseteq Clients
    BY TypedAs DEF Shape, Runs
<1> DEFINE due == run.joined \cup {c \in Clients : flags[c] # {}}
           r == [run EXCEPT !.pc = "client", !.captured = flags, !.clients = due, !.joined = {}]
           owed == IF due \cap run.workers # {} THEN JobsOf(run.leased) ELSE {}
<1>0. due \subseteq Clients /\ owed \subseteq Jobs
    BY <1>t DEF JobsOf, Keys
<1>1. r \in Runs /\ r.pc = "client" /\ r.t = run.t /\ r.captured = flags /\ r.avail = run.avail
      /\ r.leased = run.leased /\ r.gone = run.gone /\ r.missed = run.missed /\ r.workers = run.workers
      /\ r.clients = due
    <2> HIDE DEF due
    <2> QED BY <1>0, <1>t DEF Runs, RunLabels
<1>2. run' = r /\ run.pc = "flags" /\ jobFlags' = jobFlags \cup owed
      /\ UNCHANGED <<now, entry, eligible, indexed, seen, candidates, flags, profile, workers,
                     claim, patch, overlooked>>
    BY DEF ListPendingReindex, Step, At, queue, index, roster, requests
<1> HIDE DEF r
<1>3. Typed'
    <2>1. Named'
        BY <1>t, <1>1, <1>2 DEF Named
    <2>2. Shape'
        <3> HIDE DEF owed, due
        <3> QED BY <1>t, <1>0, <1>1, <1>2 DEF Shape
    <2> QED BY <2>1, <2>2, TypedNext
<1>4. run.joined = run.workers \ seen
    BY <1>2 DEF EInv, Indexing
<1>5. Answered = seen /\ Answered' = seen
    <2>1. Answered = seen
        BY <1>2, IndexAnswers
    <2>2. r.pc \in {"client"} \cup Rebuilding /\ r.pc \notin Rebuilding
        BY <1>1 DEF Rebuilding
    <2>3. Answered' = seen \cup (run.workers \ due)
        <3> HIDE DEF due
        <3> QED BY <1>1, <1>2, <2>2 DEF Answered
    <2> QED BY <1>4, <2>1, <2>3
<1>6. \A c, j : Excused(c, j)' <=> Excused(c, j)
    BY <1>1, <1>2, IndexAnswers, RebuildExcusesNext
<1>7. \A c, j : /\ Alive(j)' <=> Alive(j)
                /\ Marked(c, j)' <=> Marked(c, j)
                /\ Fresh(j)' <=> Fresh(j)
    BY <1>2 DEF Alive, Marked, Matches, Offered, Late, Flagged, Fresh, ClaimOn
<1>8. \A c, j : Served(c, j) => Served(c, j)'
    BY <1>2, <1>6, <1>7 DEF Served
<1>9. NoneMissing'
    BY <1>5, <1>7, <1>8 DEF EInv, NoneMissing
<1>10. NoneWrong'
    BY <1>2 DEF EInv, NoneWrong, Flagged
<1>11. Rebuild'
    <2>1. r.pc \notin Rebuilding
        BY <1>1 DEF Rebuilding
    <2>2. \A c \in due : flags[c] # {} \/ c \notin seen
        BY <1>4
    <2>3. due \cap run.workers # {} => \A k \in run.leased : k.job \in jobFlags'
        BY <1>2 DEF JobsOf
    <2> HIDE DEF due
    <2> QED BY <1>1, <1>2, <2>1, <2>2, <2>3 DEF Rebuild
<1> QED
    <2> HIDE DEF due
    <2>1. run'.pc \notin Rebuilding
        BY <1>1, <1>2 DEF Rebuilding
    <2> QED BY <1>1, <1>2, <1>3, <1>7, <1>9, <1>10, <1>11, <2>1, RebuildPass

\* A client's partition goes while its flag is up, or before it is on record.
LEMMA DeleteEligibleKeeps ==
    ASSUME Typed, EInv, DeleteEligibleForClient
    PROVE  Typed' /\ EInv'
<1>t. /\ Shape /\ Named /\ run \in Runs /\ seen \subseteq Clients /\ run.missed \subseteq Jobs
      /\ run.clients \subseteq Clients /\ profile \in [Clients -> Profiles] /\ run.avail \subseteq Keys
      /\ run.prof \in [Clients -> Profiles]
    BY TypedAs DEF Shape, Runs
<1>p. run.pc = "client"
    BY DEF DeleteEligibleForClient, At
<1>c. PICK c \in run.clients :
          /\ eligible' = eligible \ Partition(c)
          /\ run' = [run EXCEPT !.pc = IF c \in run.workers THEN "rebuild" ELSE "unflag",
                                !.c = c, !.prof[c] = profile[c], !.todo = run.avail,
                                !.clients = @ \ {c}]
          /\ overlooked' = overlooked \cup ({c} \X run.missed)
    BY DEF DeleteEligibleForClient, Step
<1> DEFINE label == IF c \in run.workers THEN "rebuild" ELSE "unflag"
           prof == [run.prof EXCEPT ![c] = profile[c]]
           r == [run EXCEPT !.pc = label, !.c = c, !.prof = prof, !.todo = run.avail, !.clients = @ \ {c}]
<1>0. label \in {"rebuild", "unflag"} /\ (c \in run.workers <=> label = "rebuild")
      /\ prof \in [Clients -> Profiles] /\ prof[c] = profile[c] /\ c \in Clients
    BY <1>t
<1>1. r = [run EXCEPT !.pc = IF c \in run.workers THEN "rebuild" ELSE "unflag",
                      !.c = c, !.prof[c] = profile[c], !.todo = run.avail, !.clients = @ \ {c}]
    BY <1>t DEF Runs
<1> HIDE DEF label, prof
<1>2. r \in Runs /\ r.pc = label /\ r.t = run.t /\ r.captured = run.captured /\ r.avail = run.avail
      /\ r.leased = run.leased /\ r.gone = run.gone /\ r.missed = run.missed /\ r.workers = run.workers
      /\ r.clients = run.clients \ {c} /\ r.c = c /\ r.prof = prof /\ r.todo = run.avail
    BY <1>0, <1>t DEF Runs, RunLabels
<1>3. run' = r
    BY <1>c, <1>1
<1>u. UNCHANGED <<now, entry, indexed, seen, candidates, flags, jobFlags, profile, workers, claim, patch>>
    BY DEF DeleteEligibleForClient, queue, debts, roster, requests
<1> HIDE DEF r
<1>4. Typed'
    <2>1. {c} \X run.missed \subseteq Clients \X Jobs
        BY <1>0, <1>t
    <2>2. overlooked' \subseteq Clients \X Jobs
        BY <1>c, <1>t, <2>1 DEF Shape
    <2> QED BY <1>t, <1>c, <1>2, <1>3, <1>u, <2>2, TypedNext DEF Shape, Named
<1>5. Answered' = Answered
    <2>1. r.pc \in Rebuilding /\ run.pc \notin Rebuilding
        BY <1>0, <1>2, <1>p DEF Rebuilding
    <2>2. Answered' = seen \cup (run.workers \ ((run.clients \ {c}) \cup {c}))
        BY <1>2, <1>3, <1>u, <2>1 DEF Answered
    <2>3. Answered = seen \cup (run.workers \ run.clients)
        BY <1>p, <2>1 DEF Answered
    <2> QED BY <2>2, <2>3
<1>6. \A d, j : Excused(d, j)' <=> Excused(d, j)
    BY <1>0, <1>2, <1>3, <1>p, RebuildExcuses, RebuildExcusesNext
<1>7. \A d, j : /\ Alive(j)' <=> Alive(j)
                /\ Late(j)' <=> Late(j)
                /\ Flagged(d)' <=> Flagged(d)
                /\ Fresh(j) => Fresh(j)'
    BY <1>c, <1>u DEF Alive, Late, Flagged, Fresh, ClaimOn
<1>8. c \in Answered => flags[c] # {}
    BY <1>p DEF EInv, Rebuild, Answered, Rebuilding
<1>9. ASSUME NEW d \in Answered, NEW j, Served(d, j) PROVE Served(d, j)'
    <2>1. CASE d = c
        BY <1>7, <1>8, <1>9, <2>1 DEF Served, Marked, Flagged
    <2>2. CASE d # c
        <3>1. Offered(d, j) => Offered(d, j)'
            BY SMT, <1>c, <1>u, <2>2, MarkerIs DEF Offered, Partition
        <3>2. Marked(d, j) => Marked(d, j)'
            BY <1>c, <1>u, <1>7, <3>1 DEF Marked, Matches
        <3> QED BY <1>6, <1>9, <1>u, <3>2 DEF Served
    <2> QED BY <2>1, <2>2
<1>10. NoneMissing'
    BY <1>5, <1>7, <1>9 DEF EInv, NoneMissing
<1>11. NoneWrong'
    BY <1>c, <1>u, <1>7 DEF EInv, NoneWrong
<1>12. Rebuild'
    <2>1. /\ \A d \in run.clients \ {c} : flags[d] # {} \/ d \notin seen
          /\ flags[c] # {} \/ c \notin seen
          /\ run.clients \cap run.workers # {} => \A k \in run.leased : k.job \in jobFlags
        BY <1>p DEF EInv, Rebuild
    <2>2. \A m \in eligible' : m.client # c
        BY <1>c DEF Partition
    <2>3. ASSUME c \in run.workers, NEW j \in Jobs, Alive(j)
          PROVE  \/ Late(j)' \/ <<c, j>> \in overlooked' \/ j \in jobFlags \/ Fresh(j)'
                 \/ label = "rebuild" /\ j \in JobsOf(run.avail)
        <3>1. \/ j \in JobsOf(run.avail \cup run.leased) \/ j \in run.missed
              \/ Late(j) \/ Fresh(j)
            BY <1>p, <2>3 DEF EInv, Listings, Listed
        <3>2. CASE j \in JobsOf(run.avail)
            BY <1>0, <2>3, <3>2
        <3>3. CASE j \in JobsOf(run.leased)
            BY <2>1, <2>3, <3>3 DEF JobsOf
        <3>4. CASE j \in run.missed
            BY <1>c, <3>4
        <3>5. JobsOf(run.avail \cup run.leased) = JobsOf(run.avail) \cup JobsOf(run.leased)
            BY DEF JobsOf
        <3> QED BY <1>7, <3>1, <3>2, <3>3, <3>4, <3>5
    <2>4. (run.clients \ {c}) \cap run.workers # {} => run.clients \cap run.workers # {}
        OBVIOUS
    <2> QED BY <1>0, <1>2, <1>3, <1>7, <1>u, <2>1, <2>2, <2>3, <2>4 DEF Rebuild
<1>13. profile[r.c] = r.prof[r.c]
    BY <1>0, <1>2
<1> QED BY <1>0, <1>2, <1>3, <1>4, <1>7, <1>10, <1>11, <1>12, <1>13, <1>p, <1>u, RebuildPass

\* The client is offered the key's job; a key that is gone leaves a flag of its job.
LEMMA RebuildKeyKeeps ==
    ASSUME Typed, EInv, RebuildKey
    PROVE  Typed' /\ EInv'
<1>t. /\ Shape /\ Named /\ run \in Runs /\ run.c \in Clients
      /\ run.avail \subseteq Keys /\ run.todo \subseteq Keys /\ run.bodies \subseteq Keys
    BY TypedAs DEF Shape, Runs
<1>p. run.pc = "rebuild" /\ run.pc \in Listed /\ run.pc \in Rebuilding
      /\ run.pc \in (Tracked \cup Settling) \ {"index"}
    BY DEF RebuildKey, At, Listed, Rebuilding, Tracked
<1>k. PICK k \in run.todo :
          /\ eligible' = eligible \cup
                (IF Present(k) /\ k.job \in Match[run.prof[run.c]]
                 THEN {Marker(run.c, k.job, k.exp)} ELSE {})
          /\ jobFlags' = jobFlags \cup (IF Present(k) THEN {} ELSE {k.job})
          /\ run' = [run EXCEPT !.todo = @ \ {k},
                                !.bodies = @ \cup (IF Present(k) THEN {k} ELSE {})]
    BY DEF RebuildKey, Step
<1>c. PICK c \in Clients : c = run.c
    BY <1>t
<1> DEFINE j == k.job
           new == IF Present(k) /\ j \in Match[run.prof[c]] THEN {Marker(c, j, k.exp)} ELSE {}
           bodies == run.bodies \cup (IF Present(k) THEN {k} ELSE {})
           r == [run EXCEPT !.todo = @ \ {k}, !.bodies = bodies]
<1>0. k \in run.avail /\ k \in Keys /\ k = Key(j, entry[j].exp) /\ j \in Jobs /\ k.exp = entry[j].exp /\ k.exp \in Times
      /\ bodies \subseteq Keys
    <2>1. k \in run.avail /\ k \in Keys
        BY <1>p, <1>t DEF EInv, Listings
    <2>2. k.exp = entry[j].exp
        BY <2>1 DEF EInv, Listings
    <2> QED BY <1>t, <2>1, <2>2, KeyIs
<1> HIDE DEF bodies
<1>1. r \in Runs /\ r.pc = "rebuild" /\ r.t = run.t /\ r.captured = run.captured /\ r.avail = run.avail
      /\ r.leased = run.leased /\ r.gone = run.gone /\ r.missed = run.missed /\ r.workers = run.workers
      /\ r.prof = run.prof /\ r.clients = run.clients /\ r.c = run.c /\ r.todo = run.todo \ {k}
    BY <1>t, <1>p, <1>0 DEF Runs
<1>2. run' = r /\ eligible' = eligible \cup new /\ jobFlags' = jobFlags \cup (IF Present(k) THEN {} ELSE {j})
      /\ UNCHANGED <<now, entry, indexed, seen, candidates, flags, profile, workers,
                     claim, patch, overlooked>>
    BY <1>k, <1>c DEF RebuildKey, queue, roster, requests, bodies
<1> HIDE DEF r
<1>3. \A m \in new : /\ m.job = j /\ m \in Markers /\ m.client = c /\ j \in Match[run.prof[c]]
    <2>1. Marker(c, j, k.exp) \in Markers
        BY <1>0, <1>t DEF Marker, Markers
    <2> QED BY SMT, <1>t, <2>1, MarkerIs
<1>n. Present(k) => (j \in Match[run.prof[c]] => Offered(c, j)')
    BY <1>0, <1>2 DEF Offered
<1> HIDE DEF new, j
<1>4. Typed'
    BY <1>t, <1>0, <1>1, <1>2, <1>3, TypedNext DEF Shape, Named
<1>5. Answered' = Answered
    BY <1>1, <1>2, <1>p DEF Answered
<1>6. \A d, i : Excused(d, i)' <=> Excused(d, i)
    BY <1>1, <1>2, <1>p, RebuildExcuses, RebuildExcusesNext
<1>f. ~ Fresh(j)
    BY <1>0, <1>p DEF Fresh, EInv, Indexing
<1>7. \A d, i : /\ Alive(i)' <=> Alive(i)
                /\ Late(i)' <=> Late(i)
                /\ Offered(d, i) => Offered(d, i)'
                /\ Flagged(d)' <=> Flagged(d)
                /\ Fresh(i) => Fresh(i)'
    BY <1>2, <1>3, <1>f DEF Alive, Late, Flagged, Fresh, ClaimOn, Offered
<1>8. \A d, i : Served(d, i) => Served(d, i)'
    BY <1>2, <1>6, <1>7 DEF Served, Marked, Matches
<1>9. NoneMissing'
    BY <1>5, <1>7, <1>8 DEF EInv, NoneMissing
<1>10. NoneWrong'
    <2>1. profile[c] = run.prof[c] \/ Flagged(c)
        BY <1>c, <1>p DEF EInv, Records, Flagged
    <2> QED BY <1>2, <1>3, <1>7, <2>1 DEF EInv, NoneWrong
<1>11. Rebuild'
    <2>1. /\ \A d \in run.clients : flags[d] # {} \/ d \notin seen
          /\ run.clients \cap run.workers # {} => \A q \in run.leased : q.job \in jobFlags'
          /\ c \notin run.clients
          /\ flags[c] # {} \/ c \notin seen
        BY <1>c, <1>p, <1>2 DEF EInv, Rebuild
    <2>2. \A m \in eligible' : m.client = c => m.job \in Match[run.prof[c]]
        BY <1>c, <1>p, <1>2, <1>3 DEF EInv, Rebuild
    <2>3. ASSUME c \in run.workers, NEW i \in Jobs, Alive(i)
          PROVE  \/ i \in Match[run.prof[c]] => Offered(c, i)'
                 \/ Late(i)' \/ <<c, i>> \in overlooked \/ i \in jobFlags' \/ Fresh(i)'
                 \/ i \in JobsOf(run.todo \ {k})
        <3>1. \/ i \in Match[run.prof[c]] => Offered(c, i)
              \/ Late(i) \/ <<c, i>> \in overlooked \/ i \in jobFlags \/ Fresh(i)
              \/ i \in JobsOf(run.todo)
            BY <1>c, <1>p, <2>3 DEF EInv, Rebuild
        <3>2. CASE i = j
            BY <1>n, <1>2, <3>2
        <3>3. CASE i # j
            <4>1. i \in JobsOf(run.todo) => i \in JobsOf(run.todo \ {k})
                BY <3>3 DEF JobsOf, j
            <4> QED BY <1>2, <1>7, <3>1, <4>1
        <3> QED BY <3>2, <3>3
    <2> QED BY <1>c, <1>1, <1>2, <1>7, <2>1, <2>2, <2>3 DEF Rebuild
<1>12. \/ profile[c] = run.prof[c]
       \/ patch[c] = "flag" \/ flags[c] \ run.captured[c] # {}
    BY <1>c, <1>p DEF EInv, Records
<1>13. run.todo \ {k} \subseteq run.avail
    BY <1>c, <1>p DEF EInv, Listings
<1> QED BY <1>c, <1>1, <1>2, <1>4, <1>7, <1>9, <1>10, <1>11, <1>12, <1>13, <1>p, RebuildPass

\* The record is read again: if it changed, a flag that the rebuild did not capture is up.
LEMMA RecheckKeeps ==
    ASSUME Typed, EInv, RecheckClient
    PROVE  Typed' /\ EInv'
<1>t. /\ Shape /\ Named /\ run \in Runs /\ run.c \in Clients
    BY TypedAs DEF Shape, Runs
<1>p. run.pc = "rebuild" /\ run.todo = {} /\ run.pc \in Rebuilding
    BY DEF RecheckClient, At, Rebuilding
<1> DEFINE same == profile[run.c] = run.prof[run.c]
           label == IF same THEN "unflag" ELSE "client"
           r == [run EXCEPT !.pc = label]
<1>0. label \in {"unflag", "client"} /\ (label = "unflag" <=> same) /\ (label \in Rebuilding <=> same)
    BY DEF Rebuilding
<1>1. run' = r
      /\ UNCHANGED <<now, entry, eligible, indexed, seen, candidates, flags, jobFlags, profile, workers,
                     claim, patch, overlooked>>
    BY DEF RecheckClient, Goto, Step, QueueAlone, queue, index, debts, roster, requests
<1> HIDE DEF label, same
<1>2. r \in Runs /\ r.pc = label /\ r.t = run.t /\ r.captured = run.captured /\ r.avail = run.avail
      /\ r.leased = run.leased /\ r.gone = run.gone /\ r.missed = run.missed /\ r.workers = run.workers
      /\ r.prof = run.prof /\ r.clients = run.clients /\ r.c = run.c
    BY <1>t, <1>0 DEF Runs, RunLabels
<1> HIDE DEF r
<1>4. Typed'
    BY <1>t, <1>1, <1>2, TypedNext DEF Shape, Named
<1>5. \A d \in Answered' : d \in Answered \/ (d = run.c /\ ~ same)
    BY <1>0, <1>1, <1>2, <1>p DEF Answered
<1>6. \A d, i : Excused(d, i)' <=> Excused(d, i)
    BY <1>0, <1>1, <1>2, <1>p, RebuildExcuses, RebuildExcusesNext
<1>7. \A d, i : /\ Alive(i)' <=> Alive(i)
                /\ Late(i)' <=> Late(i)
                /\ Offered(d, i) <=> Offered(d, i)'
                /\ Flagged(d)' <=> Flagged(d)
                /\ Marked(d, i)' <=> Marked(d, i)
                /\ Fresh(i) <=> Fresh(i)'
    BY SMT, <1>1 DEF Alive, Late, Flagged, Fresh, ClaimOn, Offered, Marked, Matches
<1>8. \A d, i : Served(d, i) => Served(d, i)'
    BY <1>1, <1>6, <1>7 DEF Served
<1>9. ~ same => Flagged(run.c)
    BY <1>p DEF EInv, Records, Flagged, same
<1>10. NoneMissing'
    <2>1. \A d : d = run.c /\ ~ same => \A i : Served(d, i)'
        BY <1>7, <1>9 DEF Served, Marked
    <2> QED BY <1>5, <1>7, <1>8, <2>1 DEF EInv, NoneMissing
<1>11. NoneWrong'
    BY <1>1, <1>7 DEF EInv, NoneWrong
<1>12. Rebuild'
    <2>1. /\ \A d \in run.clients : flags[d] # {} \/ d \notin seen
          /\ run.clients \cap run.workers # {} => \A q \in run.leased : q.job \in jobFlags
          /\ run.c \notin run.clients
          /\ flags[run.c] # {} \/ run.c \notin seen
          /\ \A m \in eligible : m.client = run.c => m.job \in Match[run.prof[run.c]]
        BY <1>p DEF EInv, Rebuild
    <2>2. run.c \in run.workers => \A i \in Jobs : Alive(i) =>
                \/ i \in Match[run.prof[run.c]] => Offered(run.c, i)
                \/ Late(i) \/ <<run.c, i>> \in overlooked \/ i \in jobFlags \/ Fresh(i)
        BY <1>p DEF EInv, Rebuild, JobsOf
    <2> QED BY <1>1, <1>2, <1>7, <2>1, <2>2 DEF Rebuild
<1>13. label # "rebuild" /\ run'.pc \in {"client", "rebuild", "unflag"}
    BY <1>0, <1>1, <1>2
<1>14. run'.pc \in Rebuilding => profile[run'.c] = run'.prof[run'.c]
    BY <1>0, <1>1, <1>2 DEF same
<1> QED BY <1>1, <1>2, <1>4, <1>7, <1>10, <1>11, <1>12, <1>13, <1>14, <1>p, RebuildPass

\* The captured flags go: the client's markers are those of the record it has, or a
\* flag that was not captured stays.
LEMMA UnflagClientKeeps ==
    ASSUME Typed, EInv, DeletePendingReindex
    PROVE  Typed' /\ EInv'
<1>t. /\ Shape /\ Named /\ run \in Runs /\ run.c \in Clients /\ flags \in [Clients -> SUBSET Nat]
      /\ run.clients \subseteq Clients /\ seen \subseteq Clients /\ eligible \subseteq Markers
      /\ run.workers \subseteq Clients
    BY TypedAs DEF Shape, Runs
<1>p. run.pc = "unflag" /\ run.pc \in Rebuilding
    BY DEF DeletePendingReindex, At, Rebuilding
<1>c. PICK c \in Clients : c = run.c
    BY <1>t
<1> DEFINE r == [run EXCEPT !.pc = "client"]
<1>1. run' = r /\ flags' = [flags EXCEPT ![c] = flags[c] \ run.captured[c]]
      /\ UNCHANGED <<now, entry, eligible, indexed, seen, candidates, jobFlags, profile, workers,
                     claim, patch, overlooked>>
    BY <1>c DEF DeletePendingReindex, Goto, Step, queue, index, roster, requests
<1>2. r \in Runs /\ r.pc = "client" /\ r.t = run.t /\ r.captured = run.captured /\ r.avail = run.avail
      /\ r.leased = run.leased /\ r.gone = run.gone /\ r.missed = run.missed /\ r.workers = run.workers
      /\ r.prof = run.prof /\ r.clients = run.clients /\ r.c = run.c
    BY <1>t DEF Runs, RunLabels
<1> HIDE DEF r
<1>3. /\ flags' \in [Clients -> SUBSET Nat] /\ flags'[c] = flags[c] \ run.captured[c]
      /\ \A d \in Clients : d # c => flags'[d] = flags[d]
    BY <1>1, <1>t
<1>4. Typed'
    <2>1. IsFiniteSet(flags[c])
        BY <1>t DEF Named
    <2>2. IsFiniteSet(flags[c] \ run.captured[c])
        BY <2>1, FS_Subset
    <2>3. Named'
        BY <1>t, <1>1, <1>2, <1>3, <2>2 DEF Named
    <2> QED BY <1>t, <1>1, <1>2, <1>3, <2>3, TypedNext DEF Shape
<1>5. \A d \in Answered' : d \in Clients /\ (d \in Answered \/ (d = c /\ c \in run.workers))
    <2>1. r.pc \notin Rebuilding
        BY <1>2 DEF Rebuilding
    <2> QED BY <1>c, <1>1, <1>2, <1>p, <1>t, <2>1 DEF Answered
<1>6. \A d, i : Excused(d, i)' <=> Excused(d, i)
    BY <1>1, <1>2, <1>p, RebuildExcuses, RebuildExcusesNext
<1>7. \A d, i : /\ Alive(i)' <=> Alive(i)
                /\ Late(i)' <=> Late(i)
                /\ Offered(d, i) <=> Offered(d, i)'
                /\ Matches(d, i) <=> Matches(d, i)'
                /\ Fresh(i) <=> Fresh(i)'
    BY <1>1 DEF Alive, Late, Fresh, ClaimOn, Offered, Matches
<1>8. \A d \in Clients : d # c => (Flagged(d)' <=> Flagged(d))
    BY <1>1, <1>3 DEF Flagged
<1>9. Flagged(c)' \/ profile[c] = run.prof[c]
    BY <1>c, <1>1, <1>3, <1>p DEF EInv, Records, Flagged
<1>10. \A d \in Clients : \A i : d # c /\ Served(d, i) => Served(d, i)'
    BY <1>1, <1>6, <1>7, <1>8 DEF Served, Marked
<1>11. ASSUME NEW i \in Jobs, Alive(i) PROVE Served(c, i)' \/ Fresh(i)'
    <2>1. CASE c \notin run.workers
        BY <1>6, <1>p, <2>1, RebuildExcuses DEF Served
    <2>2. CASE Flagged(c)'
        BY <2>2 DEF Served, Marked
    <2>3. CASE c \in run.workers /\ profile[c] = run.prof[c]
        <3>1. \/ i \in Match[run.prof[c]] => Offered(c, i)
              \/ Late(i) \/ <<c, i>> \in overlooked \/ i \in jobFlags \/ Fresh(i)
            BY <1>c, <1>p, <1>11, <2>3 DEF EInv, Rebuild
        <3>2. Matches(c, i) <=> i \in Match[run.prof[c]]
            BY <2>3 DEF Matches
        <3> QED BY <1>1, <1>7, <3>1, <3>2 DEF Served, Marked
    <2> QED BY <1>9, <2>1, <2>2, <2>3
<1>12. NoneMissing'
    BY <1>5, <1>7, <1>10, <1>11 DEF EInv, NoneMissing
<1>13. NoneWrong'
    <2>1. ASSUME NEW m \in eligible PROVE m.job \in Match[profile[m.client]] \/ Flagged(m.client)'
        <3>1. CASE m.client = c
            BY <1>c, <1>1, <1>9, <1>p, <3>1 DEF EInv, Rebuild
        <3>2. CASE m.client # c
            BY <1>8, <1>t, <3>2 DEF EInv, NoneWrong, Markers
        <3> QED BY <3>1, <3>2
    <2> QED BY <1>1, <2>1 DEF NoneWrong
<1>14. Rebuild'
    <2>1. /\ \A d \in run.clients : flags[d] # {} \/ d \notin seen
          /\ run.clients \cap run.workers # {} => \A q \in run.leased : q.job \in jobFlags
          /\ c \notin run.clients
        BY <1>c, <1>p DEF EInv, Rebuild
    <2>2. \A d \in run.clients : flags'[d] # {} \/ d \notin seen
        BY <1>3, <1>t, <2>1
    <2>3. r.pc \notin Rebuilding
        BY <1>2 DEF Rebuilding
    <2> QED BY <1>1, <1>2, <2>1, <2>2, <2>3 DEF Rebuild
<1>15. run'.pc \notin Rebuilding
    BY <1>1, <1>2 DEF Rebuilding
<1> QED BY <1>1, <1>2, <1>4, <1>7, <1>12, <1>13, <1>14, <1>15, <1>p, RebuildPass

\* write_eligible_workers: the workers it worked from are the ones answered for.
LEMMA WriteWorkersKeeps ==
    ASSUME Typed, EInv, WriteEligibleWorkers
    PROVE  Typed' /\ EInv'
<1>t. /\ Shape /\ Named /\ run \in Runs /\ run.workers \subseteq Clients /\ NoRun.prof \in [Clients -> Profiles]
      /\ Nobody \in [Clients -> SUBSET Nat]
    BY TypedAs, IdleTyped DEF Shape, Runs
<1>p. run.pc = "client" /\ run.clients = {} /\ run.pc \in Listed /\ run.pc \in (Tracked \cup Settling) \ {"index"}
    BY DEF WriteEligibleWorkers, At, Listed, Tracked
<1> DEFINE r == [run EXCEPT !.pc = "jobs", !.captured = Nobody, !.prof = NoRun.prof]
<1>1. run' = r /\ seen' = run.workers
      /\ UNCHANGED <<now, entry, eligible, indexed, candidates, flags, jobFlags, profile, workers,
                     claim, patch, overlooked>>
    BY DEF WriteEligibleWorkers, QueueAlone, Step, queue, debts, roster, requests
<1>2. r \in Runs /\ r.pc = "jobs" /\ r.t = run.t /\ r.captured = Nobody /\ r.avail = run.avail
      /\ r.leased = run.leased /\ r.gone = run.gone /\ r.missed = run.missed /\ r.workers = run.workers
    BY <1>t DEF Runs, RunLabels
<1> HIDE DEF r
<1>3. Typed'
    <2>1. \A c \in Clients : IsFiniteSet(Nobody[c])
        BY FS_EmptySet DEF Nobody
    <2> QED BY <1>t, <1>1, <1>2, <2>1, TypedNext DEF Shape, Named
<1>4. /\ run'.pc \in Listed /\ run'.pc \in (Tracked \cup Settling) \ {"index"}
      /\ run'.pc \notin {"expire", "flag job", "workers", "index"} /\ run'.pc \notin {"index", "rebuild"}
      /\ run'.pc \notin Tracked
      /\ run'.pc # "index" /\ run'.pc # "flag job"
      /\ run'.pc \notin {"index", "flags"} /\ run'.pc \notin {"index", "settle", "unflag job"}
      /\ run'.pc \notin Rebuilding /\ run'.pc \notin {"client"} \cup Rebuilding /\ run'.pc # "unflag job"
    BY <1>1, <1>2 DEF Listed, Tracked, Rebuilding, Settling
<1>5. Answered' = run.workers /\ run.workers \subseteq Answered
    BY <1>1, <1>2, <1>4, <1>p DEF Answered, Rebuilding
<1>6. \A c, j : /\ Alive(j)' <=> Alive(j)
                /\ Marked(c, j)' <=> Marked(c, j)
                /\ Fresh(j)' <=> Fresh(j)
                /\ Late(j)' <=> Late(j)
    BY <1>1 DEF Alive, Marked, Matches, Offered, Late, Flagged, Fresh, ClaimOn
<1>7. \A c \in run.workers : \A j : Served(c, j) => Served(c, j)'
    BY <1>1, <1>6, <1>p, RebuildExcuses DEF Served
<1>8. NoneMissing'
    BY <1>5, <1>6, <1>7 DEF EInv, NoneMissing
<1>9. NoneWrong'
    BY <1>1 DEF EInv, NoneWrong, Flagged
<1>10. Unborn'
    BY <1>1, <1>2, <1>6 DEF EInv, Unborn
<1>11. Listings'
    BY <1>1, <1>2, <1>4, <1>6, <1>p DEF EInv, Listings
<1>12. Indexing'
    BY <1>1, <1>2, <1>4, <1>p DEF EInv, Indexing
<1>13. Records' /\ Rebuild'
    BY <1>4 DEF Records, Rebuild
<1>14. Settle'
    BY <1>1, <1>2, <1>4 DEF Settle
<1> QED BY <1>3, <1>8, <1>9, <1>10, <1>11, <1>12, <1>13, <1>14 DEF EInv

-----------------------------------------------------------------------------
(* The jobs owed a rewrite. *)

\* Once the workers are on record, they are the ones answered for and none is excused.
LEMMA SettlingAnswers ==
    ASSUME run.pc \in Settling
    PROVE  Answered = seen /\ \A c, j : ~ Excused(c, j)
BY DEF Settling, Tracked, Rebuilding, Answered, Excused, At

\* The same in the next state.
LEMMA SettlingAnswersNext ==
    ASSUME run'.pc \in Settling
    PROVE  Answered' = seen' /\ \A c, j : ~ Excused(c, j)'
BY DEF Settling, Tracked, Rebuilding, Answered, Excused, At

\* What a step of the settling pass has to keep.
LEMMA SettlePass ==
    ASSUME Typed, EInv, run.pc \in Settling, run'.pc \in {"settle", "unflag job"},
           UNCHANGED <<now, entry, indexed, seen, profile, claim, patch>>,
           run'.t = run.t, run'.avail = run.avail, run'.leased = run.leased, run'.gone = run.gone,
           run'.missed = run.missed, run'.workers = run.workers,
           \A j \in Jobs : Fresh(j) => Fresh(j)',
           NoneWrong', NoneMissing',
           \A c \in Clients : profile[c] = run'.prof[c] \/ Flagged(c)',
           run'.j \in Jobs,
           run'.pc = "unflag job" => /\ entry[run'.j].at # "none"
                                     /\ \A j \in Jobs, c \in seen : j = run'.j /\ Alive(j) => Marked(c, j)'
    PROVE  EInv'
<1>1. /\ run.pc \in Listed /\ run.pc \in (Tracked \cup Settling) \ {"index"}
      /\ run'.pc \notin {"expire", "flag job", "workers", "index"} /\ run'.pc # "index"
      /\ run'.pc \notin {"index", "flags"} /\ run'.pc \notin {"index", "rebuild"}
      /\ run'.pc \notin Rebuilding /\ run'.pc \notin {"client"} \cup Rebuilding
    BY DEF Listed, Tracked, Settling, Rebuilding
<1>2. Unborn'
    BY DEF EInv, Unborn
<1>3. Listings'
    BY <1>1 DEF EInv, Listings, Alive, Late
<1>4. Indexing'
    BY <1>1 DEF EInv, Indexing
<1>5. Records'
    BY <1>1 DEF Records
<1>6. Rebuild'
    BY <1>1 DEF Rebuild
<1>7. \A j : Alive(j)' <=> Alive(j)
    BY DEF Alive
<1>8. Settle'
    <2>1. seen' = run'.workers
        BY DEF EInv, Settle
    <2>2. ASSUME run'.pc = "unflag job", Alive(run.j)' PROVE \A c \in seen : Marked(c, run.j)'
        <3>1. Alive(run'.j)
            BY <1>7, <2>2
        <3> QED BY <2>2, <3>1
    <2> QED BY <2>1, <2>2 DEF Settle
<1> QED BY <1>2, <1>3, <1>4, <1>5, <1>6, <1>8 DEF EInv

\* settle_pending_reindex_jobs reads the records afresh.
LEMMA ListPendingJobsKeeps ==
    ASSUME Typed, EInv, ListPendingReindexJobs
    PROVE  Typed' /\ EInv'
<1>t. /\ Shape /\ Named /\ run \in Runs /\ profile \in [Clients -> Profiles] /\ jobFlags \subseteq Jobs
    BY TypedAs DEF Shape, Runs
<1> DEFINE r == [run EXCEPT !.pc = "settle", !.jobs = jobFlags, !.prof = profile]
<1>1. run' = r /\ run.pc \in Settling
      /\ UNCHANGED <<now, entry, eligible, indexed, seen, candidates, flags, jobFlags, profile, workers,
                     claim, patch, overlooked>>
    BY DEF ListPendingReindexJobs, QueueAlone, Step, At, Settling, queue, index, debts, roster, requests
<1>2. r \in Runs /\ r.pc = "settle" /\ r.t = run.t /\ r.captured = run.captured /\ r.avail = run.avail
      /\ r.leased = run.leased /\ r.gone = run.gone /\ r.missed = run.missed /\ r.workers = run.workers
      /\ r.prof = profile /\ r.j \in Jobs
    BY <1>t DEF Runs, RunLabels
<1> HIDE DEF r
<1>3. Typed'
    BY <1>t, <1>1, <1>2, TypedNext DEF Shape, Named
<1>4. Answered = seen /\ Answered' = seen /\ \A c, j : ~ Excused(c, j) /\ ~ Excused(c, j)'
    BY <1>1, <1>2, SettlingAnswers, SettlingAnswersNext DEF Settling
<1>5. \A c, j : /\ Alive(j)' <=> Alive(j)
                /\ Marked(c, j)' <=> Marked(c, j)
                /\ Fresh(j)' <=> Fresh(j)
    BY <1>1 DEF Alive, Marked, Matches, Offered, Late, Flagged, Fresh, ClaimOn
<1>6. NoneMissing'
    BY <1>1, <1>4, <1>5 DEF EInv, NoneMissing, Served
<1>7. NoneWrong'
    BY <1>1 DEF EInv, NoneWrong, Flagged
<1> QED BY <1>1, <1>2, <1>3, <1>5, <1>6, <1>7, SettlePass

\* The flag of the job goes: every worker on record is offered it or flagged.
LEMMA UnflagJobKeeps ==
    ASSUME Typed, EInv, DeletePendingReindexJob
    PROVE  Typed' /\ EInv'
<1>t. /\ Shape /\ Named /\ run \in Runs
    BY TypedAs DEF Shape
<1> DEFINE r == [run EXCEPT !.pc = "settle"]
<1>1. run' = r /\ run.pc = "unflag job" /\ run.pc \in Settling /\ jobFlags' = jobFlags \ {run.j}
      /\ UNCHANGED <<now, entry, eligible, indexed, seen, candidates, flags, profile, workers,
                     claim, patch, overlooked>>
    BY DEF DeletePendingReindexJob, Goto, Step, At, Settling, queue, index, roster, requests
<1>2. r \in Runs /\ r.pc = "settle" /\ r.t = run.t /\ r.captured = run.captured /\ r.avail = run.avail
      /\ r.leased = run.leased /\ r.gone = run.gone /\ r.missed = run.missed /\ r.workers = run.workers
      /\ r.prof = run.prof /\ r.j \in Jobs
    BY <1>t DEF Runs, RunLabels
<1> HIDE DEF r
<1>3. Typed'
    BY <1>t, <1>1, <1>2, TypedNext DEF Shape, Named
<1>4. Answered = seen /\ Answered' = seen /\ \A c, j : ~ Excused(c, j) /\ ~ Excused(c, j)'
    BY <1>1, <1>2, SettlingAnswers, SettlingAnswersNext DEF Settling
<1>5. \A c, j : /\ Alive(j)' <=> Alive(j)
                /\ Marked(c, j)' <=> Marked(c, j)
                /\ Fresh(j)' <=> Fresh(j)
                /\ Flagged(c)' <=> Flagged(c)
    <2>1. \A c, j : (Matches(c, j)' <=> Matches(c, j)) /\ (Offered(c, j)' <=> Offered(c, j))
        BY <1>1 DEF Matches, Offered
    <2>2. \A c, j : /\ Alive(j)' <=> Alive(j)
                    /\ Late(j)' <=> Late(j)
                    /\ Flagged(c)' <=> Flagged(c)
        BY <1>1 DEF Alive, Late, Flagged
    <2>3. \A j : Fresh(j)' <=> Fresh(j)
        BY <1>1 DEF Fresh, ClaimOn
    <2>4. \A c, j : Marked(c, j)' <=> Marked(c, j)
        BY <1>1, <2>1, <2>2 DEF Marked
    <2> QED BY <2>2, <2>3, <2>4
<1>6. NoneMissing'
    <2>1. Alive(run.j) => \A c \in seen : Marked(c, run.j)
        BY <1>1 DEF EInv, Settle
    <2> QED BY <1>1, <1>4, <1>5, <2>1 DEF EInv, NoneMissing, Served
<1>7. NoneWrong'
    BY <1>1 DEF EInv, NoneWrong, Flagged
<1>8. \A c \in Clients : profile[c] = run.prof[c] \/ Flagged(c)'
    BY <1>1, <1>5 DEF EInv, Records
<1> QED BY <1>1, <1>2, <1>3, <1>5, <1>6, <1>7, <1>8, SettlePass

\* settle_pending_job: every marker of the job is rewritten from the records, and the
\* flag stays unless they were or the job is finished.
LEMMA SettleJobKeeps ==
    ASSUME Typed, EInv, SettlePendingJob
    PROVE  Typed' /\ EInv'
<1>t. /\ Shape /\ Named /\ run \in Runs /\ run.jobs \subseteq Jobs /\ run.avail \subseteq Keys
      /\ run.workers \subseteq Clients /\ eligible \subseteq Markers /\ seen \subseteq Clients
    BY TypedAs DEF Shape, Runs
<1>p. run.pc = "settle" /\ run.pc \in Settling /\ run.pc \in (Tracked \cup Settling) \ {"index"}
    BY DEF SettlePendingJob, At, Settling
<1> DEFINE key(j) == {k \in run.avail : k.job = j}
           wanted(j) == {Marker(c, k.job, k.exp) : k \in key(j), c \in {w \in run.workers : j \in Match[run.prof[w]]}}
           all(j) == {Marker(c, k.job, k.exp) : k \in key(j), c \in Clients}
           there(j) == \E k \in key(j) : Present(k)
           over(j) == there(j) \/ (key(j) = {} /\ entry[j].at = "done")
<1>j. PICK j \in run.jobs :
          /\ eligible' = IF there(j) THEN (eligible \ all(j)) \cup wanted(j) ELSE eligible
          /\ run' = [run EXCEPT !.jobs = @ \ {j}, !.j = j,
                                !.pc = IF over(j) THEN "unflag job" ELSE "settle"]
    BY PTL DEF SettlePendingJob, Step
<1> DEFINE label == IF over(j) THEN "unflag job" ELSE "settle"
           r == [run EXCEPT !.jobs = @ \ {j}, !.j = j, !.pc = label]
<1>0. j \in Jobs /\ label \in {"unflag job", "settle"} /\ (label = "unflag job" <=> over(j))
    BY <1>t
<1>u. UNCHANGED <<now, entry, indexed, seen, candidates, flags, jobFlags, profile, workers,
                  claim, patch, overlooked>>
    BY DEF SettlePendingJob, QueueAlone, queue, debts, roster, requests
<1>1. run' = r
    BY <1>j
<1>k. \A k \in key(j) : /\ k \in Keys /\ k.job = j /\ k.exp = entry[j].exp /\ k.exp \in Times
                        /\ k = Key(j, entry[j].exp)
    BY SMT, <1>t, KeyIs DEF EInv, Listings
<1>2. \A m \in wanted(j) : /\ m \in Markers /\ m.job = j /\ m.client \in run.workers
                           /\ j \in Match[run.prof[m.client]]
    <2>1. \A c \in Clients, k \in key(j) : Marker(c, k.job, k.exp) \in Markers
        BY <1>k, <1>0 DEF Marker, Markers
    <2> HIDE DEF key
    <2> QED BY SMT, <1>t, <1>k, <2>1, MarkerIs
<1>3. \A m \in all(j) : m.job = j
    <2> HIDE DEF key
    <2> QED BY SMT, <1>k, MarkerIs
<1>4. \A c \in run.workers : there(j) /\ j \in Match[run.prof[c]] => Marker(c, j, entry[j].exp) \in wanted(j)
    <2> SUFFICES ASSUME NEW c \in run.workers, there(j), j \in Match[run.prof[c]]
                 PROVE  Marker(c, j, entry[j].exp) \in wanted(j)
        BY SMT
    <2>1. PICK k \in key(j) : Present(k)
        OBVIOUS
    <2>2. k.job = j /\ k.exp = entry[j].exp
        BY <1>k
    <2>3. Marker(c, k.job, k.exp) \in wanted(j)
        <3> HIDE DEF key
        <3> QED BY SMT
    <2> QED BY SMT, <2>2, <2>3
<1>5. there(j) => ~ Fresh(j) /\ entry[j].at # "none"
    <2> SUFFICES ASSUME there(j) PROVE ~ Fresh(j) /\ entry[j].at # "none"
        OBVIOUS
    <2>1. PICK k \in key(j) : Present(k)
        OBVIOUS
    <2>2. k \in indexed
        BY <1>p DEF EInv, Indexing
    <2>3. ~ Fresh(j)
        BY <1>k, <2>2 DEF Fresh
    <2> QED BY <1>0, <2>3 DEF EInv, Unborn
<1>6. over(j) => there(j) \/ entry[j].at = "done"
    OBVIOUS
<1>7. ~ there(j) => eligible' = eligible
    BY SMT, <1>j
<1>8. there(j) => eligible' = (eligible \ all(j)) \cup wanted(j)
    BY SMT, <1>j
<1> HIDE DEF key, wanted, all, there, over, label
<1>9. r \in Runs /\ r.pc = label /\ r.t = run.t /\ r.captured = run.captured /\ r.avail = run.avail
      /\ r.leased = run.leased /\ r.gone = run.gone /\ r.missed = run.missed /\ r.workers = run.workers
      /\ r.prof = run.prof /\ r.j = j
    BY <1>t, <1>0 DEF Runs, RunLabels
<1> HIDE DEF r
<1>10. Typed'
    BY <1>t, <1>1, <1>2, <1>7, <1>8, <1>9, <1>u, TypedNext DEF Shape, Named
<1>11. Answered = seen /\ Answered' = seen /\ \A c, i : ~ Excused(c, i) /\ ~ Excused(c, i)'
    BY <1>0, <1>1, <1>9, <1>p, <1>u, SettlingAnswers, SettlingAnswersNext DEF Settling
<1>12. \A c, i : /\ Alive(i)' <=> Alive(i)
                 /\ Late(i)' <=> Late(i)
                 /\ Flagged(c)' <=> Flagged(c)
                 /\ Matches(c, i)' <=> Matches(c, i)
    BY <1>u DEF Alive, Late, Flagged, Matches
<1>13. \A c, i : i # j => /\ Fresh(i) => Fresh(i)'
                          /\ Offered(c, i)' <=> Offered(c, i)
    BY SMT, <1>u, <1>2, <1>3, <1>7, <1>8, MarkerIs DEF Fresh, ClaimOn, Offered
<1>14. \A c \in Clients : profile[c] = run.prof[c] \/ Flagged(c)
    BY <1>p DEF EInv, Records
<1>15. there(j) => \A c \in seen : Marked(c, j)'
    <2> SUFFICES ASSUME there(j), NEW c \in seen PROVE Marked(c, j)'
        OBVIOUS
    <2>1. c \in run.workers /\ c \in Clients
        BY <1>p, <1>t DEF EInv, Settle
    <2>2. profile[c] = run.prof[c] /\ Matches(c, j) => Offered(c, j)'
        BY <1>4, <1>8, <1>u, <2>1 DEF Offered, Matches
    <2> QED BY <1>12, <1>14, <2>1, <2>2 DEF Marked
<1>16. \A c, i : i # j \/ ~ there(j) => (Marked(c, i)' <=> Marked(c, i)) /\ (Fresh(i) => Fresh(i)')
    <2>1. \A c, i : ~ there(j) => (Offered(c, i)' <=> Offered(c, i)) /\ (Fresh(i) => Fresh(i)')
        BY <1>7, <1>u DEF Offered, Fresh, ClaimOn
    <2> QED BY <1>12, <1>13, <1>u, <2>1 DEF Marked
<1>17. \A i : Fresh(i) => Fresh(i)'
    BY <1>5, <1>16
<1>18. NoneMissing'
    BY <1>11, <1>12, <1>15, <1>16, <1>17, <1>u DEF EInv, NoneMissing, Served
<1>19. NoneWrong'
    BY <1>t, <1>u, <1>2, <1>7, <1>8, <1>12, <1>14 DEF EInv, NoneWrong
<1>20. label = "unflag job" => /\ entry[j].at # "none"
                               /\ \A c \in seen : Alive(j) => Marked(c, j)'
    BY <1>0, <1>5, <1>6, <1>15 DEF Alive
<1> QED BY <1>0, <1>1, <1>9, <1>10, <1>12, <1>14, <1>17, <1>18, <1>19, <1>20, <1>p, <1>u, SettlePass

-----------------------------------------------------------------------------
(* The sweep and a run cut short. *)

\* reconcile_orphans: a marker under the key's deadline goes only if its job was not
\* listed, and a pair that it takes from a waiting job is written down.
LEMMA SweepKeeps ==
    ASSUME Typed, EInv, ReconcileOrphans
    PROVE  Typed' /\ EInv'
<1>t. /\ Shape /\ Named /\ run \in Runs /\ eligible \subseteq Markers /\ jobFlags \subseteq Jobs
      /\ seen \subseteq Clients /\ overlooked \subseteq Clients \X Jobs
      /\ now \in Nat /\ 0 \in Nat /\ NoRun \in Runs
    BY TypedAs, TimesNat, IdleTyped DEF Shape
<1>p. run.pc = "settle" /\ run.pc \in Settling /\ run.pc \in Listed
    BY DEF ReconcileOrphans, At, Settling, Listed
<1> DEFINE live == JobsOf(run.avail \cup run.leased) \cup (run.held \ run.gone)
           stale == {m \in eligible : \E k \in run.avail : k.job = m.job /\ k.exp # m.exp}
           markers == {m \in eligible \ stale : m.job \notin live}
           owed == jobFlags \ live
           confirmed == {m \in markers : m \in run.prior.markers \/ m.job \in run.gone}
           settled == owed \cap (run.prior.jobs \cup run.gone)
           again == {n \in confirmed : n.job \in run.missed /\ n \in run.prior.markers}
           lost == {<<m.client, m.job>> : m \in again}
           prior == [markers |-> markers \ confirmed, jobs |-> owed \ settled]
           r == [NoRun EXCEPT !.pc = "stage", !.prior = prior]
<1>1. /\ eligible' = eligible \ (stale \cup confirmed)
      /\ jobFlags' = jobFlags \ settled
      /\ run' = r
      /\ overlooked' = overlooked \cup (Clients \X (settled \cap run.missed)) \cup lost
      /\ UNCHANGED <<now, entry, indexed, seen, candidates, flags, profile, workers, claim, patch>>
    BY DEF ReconcileOrphans, Step, queue, roster, requests
<1>2. settled \subseteq Jobs /\ prior \in Staged
    BY <1>t DEF Staged
<1>3. lost \subseteq Clients \X Jobs
    <2>1. again \subseteq Markers
        BY <1>t
    <2>2. \A m \in Markers : m.client \in Clients /\ m.job \in Jobs
        BY DEF Markers
    <2> HIDE DEF again
    <2> QED BY SMT, <2>1, <2>2
<1>4. \A m \in stale : \E k \in run.avail : k.job = m.job /\ k.exp # m.exp
    OBVIOUS
<1>5. \A m \in confirmed : /\ m.job \notin JobsOf(run.avail \cup run.leased)
                           /\ m.job \in run.missed => <<m.client, m.job>> \in lost \/ m.job \in run.gone
    OBVIOUS
<1>6. \A j \in settled : j \notin JobsOf(run.avail \cup run.leased)
    OBVIOUS
<1> HIDE DEF live, stale, markers, owed, confirmed, settled, again, lost, prior
<1>7. r \in Runs /\ r.pc = "stage" /\ r.t = 0 /\ r.captured = Nobody /\ r.avail = {}
      /\ r.leased = {} /\ r.gone = {}
    <2>1. r \in Runs /\ r.pc = "stage" /\ r.t = NoRun.t /\ r.captured = NoRun.captured /\ r.avail = NoRun.avail
          /\ r.leased = NoRun.leased /\ r.gone = NoRun.gone
        BY <1>2, <1>t DEF Runs, RunLabels
    <2> QED BY <2>1 DEF NoRun
<1> HIDE DEF r
<1>8. Typed'
    <2>1. overlooked' \subseteq Clients \X Jobs
        BY <1>1, <1>2, <1>3, <1>t
    <2>2. Named'
        <3>1. \A c \in Clients : IsFiniteSet(Nobody[c])
            BY FS_EmptySet DEF Nobody
        <3> QED BY <1>1, <1>7, <1>t, <3>1 DEF Named
    <2>3. Shape'
        BY <1>1, <1>7, <1>t, <2>1 DEF Shape
    <2> QED BY <2>2, <2>3, TypedNext
<1>9. /\ Answered = seen /\ Answered' = seen
      /\ \A c, j : ~ Excused(c, j) /\ ~ Excused(c, j)'
      /\ r.pc \notin Listed
    BY <1>1, <1>7, <1>p, SettlingAnswers, RestingAnswersNext DEF Listed
<1>10. \A c, j : /\ Alive(j)' <=> Alive(j)
                 /\ Late(j)' <=> Late(j)
                 /\ Flagged(c)' <=> Flagged(c)
                 /\ Matches(c, j)' <=> Matches(c, j)
                 /\ Fresh(j) => Fresh(j)'
    BY <1>1 DEF Alive, Late, Flagged, Matches, Fresh, ClaimOn
<1>11. ASSUME NEW c \in seen, NEW j \in Jobs, Alive(j), Served(c, j) PROVE Served(c, j)' \/ Fresh(j)'
    <2> DEFINE m == Marker(c, j, entry[j].exp)
    <2>1. m.client = c /\ m.job = j /\ m.exp = entry[j].exp
        BY SMT, MarkerIs
    <2>2. m \notin stale
        BY SMT, <1>4, <2>1 DEF EInv, Listings
    <2>3. CASE j \in JobsOf(run.avail \cup run.leased)
        <3>1. Offered(c, j) => Offered(c, j)'
            BY <1>1, <1>5, <2>1, <2>2, <2>3 DEF Offered
        <3>2. j \in jobFlags => j \in jobFlags'
            BY <1>1, <1>6, <2>3
        <3> QED BY <1>1, <1>9, <1>10, <1>11, <3>1, <3>2 DEF Served, Marked
    <2>4. CASE Late(j) \/ Fresh(j)
        BY <1>10, <2>4 DEF Served, Marked
    <2>5. CASE j \notin JobsOf(run.avail \cup run.leased) /\ j \in run.missed
        <3>1. j \notin run.gone
            BY <1>11 DEF Alive, EInv, Listings
        <3>2. Offered(c, j) => Offered(c, j)' \/ <<c, j>> \in overlooked'
            BY <1>1, <1>5, <2>1, <2>2, <2>5, <3>1 DEF Offered
        <3>3. j \in jobFlags => j \in jobFlags' \/ <<c, j>> \in overlooked'
            BY <1>1, <1>t, <2>5
        <3> QED BY <1>1, <1>9, <1>10, <1>11, <3>2, <3>3 DEF Served, Marked
    <2> QED BY <1>11, <1>p, <2>3, <2>4, <2>5 DEF EInv, Listings
<1>12. NoneMissing'
    BY <1>9, <1>10, <1>11 DEF EInv, NoneMissing
<1>13. Outside
    BY <1>1 DEF Outside, ClaimOn
<1>14. eligible' \subseteq eligible /\ 0 <= now
    BY SMT, <1>1, <1>t
<1> QED BY <1>1, <1>7, <1>8, <1>9, <1>12, <1>13, <1>14, Resting

\* A run that is cut short excuses nobody any more, and writes down whom it excused.
LEMMA CrashKeeps ==
    ASSUME Typed, EInv, Crash
    PROVE  Typed' /\ EInv'
<1>t. /\ Shape /\ Named /\ run \in Runs /\ NoRun \in Runs /\ now \in Nat /\ run.j \in Jobs
      /\ seen \subseteq Clients /\ claim \in [Clients -> Claims]
    BY TypedAs, TimesNat, IdleTyped DEF Shape, Runs
<1>n. /\ NoRun.avail = {} /\ NoRun.leased = {} /\ NoRun.gone = {} /\ NoRun.t = 0
      /\ NoRun.captured = Nobody /\ NoRun.pc = "idle"
    BY DEF NoRun
<1> DEFINE redated == IF At("flag job") THEN Clients \X {run.j} ELSE {}
           left == IF run.pc \in {"index", "flags", "client", "rebuild", "unflag"}
                   THEN (seen \ run.workers) \X Jobs ELSE {}
           aged(q) == [q EXCEPT !.old = q.pc # "idle"]
<1>1. /\ run' = NoRun /\ overlooked' = overlooked \cup redated \cup left
      /\ claim' = [c \in Clients |-> aged(claim[c])]
      /\ UNCHANGED <<now, entry, eligible, indexed, seen, candidates, flags, jobFlags, profile, workers, patch>>
    BY DEF Crash, Step, queue, index, debts, roster
<1>2. redated \subseteq Clients \X Jobs /\ left \subseteq Clients \X Jobs
    BY <1>t
<1>3. \A c \in seen, j \in Jobs : Excused(c, j) => <<c, j>> \in redated \cup left
    BY <1>t DEF Excused, Tracked
<1>4. \A q \in Claims : aged(q) \in Claims /\ aged(q).pc = q.pc /\ aged(q).job = q.job
    BY DEF Claims
<1> HIDE DEF redated, left, aged
<1>5. claim' \in [Clients -> Claims]
      /\ \A c \in Clients : claim'[c].pc = claim[c].pc /\ claim'[c].job = claim[c].job
    BY <1>t, <1>1, <1>4
<1>6. \A j \in Jobs : ClaimOn(j)' <=> ClaimOn(j)
    BY <1>5 DEF ClaimOn
<1>7. Typed'
    <2>1. Named'
        <3>1. \A c \in Clients : IsFiniteSet(Nobody[c])
            BY FS_EmptySet DEF Nobody
        <3> QED BY <1>1, <1>n, <1>t, <3>1 DEF Named
    <2>2. Shape'
        BY <1>1, <1>2, <1>5, <1>t DEF Shape
    <2> QED BY <2>1, <2>2, TypedNext
<1>8. NoRun.pc \notin Listed /\ Answered' = seen /\ \A c, j : ~ Excused(c, j)'
    BY <1>1, <1>n, RestingAnswersNext DEF Listed
<1>9. seen \subseteq Answered
    BY DEF Answered
<1>10. \A c : \A j \in Jobs : /\ Alive(j)' <=> Alive(j)
                              /\ Marked(c, j) => Marked(c, j)'
                              /\ Fresh(j) => Fresh(j)'
    BY <1>1, <1>6 DEF Alive, Marked, Late, Flagged, Matches, Offered, Fresh
<1>11. \A c \in seen, j \in Jobs : Served(c, j) => Served(c, j)'
    <2>1. \A c, j : <<c, j>> \in overlooked' => Served(c, j)'
        BY DEF Served, Marked
    <2> SUFFICES ASSUME NEW c \in seen, NEW j \in Jobs, Served(c, j) PROVE Served(c, j)'
        OBVIOUS
    <2>2. CASE Excused(c, j)
        <3>1. <<c, j>> \in redated \cup left
            BY <1>3, <2>2
        <3> QED BY <1>1, <2>1, <3>1
    <2>3. CASE Marked(c, j)
        <3>1. Marked(c, j)'
            BY <1>10, <2>3
        <3> QED BY <3>1 DEF Served
    <2>4. CASE j \in jobFlags
        BY <1>1, <2>4 DEF Served
    <2> QED BY <2>2, <2>3, <2>4 DEF Served
<1>12. NoneMissing'
    BY <1>8, <1>9, <1>10, <1>11 DEF EInv, NoneMissing
<1>13. Outside
    BY <1>1, <1>6 DEF Outside
<1> QED BY SMT, <1>1, <1>7, <1>8, <1>12, <1>13, <1>n, <1>t, Resting

-----------------------------------------------------------------------------
(* The theorems. *)

\* Nothing is stored and no run is under way.
LEMMA InitHolds ==
    ASSUME Init
    PROVE  Typed /\ EInv
<1>n. /\ NoRun.avail = {} /\ NoRun.leased = {} /\ NoRun.gone = {} /\ NoRun.t = 0
      /\ NoRun.captured = Nobody /\ NoRun.pc = "idle"
    BY DEF NoRun
<1>i. /\ now = 0 /\ entry = [j \in Jobs |-> [at |-> "none", exp |-> Deadline[j], by |-> "none"]]
      /\ eligible = {} /\ indexed = {} /\ seen = {} /\ candidates = Unstaged
      /\ flags = Nobody /\ jobFlags = {}
      /\ profile \in [Clients -> Profiles] /\ workers = Clients
      /\ claim = [c \in Clients |-> NoClaim] /\ patch = [c \in Clients |-> "idle"]
      /\ run = NoRun /\ overlooked = {}
    BY DEF Init
<1>1. entry \in [Jobs -> Entries] /\ \A j \in Jobs : entry[j].at = "none"
    BY <1>i, IndexAssumption DEF Entries
<1>2. Shape
    <2>1. Unstaged \in Staged
        BY DEF Unstaged, Staged
    <2> QED BY <1>i, <1>1, <2>1, IdleTyped, TimesNat DEF Shape
<1>3. Named
    <2>1. \A c \in Clients : IsFiniteSet(Nobody[c])
        BY FS_EmptySet DEF Nobody
    <2> QED BY <1>i, <1>n, <2>1 DEF Named
<1>4. Typed
    BY <1>2, <1>3, TypedAs
<1>5. NoRun.pc \notin Listed
    BY <1>n DEF Listed
<1>6. \A j \in Jobs : Fresh(j)
    BY <1>i, <1>1 DEF Fresh, ClaimOn, NoClaim
<1>7. NoneWrong /\ Unborn
    BY <1>i, <1>6, <1>n DEF NoneWrong, Unborn
<1>8. NoneMissing
    BY <1>6 DEF NoneMissing
<1>9. /\ run.pc \notin {"expire", "flag job", "workers", "index"} /\ run.pc \notin {"index", "rebuild"}
      /\ run.pc # "index" /\ run.pc \notin (Tracked \cup Settling) \ {"index"}
      /\ run.pc \notin {"index", "flags"} /\ run.pc \notin {"index", "settle", "unflag job"}
      /\ run.pc \notin Rebuilding /\ run.pc \notin {"client"} \cup Rebuilding /\ run.pc \notin Settling
      /\ run.pc # "unflag job"
    BY <1>i, <1>n DEF Tracked, Rebuilding, Settling
<1>10. Listings
    BY SMT, <1>i, <1>5, <1>9, <1>n DEF Listings
<1>11. Indexing /\ Records /\ Rebuild /\ Settle
    BY <1>9 DEF Indexing, Records, Rebuild, Settle
<1> QED BY <1>4, <1>7, <1>8, <1>10, <1>11 DEF EInv

\* A step that changes nothing.
LEMMA StutterHolds ==
    ASSUME Typed, EInv, UNCHANGED vars
    PROVE  Typed' /\ EInv'
<1>1. UNCHANGED <<now, entry, eligible, indexed, seen, candidates, flags, jobFlags, profile, workers,
                  claim, patch, run, overlooked>>
    BY DEF vars, queue, index, debts, roster, requests
<1>2. Typed'
    BY <1>1, TypedAs, TypedNext DEF Shape, Named
<1>3. now \in Nat
    BY TypedAs, TimesNat DEF Shape
<1>4. QueueMoves
    BY SMT, <1>1, <1>3 DEF QueueMoves, ClaimOn
<1> QED BY <1>2, <1>4, QueueKeeps

\* Every step keeps the types and the invariant.
LEMMA StepHolds ==
    ASSUME Typed, EInv, [Next]_vars
    PROVE  Typed' /\ EInv'
<1>1. CASE Tick \/ \E j \in Jobs : Promote(j) \/ EndLease(j)
    BY <1>1, QueueSteps, QueueKeeps
<1>2. ASSUME NEW c \in Clients,
             ListEligible(c) \/ ClaimStep(c) \/ FlagBefore(c) \/ PatchStep(c) \/ ChangeWorkers(c)
      PROVE  Typed' /\ EInv'
    <2>1. CASE ListEligible(c) \/ ClaimStep(c) \/ RelinquishClientLeases(c) \/ ChangeWorkers(c)
        BY <2>1, ClaimSteps, QueueKeeps
    <2>2. CASE FlagBefore(c) \/ ReplaceClient(c) \/ FlagAfter(c)
        BY <2>2, PatchSteps, PatchKeeps
    <2> QED BY <1>2, <2>1, <2>2 DEF PatchStep
<1>3. CASE StartRun
    BY <1>3, FirstSteps
<1>4. CASE RunStep
    <2>1. CASE ListRecycled \/ ListAvail \/ WriteGcCandidates
        BY <2>1, FirstSteps
    <2>2. CASE ListLeased \/ SettleOverdueJob \/ FlagRedated \/ ReadBodies
        BY <2>2, ListLeasedKeeps, SettleOverdueKeeps, FlagRedatedKeeps
    <2>3. CASE TrackWorkerChanges \/ IndexJob \/ WriteEligibleIndexed
        BY <2>3, TrackKeeps, IndexJobKeeps, WriteIndexedKeeps
    <2>4. CASE ListPendingReindex \/ DeleteEligibleForClient \/ RebuildKey \/ RecheckClient
                  \/ DeletePendingReindex \/ WriteEligibleWorkers
        BY <2>4, ListPendingKeeps, DeleteEligibleKeeps, RebuildKeyKeeps, RecheckKeeps, UnflagClientKeeps,
           WriteWorkersKeeps
    <2>5. CASE ListPendingReindexJobs \/ SettlePendingJob \/ DeletePendingReindexJob \/ ReconcileOrphans
        BY <2>5, ListPendingJobsKeeps, SettleJobKeeps, UnflagJobKeeps, SweepKeeps
    <2> QED BY <1>4, <2>1, <2>2, <2>3, <2>4, <2>5 DEF RunStep
<1>5. CASE Crash
    BY <1>5, CrashKeeps
<1>6. CASE UNCHANGED vars
    BY <1>6, StutterHolds
<1> QED BY <1>1, <1>2, <1>3, <1>4, <1>5, <1>6 DEF Next

\* The stores, the flags and the locals of a run of queue_maintenance::run keep their shape.
THEOREM IndexTyped == Spec => []TypeOK
<1>1. Init => Typed /\ EInv
    BY InitHolds
<1>2. Typed /\ EInv /\ [Next]_vars => Typed' /\ EInv'
    BY StepHolds
<1>3. Typed => TypeOK
    BY DEF Typed
<1> QED BY <1>1, <1>2, <1>3, PTL DEF Spec

\* Between two runs, however the earlier ones ended, a waiting job is offered to exactly
\* the workers it matches, or a later run will look at the pair again, or the pair is one
\* of those that a cut or a move between two listings lost sight of (queue_maintenance::run).
THEOREM WrongsAreOwed == Spec => []WrongIsOwed
<1>1. Init => Typed /\ EInv
    BY InitHolds
<1>2. Typed /\ EInv /\ [Next]_vars => Typed' /\ EInv'
    BY StepHolds
<1>3. Typed /\ EInv => WrongIsOwed
    <2> SUFFICES ASSUME Typed, EInv, NEW c \in workers, NEW j \in Jobs,
                        entry[j].at = "avail", Offered(c, j) # Matches(c, j), ~ Owed(c, j)
                 PROVE  <<c, j>> \in overlooked
        BY DEF WrongIsOwed
    <2>1. /\ ~ Late(j) /\ Key(j, entry[j].exp) \in indexed /\ j \notin jobFlags /\ ~ Flagged(c)
          /\ c \in seen /\ run.pc = "idle"
        BY DEF Owed, Late, Flagged, At
    <2>2. c \in Answered /\ ~ Excused(c, j)
        BY <2>1, RestingAnswers DEF Listed
    <2>3. Alive(j) /\ ~ Fresh(j)
        BY <2>1 DEF Alive, Fresh
    <2>4. Offered(c, j) => Matches(c, j)
        BY SMT, <2>1, MarkerIs DEF EInv, NoneWrong, Offered, Matches
    <2>5. ~ (Matches(c, j) => Offered(c, j))
        BY SMT, <2>4 DEF Offered, Matches
    <2>6. Served(c, j)
        BY <2>2, <2>3 DEF EInv, NoneMissing
    <2> QED BY <2>1, <2>2, <2>5, <2>6 DEF Served, Marked
<1> QED BY <1>1, <1>2, <1>3, PTL DEF Spec
=============================================================================
