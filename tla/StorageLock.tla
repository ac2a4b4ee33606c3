---------------------------- MODULE StorageLock ----------------------------
(***************************************************************************)
(* The storage lock of the batch commands on S3: one object that carries a *)
(* token and an expiry.  A command creates it, takes it over once it has    *)
(* expired, and deletes it when it is done; an operator may clear it with   *)
(* `unlock`.                                                                *)
(*                                                                         *)
(* Only the time a lease has left matters, so an expiry is kept as the      *)
(* ticks until it, and no clock is needed.  The ETag of the object is the   *)
(* hash of a body with a fresh token, and a command writes the object at    *)
(* most once, so the token stands for the ETag.                             *)
(***************************************************************************)
EXTENDS Integers

CONSTANTS
    Procs,              \* processes that run locked commands, or `unlock`
    Tokens,             \* stands for the UUIDs: a token that is nowhere is as good as new
    NoToken,
    Ttl,                \* mutate_lock_ttl_secs
    ACQUIRE_ATTEMPTS,
    Commands,           \* what the processes run: "locked", "unlock", "unlock --force"
    MaxCrashes          \* bound: processes that die

ASSUME TtlAssumption == Ttl \in Nat \ {0}
ASSUME AttemptsAssumption == ACQUIRE_ATTEMPTS \in Nat \ {0}
ASSUME TokenAssumption == NoToken \notin Tokens
ASSUME CrashAssumption == MaxCrashes \in Nat
ASSUME CommandAssumption == Commands \subseteq {"locked", "unlock", "unlock --force"}

VARIABLES
    lock,       \* token and ticks left of the lock object; NoToken when there is none
    pc,         \* where each process is
    token,      \* the token of its run
    left,       \* ticks left of the lease it asked for
    seen,       \* the token (and so the ETag) of the object it read
    tries,      \* rounds of the acquire loop begun
    crashes,    \* processes that have died
    orderly     \* history: no run has outlived its lease, and no unlock has cleared a live one

vars == <<lock, pc, token, left, seen, tries, crashes, orderly>>

NoLock == [token |-> NoToken, left |-> 0]

Labels == {"idle", "create", "read", "check", "swap", "running", "release", "delete",
           "unlock", "unlock --force", "clear"}

\* The processes that act as the lock's holder.
Holding == {"running", "release", "delete"}

Init ==
    /\ lock = NoLock
    /\ pc = [p \in Procs |-> "idle"]
    /\ token = [p \in Procs |-> NoToken]
    /\ left = [p \in Procs |-> 0]
    /\ seen = [p \in Procs |-> NoToken]
    /\ tries = [p \in Procs |-> 0]
    /\ crashes = 0
    /\ orderly = TRUE

Used == {lock.token} \cup {token[p] : p \in Procs} \cup {seen[p] : p \in Procs}

\* The process ends: its token and what it read are gone with it.
Exit(p) ==
    /\ pc' = [pc EXCEPT ![p] = "idle"]
    /\ token' = [token EXCEPT ![p] = NoToken]
    /\ left' = [left EXCEPT ![p] = 0]
    /\ seen' = [seen EXCEPT ![p] = NoToken]
    /\ tries' = [tries EXCEPT ![p] = 0]

Goto(p, label) ==
    /\ pc' = [pc EXCEPT ![p] = label]
    /\ UNCHANGED <<token, left, tries>>

\* acquire_s3 draws a token and begins its first round.
Acquire(p) ==
    /\ "locked" \in Commands
    /\ pc[p] = "idle"
    /\ Tokens \ Used # {}
    /\ token' = [token EXCEPT ![p] = CHOOSE t \in Tokens \ Used : TRUE]
    /\ pc' = [pc EXCEPT ![p] = "create"]
    /\ left' = [left EXCEPT ![p] = Ttl]
    /\ tries' = [tries EXCEPT ![p] = 1]
    /\ UNCHANGED <<lock, seen>>

\* As NextRound, but with one round too many.
NextRoundOnceMore(p) ==
    \/ /\ tries[p] <= ACQUIRE_ATTEMPTS
       /\ tries' = [tries EXCEPT ![p] = @ + 1]
       /\ left' = [left EXCEPT ![p] = Ttl]
       /\ pc' = [pc EXCEPT ![p] = "create"]
       /\ seen' = [seen EXCEPT ![p] = NoToken]
       /\ UNCHANGED token
    \/ /\ tries[p] > ACQUIRE_ATTEMPTS
       /\ Exit(p)

\* A round of the loop is over: the next one reads the clock again.
NextRound(p) ==
    \/ /\ tries[p] < ACQUIRE_ATTEMPTS
       /\ tries' = [tries EXCEPT ![p] = @ + 1]
       /\ left' = [left EXCEPT ![p] = Ttl]
       /\ pc' = [pc EXCEPT ![p] = "create"]
       /\ seen' = [seen EXCEPT ![p] = NoToken]
       /\ UNCHANGED token
    \/ /\ tries[p] = ACQUIRE_ATTEMPTS
       /\ Exit(p)

WriteLock(p) ==
    /\ lock' = [token |-> token[p], left |-> left[p]]
    /\ Goto(p, "running")
    /\ seen' = [seen EXCEPT ![p] = NoToken]

\* PutMode::Create.
Create(p) ==
    /\ pc[p] = "create"
    /\ \/ lock.token = NoToken /\ WriteLock(p)
       \/ lock.token # NoToken /\ Goto(p, "read") /\ UNCHANGED <<lock, seen>>

\* get_lock_object, after the create found the key taken.
ReadLock(p) ==
    /\ pc[p] = "read"
    /\ \/ lock.token = NoToken /\ NextRound(p)
       \/ /\ lock.token # NoToken
          /\ seen' = [seen EXCEPT ![p] = lock.token]
          /\ Goto(p, "check")
    /\ UNCHANGED lock

\* As CheckExpiry, but a lease with no tick left still counts as live.
CheckExpiryNever(p) ==
    /\ pc[p] = "check"
    /\ Exit(p)
    /\ UNCHANGED lock

\* As CheckExpiry, but every lease counts as expired.
CheckExpiryAlways(p) ==
    /\ pc[p] = "check"
    /\ Goto(p, "swap")
    /\ UNCHANGED <<lock, seen>>

\* A live lease ends the command.  The object read may be gone by now: if it is
\* still there it has `lock.left` ticks, and if not, either answer is possible.
CheckExpiry(p) ==
    /\ pc[p] = "check"
    /\ \/ lock.token = seen[p] /\ lock.left = 0 /\ Goto(p, "swap") /\ UNCHANGED seen
       \/ lock.token = seen[p] /\ lock.left > 0 /\ Exit(p)
       \/ lock.token # seen[p] /\ ((Goto(p, "swap") /\ UNCHANGED seen) \/ Exit(p))
    /\ UNCHANGED lock

\* As Swap, but it overwrites whatever object is there.
SwapAnyVersion(p) ==
    /\ pc[p] = "swap"
    /\ WriteLock(p)

\* PutMode::Update on the ETag read.
Swap(p) ==
    /\ pc[p] = "swap"
    /\ \/ lock.token = seen[p] /\ WriteLock(p)
       \/ lock.token # seen[p] /\ NextRound(p) /\ UNCHANGED lock

\* The locked future is done, successfully or not.
Finish(p) ==
    /\ pc[p] = "running"
    /\ Goto(p, "release")
    /\ UNCHANGED <<lock, seen>>

\* release_s3 compares the token it reads with its own.
Release(p) ==
    /\ pc[p] = "release"
    /\ \/ lock.token = token[p] /\ Goto(p, "delete") /\ UNCHANGED seen
       \/ lock.token # token[p] /\ Exit(p)
    /\ UNCHANGED lock

\* The delete that ends release_s3 and unlock_s3 is unconditional.
DeleteLock(p) ==
    /\ pc[p] \in {"delete", "clear"}
    /\ lock' = NoLock
    /\ orderly' = (orderly /\ (pc[p] = "clear" => lock.left = 0))
    /\ Exit(p)
    /\ UNCHANGED crashes

\* unlock_s3: prints the object it reads, and deletes it when it has expired or
\* --force is given.
Unlock(p) ==
    /\ pc[p] = "idle"
    /\ \E c \in Commands \ {"locked"} : Goto(p, c)
    /\ UNCHANGED <<lock, seen>>

UnlockRead(p) ==
    /\ pc[p] \in {"unlock", "unlock --force"}
    /\ \/ /\ lock.token # NoToken
          /\ lock.left = 0 \/ pc[p] = "unlock --force"
          /\ Goto(p, "clear")
          /\ UNCHANGED seen
       \/ /\ lock.token = NoToken \/ (lock.left > 0 /\ pc[p] = "unlock")
          /\ Exit(p)
    /\ UNCHANGED lock

\* The process dies, its future panics, or its delete fails: the lock stays.
Crash(p) ==
    /\ pc[p] # "idle"
    /\ crashes < MaxCrashes
    /\ crashes' = crashes + 1
    /\ Exit(p)
    /\ UNCHANGED <<lock, orderly>>

Down(n) == IF n = 0 THEN 0 ELSE n - 1

\* A tick of the clock.  A run that is still acquiring, holding or releasing the
\* lock when its lease has no tick left has outlived it.
Tick ==
    /\ orderly' = (orderly /\ \A p \in Procs : token[p] # NoToken => left[p] > 1)
    /\ lock' = [lock EXCEPT !.left = Down(@)]
    /\ left' = [p \in Procs |-> Down(left[p])]
    /\ UNCHANGED <<pc, token, seen, tries, crashes>>

Step(p) ==
    \/ Create(p) \/ ReadLock(p) \/ CheckExpiry(p) \/ Swap(p)
    \/ Finish(p) \/ Release(p) \/ UnlockRead(p)

Next ==
    \/ Tick
    \/ \E p \in Procs : Crash(p) \/ DeleteLock(p)
    \/ \E p \in Procs : (Acquire(p) \/ Unlock(p) \/ Step(p)) /\ UNCHANGED <<crashes, orderly>>

Spec == Init /\ [][Next]_vars

\* The clock runs, a command that was started takes its steps, and the scheduler
\* starts the locked commands again and again.
Fairness ==
    /\ WF_vars(Tick)
    /\ \A p \in Procs : WF_vars(DeleteLock(p) \/ (Step(p) /\ UNCHANGED <<crashes, orderly>>))
                         /\ WF_vars(Acquire(p) /\ UNCHANGED <<crashes, orderly>>)

FairSpec == Spec /\ Fairness

-----------------------------------------------------------------------------

\* The lock object and the local state of every command have the shape acquire_s3,
\* release_s3 and unlock_s3 give them; in particular no lease is past its Ttl, and the
\* loop of acquire_s3 has no round beyond ACQUIRE_ATTEMPTS.
TypeOK ==
    /\ lock \in [token : Tokens \cup {NoToken}, left : 0..Ttl]
    /\ pc \in [Procs -> Labels]
    /\ token \in [Procs -> Tokens \cup {NoToken}]
    /\ left \in [Procs -> 0..Ttl]
    /\ seen \in [Procs -> Tokens \cup {NoToken}]
    /\ tries \in [Procs -> 0..ACQUIRE_ATTEMPTS]
    /\ crashes \in 0..MaxCrashes
    /\ orderly \in BOOLEAN

\* While every run fits in its lease and no unlock clears a live one, two commands
\* never hold the lock at once: acquire_s3 creates or swaps, and the swap loses on
\* a version it did not read.
MutualExclusion ==
    orderly => \A p, q \in Procs : pc[p] \in Holding /\ pc[q] \in Holding => p = q

\* Even when runs outlive their leases, die or are unlocked, acquire_s3 replaces
\* a lock only after its lease has expired: of the commands that read one stale
\* lease, at most one takes it over.
NoLiveTakeover ==
    [][lock.token # NoToken /\ lock.left > 0 => lock'.token \in {lock.token, NoToken}]_vars

\* An expired lease, whoever left it behind, does not block the commands for
\* ever: some acquire_s3 takes it over or some release or unlock deletes it.
StaleLockGoes ==
    \A t \in Tokens : (lock.token = t /\ lock.left = 0) ~> (lock.token # t)
=============================================================================
