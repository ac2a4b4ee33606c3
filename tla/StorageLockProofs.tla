------------------------- MODULE StorageLockProofs -------------------------
(***************************************************************************)
(* Proofs about StorageLock.                                               *)
(*                                                                         *)
(* Fresh says what the tokens tell apart: a token belongs to one run, it is *)
(* on the lock or in somebody's hands only after that run wrote it, and a   *)
(* process about to swap either read an expired lock or will lose.  It needs *)
(* nothing of the runs.  Held adds, as long as all is orderly, that a holder's *)
(* own lock is there with as much time left as the holder counts.           *)
(***************************************************************************)
EXTENDS StorageLock, TLAPS

Acquiring == {"create", "read", "check", "swap"}
Unlocking == {"unlock", "unlock --force", "clear"}

\* A run has a token exactly while it acquires or holds the lock, and its own.
Owned ==
    /\ \A p \in Procs : token[p] # NoToken <=> pc[p] \in Acquiring \cup Holding
    /\ \A p, q \in Procs : token[p] = token[q] /\ token[p] # NoToken => p = q

\* A token that is on the lock, or was read off it, is of a run past its acquire.
Written ==
    /\ \A p \in Procs : pc[p] \in Acquiring => lock.token # token[p]
    /\ \A p \in Procs : pc[p] \in {"check", "swap"} => seen[p] # NoToken
    /\ \A p, q \in Procs : seen[p] = token[q] /\ seen[p] # NoToken => pc[q] \in Holding

\* A swap that will succeed replaces an expired lock.
SwapsStale ==
    \A p \in Procs : pc[p] = "swap" /\ lock.token = seen[p] => lock.left = 0

Fresh == TypeOK /\ Owned /\ Written /\ SwapsStale

Held ==
    /\ \A p \in Procs : pc[p] \in Acquiring => left[p] > 0
    /\ \A p \in Procs : pc[p] \in Holding =>
          lock.token = token[p] /\ lock.left = left[p] /\ left[p] > 0

\* Where the labels belong.
LEMMA LabelSets ==
  /\ "idle" \notin Acquiring \cup Holding \cup Unlocking
  /\ {"create", "read", "check", "swap"} = Acquiring /\ Acquiring \cap Holding = {}
  /\ {"running", "release", "delete"} = Holding
  /\ Acquiring \cup Holding \cup Unlocking \cup {"idle"} \subseteq Labels
  /\ (Acquiring \cup Holding) \cap Unlocking = {}
  /\ "clear" \in Unlocking /\ "unlock" \in Unlocking /\ "unlock --force" \in Unlocking
  BY DEF Acquiring, Holding, Unlocking, Labels

\* The ends of the counters.
LEMMA Ends ==
  /\ 0 \in 0..Ttl /\ Ttl \in 0..Ttl /\ Ttl > 0
  /\ 0 \in 0..ACQUIRE_ATTEMPTS /\ 1 \in 0..ACQUIRE_ATTEMPTS
  /\ {"idle", "create"} \subseteq Labels
  BY TtlAssumption, AttemptsAssumption DEF Labels

\* Down stays between zero and where it was, and takes one off anything above zero.
LEMMA DownBounds ==
  ASSUME NEW n \in 0..Ttl
  PROVE  /\ Down(n) \in 0..Ttl
         /\ n = 0 => Down(n) = 0
         /\ n > 1 => Down(n) > 0
  BY TtlAssumption DEF Down

\* A fresh token is a token, and nobody has it.
LEMMA FreshToken ==
  ASSUME Tokens \ Used # {}
  PROVE  LET t == CHOOSE t \in Tokens \ Used : TRUE
         IN  /\ t \in Tokens /\ t # NoToken /\ t # lock.token
             /\ \A p \in Procs : t # token[p] /\ t # seen[p]
  <1> DEFINE t == CHOOSE u \in Tokens \ Used : TRUE
  <1>1. t \in Tokens \ Used
    OBVIOUS
  <1> QED
    BY <1>1, TokenAssumption DEF Used

\* What leaving the program does to each process.
LEMMA ExitEffect ==
  ASSUME TypeOK, NEW p \in Procs, Exit(p)
  PROVE  \A q \in Procs :
            /\ pc'[q] = IF q = p THEN "idle" ELSE pc[q]
            /\ token'[q] = IF q = p THEN NoToken ELSE token[q]
            /\ seen'[q] = IF q = p THEN NoToken ELSE seen[q]
            /\ left'[q] = IF q = p THEN 0 ELSE left[q]
  BY DEF TypeOK, Exit

\* Leaving the program keeps the types.
LEMMA ExitTyped ==
  ASSUME TypeOK, NEW p \in Procs, Exit(p)
  PROVE  /\ pc' \in [Procs -> Labels]
         /\ token' \in [Procs -> Tokens \cup {NoToken}]
         /\ left' \in [Procs -> 0..Ttl]
         /\ seen' \in [Procs -> Tokens \cup {NoToken}]
         /\ tries' \in [Procs -> 0..ACQUIRE_ATTEMPTS]
  BY Ends DEF TypeOK, Exit

\* Every step keeps the types.
LEMMA TypeStep ==
  ASSUME TypeOK, [Next]_vars
  PROVE  TypeOK'
  <1>1. CASE UNCHANGED vars
    BY <1>1 DEF vars, TypeOK
  <1>2. CASE Tick
    BY <1>2, DownBounds DEF Tick, TypeOK
  <1>3. ASSUME NEW p \in Procs, Crash(p) PROVE TypeOK'
    <2>1. crashes \in 0..MaxCrashes
      BY DEF TypeOK
    <2>2. crashes' \in 0..MaxCrashes
      BY <1>3, <2>1, CrashAssumption DEF Crash
    <2> QED
      BY <1>3, <2>2, ExitTyped DEF Crash, TypeOK
  <1>4. ASSUME NEW p \in Procs, Acquire(p), UNCHANGED <<crashes, orderly>> PROVE TypeOK'
    <2>1. token' \in [Procs -> Tokens \cup {NoToken}]
      BY <1>4, FreshToken DEF Acquire, TypeOK
    <2> QED
      BY <1>4, <2>1, Ends DEF Acquire, TypeOK
  <1>5. ASSUME NEW p \in Procs, Unlock(p), UNCHANGED <<crashes, orderly>> PROVE TypeOK'
    BY ZenonT(60), <1>5, CommandAssumption DEF Unlock, Goto, TypeOK, Labels
  <1>6. ASSUME NEW p \in Procs, WriteLock(p), UNCHANGED <<crashes, orderly>> PROVE TypeOK'
    BY <1>6 DEF WriteLock, Goto, TypeOK, Labels
  <1>7. ASSUME NEW p \in Procs, Exit(p), lock' \in {lock, NoLock}, UNCHANGED crashes,
               orderly' \in BOOLEAN
        PROVE  TypeOK'
    <2>1. lock' \in [token : Tokens \cup {NoToken}, left : 0..Ttl]
      BY <1>7, TtlAssumption DEF NoLock, TypeOK
    <2> QED
      BY <1>7, <2>1, ExitTyped DEF TypeOK
  <1>8. ASSUME NEW p \in Procs, NextRound(p), UNCHANGED <<lock, crashes, orderly>> PROVE TypeOK'
    <2>1. CASE Exit(p)
      BY <1>7, <1>8, <2>1 DEF TypeOK
    <2>2. CASE ~ Exit(p)
      <3>1. tries[p] \in 0..ACQUIRE_ATTEMPTS /\ tries[p] < ACQUIRE_ATTEMPTS
        BY <1>8, <2>2 DEF NextRound, TypeOK
      <3>2. tries[p] + 1 \in 0..ACQUIRE_ATTEMPTS
        BY <3>1, AttemptsAssumption
      <3> QED
        BY <1>8, <2>2, <3>2, Ends DEF NextRound, TypeOK
    <2> QED
      BY <2>1, <2>2
  <1>9. ASSUME NEW p \in Procs, NEW l \in Labels, Goto(p, l), UNCHANGED <<lock, crashes, orderly>>,
               seen' = seen \/ seen' = [seen EXCEPT ![p] = lock.token]
        PROVE  TypeOK'
    BY <1>9 DEF Goto, TypeOK
  <1>10. {"read", "check", "swap", "release", "delete", "clear"} \subseteq Labels
    BY DEF Labels
  <1>11. ASSUME NEW p \in Procs, Step(p), UNCHANGED <<crashes, orderly>> PROVE TypeOK'
    <2>1. orderly' \in BOOLEAN
      BY <1>11 DEF TypeOK
    <2> QED
      BY <1>6, <1>7, <1>8, <1>9, <1>10, <1>11, <2>1
         DEF Step, Create, ReadLock, CheckExpiry, Swap, Finish, Release, UnlockRead
  <1>12. ASSUME NEW p \in Procs, DeleteLock(p) PROVE TypeOK'
    BY <1>7, <1>12 DEF DeleteLock
  <1> QED
    BY <1>1, <1>2, <1>3, <1>4, <1>5, <1>11, <1>12 DEF Next

\* Leaving the program keeps what the tokens tell apart, also when it deletes
\* the lock.
LEMMA ExitFresh ==
  ASSUME Fresh, NEW p \in Procs, Exit(p), lock' \in {lock, NoLock}
  PROVE  Owned' /\ Written' /\ SwapsStale'
  <1>1. \A q \in Procs :
            /\ pc'[q] = IF q = p THEN "idle" ELSE pc[q]
            /\ token'[q] = IF q = p THEN NoToken ELSE token[q]
            /\ seen'[q] = IF q = p THEN NoToken ELSE seen[q]
    BY ExitEffect DEF Fresh
  <1>2. Owned'
    BY ZenonT(60), <1>1, LabelSets DEF Fresh, Owned
  <1>3. lock'.token \in {lock.token, NoToken} /\ lock'.left \in {lock.left, 0}
    BY DEF NoLock
  <1>4. Written'
    <2>1. ASSUME NEW q \in Procs, pc'[q] \in Acquiring PROVE lock'.token # token'[q]
      <3>1. q # p /\ pc[q] \in Acquiring /\ token'[q] = token[q]
        BY <1>1, <2>1, LabelSets
      <3> QED
        BY <1>3, <3>1 DEF Fresh, Owned, Written
    <2>2. ASSUME NEW q \in Procs, pc'[q] \in {"check", "swap"} PROVE seen'[q] # NoToken
      BY <1>1, <2>2 DEF Fresh, Written
    <2>3. ASSUME NEW q \in Procs, NEW r \in Procs, seen'[q] = token'[r], seen'[q] # NoToken
          PROVE  pc'[r] \in Holding
      BY <1>1, <2>3 DEF Fresh, Written
    <2> QED
      BY <2>1, <2>2, <2>3 DEF Written
  <1>5. SwapsStale'
    <2> SUFFICES ASSUME NEW q \in Procs, pc'[q] = "swap", lock'.token = seen'[q]
                 PROVE  lock'.left = 0
      BY DEF SwapsStale
    <2>1. pc[q] = "swap" /\ seen[q] = seen'[q] /\ seen[q] # NoToken
      BY <1>1, LabelSets DEF Fresh, Written
    <2> QED
      BY <2>1 DEF Fresh, SwapsStale, NoLock
  <1> QED
    BY <1>2, <1>4, <1>5

\* So does going on to another step of the same phase.
LEMMA GotoFresh ==
  ASSUME Fresh, NEW p \in Procs, NEW l, Goto(p, l), UNCHANGED lock,
         l \in Acquiring <=> pc[p] \in Acquiring, l \in Holding <=> pc[p] \in Holding,
         \/ UNCHANGED seen /\ (l \in {"check", "swap"} => seen[p] # NoToken)
         \/ lock.token # NoToken /\ seen' = [seen EXCEPT ![p] = lock.token],
         l = "swap" /\ lock.token = seen'[p] => lock.left = 0
  PROVE  Owned' /\ Written' /\ SwapsStale'
  <1>1. \A q \in Procs :
            /\ pc'[q] = IF q = p THEN l ELSE pc[q]
            /\ token'[q] = token[q]
            /\ q # p => seen'[q] = seen[q]
    BY DEF Goto, Fresh, TypeOK
  <1>a. \/ seen' = seen /\ (l \in {"check", "swap"} => seen[p] # NoToken)
        \/ (seen'[p] = lock.token /\ lock.token # NoToken)
    BY DEF Fresh, TypeOK
  <1>2. Owned'
    BY <1>1 DEF Fresh, Owned
  <1>3. l \in {"check", "swap"} => seen'[p] # NoToken
    BY <1>a
  <1>4. \A q \in Procs : seen'[p] = token[q] /\ seen'[p] # NoToken => pc[q] \in Holding
    BY <1>a DEF Fresh, Owned, Written
  <1>5. Written'
    BY <1>1, <1>3, <1>4 DEF Fresh, Written
  <1>6. SwapsStale'
    BY <1>1 DEF Fresh, SwapsStale
  <1> QED
    BY <1>2, <1>5, <1>6

\* So does writing the lock: no other process has read the token written.
LEMMA WriteLockFresh ==
  ASSUME Fresh, NEW p \in Procs, pc[p] \in Acquiring, WriteLock(p)
  PROVE  Owned' /\ Written' /\ SwapsStale'
  <1>1. /\ lock'.token = token[p] /\ token[p] # NoToken
        /\ \A q \in Procs :
            /\ pc'[q] = IF q = p THEN "running" ELSE pc[q]
            /\ token'[q] = token[q]
            /\ seen'[q] = IF q = p THEN NoToken ELSE seen[q]
    BY SMTT(60) DEF WriteLock, Goto, Fresh, TypeOK, Owned
  <1>2. Owned'
    BY ZenonT(60), <1>1, LabelSets DEF Fresh, Owned
  <1>3. \A q \in Procs : seen[q] # token[p]
    BY <1>1, LabelSets DEF Fresh, Written
  <1>4. Written'
    <2>1. ASSUME NEW q \in Procs, pc'[q] \in Acquiring PROVE lock'.token # token'[q]
      BY <1>1, <2>1, LabelSets DEF Fresh, Owned
    <2>2. ASSUME NEW q \in Procs, pc'[q] \in {"check", "swap"} PROVE seen'[q] # NoToken
      BY <1>1, <2>2 DEF Fresh, Written
    <2>3. ASSUME NEW q \in Procs, NEW r \in Procs, seen'[q] = token'[r], seen'[q] # NoToken
          PROVE  pc'[r] \in Holding
      BY ZenonT(60), <1>1, <2>3, LabelSets DEF Fresh, Written
    <2> QED
      BY <2>1, <2>2, <2>3 DEF Written
  <1>5. SwapsStale'
    BY <1>1, <1>3 DEF SwapsStale
  <1> QED
    BY <1>2, <1>4, <1>5

\* So does a further round of the acquire loop.
LEMMA NextRoundFresh ==
  ASSUME Fresh, NEW p \in Procs, pc[p] \in Acquiring, NextRound(p), UNCHANGED lock
  PROVE  Owned' /\ Written' /\ SwapsStale'
  <1>1. CASE Exit(p)
    BY <1>1, ExitFresh
  <1>2. CASE ~ Exit(p)
    <2>1. \A q \in Procs :
            /\ pc'[q] = IF q = p THEN "create" ELSE pc[q]
            /\ token'[q] = token[q]
            /\ seen'[q] = IF q = p THEN NoToken ELSE seen[q]
      BY <1>2 DEF NextRound, Fresh, TypeOK
    <2>2. Owned'
      BY ZenonT(60), <2>1, LabelSets DEF Fresh, Owned
    <2>3. Written'
      BY ZenonT(60), <2>1, LabelSets DEF Fresh, Written
    <2>4. SwapsStale'
      BY <2>1 DEF Fresh, SwapsStale
    <2> QED
      BY <2>2, <2>3, <2>4
  <1> QED
    BY <1>1, <1>2

\* A new run brings a token nobody has.
LEMMA AcquireFresh ==
  ASSUME Fresh, NEW p \in Procs, Acquire(p)
  PROVE  Owned' /\ Written' /\ SwapsStale'
  <1> DEFINE t == CHOOSE u \in Tokens \ Used : TRUE
  <1>1. /\ t # NoToken /\ t # lock.token
        /\ \A q \in Procs : t # token[q] /\ t # seen[q]
    BY FreshToken DEF Acquire
  <1>2. token' = [token EXCEPT ![p] = t]
    BY DEF Acquire
  <1> HIDE DEF t
  <1>3. lock' = lock /\ pc[p] = "idle" /\ \A q \in Procs :
            /\ pc'[q] = IF q = p THEN "create" ELSE pc[q]
            /\ token'[q] = IF q = p THEN t ELSE token[q]
            /\ seen'[q] = seen[q]
    BY <1>2 DEF Acquire, Fresh, TypeOK
  <1>4. Owned'
    <2>1. ASSUME NEW q \in Procs PROVE token'[q] # NoToken <=> pc'[q] \in Acquiring \cup Holding
      BY ZenonT(60), <1>1, <1>3, LabelSets DEF Fresh, Owned
    <2>2. ASSUME NEW q \in Procs, NEW r \in Procs, token'[q] = token'[r], token'[q] # NoToken
          PROVE  q = r
      BY <1>1, <1>3, <2>2 DEF Fresh, Owned
    <2> QED
      BY <2>1, <2>2 DEF Owned
  <1>5. Written'
    BY ZenonT(60), <1>1, <1>3, LabelSets DEF Fresh, Written
  <1>6. SwapsStale'
    BY <1>3 DEF Fresh, SwapsStale
  <1> QED
    BY <1>4, <1>5, <1>6

\* Every step keeps what the tokens tell apart.
LEMMA FreshStep ==
  ASSUME Fresh, [Next]_vars
  PROVE  Fresh'
  <1> DEFINE Kept == Owned' /\ Written' /\ SwapsStale'
  <1> SUFFICES Kept
    BY TypeStep DEF Fresh
  <1>1. CASE UNCHANGED vars
    BY <1>1 DEF vars, Fresh, Owned, Written, SwapsStale
  <1>2. CASE Tick
    <2>1. lock'.token = lock.token /\ lock'.left = Down(lock.left) /\ lock.left \in 0..Ttl
      BY <1>2 DEF Tick, Fresh, TypeOK
    <2>2. lock.left = 0 => lock'.left = 0
      BY <2>1, DownBounds
    <2> QED
      BY <1>2, <2>1, <2>2 DEF Tick, Fresh, Owned, Written, SwapsStale
  <1>3. ASSUME NEW p \in Procs, Crash(p) PROVE Kept
    BY <1>3, ExitFresh DEF Crash
  <1>4. ASSUME NEW p \in Procs, Acquire(p) PROVE Kept
    BY <1>4, AcquireFresh
  <1>5. ASSUME NEW p \in Procs, Unlock(p) PROVE Kept
    <2>1. PICK c \in Unlocking : Goto(p, c)
      BY <1>5, CommandAssumption DEF Unlock, Unlocking
    <2> QED
      BY <1>5, <2>1, GotoFresh, LabelSets DEF Unlock
  <1>6. ASSUME NEW p \in Procs, Create(p) PROVE Kept
    BY <1>6, WriteLockFresh, GotoFresh, LabelSets DEF Create
  <1>7. ASSUME NEW p \in Procs, ReadLock(p) PROVE Kept
    BY <1>7, NextRoundFresh, GotoFresh, LabelSets DEF ReadLock
  <1>8. ASSUME NEW p \in Procs, CheckExpiry(p) PROVE Kept
    <2>1. seen[p] # NoToken
      BY <1>8 DEF CheckExpiry, Fresh, Written
    <2> QED
      BY <1>8, <2>1, ExitFresh, GotoFresh, LabelSets DEF CheckExpiry
  <1>9. ASSUME NEW p \in Procs, Swap(p) PROVE Kept
    BY <1>9, WriteLockFresh, NextRoundFresh, LabelSets DEF Swap
  <1>10. ASSUME NEW p \in Procs, Finish(p) PROVE Kept
    BY <1>10, GotoFresh, LabelSets DEF Finish
  <1>11. ASSUME NEW p \in Procs, Release(p) PROVE Kept
    BY <1>11, ExitFresh, GotoFresh, LabelSets DEF Release
  <1>12. ASSUME NEW p \in Procs, DeleteLock(p) PROVE Kept
    BY <1>12, ExitFresh DEF DeleteLock
  <1>13. ASSUME NEW p \in Procs, UnlockRead(p) PROVE Kept
    BY <1>13, ExitFresh, GotoFresh, LabelSets DEF UnlockRead
  <1> QED
    BY <1>1, <1>2, <1>3, <1>4, <1>5, <1>6, <1>7, <1>8, <1>9, <1>10, <1>11, <1>12, <1>13
       DEF Next, Step

\* The initial state has no lock and no tokens.
LEMMA FreshInit == Init => Fresh
  <1> SUFFICES ASSUME Init PROVE Fresh
    OBVIOUS
  <1>1. TypeOK
    BY Ends, CrashAssumption DEF Init, TypeOK, NoLock
  <1>2. \A p \in Procs : pc[p] = "idle" /\ token[p] = NoToken /\ seen[p] = NoToken
    BY DEF Init
  <1> QED
    BY <1>1, <1>2, LabelSets DEF Fresh, Owned, Written, SwapsStale

\* Every reachable state has the declared shape, whatever the runs do.
THEOREM LockTypes == Spec => []TypeOK
  <1>1. Fresh /\ [Next]_vars => Fresh'
    BY FreshStep
  <1>2. Fresh => TypeOK
    BY DEF Fresh
  <1> QED
    BY <1>1, <1>2, FreshInit, PTL DEF Spec

\* acquire_s3 never replaces a lock whose lease is live, though runs outlive
\* their leases, die, or are cleared by unlock at any point.
THEOREM TakeoverOnlyWhenStale == Spec => NoLiveTakeover
  <1>1. Fresh /\ [Next]_vars => Fresh'
    BY FreshStep
  <1>2. Fresh /\ [Next]_vars =>
           [lock.token # NoToken /\ lock.left > 0 => lock'.token \in {lock.token, NoToken}]_vars
    <2> SUFFICES ASSUME Fresh, Next, lock.token # NoToken, lock.left > 0,
                        lock'.token \notin {lock.token, NoToken}
                 PROVE  FALSE
      OBVIOUS
    <2>1. CASE Tick
      BY <2>1 DEF Tick, Fresh, TypeOK
    <2>2. ASSUME NEW p \in Procs, Create(p) PROVE FALSE
      BY <2>2 DEF Create, Goto
    <2>3. ASSUME NEW p \in Procs, Swap(p) PROVE FALSE
      BY <2>3 DEF Swap, NextRound, Fresh, SwapsStale
    <2>4. ASSUME NEW p \in Procs, DeleteLock(p) PROVE FALSE
      BY <2>4 DEF DeleteLock, NoLock
    <2>5. CASE UNCHANGED lock
      BY <2>5
    <2> QED
      BY <2>1, <2>2, <2>3, <2>4, <2>5
         DEF Next, Step, Crash, Acquire, Unlock, ReadLock, CheckExpiry, Finish, Release,
             UnlockRead
  <1> QED
    BY <1>1, <1>2, FreshInit, PTL DEF Spec, NoLiveTakeover

\* As long as all is orderly, a holder's lock stays in place.
LEMMA HeldStep ==
  ASSUME Fresh, orderly => Held, [Next]_vars, orderly'
  PROVE  Held'
  <1> Held
    BY DEF Next, Tick, Crash, DeleteLock, vars
  <1>1. CASE UNCHANGED vars
    BY <1>1 DEF vars, Held
  <1>2. CASE Tick
    <2>1. /\ lock'.token = lock.token /\ lock'.left = Down(lock.left)
          /\ \A p \in Procs : /\ left[p] \in 0..Ttl /\ left'[p] = Down(left[p])
                              /\ pc'[p] = pc[p] /\ token'[p] = token[p]
                              /\ token[p] # NoToken => left[p] > 1
      BY <1>2 DEF Tick, Fresh, TypeOK
    <2>2. \A p \in Procs : pc[p] \in Acquiring \cup Holding => left'[p] > 0
      BY <2>1, DownBounds DEF Fresh, Owned
    <2> QED
      BY <2>1, <2>2 DEF Held
  <1>3. ASSUME NEW p \in Procs, UNCHANGED lock, Exit(p) PROVE Held'
    <2>1. \A q \in Procs :
            /\ pc'[q] = IF q = p THEN "idle" ELSE pc[q]
            /\ token'[q] = IF q = p THEN NoToken ELSE token[q]
            /\ left'[q] = IF q = p THEN 0 ELSE left[q]
      BY <1>3, ExitEffect DEF Fresh
    <2> QED
      BY ZenonT(60), <1>3, <2>1, LabelSets DEF Held
  <1>4. ASSUME NEW p \in Procs, UNCHANGED lock, left' = [left EXCEPT ![p] = Ttl],
               pc' = [pc EXCEPT ![p] = "create"], \A q \in Procs : q # p => token'[q] = token[q]
        PROVE  Held'
    <2>1. \A q \in Procs :
            /\ pc'[q] = IF q = p THEN "create" ELSE pc[q]
            /\ left'[q] = IF q = p THEN Ttl ELSE left[q]
      BY <1>4 DEF Fresh, TypeOK
    <2>2. Ttl > 0 /\ "create" \notin Holding
      BY Ends, LabelSets
    <2>3. \A q \in Procs : pc'[q] \in Acquiring => left'[q] > 0
      BY <2>1, <2>2 DEF Held
    <2>4. ASSUME NEW q \in Procs, pc'[q] \in Holding
          PROVE  q # p /\ pc[q] \in Holding /\ left'[q] = left[q] /\ token'[q] = token[q]
      BY <1>4, <2>1, <2>2, <2>4
    <2> QED
      BY <1>4, <2>3, <2>4 DEF Held
  <1>5. ASSUME NEW p \in Procs, NextRound(p), UNCHANGED lock PROVE Held'
    BY <1>3, <1>4, <1>5 DEF NextRound
  <1>6. ASSUME NEW p \in Procs, WriteLock(p), pc[p] \in Acquiring,
               lock.token = NoToken \/ (lock.token = seen[p] /\ pc[p] = "swap")
        PROVE  Held'
    <2>1. lock.token = NoToken \/ lock.left = 0
      BY <1>6 DEF Fresh, SwapsStale
    <2>2. \A q \in Procs : pc[q] \notin Holding
      BY <2>1 DEF Fresh, Owned, Held
    <2>3. /\ lock'.token = token[p] /\ lock'.left = left[p]
          /\ \A q \in Procs : /\ pc'[q] = IF q = p THEN "running" ELSE pc[q]
                              /\ token'[q] = token[q] /\ left'[q] = left[q]
      BY <1>6 DEF WriteLock, Goto, Fresh, TypeOK
    <2> QED
      BY <1>6, <2>2, <2>3, LabelSets DEF Held
  <1>7. ASSUME NEW p \in Procs, NEW l, Goto(p, l), UNCHANGED lock,
               l \in Acquiring => pc[p] \in Acquiring, l \in Holding => pc[p] \in Holding
        PROVE  Held'
    <2>1. \A q \in Procs : /\ pc'[q] = IF q = p THEN l ELSE pc[q]
                           /\ token'[q] = token[q] /\ left'[q] = left[q]
      BY <1>7 DEF Goto, Fresh, TypeOK
    <2> QED
      BY <1>7, <2>1 DEF Held
  <1>8. ASSUME NEW p \in Procs, DeleteLock(p) PROVE Held'
    <2>1. \A q \in Procs : pc[q] \in Holding => q = p
      <3>1. CASE pc[p] = "delete"
        BY ZenonT(60), <3>1, LabelSets DEF Held, Fresh, Owned
      <3>2. CASE pc[p] = "clear"
        <4>1. lock.left = 0
          BY <1>8, <3>2 DEF DeleteLock
        <4> QED
          BY <4>1 DEF Held
      <3> QED
        BY <1>8, <3>1, <3>2 DEF DeleteLock
    <2>2. \A q \in Procs :
            /\ pc'[q] = IF q = p THEN "idle" ELSE pc[q]
            /\ left'[q] = IF q = p THEN 0 ELSE left[q]
      BY <1>8, ExitEffect DEF DeleteLock, Fresh
    <2> QED
      BY <2>1, <2>2, LabelSets DEF Held
  <1>9. ASSUME NEW p \in Procs, Unlock(p) PROVE Held'
    <2>1. PICK c \in Unlocking : Goto(p, c)
      BY <1>9, CommandAssumption DEF Unlock, Unlocking
    <2> QED
      BY <1>7, <1>9, <2>1, LabelSets DEF Unlock
  <1>10. ASSUME NEW p \in Procs, Acquire(p) PROVE Held'
    <2>1. \A q \in Procs : q # p => token'[q] = token[q]
      BY <1>10 DEF Acquire, Fresh, TypeOK
    <2> QED
      BY <1>4, <1>10, <2>1 DEF Acquire
  <1>11. ASSUME NEW p \in Procs, Crash(p) PROVE Held'
    BY <1>3, <1>11 DEF Crash
  <1>12. ASSUME NEW p \in Procs, Step(p) PROVE Held'
    <2>1. CASE Create(p)
      BY <1>6, <1>7, <2>1, LabelSets DEF Create
    <2>2. CASE ReadLock(p)
      BY <1>5, <1>7, <2>2, LabelSets DEF ReadLock
    <2>3. CASE CheckExpiry(p)
      BY <1>3, <1>7, <2>3, LabelSets DEF CheckExpiry
    <2>4. CASE Swap(p)
      BY <1>5, <1>6, <2>4, LabelSets DEF Swap
    <2>5. CASE Finish(p)
      BY <1>7, <2>5, LabelSets DEF Finish
    <2>6. CASE Release(p)
      BY <1>3, <1>7, <2>6, LabelSets DEF Release
    <2>7. CASE UnlockRead(p)
      BY <1>3, <1>7, <2>7, LabelSets DEF UnlockRead
    <2> QED
      BY <1>12, <2>1, <2>2, <2>3, <2>4, <2>5, <2>6, <2>7 DEF Step
  <1> QED
    BY <1>1, <1>2, <1>8, <1>9, <1>10, <1>11, <1>12 DEF Next

\* Until some run outlives its lease or an unlock clears a live one, acquire_s3 and
\* release_s3 give mutual exclusion to any number of commands, crashes included.
THEOREM LockExcludes == Spec => []MutualExclusion
  <1> DEFINE Guarded == orderly => Held
  <1>1. Init => Fresh /\ Guarded
    <2> SUFFICES ASSUME Init PROVE Held
      BY FreshInit
    <2>1. \A p \in Procs : pc[p] = "idle"
      BY DEF Init
    <2> QED
      BY <2>1, LabelSets DEF Held
  <1>2. Fresh /\ Guarded /\ [Next]_vars => (Fresh /\ Guarded)'
    BY FreshStep, HeldStep
  <1>3. Fresh /\ Guarded => MutualExclusion
    BY DEF Fresh, Owned, Held, MutualExclusion
  <1> QED
    BY <1>1, <1>2, <1>3, PTL DEF Spec
============================================================================
