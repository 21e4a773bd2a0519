----------------------------- MODULE LockProofs -----------------------------
(***************************************************************************)
(* The kernel's locks exclude each other, for every number of threads,     *)
(* locks and priorities: the invariant LockInv, with the types, is         *)
(* preserved by every step.  Few steps concern it; all others leave the    *)
(* locks alone and no thread at the places that LockInv speaks of.  So the *)
(* locks implement the abstract ones of module Mutex.                      *)
(***************************************************************************)
EXTENDS KernelProperties, TypeProofs

(* A thread that is at one of the places LockInv speaks of has been there. *)
NoneArrives ==
    \A t \in Threads : pc'[t] \in {"cwRel", "tried"} => pc'[t] = pc[t] /\ obj'[t] = obj[t]

(* The step changes no lock.                                               *)
LocksLeftAlone ==
    /\ UNCHANGED <<holder, held>>
    /\ \A l \in Locks : value'[l] = value[l]
    /\ NoneArrives

(* The running thread acquires l, which nobody holds.                      *)
Takes(l) ==
    /\ \A t \in AllThreads : l \notin held[t]
    /\ held' = [held EXCEPT ![cur] = @ \cup {l}]

(* The running thread gives up l, which it holds.                          *)
GivesUp(l) == l \in held[cur] /\ held' = [held EXCEPT ![cur] = @ \ {l}]

-----------------------------------------------------------------------------
(* Initially every lock is free.                                           *)
LEMMA LockInvInit == Init => LockInv
<1> SUFFICES ASSUME Init PROVE LockInv
  BY Zenon
<1> USE ThreadAssumption, SynchAssumption
<1>1. \A l \in Locks : value[l] = 1 /\ holder[l] = NULL
  BY Zenon DEF Init, SynchInit, SemaIds
<1>2. \A t \in AllThreads : held[t] = {}
  BY Zenon DEF Init, SynchInit
<1>3. \A t \in Threads : pc[t] = "run"
  BY Zenon DEF Init, ThreadInit, AllThreads
<1> QED BY <1>1, <1>2, <1>3, Zenon DEF LockInv, MutualExclusion, AllThreads

(* A step that changes no lock keeps LockInv.                              *)
LEMMA LeftAloneKeepsLockInv ==
    ASSUME TypeInv, LockInv, LocksLeftAlone
    PROVE  LockInv'
<1>1. \A l \in Locks : value'[l] = 0 \/ (value'[l] = 1 /\ holder'[l] = NULL)
  BY Zenon DEF LockInv, LocksLeftAlone
<1>2. MutualExclusion' /\ held'[Idle] = {}
  BY Zenon DEF LockInv, LocksLeftAlone, MutualExclusion
<1>3. ASSUME NEW t \in Threads, pc'[t] = "cwRel"
      PROVE  obj'[t] \in held'[t]
  BY <1>3, Zenon DEF LockInv, LocksLeftAlone, NoneArrives
<1>4. ASSUME NEW t \in Threads, pc'[t] = "tried"
      PROVE  /\ value'[obj'[t]] = 0 /\ holder'[obj'[t]] = NULL
             /\ \A u \in Threads : pc'[u] = "tried" /\ obj'[u] = obj'[t] => u = t
  <2>1. pc[t] = "tried" /\ obj'[t] = obj[t] /\ obj[t] \in Locks
    BY <1>4, Zenon DEF LocksLeftAlone, NoneArrives, TypeInv, CallsWellFormed
  <2>2. \A u \in Threads : pc'[u] = "tried" => pc[u] = "tried" /\ obj'[u] = obj[u]
    BY Zenon DEF LocksLeftAlone, NoneArrives
  <2> QED BY <2>1, <2>2 DEF LockInv, LocksLeftAlone
<1> QED BY <1>1, <1>2, <1>3, <1>4, Zenon DEF LockInv

(* The running thread goes from one place to another.                      *)
LEMMA MovesOn ==
    ASSUME FrameType, NEW label \in (Labels \cup Conds) \ {"cwRel", "tried"},
           pc' = [pc EXCEPT ![cur] = label],
           obj' = obj \/ \E o : obj' = [obj EXCEPT ![cur] = o]
    PROVE  NoneArrives
BY Zenon DEF NoneArrives, FrameType, AllThreads

-----------------------------------------------------------------------------
(* The scheduler's own steps.                                              *)
LEMMA ThreadStepLeavesLocks ==
    ASSUME TypeInv, ThreadStep
    PROVE  LocksLeftAlone
<1> USE ThreadAssumption, SynchAssumption
<1>1. FrameType /\ CallsWellFormed /\ SchedType
  BY Zenon DEF TypeInv, TypeOK
<1>2. UNCHANGED <<holder, held, value>>
  BY Zenon DEF ThreadStep, synchVars
<1>3. ASSUME NEW t \in Threads, NEW p \in Priorities, thread_create(t, p)
      PROVE  NoneArrives
  <2>1. /\ pc' = [pc EXCEPT ![cur] = "create", ![t] = "run"]
        /\ obj' = [obj EXCEPT ![cur] = t, ![t] = NULL]
    BY <1>3, Zenon DEF thread_create
  <2> QED BY <1>1, <2>1, Zenon DEF NoneArrives, FrameType, AllThreads
<1>4. ASSUME thread_create_return
      PROVE  NoneArrives
  <2>1. /\ pc' = [pc EXCEPT ![cur] = "yield"] \/ pc' = [pc EXCEPT ![cur] = "run"]
        /\ obj' = [obj EXCEPT ![cur] = NULL]
    BY <1>4, Zenon DEF thread_create_return, GoTo
  <2> QED BY <1>1, <2>1, MovesOn, Zenon DEF Labels
<1>5. ASSUME thread_yield
      PROVE  NoneArrives
  <2>1. pc' = [pc EXCEPT ![cur] = ret[cur]] /\ obj' = obj
    BY <1>5, Zenon DEF thread_yield, GoTo
  <2>2. ret[cur] \in (Labels \cup Conds) \ {"cwRel", "tried"}
    BY <1>1, Zenon DEF FrameType, SchedType, Labels
  <2> QED BY <1>1, <2>1, <2>2, MovesOn, Zenon
<1>6. ASSUME thread_exit
      PROVE  NoneArrives
  BY <1>6, Zenon DEF thread_exit, frame, NoneArrives
<1>7. ASSUME NEW p \in Priorities, thread_set_priority(p)
      PROVE  NoneArrives
  <2>1. (pc' = pc \/ pc' = [pc EXCEPT ![cur] = "yield"]) /\ obj' = obj
    BY <1>7, Zenon DEF thread_set_priority, GoTo
  <2> QED BY <1>1, <2>1, MovesOn, Zenon DEF NoneArrives, Labels
<1>8. ASSUME idle
      PROVE  NoneArrives
  <2>1. pc' = [pc EXCEPT ![cur] = "hlt"] /\ obj' = obj
    BY <1>8, Zenon DEF idle, GoTo
  <2> QED BY <1>1, <2>1, MovesOn, Zenon DEF Labels
<1>9. NoneArrives
  BY <1>3, <1>4, <1>5, <1>6, <1>7, <1>8, Zenon DEF ThreadStep
<1> QED BY <1>2, <1>9, Zenon DEF LocksLeftAlone

(* sema_down on a semaphore that is not a lock's.                          *)
LEMMA DownLoopLeavesLocks ==
    ASSUME TypeInv, NEW s \in SemaIds \ Locks,
           NEW r \in (Labels \cup Conds) \ {"cwRel", "tried"}, DownLoop(s, r),
           obj' = obj \/ \E o : obj' = [obj EXCEPT ![cur] = o]
    PROVE  LocksLeftAlone
<1>1. FrameType /\ SynchType
  BY Zenon DEF TypeInv, TypeOK
<1>2. UNCHANGED <<holder, held>>
  BY Zenon DEF DownLoop
<1>3. value' = value \/ value' = [value EXCEPT ![s] = value[s] - 1]
  BY Zenon DEF DownLoop
<1>4. \A l \in Locks : value'[l] = value[l]
  BY <1>1, <1>3, Zenon DEF SynchType, SemaIds
<1>5. pc' = [pc EXCEPT ![cur] = "down"] \/ pc' = [pc EXCEPT ![cur] = r]
  BY Zenon DEF DownLoop, GoTo
<1>6. "down" \in (Labels \cup Conds) \ {"cwRel", "tried"}
  BY Zenon DEF Labels
<1>7. NoneArrives
  BY <1>1, <1>5, <1>6, MovesOn, Zenon
<1> QED BY <1>2, <1>4, <1>7, Zenon DEF LocksLeftAlone

(* sema_up on a semaphore that is not a lock's.                            *)
LEMMA UpLeavesLocks ==
    ASSUME SynchType, NEW s \in SemaIds \ Locks, Up(s)
    PROVE  \A l \in Locks : value'[l] = value[l]
BY Zenon DEF Up, SynchType, SemaIds

(* The same, called by a thread.                                           *)
LEMMA UpByThreadLeavesLocks ==
    ASSUME TypeInv, NEW s \in SemaIds \ Locks,
           NEW r \in (Labels \cup Conds) \ {"cwRel", "tried"}, UpByThread(s, r),
           obj' = obj \/ \E o : obj' = [obj EXCEPT ![cur] = o]
    PROVE  LocksLeftAlone
<1>1. FrameType /\ SynchType
  BY Zenon DEF TypeInv, TypeOK
<1>2. UNCHANGED <<holder, held>>
  BY Zenon DEF UpByThread
<1>3. \A l \in Locks : value'[l] = value[l]
  BY <1>1, UpLeavesLocks, Zenon DEF UpByThread
<1>4. pc' = [pc EXCEPT ![cur] = "yield"] \/ pc' = [pc EXCEPT ![cur] = r]
  BY Zenon DEF UpByThread, GoTo
<1>5. "yield" \in (Labels \cup Conds) \ {"cwRel", "tried"}
  BY Zenon DEF Labels
<1>6. NoneArrives
  BY <1>1, <1>4, <1>5, MovesOn, Zenon
<1> QED BY <1>2, <1>3, <1>6, Zenon DEF LocksLeftAlone

(* The steps of the clients' semaphores.                                   *)
LEMMA SemaStepLeavesLocks ==
    ASSUME TypeInv, SemaStep
    PROVE  LocksLeftAlone
<1> USE ThreadAssumption, SynchAssumption
<1>1. "run" \in (Labels \cup Conds) \ {"cwRel", "tried"}
      /\ "cwAcq" \in (Labels \cup Conds) \ {"cwRel", "tried"}
  BY Zenon DEF Labels
<1>2. Semas \subseteq SemaIds \ Locks /\ Threads \subseteq SemaIds \ Locks
  BY Zenon DEF SemaIds
<1>3. ASSUME NEW s \in Semas, sema_down(s)
      PROVE  LocksLeftAlone
  BY <1>1, <1>2, <1>3, DownLoopLeavesLocks, Zenon DEF sema_down
<1>4. ASSUME NEW s \in Semas, sema_try_down(s)
      PROVE  LocksLeftAlone
  <2>1. UNCHANGED <<holder, held, pc, obj>> /\ value' = [value EXCEPT ![s] = value[s] - 1]
    BY <1>4, Zenon DEF sema_try_down, threadVars, frame
  <2>2. \A l \in Locks : value'[l] = value[l]
    BY <1>2, <2>1, Zenon DEF TypeInv, TypeOK, SynchType, SemaIds
  <2> QED BY <2>1, <2>2, Zenon DEF LocksLeftAlone, NoneArrives
<1>5. ASSUME NEW s \in Semas, sema_up(s)
      PROVE  LocksLeftAlone
  BY <1>1, <1>2, <1>5, UpByThreadLeavesLocks, Zenon DEF sema_up
<1>6. ASSUME sema_down_loop
      PROVE  LocksLeftAlone
  <2>1. cur \in Threads /\ pc[cur] = "down"
    BY <1>6, Zenon DEF sema_down_loop, At, TypeInv, TypeOK, CallsWellFormed, SchedType, AllThreads
  <2>2. CASE ret[cur] = "cwAcq"
    BY <1>1, <1>2, <1>6, <2>1, <2>2, DownLoopLeavesLocks, Zenon DEF sema_down_loop
  <2>3. CASE ret[cur] # "cwAcq"
    <3>1. obj[cur] \in Semas
      BY <2>1, <2>3, Zenon DEF TypeInv, CallsWellFormed
    <3>2. DownLoop(obj[cur], "run") /\ (obj' = obj \/ obj' = [obj EXCEPT ![cur] = NULL])
      BY <1>6, <2>3, Zenon DEF sema_down_loop
    <3> QED BY <1>1, <1>2, <3>1, <3>2, DownLoopLeavesLocks, Zenon
  <2> QED BY <2>2, <2>3, Zenon
<1> QED BY <1>3, <1>4, <1>5, <1>6, Zenon DEF SemaStep

-----------------------------------------------------------------------------
(* Acquiring and releasing.                                                *)

(* TakeLock takes a free lock and keeps LockInv.                           *)
LEMMA TakeLockKeepsLockInv ==
    ASSUME TypeInv, LockInv, cur \in Threads, NEW l \in Locks, TakeLock(l)
    PROVE  LockInv' /\ Takes(l)
<1> USE ThreadAssumption, SynchAssumption
<1>1. FrameType /\ SynchType /\ l \in SemaIds /\ cur \in AllThreads /\ cur # Idle
  BY Zenon DEF TypeInv, TypeOK, SemaIds, AllThreads
<1>2. value[l] > 0 /\ value[l] \in Nat
  BY <1>1, Zenon DEF TakeLock, SynchType
<1>3. value[l] = 1 /\ holder[l] = NULL
  BY <1>2 DEF LockInv
<1>4. \A t \in AllThreads : l \notin held[t]
  BY <1>3 DEF LockInv, MutualExclusion
<1>5. /\ value' = [value EXCEPT ![l] = 0]
      /\ holder' = [holder EXCEPT ![l] = cur]
      /\ held' = [held EXCEPT ![cur] = held[cur] \cup {l}]
      /\ pc' = [pc EXCEPT ![cur] = "run"]
      /\ obj' = [obj EXCEPT ![cur] = NULL]
  BY <1>3 DEF TakeLock, GoTo
<1>6. \A k \in Locks : value'[k] = 0 \/ (value'[k] = 1 /\ holder'[k] = NULL)
  BY <1>1, <1>5 DEF LockInv, SynchType, SemaIds
<1>7. MutualExclusion'
  <2> SUFFICES ASSUME NEW k \in Locks, NEW t \in AllThreads, k \in held'[t]
               PROVE  holder'[k] = t /\ value'[k] = 0
    BY Zenon DEF MutualExclusion
  <2>1. CASE k = l
    BY <1>1, <1>4, <1>5, <2>1, Zenon DEF SynchType, SemaIds
  <2>2. CASE k # l
    <3>1. k \in held[t]
      BY <1>1, <1>5, <2>2, Zenon DEF SynchType
    <3> QED BY <1>1, <1>5, <2>2, <3>1 DEF LockInv, MutualExclusion, SynchType, SemaIds
  <2> QED BY <2>1, <2>2, Zenon
<1>8. held'[Idle] = {}
  BY <1>1, <1>5, Zenon DEF LockInv, SynchType, AllThreads
<1>9. NoneArrives
  BY <1>1, <1>5, Zenon DEF NoneArrives, FrameType, AllThreads
<1>10. ASSUME NEW t \in Threads, pc'[t] = "cwRel"
       PROVE  obj'[t] \in held'[t]
  BY <1>1, <1>5, <1>9, <1>10, SMTT(30) DEF NoneArrives, LockInv, SynchType, AllThreads
<1>11. ASSUME NEW t \in Threads, pc'[t] = "tried"
       PROVE  /\ value'[obj'[t]] = 0 /\ holder'[obj'[t]] = NULL
              /\ \A u \in Threads : pc'[u] = "tried" /\ obj'[u] = obj'[t] => u = t
  <2>1. pc[t] = "tried" /\ obj'[t] = obj[t] /\ obj[t] \in Locks
    BY <1>9, <1>11, Zenon DEF NoneArrives, TypeInv, CallsWellFormed
  <2>2. value[obj[t]] = 0 /\ holder[obj[t]] = NULL /\ obj[t] # l
    BY <1>3, <2>1 DEF LockInv
  <2>3. \A u \in Threads : pc'[u] = "tried" => pc[u] = "tried" /\ obj'[u] = obj[u]
    BY <1>9, Zenon DEF NoneArrives
  <2>4. value'[obj'[t]] = 0 /\ holder'[obj'[t]] = NULL
    BY <1>1, <1>5, <2>1, <2>2, Zenon DEF SynchType, SemaIds
  <2> QED BY <2>1, <2>3, <2>4 DEF LockInv
<1> QED BY <1>4, <1>5, <1>6, <1>7, <1>8, <1>10, <1>11, Zenon DEF LockInv, Takes

(* What a step does to the locks that the clients hold.                    *)
HeldStep ==
    held' = held \/ (cur \in Threads /\ \E l \in Locks : Takes(l) \/ GivesUp(l))

(* Waiting for a lock changes no lock.                                     *)
LEMMA WaitForLockLeavesLocks ==
    ASSUME TypeInv, NEW l \in Locks, WaitForLock(l) \/ NullHolder(l)
    PROVE  LocksLeftAlone
<1>1. FrameType
  BY Zenon DEF TypeInv, TypeOK
<1>2. CASE WaitForLock(l)
  <2>1. /\ UNCHANGED <<holder, held, value>>
        /\ pc' = [pc EXCEPT ![cur] = "acq"] /\ obj' = [obj EXCEPT ![cur] = l]
    BY <1>2, Zenon DEF WaitForLock, GoTo
  <2>2. "acq" \in (Labels \cup Conds) \ {"cwRel", "tried"}
    BY Zenon DEF Labels
  <2>3. NoneArrives
    BY <1>1, <2>1, <2>2, MovesOn, Zenon
  <2> QED BY <2>1, <2>3, Zenon DEF LocksLeftAlone
<1>3. CASE NullHolder(l)
  BY <1>3, Zenon DEF NullHolder, synchVars, frame, LocksLeftAlone, NoneArrives
<1> QED BY <1>2, <1>3, Zenon

(* lock_acquire, from its loop test.                                       *)
LEMMA AcquireLoopKeepsLockInv ==
    ASSUME TypeInv, LockInv, cur \in Threads, NEW l \in Locks, AcquireLoop(l)
    PROVE  LockInv' /\ HeldStep
<1>1. CASE TakeLock(l)
  BY <1>1, TakeLockKeepsLockInv, Zenon DEF HeldStep
<1>2. CASE WaitForLock(l) \/ NullHolder(l)
  BY <1>2, WaitForLockLeavesLocks, LeftAloneKeepsLockInv, Zenon DEF LocksLeftAlone, HeldStep
<1> QED BY <1>1, <1>2, Zenon DEF AcquireLoop

(* lock_release gives up a lock that the running thread holds.             *)
LEMMA ReleaseKeepsLockInv ==
    ASSUME TypeInv, LockInv, cur \in Threads, NEW l \in Locks, l \in held[cur],
           NEW r \in {"run", "cwDown"}, Release(l, r), UNCHANGED obj
    PROVE  LockInv' /\ HeldStep
<1> USE ThreadAssumption, SynchAssumption
<1>1. FrameType /\ SynchType /\ l \in SemaIds /\ cur \in AllThreads /\ cur # Idle
  BY Zenon DEF TypeInv, TypeOK, SemaIds, AllThreads
<1>2. holder[l] = cur /\ value[l] = 0 /\ holder[l] # NULL
  BY <1>1 DEF LockInv, MutualExclusion
<1>3. /\ value' = [value EXCEPT ![l] = value[l] + 1]
      /\ holder' = [holder EXCEPT ![l] = NULL]
      /\ held' = [held EXCEPT ![cur] = held[cur] \ {l}]
      /\ pc' = [pc EXCEPT ![cur] = r]
  BY Zenon DEF Release, GoTo
<1>4. value' = [value EXCEPT ![l] = 1]
  BY <1>2, <1>3
<1>5. \A k \in Locks : value'[k] = 0 \/ (value'[k] = 1 /\ holder'[k] = NULL)
  BY <1>1, <1>3, <1>4 DEF LockInv, SynchType, SemaIds
<1>6. MutualExclusion'
  <2> SUFFICES ASSUME NEW k \in Locks, NEW t \in AllThreads, k \in held'[t]
               PROVE  holder'[k] = t /\ value'[k] = 0
    BY Zenon DEF MutualExclusion
  <2>1. k \in held[t] /\ (k = l => t # cur)
    BY <1>1, <1>3, Zenon DEF SynchType
  <2>2. holder[k] = t /\ value[k] = 0 /\ k # l
    BY <1>2, <2>1 DEF LockInv, MutualExclusion
  <2> QED BY <1>1, <1>3, <1>4, <2>2, Zenon DEF SynchType, SemaIds
<1>7. held'[Idle] = {}
  BY <1>1, <1>3, Zenon DEF LockInv, SynchType, AllThreads
<1>8. NoneArrives
  BY <1>1, <1>3, Zenon DEF NoneArrives, FrameType, AllThreads
<1>9. ASSUME NEW t \in Threads, pc'[t] = "cwRel"
      PROVE  obj'[t] \in held'[t]
  <2>1. t # cur
    BY <1>1, <1>3, <1>9 DEF FrameType
  <2>2. pc[t] = "cwRel"
    BY <1>8, <1>9, Zenon DEF NoneArrives
  <2>3. obj[t] \in held[t]
    BY <2>2, Zenon DEF LockInv
  <2>4. t \in AllThreads
    BY Zenon DEF AllThreads
  <2>5. held'[t] = held[t]
    BY <1>1, <1>3, <2>1, <2>4, Zenon DEF SynchType
  <2> QED BY <2>3, <2>5, Zenon
<1>10. ASSUME NEW t \in Threads, pc'[t] = "tried"
       PROVE  /\ value'[obj'[t]] = 0 /\ holder'[obj'[t]] = NULL
              /\ \A u \in Threads : pc'[u] = "tried" /\ obj'[u] = obj'[t] => u = t
  <2>1. pc[t] = "tried" /\ obj'[t] = obj[t] /\ obj[t] \in Locks
    BY <1>8, <1>10, Zenon DEF NoneArrives, TypeInv, CallsWellFormed
  <2>2. value[obj[t]] = 0 /\ holder[obj[t]] = NULL /\ obj[t] # l
    BY <1>2, <2>1, Zenon DEF LockInv
  <2>3. \A u \in Threads : pc'[u] = "tried" => pc[u] = "tried" /\ obj'[u] = obj[u]
    BY <1>8, Zenon DEF NoneArrives
  <2>4. value'[obj'[t]] = 0 /\ holder'[obj'[t]] = NULL
    BY <1>1, <1>3, <1>4, <2>1, <2>2, Zenon DEF SynchType, SemaIds
  <2> QED BY <2>1, <2>3, <2>4 DEF LockInv
<1>11. HeldStep
  BY <1>3, Zenon DEF HeldStep, GivesUp
<1> QED BY <1>5, <1>6, <1>7, <1>9, <1>10, <1>11, ZenonT(30) DEF LockInv

(* The first step of lock_try_acquire: the lock is taken from everybody    *)
(* and not yet anybody's.                                                  *)
LEMMA TryAcquireKeepsLockInv ==
    ASSUME TypeInv, LockInv, NEW l \in Locks, lock_try_acquire(l)
    PROVE  LockInv' /\ HeldStep
<1> USE ThreadAssumption, SynchAssumption
<1>1. FrameType /\ SynchType /\ l \in SemaIds /\ cur \in Threads /\ cur \in AllThreads
  BY Zenon DEF TypeInv, TypeOK, SemaIds, AllThreads, lock_try_acquire, Calls
<1>2. value[l] > 0 /\ value[l] \in Nat
  BY <1>1, Zenon DEF lock_try_acquire, CanDown, SynchType
<1>3. value[l] = 1 /\ holder[l] = NULL
  BY <1>2 DEF LockInv
<1>4. /\ value' = [value EXCEPT ![l] = 0]
      /\ UNCHANGED <<holder, held>>
      /\ pc' = [pc EXCEPT ![cur] = "tried"]
      /\ obj' = [obj EXCEPT ![cur] = l]
  BY <1>3 DEF lock_try_acquire, GoTo
<1>5. \A k \in Locks : value'[k] = 0 \/ (value'[k] = 1 /\ holder'[k] = NULL)
  BY <1>1, <1>4, Zenon DEF LockInv, SynchType, SemaIds
<1>6. MutualExclusion' /\ held'[Idle] = {}
  BY <1>1, <1>4, Zenon DEF LockInv, MutualExclusion, SynchType, SemaIds
<1>7. \A t \in Threads : t # cur => pc'[t] = pc[t] /\ obj'[t] = obj[t]
  BY <1>1, <1>4, Zenon DEF FrameType, AllThreads
<1>8. pc'[cur] = "tried" /\ obj'[cur] = l
  BY <1>1, <1>4, Zenon DEF FrameType
<1>9. ASSUME NEW t \in Threads, pc'[t] = "cwRel"
      PROVE  obj'[t] \in held'[t]
  BY <1>4, <1>7, <1>8, <1>9, Zenon DEF LockInv
<1>10. ASSUME NEW t \in Threads, pc'[t] = "tried"
       PROVE  /\ value'[obj'[t]] = 0 /\ holder'[obj'[t]] = NULL
              /\ \A u \in Threads : pc'[u] = "tried" /\ obj'[u] = obj'[t] => u = t
  <2>1. \A u \in Threads : u # cur /\ pc'[u] = "tried" =>
           /\ obj'[u] = obj[u] /\ obj[u] \in Locks /\ obj[u] # l
           /\ pc[u] = "tried" /\ value[obj[u]] = 0 /\ holder[obj[u]] = NULL
    BY <1>3, <1>7 DEF LockInv, TypeInv, CallsWellFormed
  <2>2. value'[obj'[t]] = 0 /\ holder'[obj'[t]] = NULL
    <3>1. CASE t = cur
      BY <1>1, <1>3, <1>4, <1>8, <3>1, Zenon DEF SynchType
    <3>2. CASE t # cur
      BY <1>1, <1>4, <1>10, <2>1, <3>2, Zenon DEF SynchType, SemaIds
    <3> QED BY <3>1, <3>2, Zenon
  <2> QED BY <1>8, <1>10, <2>1, <2>2, SMTT(30) DEF LockInv
<1> QED BY <1>4, <1>5, <1>6, <1>9, <1>10, ZenonT(30) DEF LockInv, HeldStep

(* The second step of lock_try_acquire.                                    *)
LEMMA TryAcquireReturnKeepsLockInv ==
    ASSUME TypeInv, LockInv, cur \in Threads, lock_try_acquire_return
    PROVE  LockInv' /\ HeldStep
<1> USE ThreadAssumption, SynchAssumption
<1> DEFINE l == obj[cur]
<1>1. FrameType /\ SynchType /\ cur \in AllThreads /\ cur # Idle
  BY Zenon DEF TypeInv, TypeOK, AllThreads
<1>2. pc[cur] = "tried" /\ l \in Locks /\ l \in SemaIds
  BY Zenon DEF lock_try_acquire_return, At, TypeInv, CallsWellFormed, SemaIds
<1>3. value[l] = 0 /\ holder[l] = NULL /\ \A u \in Threads : pc[u] = "tried" /\ obj[u] = l => u = cur
  BY <1>2, Zenon DEF LockInv
<1>4. \A t \in AllThreads : l \notin held[t]
  BY <1>2, <1>3 DEF LockInv, MutualExclusion, AllThreads
<1>5. /\ value' = value
      /\ holder' = [holder EXCEPT ![l] = cur]
      /\ held' = [held EXCEPT ![cur] = held[cur] \cup {l}]
      /\ pc' = [pc EXCEPT ![cur] = "run"]
      /\ obj' = [obj EXCEPT ![cur] = NULL]
  BY Zenon DEF lock_try_acquire_return, GoTo
<1> HIDE DEF l
<1>6. \A k \in Locks : value'[k] = 0 \/ (value'[k] = 1 /\ holder'[k] = NULL)
  BY <1>1, <1>2, <1>3, <1>5, Zenon DEF LockInv, SynchType
<1>7. MutualExclusion'
  <2> SUFFICES ASSUME NEW k \in Locks, NEW t \in AllThreads, k \in held'[t]
               PROVE  holder'[k] = t /\ value'[k] = 0
    BY Zenon DEF MutualExclusion
  <2>1. CASE k = l
    BY <1>1, <1>2, <1>3, <1>4, <1>5, <2>1, ZenonT(30) DEF SynchType
  <2>2. CASE k # l
    <3>1. k \in held[t]
      BY <1>1, <1>5, <2>2, Zenon DEF SynchType
    <3> QED BY <1>1, <1>5, <2>2, <3>1, SMTT(30) DEF LockInv, MutualExclusion, SynchType
  <2> QED BY <2>1, <2>2, Zenon
<1>8. held'[Idle] = {}
  BY <1>1, <1>5, Zenon DEF LockInv, SynchType, AllThreads
<1>9. NoneArrives
  BY <1>1, <1>5, Zenon DEF NoneArrives, FrameType, AllThreads
<1>10. ASSUME NEW t \in Threads, pc'[t] = "cwRel"
       PROVE  obj'[t] \in held'[t]
  BY <1>1, <1>5, <1>9, <1>10, SMTT(30) DEF NoneArrives, LockInv, SynchType, AllThreads
<1>11. ASSUME NEW t \in Threads, pc'[t] = "tried"
       PROVE  /\ value'[obj'[t]] = 0 /\ holder'[obj'[t]] = NULL
              /\ \A u \in Threads : pc'[u] = "tried" /\ obj'[u] = obj'[t] => u = t
  <2>1. pc[t] = "tried" /\ obj'[t] = obj[t] /\ obj[t] \in Locks /\ t # cur
    BY <1>1, <1>5, <1>9, <1>11 DEF NoneArrives, TypeInv, CallsWellFormed, FrameType
  <2>2. value[obj[t]] = 0 /\ holder[obj[t]] = NULL /\ obj[t] # l
    BY <1>3, <2>1, Zenon DEF LockInv
  <2>3. \A u \in Threads : pc'[u] = "tried" => pc[u] = "tried" /\ obj'[u] = obj[u]
    BY <1>9, Zenon DEF NoneArrives
  <2>4. value'[obj'[t]] = 0 /\ holder'[obj'[t]] = NULL
    BY <1>1, <1>5, <2>1, <2>2, Zenon DEF SynchType
  <2> QED BY <2>1, <2>3, <2>4 DEF LockInv
<1>12. HeldStep
  BY <1>2, <1>4, <1>5, Zenon DEF HeldStep, Takes
<1> QED BY <1>6, <1>7, <1>8, <1>10, <1>11, <1>12, ZenonT(30) DEF LockInv

(* A step that changes no lock, as one of the steps on the locks.          *)
LEMMA LeftAloneIsHeldStep ==
    ASSUME TypeInv, LockInv, LocksLeftAlone
    PROVE  LockInv' /\ HeldStep
BY LeftAloneKeepsLockInv, Zenon DEF LocksLeftAlone, HeldStep

(* The thread that is in the middle of a kernel call is not the idle one.  *)
LEMMA RunsClient ==
    ASSUME TypeInv, NEW label \in (Labels \cup Conds) \ {"loop", "hlt"}, At(label)
    PROVE  cur \in Threads /\ pc[cur] = label
BY Zenon DEF At, TypeInv, TypeOK, CallsWellFormed, SchedType, AllThreads

(* The steps of lock_acquire, lock_try_acquire and lock_release.           *)
LEMMA LockStepKeepsLockInv ==
    ASSUME TypeInv, LockInv, LockStep
    PROVE  LockInv' /\ HeldStep
<1>1. ASSUME NEW l \in Locks, lock_acquire(l)
      PROVE  LockInv' /\ HeldStep
  BY <1>1, AcquireLoopKeepsLockInv, Zenon DEF lock_acquire, Calls
<1>2. ASSUME NEW l \in Locks, lock_release(l)
      PROVE  LockInv' /\ HeldStep
  BY <1>2, ReleaseKeepsLockInv, Zenon DEF lock_release, Calls
<1>3. ASSUME lock_acquire_loop
      PROVE  LockInv' /\ HeldStep
  <2>1. cur \in Threads /\ pc[cur] = "acq"
    BY <1>3, RunsClient, Zenon DEF lock_acquire_loop, Labels
  <2>2. obj[cur] \in Locks
    BY <2>1, Zenon DEF TypeInv, CallsWellFormed
  <2> QED BY <1>3, <2>1, <2>2, AcquireLoopKeepsLockInv, Zenon DEF lock_acquire_loop
<1>4. ASSUME lock_try_acquire_return
      PROVE  LockInv' /\ HeldStep
  <2>1. cur \in Threads
    BY <1>4, RunsClient, Zenon DEF lock_try_acquire_return, Labels
  <2> QED BY <1>4, <2>1, TryAcquireReturnKeepsLockInv, Zenon
<1> QED BY <1>1, <1>2, <1>3, <1>4, TryAcquireKeepsLockInv, Zenon DEF LockStep

-----------------------------------------------------------------------------
(* The call of cond_wait: the thread comes to the release of a lock that   *)
(* it holds, and only its own semaphore is initialized.                    *)
LEMMA CondWaitKeepsLockInv ==
    ASSUME TypeInv, LockInv, NEW c \in Conds, cond_wait(c)
    PROVE  LockInv' /\ HeldStep
<1> USE ThreadAssumption, SynchAssumption
<1>1. FrameType /\ SynchType /\ cur \in Threads /\ cur \notin Locks
  BY Zenon DEF TypeInv, TypeOK, cond_wait, Calls
<1>2. /\ UNCHANGED <<holder, held>>
      /\ value' = [value EXCEPT ![cur] = 0]
      /\ pc' = [pc EXCEPT ![cur] = "cwRel"]
      /\ obj' = [obj EXCEPT ![cur] = MonitorLock[c]]
      /\ MonitorLock[c] \in held[cur]
  BY Zenon DEF cond_wait, sema_init, GoTo
<1>3. \A l \in Locks : value'[l] = value[l]
  BY <1>1, <1>2, Zenon DEF SynchType, SemaIds
<1>4. /\ \A l \in Locks : value'[l] = 0 \/ (value'[l] = 1 /\ holder'[l] = NULL)
      /\ MutualExclusion' /\ held'[Idle] = {}
  BY <1>2, <1>3, Zenon DEF LockInv, MutualExclusion
<1>5. \A t \in Threads : t # cur => pc'[t] = pc[t] /\ obj'[t] = obj[t]
  BY <1>1, <1>2, Zenon DEF FrameType, AllThreads
<1>6. pc'[cur] = "cwRel" /\ obj'[cur] = MonitorLock[c]
  BY <1>1, <1>2, Zenon DEF FrameType, AllThreads
<1>7. \A t \in Threads : pc'[t] = "cwRel" => obj'[t] \in held'[t]
  BY <1>2, <1>5, <1>6, Zenon DEF LockInv
<1>8. ASSUME NEW t \in Threads, pc'[t] = "tried"
      PROVE  /\ value'[obj'[t]] = 0 /\ holder'[obj'[t]] = NULL
             /\ \A u \in Threads : pc'[u] = "tried" /\ obj'[u] = obj'[t] => u = t
  <2>1. \A u \in Threads : pc'[u] = "tried" => pc[u] = "tried" /\ obj'[u] = obj[u]
    BY <1>5, <1>6, Zenon
  <2>2. obj[t] \in Locks
    BY <1>8, <2>1, Zenon DEF TypeInv, CallsWellFormed
  <2> QED BY <1>2, <1>3, <1>8, <2>1, <2>2 DEF LockInv
<1> QED BY <1>2, <1>4, <1>7, <1>8, Zenon DEF LockInv, HeldStep

(* cond_signal and cond_broadcast touch no lock.                           *)
LEMMA SignalLeavesLocks ==
    ASSUME TypeInv, NEW c, NEW r, Signal(c, r)
    PROVE  LocksLeftAlone
<1>1. FrameType /\ "signal" \in (Labels \cup Conds) \ {"cwRel", "tried"}
  BY Zenon DEF TypeInv, TypeOK, Labels
<1>2. /\ UNCHANGED <<holder, held, value>>
      /\ pc' = [pc EXCEPT ![cur] = "signal"]
      /\ \E o : obj' = [obj EXCEPT ![cur] = o]
  BY Zenon DEF Signal, GoTo
<1>3. NoneArrives
  BY <1>1, <1>2, MovesOn, Zenon
<1> QED BY <1>2, <1>3, Zenon DEF LocksLeftAlone

(* The steps of the condition variables.                                   *)
LEMMA CondStepKeepsLockInv ==
    ASSUME TypeInv, LockInv, CondStep
    PROVE  LockInv' /\ HeldStep
<1> USE ThreadAssumption, SynchAssumption
<1>1. FrameType /\ Threads \subseteq SemaIds \ Locks
  BY Zenon DEF TypeInv, TypeOK, SemaIds
<1>2. ASSUME NEW c \in Conds,
             cond_signal(c) \/ cond_broadcast(c) \/ cond_broadcast_loop(c)
      PROVE  LocksLeftAlone
  BY <1>2, SignalLeavesLocks, Zenon DEF cond_signal, cond_broadcast, cond_broadcast_loop
<1>3. ASSUME NEW c \in Conds, cond_broadcast_return(c)
      PROVE  LocksLeftAlone
  <2>1. "run" \in (Labels \cup Conds) \ {"cwRel", "tried"}
    BY Zenon DEF Labels
  <2>2. UNCHANGED <<holder, held, value, obj>> /\ pc' = [pc EXCEPT ![cur] = "run"]
    BY <1>3, Zenon DEF cond_broadcast_return, synchVars, GoTo
  <2>3. NoneArrives
    BY <1>1, <2>1, <2>2, MovesOn, Zenon
  <2> QED BY <2>2, <2>3, Zenon DEF LocksLeftAlone
<1>4. ASSUME cond_wait_release
      PROVE  LockInv' /\ HeldStep
  <2>1. cur \in Threads /\ pc[cur] = "cwRel"
    BY <1>4, RunsClient, Zenon DEF cond_wait_release, Labels
  <2>2. obj[cur] \in Locks /\ obj[cur] \in held[cur]
    BY <2>1, Zenon DEF TypeInv, CallsWellFormed, LockInv
  <2> QED BY <1>4, <2>1, <2>2, ReleaseKeepsLockInv, Zenon DEF cond_wait_release
<1>5. ASSUME cond_wait_down
      PROVE  LocksLeftAlone
  <2>1. cur \in SemaIds \ Locks
    BY <1>1, <1>5, RunsClient, Zenon DEF cond_wait_down, Labels
  <2>2. "cwAcq" \in (Labels \cup Conds) \ {"cwRel", "tried"}
    BY Zenon DEF Labels
  <2> QED BY <1>5, <2>1, <2>2, DownLoopLeavesLocks, Zenon DEF cond_wait_down
<1>6. ASSUME cond_wait_acquire
      PROVE  LockInv' /\ HeldStep
  <2>1. cur \in Threads /\ pc[cur] = "cwAcq"
    BY <1>6, RunsClient, Zenon DEF cond_wait_acquire, Labels
  <2>2. obj[cur] \in Locks
    BY <2>1, Zenon DEF TypeInv, CallsWellFormed
  <2> QED BY <1>6, <2>1, <2>2, AcquireLoopKeepsLockInv, Zenon DEF cond_wait_acquire
<1>7. ASSUME cond_signal_up
      PROVE  LocksLeftAlone
  <2>1. cur \in Threads /\ pc[cur] = "signal"
    BY <1>7, RunsClient, Zenon DEF cond_signal_up, Labels
  <2>2. obj[cur] \in SemaIds \ Locks
    BY <1>1, <2>1, Zenon DEF TypeInv, CallsWellFormed
  <2>3. ret[cur] \in (Labels \cup Conds) \ {"cwRel", "tried"}
    BY <1>1, <2>1, Zenon DEF FrameType, AllThreads, Labels
  <2>4. UpByThread(obj[cur], ret[cur]) /\ \E o : obj' = [obj EXCEPT ![cur] = o]
    BY <1>7, Zenon DEF cond_signal_up
  <2> QED BY <2>2, <2>3, <2>4, UpByThreadLeavesLocks, Zenon
<1>8. CASE LocksLeftAlone
  BY <1>8, LeftAloneIsHeldStep, Zenon
<1> QED BY <1>2, <1>3, <1>4, <1>5, <1>6, <1>7, <1>8, CondWaitKeepsLockInv, Zenon DEF CondStep

-----------------------------------------------------------------------------
(* The steps of timer_sleep and of the interrupts.                         *)
LEMMA TimedStepLeavesLocks ==
    ASSUME TypeInv, SleepStep \/ TimerTick \/ TimerHandler \/ DeviceIntr
    PROVE  LocksLeftAlone
<1> USE ThreadAssumption, SynchAssumption
<1>1. FrameType /\ SynchType /\ cur \in AllThreads
  BY Zenon DEF TypeInv, TypeOK, SchedType
<1>2. CASE SleepStep
  <2>1. UNCHANGED <<holder, held, value, obj>>
    BY <1>2, Zenon DEF SleepStep, synchVars, timer_sleep, timer_sleep_block
  <2>2. pc' = [pc EXCEPT ![cur] = "sleep"] \/ pc' = [pc EXCEPT ![cur] = "run"]
    BY <1>2, Zenon DEF SleepStep, timer_sleep, timer_sleep_block, GoTo
  <2>3. NoneArrives
    BY <1>1, <2>1, <2>2, MovesOn, ZenonT(30) DEF Labels
  <2> QED BY <2>1, <2>3, Zenon DEF LocksLeftAlone
<1>3. CASE TimerTick
  <2>1. UNCHANGED <<holder, held, value, obj>>
    BY <1>3, Zenon DEF TimerTick, synchVars, timer_interrupt
  <2>2. pc' = [pc EXCEPT ![cur] = IF cur = Idle THEN "loop" ELSE pc[cur]]
    BY <1>3, Zenon DEF TimerTick, timer_interrupt, GoTo
  <2>3. NoneArrives
    BY <1>1, <2>1, <2>2, Zenon DEF NoneArrives, FrameType, AllThreads
  <2> QED BY <2>1, <2>3, Zenon DEF LocksLeftAlone
<1>4. CASE TimerHandler
  BY <1>4, Zenon DEF TimerHandler, timer_interrupt_wake, timer_interrupt_return, synchVars, frame,
              LocksLeftAlone, NoneArrives
<1>5. CASE DeviceIntr
  <2>1. PICK s \in Semas : sema_up_from_intr(s)
    BY <1>5, Zenon DEF DeviceIntr
  <2>2. s \in SemaIds \ Locks /\ Up(s) /\ UNCHANGED <<holder, held, obj>>
    BY <2>1, ZenonT(30) DEF SemaIds, sema_up_from_intr
  <2>3. \A l \in Locks : value'[l] = value[l]
    BY <1>1, <2>2, UpLeavesLocks, Zenon
  <2>4. pc' = [pc EXCEPT ![cur] = IF cur = Idle THEN "loop" ELSE pc[cur]]
    BY <2>1, Zenon DEF sema_up_from_intr, GoTo
  <2>5. NoneArrives
    BY <1>1, <2>2, <2>4, Zenon DEF NoneArrives, FrameType, AllThreads
  <2> QED BY <2>2, <2>3, <2>5, Zenon DEF LocksLeftAlone
<1> QED BY <1>2, <1>3, <1>4, <1>5, ZenonT(30)

(* Every step keeps LockInv, and changes what the clients hold in no other *)
(* way than that the running one acquires a free lock or releases its own. *)
LEMMA LockInvStep ==
    ASSUME TypeInv, LockInv, [Next]_vars
    PROVE  LockInv' /\ HeldStep
<1>1. CASE UNCHANGED vars
  <2>1. LocksLeftAlone
    BY <1>1, Zenon DEF vars, threadVars, frame, synchVars, LocksLeftAlone, NoneArrives
  <2> QED BY <2>1, LeftAloneIsHeldStep, Zenon
<1> QED BY <1>1, LeftAloneIsHeldStep, ThreadStepLeavesLocks, SemaStepLeavesLocks,
           LockStepKeepsLockInv, CondStepKeepsLockInv, TimedStepLeavesLocks, ZenonT(30)
        DEF Next, CpuStep

(* The whole inductive invariant of the kernel holds in every reachable    *)
(* state: types, places in the code, time slices and locks.                *)
THEOREM Invariance == Spec => []IInv
<1>1. IInv <=> TypeInv /\ LockInv
  BY Zenon DEF IInv, TypeInv
<1>2. IInv /\ [Next]_vars => IInv'
  <2> SUFFICES ASSUME IInv, [Next]_vars PROVE IInv'
    BY Zenon
  <2>1. TypeInv' /\ LockInv'
    BY <1>1, TypeInvStep, LockInvStep, Zenon
  <2> QED BY <2>1 DEF IInv, TypeInv
<1>3. Init => IInv
  BY <1>1, TypeInvInit, LockInvInit, Zenon
<1> QED BY <1>2, <1>3, PTL DEF Spec

(* Mutual exclusion: whatever the priorities, donations and preemptions, a *)
(* client that came back from lock_acquire, lock_try_acquire or cond_wait  *)
(* with a lock is its holder until it releases it, so that no two clients  *)
(* have it and the first assertion of lock_release holds.                  *)
THEOREM LocksExclude == Spec => []MutualExclusion
<1>1. IInv => MutualExclusion
  BY Zenon DEF IInv, LockInv
<1> QED BY <1>1, Invariance, PTL

-----------------------------------------------------------------------------
(* Whoever holds a lock is its owner.                                      *)
LEMMA OwnerHolds ==
    ASSUME MutualExclusion, NEW l \in Locks, NEW t \in Threads, l \in held[t]
    PROVE  Owner(l) = t
<1>1. \A u \in Threads : l \in held[u] => u = t
  BY DEF MutualExclusion, AllThreads
<1> QED BY <1>1, Zenon DEF Owner

(* A lock that nobody holds has no owner.                                  *)
LEMMA NoOwner ==
    ASSUME NEW l, \A t \in Threads : l \notin held[t]
    PROVE  Owner(l) = NULL
BY Zenon DEF Owner

(* The owners after a step, where the running thread acquires or releases  *)
(* one lock.                                                               *)
LEMMA OwnerOfOthers ==
    ASSUME MutualExclusion, MutualExclusion', NEW l \in Locks,
           \A t \in Threads : l \in held'[t] <=> l \in held[t]
    PROVE  Owner(l)' = Owner(l)
<1>1. CASE \E t \in Threads : l \in held[t]
  <2>1. PICK t \in Threads : l \in held[t]
    BY <1>1, Zenon
  <2>2. Owner(l) = t
    BY <2>1, OwnerHolds, Zenon
  <2>3. \A u \in Threads : l \in held'[u] => u = t
    BY <2>1 DEF MutualExclusion, AllThreads
  <2>4. l \in held'[t]
    BY <2>1, Zenon
  <2> QED BY <2>2, <2>3, <2>4, Zenon DEF Owner
<1>2. CASE ~ \E t \in Threads : l \in held[t]
  BY <1>2, Zenon DEF Owner
<1> QED BY <1>1, <1>2, Zenon

(* Acquiring a free lock is the abstract Acquire.                          *)
LEMMA TakesIsAcquire ==
    ASSUME TypeInv, LockInv, LockInv', cur \in Threads, NEW l \in Locks, Takes(l)
    PROVE  AbstractLock!Acquire(cur, l)
<1>1. SynchType /\ cur \in AllThreads /\ Threads \subseteq AllThreads
  BY Zenon DEF TypeInv, TypeOK, AllThreads
<1>2. MutualExclusion /\ MutualExclusion'
  BY Zenon DEF LockInv
<1>3. held' = [held EXCEPT ![cur] = held[cur] \cup {l}]
  BY Zenon DEF Takes
<1>4. Owner(l) = NULL
  BY <1>1, NoOwner, Zenon DEF Takes
<1>5. Owner(l)' = cur
  <2>1. l \in held'[cur]
    BY <1>1, <1>3, Zenon DEF SynchType
  <2>2. \A u \in Threads : l \in held'[u] => u = cur
    BY <1>1, <1>2, <2>1 DEF MutualExclusion
  <2> QED BY <2>1, <2>2, Zenon DEF Owner
<1>6. ASSUME NEW k \in Locks, k # l
      PROVE  Owner(k)' = Owner(k)
  <2>1. \A t \in Threads : k \in held'[t] <=> k \in held[t]
    BY <1>1, <1>3, <1>6, Zenon DEF SynchType
  <2> QED BY <1>2, <2>1, OwnerOfOthers, Zenon
<1>7. [k \in Locks |-> Owner(k)]' = [k \in Locks |-> IF k = l THEN cur ELSE Owner(k)]
  BY <1>5, <1>6, Zenon
<1>8. [[k \in Locks |-> Owner(k)] EXCEPT ![l] = cur]
        = [k \in Locks |-> IF k = l THEN cur ELSE Owner(k)]
  BY Zenon
<1>9. [k \in Locks |-> Owner(k)][l] = NULL
  BY <1>4, Zenon
<1> QED BY <1>7, <1>8, <1>9, Zenon DEF AbstractLock!Acquire

(* Releasing a lock is the abstract Release.                               *)
LEMMA GivesUpIsRelease ==
    ASSUME TypeInv, LockInv, LockInv', cur \in Threads, NEW l \in Locks, GivesUp(l)
    PROVE  AbstractLock!Release(cur, l)
<1>1. SynchType /\ cur \in AllThreads /\ Threads \subseteq AllThreads
  BY Zenon DEF TypeInv, TypeOK, AllThreads
<1>2. MutualExclusion /\ MutualExclusion'
  BY Zenon DEF LockInv
<1>3. l \in held[cur] /\ held' = [held EXCEPT ![cur] = held[cur] \ {l}]
  BY Zenon DEF GivesUp
<1>4. Owner(l) = cur
  BY <1>2, <1>3, OwnerHolds, Zenon
<1>5. Owner(l)' = NULL
  <2>1. \A t \in Threads : l \notin held'[t]
    BY <1>1, <1>2, <1>3, SMTT(30) DEF SynchType, MutualExclusion
  <2> QED BY <2>1, Zenon DEF Owner
<1>6. ASSUME NEW k \in Locks, k # l
      PROVE  Owner(k)' = Owner(k)
  <2>1. \A t \in Threads : k \in held'[t] <=> k \in held[t]
    BY <1>1, <1>3, <1>6, Zenon DEF SynchType
  <2> QED BY <1>2, <2>1, OwnerOfOthers, Zenon
<1>7. [k \in Locks |-> Owner(k)]' = [k \in Locks |-> IF k = l THEN NULL ELSE Owner(k)]
  BY <1>5, <1>6, Zenon
<1>8. [[k \in Locks |-> Owner(k)] EXCEPT ![l] = NULL]
        = [k \in Locks |-> IF k = l THEN NULL ELSE Owner(k)]
  BY Zenon
<1>9. [k \in Locks |-> Owner(k)][l] = cur
  BY <1>4, Zenon
<1> QED BY <1>7, <1>8, <1>9, Zenon DEF AbstractLock!Release

(* Refinement: every step of the kernel is, for its locks, an acquisition  *)
(* of one free lock, the release of one lock by its owner, or nothing.     *)
THEOREM LocksRefineMutex == Spec => LockIsMutex
<1>1. Init => AbstractLock!Init
  <2> SUFFICES ASSUME Init PROVE AbstractLock!Init
    BY Zenon
  <2>1. \A l \in Locks : Owner(l) = NULL
    BY NoOwner, Zenon DEF Init, SynchInit, AllThreads
  <2> QED BY <2>1, Zenon DEF AbstractLock!Init
<1>2. IInv /\ IInv' /\ [Next]_vars => [AbstractLock!Next]_([l \in Locks |-> Owner(l)])
  <2> SUFFICES ASSUME IInv, IInv', [Next]_vars
               PROVE  [AbstractLock!Next]_([l \in Locks |-> Owner(l)])
    BY Zenon
  <2>1. TypeInv /\ LockInv /\ LockInv'
    BY Zenon DEF IInv, TypeInv
  <2>2. HeldStep
    BY <2>1, LockInvStep, Zenon
  <2>3. CASE held' = held
    BY <2>3, Zenon DEF Owner
  <2>4. CASE cur \in Threads /\ \E l \in Locks : Takes(l) \/ GivesUp(l)
    <3>1. AbstractLock!Next
      BY <2>1, <2>4, TakesIsAcquire, GivesUpIsRelease, Zenon DEF AbstractLock!Next
    <3> QED BY <3>1, Zenon
  <2> QED BY <2>2, <2>3, <2>4, Zenon DEF HeldStep
<1> QED BY <1>1, <1>2, Invariance, PTL, SMTT(30) DEF Spec, LockIsMutex, AbstractLock!Spec
=============================================================================
