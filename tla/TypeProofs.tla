----------------------------- MODULE TypeProofs -----------------------------
(***************************************************************************)
(* The steps of locks, of condition variables, of timer_sleep and of       *)
(* interrupts keep the types of the kernel's variables; with               *)
(* ThreadTypeProofs, every step does.                                      *)
(***************************************************************************)
EXTENDS ThreadTypeProofs

-----------------------------------------------------------------------------
(* Locks.                                                                  *)

(* The rest of lock_acquire once the lock is free.                         *)
LEMMA TakeLockType ==
    ASSUME TypeInv, cur \in Threads, ret[cur] = "run", NEW l \in Locks, TakeLock(l),
           UNCHANGED timerVars
    PROVE  TypeInv'
<1> USE ThreadAssumption, SynchAssumption
<1>1. DataInv /\ FrameType /\ CallsWellFormed /\ TimerType'
  BY DataAndFrame, UnchangedType, Zenon
<1>2. UNCHANGED <<sched, intr, donation, ret, wake_up_time, panic, waiters, cond_waiters>>
  BY Zenon DEF TakeLock
<1>3. SynchType'
  BY <1>1, <1>2, SMTT(30) DEF TakeLock, SynchType, DataInv, SemaIds, AllThreads
<1>4. SliceEnds'
  BY <1>1, <1>2, Zenon DEF DataInv, SliceEnds, sched, intr
<1>5. DataInv'
  BY <1>1, <1>2, <1>3, <1>4, UnchangedType, Zenon DEF DataInv
<1>6. pc' = [pc EXCEPT ![cur] = "run"] /\ obj' = [obj EXCEPT ![cur] = NULL]
  BY Zenon DEF TakeLock, GoTo
<1>7. FrameType'
  BY <1>1, <1>2, <1>6, Zenon DEF FrameType, Labels, AllThreads
<1>8. CallsWellFormed'
  BY <1>1, <1>2, <1>6, ZenonT(30) DEF FrameType, CallsWellFormed, AllThreads, Labels
<1> QED BY <1>1, <1>5, <1>7, <1>8, DataAndFrame, Zenon

(* The donation and the move of the holder to the run queue.               *)
LEMMA WaitForLockType ==
    ASSUME TypeInv, cur \in Threads, ret[cur] = "run", NEW l \in Locks, WaitForLock(l),
           UNCHANGED timerVars
    PROVE  TypeInv'
<1> USE ThreadAssumption, SynchAssumption
<1> DEFINE h == holder[l]
           W == IF Donates(h) THEN WaitersWithout(h) ELSE waiters
           R == IF Donates(h) THEN ReadyWith(h, priority') ELSE ready_list
<1>1. DataInv /\ FrameType /\ CallsWellFormed /\ TimerType'
  BY DataAndFrame, UnchangedType, Zenon
<1>2. UNCHANGED <<intr, base, ret, wake_up_time, value, holder, cond_waiters, held>>
  BY Zenon DEF WaitForLock
<1>3. h \in Threads /\ h \in AllThreads
  BY <1>1, Zenon DEF WaitForLock, DataInv, SynchType, AllThreads
<1>4. DonationType'
  <2>1. CASE Donates(h)
    <3>1. Donate(h, l)
      BY <2>1, Zenon DEF WaitForLock
    <3>2. [priority |-> priority[h], lock |-> master[h]] \in Entries
      BY <1>1, <1>3, Zenon DEF DataInv, DonationType, Entries
    <3>3. stored[h] \in Seq(Entries)
      BY <1>1, <1>3, Zenon DEF DataInv, DonationType
    <3>4. Append(stored[h], [priority |-> priority[h], lock |-> master[h]]) \in Seq(Entries)
      BY <3>2, <3>3
    <3>5. stored' \in [AllThreads -> Seq(Entries)]
      BY <1>1, <3>1, <3>4, Zenon DEF Donate, DataInv, DonationType
    <3> HIDE DEF h
    <3> QED BY <1>1, <1>2, <3>1, <3>5, Zenon DEF Donate, DataInv, DonationType, AllThreads
  <2>2. CASE ~Donates(h)
    <3>1. UNCHANGED <<stored, priority, master>>
      BY <2>2, Zenon DEF WaitForLock
    <3> QED BY <1>1, <1>2, <3>1, Zenon DEF DataInv, DonationType
  <2> QED BY <2>1, <2>2, Zenon
<1>5. W \in [SemaIds -> Seq(Threads)] /\ R \in Seq(Threads)
  <2>1. \A s \in SemaIds : list_remove(waiters[s], h) \in Seq(Threads)
    BY <1>1, ListRemoveType, Zenon DEF DataInv, SynchType
  <2>2. WaitersWithout(h) \in [SemaIds -> Seq(Threads)]
    BY <2>1, Zenon DEF WaitersWithout
  <2>3. list_remove(ready_list, h) \in Seq(Threads)
    BY <1>1, ListRemoveType, Zenon DEF DataInv, SchedType
  <2>4. ReadyWith(h, priority') \in Seq(Threads)
    BY <1>3, <2>3, InsertByPriorityType, Zenon DEF ReadyWith
  <2> QED BY <1>1, <2>2, <2>4, Zenon DEF DataInv, SynchType, SchedType
<1>6. waiters' = [W EXCEPT ![l] = insert_by_priority(W[l], cur, priority')]
  <2>1. l \in SemaIds
    BY Zenon DEF SemaIds
  <2> QED BY <1>5, <2>1, Zenon DEF WaitForLock
<1>7. thread_block(R)
  BY Zenon DEF WaitForLock
<1>8. SynchType'
  <2> HIDE DEF W
  <2>1. l \in SemaIds /\ insert_by_priority(W[l], cur, priority') \in Seq(Threads)
    BY <1>5, InsertByPriorityType, Zenon DEF SemaIds
  <2>2. waiters' \in [SemaIds -> Seq(Threads)]
    BY <1>5, <1>6, <2>1, Zenon
  <2> QED BY <1>1, <1>2, <2>2, Zenon DEF DataInv, SynchType
<1>9. SchedType' /\ SliceEnds'
  <2> HIDE DEF R
  <2> QED BY <1>1, <1>5, <1>7, BlockType, SwitchIsSched, Zenon DEF DataInv
<1>10. panic' \in Failures \cup {NULL}
  BY <1>1, Zenon DEF WaitForLock, DataInv, Failures
<1>11. DataInv'
  BY <1>1, <1>2, <1>4, <1>8, <1>9, <1>10, UnchangedType, Zenon DEF DataInv
<1>12. pc' = [pc EXCEPT ![cur] = "acq"] /\ obj' = [obj EXCEPT ![cur] = l]
  BY Zenon DEF WaitForLock, GoTo
<1>13. FrameType'
  BY <1>1, <1>2, <1>12, Zenon DEF FrameType, Labels, AllThreads, SemaIds
<1>14. CallsWellFormed'
  BY <1>1, <1>2, <1>12, Zenon DEF FrameType, CallsWellFormed, AllThreads, Labels
<1> QED BY <1>1, <1>11, <1>13, <1>14, DataAndFrame, Zenon

(* lock_acquire, from its loop test.                                       *)
LEMMA AcquireLoopType ==
    ASSUME TypeInv, cur \in Threads, ret[cur] = "run", NEW l \in Locks, AcquireLoop(l),
           UNCHANGED timerVars
    PROVE  TypeInv'
<1>1. ASSUME NullHolder(l) PROVE TypeInv'
  <2>1. UNCHANGED <<sched, intr, donation, frame, wake_up_time, synchVars>>
    BY <1>1, Zenon DEF NullHolder
  <2>2. panic' \in Failures \cup {NULL}
    BY <1>1, Zenon DEF NullHolder, Failures
  <2>3. SliceEnds' /\ CallsWellFormed'
    BY <2>1, Zenon DEF TypeInv, SliceEnds, CallsWellFormed, sched, intr, frame
  <2> QED BY <2>1, <2>2, <2>3, UnchangedType, Zenon DEF TypeInv, TypeOK
<1> QED BY <1>1, TakeLockType, WaitForLockType, Zenon DEF AcquireLoop

(* The compaction in lock_release drops donations and makes none.          *)
LEMMA WithoutLockType ==
    ASSUME NEW S, NEW s \in Seq(S), NEW l
    PROVE  WithoutLock(s, l) \in Seq(S)
<1> DEFINE K == {i \in 1..Len(s) : s[i].lock # l}
<1>1. K \in SUBSET (1..Len(s))
  BY Zenon
<1>2. WithoutLock(s, l) = Keep(s, K)
  BY Zenon DEF WithoutLock
<1> HIDE DEF K
<1> QED BY <1>1, <1>2, KeepProperties, Zenon

(* lock_release, up to the place where its caller continues.               *)
LEMMA ReleaseType ==
    ASSUME DataInv, cur \in Threads, NEW l \in Locks, NEW r, Release(l, r)
    PROVE  DataInv' /\ pc' = [pc EXCEPT ![cur] = r] /\ ret' = ret
<1> USE ThreadAssumption, SynchAssumption
<1> DEFINE kept == WithoutLock(stored[cur], l)
           last == stored[cur] # <<>> /\ master[cur] = l
           pop  == last /\ kept # <<>>
<1>1. UNCHANGED <<intr, base, ret, wake_up_time, cond_waiters>>
  BY Zenon DEF Release
<1>2. /\ stored' = [stored EXCEPT ![cur] = IF pop THEN list_pop_back(kept) ELSE kept]
      /\ priority' = [priority EXCEPT ![cur] = IF pop THEN list_back(kept).priority ELSE priority[cur]]
      /\ master' = [master EXCEPT ![cur] = IF pop THEN list_back(kept).lock ELSE master[cur]]
  BY Zenon DEF Release, DataInv, DonationType, AllThreads
<1>3. cur \in AllThreads /\ l \in SemaIds
  BY Zenon DEF AllThreads, SemaIds
<1>4. kept \in Seq(Entries)
  <2>1. stored[cur] \in Seq(Entries)
    BY <1>3, Zenon DEF DataInv, DonationType
  <2> QED BY <2>1, WithoutLockType, Zenon
<1>5. pop => list_pop_back(kept) \in Seq(Entries) /\ list_back(kept) \in Entries
  <2> SUFFICES ASSUME kept # <<>>
               PROVE  list_pop_back(kept) \in Seq(Entries) /\ list_back(kept) \in Entries
    BY Zenon
  <2> HIDE DEF kept
  <2>1. Len(kept) \in 1..Len(kept)
    BY <1>4
  <2>2. list_back(kept) \in Entries
    BY <1>4, <2>1, ListElement, Zenon DEF list_back
  <2>3. list_pop_back(kept) \in Seq(Entries)
    BY <1>4 DEF list_pop_back
  <2> QED BY <2>2, <2>3, Zenon
<1>6. DonationType'
  <2> HIDE DEF kept, pop
  <2>1. stored' \in [AllThreads -> Seq(Entries)]
    BY <1>2, <1>3, <1>4, <1>5, Zenon DEF DataInv, DonationType
  <2>2. pop => list_back(kept).priority \in Priorities /\ list_back(kept).lock \in Locks \cup {NULL}
    BY <1>5, Zenon DEF Entries
  <2>3. priority' \in [AllThreads -> Priorities]
    BY <1>2, <1>3, <2>2, Zenon DEF DataInv, DonationType
  <2>4. master' \in [AllThreads -> Locks \cup {NULL}]
    BY <1>2, <1>3, <2>2, Zenon DEF DataInv, DonationType
  <2> QED BY <1>1, <2>1, <2>3, <2>4, Zenon DEF DataInv, DonationType
<1>7. /\ holder' = [holder EXCEPT ![l] = NULL]
      /\ held' = [held EXCEPT ![cur] = held[cur] \ {l}]
      /\ value' = [value EXCEPT ![l] = value[l] + 1]
      /\ waiters' = WaitersAfterUp(l)
  BY <1>3, Zenon DEF Release, DataInv, SynchType
<1>8. SynchType'
  <2>1. /\ ReadyAfterUp(l, priority') \in Seq(Threads)
        /\ WaitersAfterUp(l) \in [SemaIds -> Seq(Threads)]
    BY <1>3, AfterUpType, Zenon DEF DataInv
  <2>2. value' \in [SemaIds -> Nat]
    BY <1>3, <1>7 DEF DataInv, SynchType
  <2>3. holder' \in [Locks -> Threads \cup {NULL}] /\ held' \in [AllThreads -> SUBSET Locks]
    BY <1>3, <1>7, Zenon DEF DataInv, SynchType
  <2> QED BY <1>1, <1>7, <2>1, <2>2, <2>3, Zenon DEF DataInv, SynchType
<1>9. SchedType' /\ SliceEnds'
  <2>1. /\ StatusAfterUp(l) \in [AllThreads -> Statuses]
        /\ ReadyAfterUp(l, priority') \in Seq(Threads)
    BY <1>3, AfterUpType, Zenon DEF DataInv
  <2>2. CASE yield_if_necessary(l, priority')
    <3>1. yield(StatusAfterUp(l), ReadyAfterUp(l, priority'), priority')
      BY <2>2, Zenon DEF Release
    <3> QED BY <2>1, <3>1, YieldType, SwitchIsSched, Zenon DEF DataInv
  <2>3. CASE ~yield_if_necessary(l, priority')
    <3>1. /\ status' = StatusAfterUp(l)
          /\ ready_list' = ReadyAfterUp(l, priority')
          /\ UNCHANGED <<cur, thread_ticks>>
      BY <2>3, Zenon DEF Release
    <3>2. SchedType'
      BY <2>1, <3>1, Zenon DEF DataInv, SchedType
    <3>3. SliceEnds'
      BY <1>1, <3>1, Zenon DEF DataInv, SliceEnds, intr
    <3> QED BY <3>2, <3>3, Zenon
  <2> QED BY <2>2, <2>3, Zenon
<1>10. panic' \in Failures \cup {NULL}
  <2>1. panic' \in {panic, "lock_release"}
    BY Zenon DEF Release, ASSERT
  <2> QED BY <2>1, Zenon DEF DataInv, Failures
<1>11. DataInv'
  BY <1>1, <1>6, <1>8, <1>9, <1>10, UnchangedType, Zenon DEF DataInv
<1>12. pc' = [pc EXCEPT ![cur] = r]
  BY Zenon DEF Release, GoTo
<1> QED BY <1>1, <1>11, <1>12, Zenon

(* The steps of lock_acquire, lock_try_acquire and lock_release.           *)
LEMMA LockStepType ==
    ASSUME TypeInv, LockStep
    PROVE  TypeInv'
<1> USE ThreadAssumption, SynchAssumption
<1>1. DataInv /\ FrameType /\ CallsWellFormed /\ TimerType' /\ UNCHANGED timerVars
  BY DataAndFrame, UnchangedType, Zenon DEF LockStep
<1>2. ASSUME NEW l \in Locks, lock_acquire(l)
      PROVE  TypeInv'
  <2>1. cur \in Threads /\ pc[cur] = "run"
    BY <1>2, Zenon DEF lock_acquire, Calls, At
  <2>2. ret[cur] = "run"
    BY <1>1, <2>1, Zenon DEF FrameType, CallsWellFormed, AllThreads
  <2> QED BY <1>1, <1>2, <2>1, <2>2, AcquireLoopType, Zenon DEF lock_acquire
<1>3. ASSUME NEW l \in Locks, lock_try_acquire(l)
      PROVE  TypeInv'
  <2>1. cur \in Threads /\ pc[cur] = "run"
    BY <1>3, Zenon DEF lock_try_acquire, Calls, At
  <2>2. UNCHANGED <<sched, intr, donation, ret, wake_up_time, panic, waiters, holder,
                    cond_waiters, held>>
    BY <1>3, Zenon DEF lock_try_acquire
  <2>3. value' = [value EXCEPT ![l] = value[l] - 1] /\ value[l] \in Nat \ {0}
    BY <1>1, <1>3 DEF lock_try_acquire, CanDown, DataInv, SynchType, SemaIds
  <2>4. pc' = [pc EXCEPT ![cur] = "tried"] /\ obj' = [obj EXCEPT ![cur] = l]
    BY <1>3, Zenon DEF lock_try_acquire, GoTo
  <2>5. SynchType'
    BY <1>1, <2>2, <2>3 DEF DataInv, SynchType, SemaIds
  <2>6. SliceEnds'
    BY <1>1, <2>2, Zenon DEF DataInv, SliceEnds, sched, intr
  <2>7. DataInv'
    BY <1>1, <2>2, <2>5, <2>6, UnchangedType, Zenon DEF DataInv
  <2>8. FrameType'
    BY <1>1, <2>1, <2>2, <2>4, Zenon DEF FrameType, Labels, AllThreads, SemaIds
  <2>9. CallsWellFormed'
    BY <1>1, <2>1, <2>2, <2>4, Zenon DEF FrameType, CallsWellFormed, AllThreads, Labels
  <2> QED BY <1>1, <2>7, <2>8, <2>9, DataAndFrame, Zenon
<1>4. ASSUME NEW l \in Locks, lock_release(l)
      PROVE  TypeInv'
  <2>1. cur \in Threads /\ pc[cur] = "run" /\ obj' = obj
    BY <1>4, Zenon DEF lock_release, Calls, At
  <2>2. DataInv' /\ pc' = [pc EXCEPT ![cur] = "run"] /\ ret' = ret
    BY <1>1, <1>4, <2>1, ReleaseType, Zenon DEF lock_release
  <2>3. FrameType'
    BY <1>1, <2>1, <2>2, Zenon DEF FrameType, Labels, AllThreads
  <2>4. CallsWellFormed'
    BY <1>1, <2>1, <2>2, Zenon DEF FrameType, CallsWellFormed, AllThreads
  <2> QED BY <1>1, <2>2, <2>3, <2>4, DataAndFrame, Zenon
<1>5. ASSUME lock_acquire_loop
      PROVE  TypeInv'
  <2>1. cur \in Threads /\ pc[cur] = "acq"
    BY <1>1, <1>5, Zenon DEF lock_acquire_loop, At, CallsWellFormed, DataInv, SchedType, AllThreads
  <2>2. obj[cur] \in Locks /\ ret[cur] = "run"
    BY <1>1, <2>1, Zenon DEF FrameType, CallsWellFormed, AllThreads
  <2> QED BY <1>1, <1>5, <2>1, <2>2, AcquireLoopType, Zenon DEF lock_acquire_loop
<1>6. ASSUME lock_try_acquire_return
      PROVE  TypeInv'
  <2>1. cur \in Threads /\ pc[cur] = "tried"
    BY <1>1, <1>6, Zenon
       DEF lock_try_acquire_return, At, CallsWellFormed, DataInv, SchedType, AllThreads
  <2>2. obj[cur] \in Locks
    BY <1>1, <2>1, Zenon DEF CallsWellFormed
  <2>3. UNCHANGED <<sched, intr, donation, ret, wake_up_time, panic, value, waiters,
                    cond_waiters>>
    BY <1>6, Zenon DEF lock_try_acquire_return
  <2>4. SynchType'
    BY <1>1, <1>6, <2>1, <2>2, <2>3, ZenonT(30) DEF DataInv, SynchType, lock_try_acquire_return, AllThreads
  <2>5. pc' = [pc EXCEPT ![cur] = "run"] /\ obj' = [obj EXCEPT ![cur] = NULL]
    BY <1>6, Zenon DEF lock_try_acquire_return, GoTo
  <2>6. SliceEnds'
    BY <1>1, <2>3, Zenon DEF DataInv, SliceEnds, sched, intr
  <2>7. DataInv'
    BY <1>1, <2>3, <2>4, <2>6, UnchangedType, Zenon DEF DataInv
  <2>8. FrameType'
    BY <1>1, <2>1, <2>3, <2>5, Zenon DEF FrameType, Labels, AllThreads
  <2>9. CallsWellFormed'
    BY <1>1, <2>1, <2>3, <2>5, Zenon DEF FrameType, CallsWellFormed, AllThreads
  <2> QED BY <1>1, <2>7, <2>8, <2>9, DataAndFrame, Zenon
<1> QED BY <1>2, <1>3, <1>4, <1>5, <1>6, Zenon DEF LockStep

-----------------------------------------------------------------------------
(* Condition variables.                                                    *)

(* list_sort returns as many threads as it is given.                       *)
LEMMA SortedByFrontType ==
    ASSUME DonationType, SynchType, NEW list \in Seq(Threads),
           \A i \in 1..Len(list) : waiters[list[i]] # <<>>
    PROVE  /\ SortedByFront(list) \in Seq(Threads)
           /\ list # <<>> => SortedByFront(list) # <<>>
<1> DEFINE n == Len(list)
           key == [i \in 1..n |-> priority[Head(waiters[list[i]])]]
           larger == [t \in Threads |-> [u \in Threads |->
                         priority[Head(waiters[t])] > priority[Head(waiters[u])]]]
           F == {f \in [1..n -> 1..n] :
                    \A i, j \in DOMAIN f :
                        i < j => /\ f[i] # f[j]
                                 /\ ~larger[list[f[j]]][list[f[i]]]
                                 /\ ~larger[list[f[i]]][list[f[j]]] => f[i] < f[j]}
           g == CHOOSE f \in F : TRUE
<1>1. n \in Nat /\ key \in [1..n -> Int]
  <2>1. ASSUME NEW i \in 1..n
        PROVE  priority[Head(waiters[list[i]])] \in Int
    <3>1. list[i] \in Threads /\ list[i] \in SemaIds
      BY <2>1, ListElement, Zenon DEF SemaIds
    <3>2. waiters[list[i]] \in Seq(Threads) /\ waiters[list[i]] # <<>>
      BY <2>1, <3>1, Zenon DEF SynchType
    <3>3. Head(waiters[list[i]]) \in AllThreads
      BY <3>2 DEF AllThreads
    <3> QED BY <3>3, ThreadAssumption DEF DonationType, Priorities, PRI_MIN
  <2> QED BY <2>1
<1>2. \A i \in 1..n : key[i] = priority[Head(waiters[list[i]])]
  BY Zenon
<1>3. \E f \in F : TRUE
  <2> HIDE DEF key, n
  <2>1. PICK f : f \in StableOrders(n, key)
    BY <1>1, StableOrderExists, Zenon
  <2>2. /\ f \in [1..n -> 1..n]
        /\ \A i, j \in 1..n :
              i < j => /\ f[i] # f[j]
                       /\ ~(key[f[j]] > key[f[i]])
                       /\ ~(key[f[i]] > key[f[j]]) => f[i] < f[j]
    BY <2>1, Zenon DEF StableOrders
  <2>3. DOMAIN f = 1..n /\ \A i \in 1..n : f[i] \in 1..n
    BY <2>2, Zenon
  <2>4. \A t, u \in Threads :
           larger[t][u] <=> priority[Head(waiters[t])] > priority[Head(waiters[u])]
    BY Zenon
  <2> HIDE DEF larger
  <2>5. \A i, j \in DOMAIN f :
           i < j => /\ f[i] # f[j]
                    /\ ~larger[list[f[j]]][list[f[i]]]
                    /\ ~larger[list[f[i]]][list[f[j]]] => f[i] < f[j]
    <3>1. \A i \in 1..n : list[i] \in Threads
      BY ListElement, Zenon DEF n
    <3>2. \A i, j \in 1..n : larger[list[i]][list[j]] <=> key[i] > key[j]
      BY <1>2, <2>4, <3>1, ZenonT(30)
    <3> TAKE i, j \in DOMAIN f
    <3> HAVE i < j
    <3>3. /\ larger[list[f[j]]][list[f[i]]] <=> key[f[j]] > key[f[i]]
          /\ larger[list[f[i]]][list[f[j]]] <=> key[f[i]] > key[f[j]]
      BY <2>3, <3>2, Zenon
    <3>4. /\ f[i] # f[j]
          /\ ~(key[f[j]] > key[f[i]])
          /\ ~(key[f[i]] > key[f[j]]) => f[i] < f[j]
      BY <2>2, <2>3, Zenon
    <3> QED BY <3>3, <3>4, Zenon
  <2>6. f \in F
    BY <2>2, <2>5, Zenon
  <2> HIDE DEF F
  <2> QED BY <2>6, Zenon
<1>4. SortedByFront(list) = [i \in DOMAIN g |-> list[g[i]]]
  BY Zenon DEF SortedByFront, list_sort, SortedOrders
<1>5. g \in [1..n -> 1..n]
  <2>1. F \subseteq [1..n -> 1..n]
    BY Zenon
  <2> HIDE DEF F
  <2>2. g \in F
    BY <1>3, Zenon
  <2> QED BY <2>1, <2>2, Zenon
<1> HIDE DEF g, F, key, larger
<1>6. \A i \in 1..n : list[g[i]] \in Threads
  BY <1>5, ListElement, Zenon
<1>7. SortedByFront(list) \in Seq(Threads) /\ Len(SortedByFront(list)) = n
  BY <1>1, <1>4, <1>5, <1>6
<1> QED BY <1>7

(* cond_signal, up to its call of sema_up.                                 *)
LEMMA SignalType ==
    ASSUME TypeInv, cur \in Threads, NEW c \in Conds, NEW r \in {"run"} \cup Conds,
           Signal(c, r), UNCHANGED timerVars
    PROVE  TypeInv'
<1> USE ThreadAssumption, SynchAssumption
<1> DEFINE list == cond_waiters[c]
           hasFront == Len(list) = 1 \/ \A t \in Range(list) : waiters[t] # <<>>
           sorted == IF Len(list) > 1 /\ hasFront THEN SortedByFront(list) ELSE list
<1>1. DataInv /\ FrameType /\ CallsWellFormed /\ TimerType'
  BY DataAndFrame, UnchangedType, Zenon
<1>2. UNCHANGED <<sched, intr, donation, wake_up_time, value, waiters, holder, held>>
  BY Zenon DEF Signal
<1>3. list \in Seq(Threads) /\ list # <<>>
  BY <1>1, Zenon DEF Signal, DataInv, SynchType
<1>4. sorted \in Seq(Threads) /\ sorted # <<>>
  <2>1. CASE Len(list) > 1 /\ hasFront
    <3>1. \A i \in 1..Len(list) : waiters[list[i]] # <<>>
      <4>1. \A t \in Range(list) : waiters[t] # <<>>
        <5>1. Len(list) # 1
          <6>1. Len(list) \in Nat /\ Len(list) > 1
            BY <1>3, <2>1
          <6>2. \A n \in Nat : n > 1 => n # 1
            OBVIOUS
          <6> HIDE DEF list
          <6> QED BY <6>1, <6>2, Zenon
        <5> HIDE DEF list
        <5> QED BY <2>1, <5>1, Zenon
      <4>2. \A i \in 1..Len(list) : list[i] \in Range(list)
        BY <1>3 DEF Range
      <4> QED BY <4>1, <4>2, Zenon
    <3>2. SortedByFront(list) \in Seq(Threads) /\ SortedByFront(list) # <<>>
      BY <1>1, <1>3, <3>1, SortedByFrontType, Zenon DEF DataInv
    <3> QED BY <2>1, <3>2, Zenon
  <2>2. CASE ~(Len(list) > 1 /\ hasFront)
    BY <1>3, <2>2, Zenon
  <2> QED BY <2>1, <2>2, Zenon
<1>5. /\ cond_waiters' = [cond_waiters EXCEPT ![c] = Tail(sorted)]
      /\ obj' = [obj EXCEPT ![cur] = Head(sorted)]
  BY Zenon DEF Signal
<1>6. pc' = [pc EXCEPT ![cur] = "signal"] /\ ret' = [ret EXCEPT ![cur] = r]
  BY Zenon DEF Signal, GoTo
<1>7. panic' \in Failures \cup {NULL}
  <2>1. panic' \in {panic, "list_front"}
    BY Zenon DEF Signal, ASSERT
  <2> QED BY <1>1, <2>1, Zenon DEF DataInv, Failures
<1> HIDE DEF sorted
<1>8. Head(sorted) \in Threads /\ Tail(sorted) \in Seq(Threads)
  BY <1>4
<1>9. SynchType'
  BY <1>1, <1>2, <1>5, <1>8, Zenon DEF DataInv, SynchType
<1>10. SliceEnds'
  BY <1>1, <1>2, Zenon DEF DataInv, SliceEnds, sched, intr
<1>11. DataInv'
  BY <1>1, <1>2, <1>7, <1>9, <1>10, UnchangedType, Zenon DEF DataInv
<1>12. FrameType'
  BY <1>1, <1>5, <1>6, <1>8, Zenon DEF FrameType, Labels, AllThreads, SemaIds
<1>13. CallsWellFormed'
  BY <1>1, <1>5, <1>6, <1>8, Zenon DEF FrameType, CallsWellFormed, AllThreads, Labels
<1> QED BY <1>1, <1>11, <1>12, <1>13, DataAndFrame, Zenon

(* The steps of cond_wait, cond_signal and cond_broadcast.                 *)
LEMMA CondStepType ==
    ASSUME TypeInv, CondStep
    PROVE  TypeInv'
<1> USE ThreadAssumption, SynchAssumption
<1>1. DataInv /\ FrameType /\ CallsWellFormed /\ TimerType' /\ UNCHANGED timerVars
  BY DataAndFrame, UnchangedType, Zenon DEF CondStep
<1>2. \A label \in Labels \cup Conds :
         At(label) /\ label \notin {"loop", "hlt"} => cur \in Threads /\ pc[cur] = label
  BY <1>1, Zenon DEF At, CallsWellFormed, DataInv, SchedType, AllThreads
<1>3. ASSUME NEW c \in Conds, cond_wait(c)
      PROVE  TypeInv'
  <2>1. cur \in Threads /\ pc[cur] = "run" /\ cur \in SemaIds
    BY <1>3, Zenon DEF cond_wait, Calls, At, SemaIds
  <2>2. UNCHANGED <<sched, intr, donation, ret, wake_up_time, panic, holder, held>>
    BY <1>3, Zenon DEF cond_wait
  <2>3. /\ value' = [value EXCEPT ![cur] = 0]
        /\ waiters' = [waiters EXCEPT ![cur] = <<>>]
        /\ cond_waiters' = [cond_waiters EXCEPT ![c] = <<cur>> \o cond_waiters[c]]
    BY <1>1, <1>3, Zenon DEF cond_wait, sema_init, DataInv, SynchType
  <2>4. MonitorLock[c] \in Locks /\ <<>> \in Seq(Threads)
        /\ <<cur>> \o cond_waiters[c] \in Seq(Threads)
    BY <1>1, <2>1 DEF DataInv, SynchType
  <2>5. SynchType'
    BY <1>1, <2>1, <2>2, <2>3, <2>4, Zenon DEF DataInv, SynchType
  <2>6. SliceEnds'
    BY <1>1, <2>2, Zenon DEF DataInv, SliceEnds, sched, intr
  <2>7. DataInv'
    BY <1>1, <2>2, <2>5, <2>6, UnchangedType, Zenon DEF DataInv
  <2>8. pc' = [pc EXCEPT ![cur] = "cwRel"] /\ obj' = [obj EXCEPT ![cur] = MonitorLock[c]]
    BY <1>3, Zenon DEF cond_wait, GoTo
  <2>9. FrameType'
    BY <1>1, <2>1, <2>2, <2>4, <2>8, Zenon DEF FrameType, Labels, AllThreads, SemaIds
  <2>10. CallsWellFormed'
    BY <1>1, <2>1, <2>2, <2>4, <2>8, Zenon DEF FrameType, CallsWellFormed, AllThreads, Labels
  <2> QED BY <1>1, <2>7, <2>9, <2>10, DataAndFrame, Zenon
<1>4. ASSUME NEW c \in Conds,
             cond_signal(c) \/ cond_broadcast(c) \/ cond_broadcast_loop(c)
      PROVE  TypeInv'
  <2>1. CASE cond_signal(c)
    BY <1>1, <2>1, SignalType, Zenon DEF cond_signal, Calls
  <2>2. CASE cond_broadcast(c)
    <3>1. cur \in Threads /\ Signal(c, c) /\ c \in {"run"} \cup Conds
      BY <2>2, Zenon DEF cond_broadcast, Calls
    <3> QED BY <1>1, <3>1, SignalType, Zenon
  <2>3. CASE cond_broadcast_loop(c)
    <3>1. c \notin {"loop", "hlt"}
      BY Zenon DEF Labels
    <3>2. cur \in Threads
      BY <1>2, <2>3, <3>1, Zenon DEF cond_broadcast_loop
    <3>3. Signal(c, c) /\ c \in {"run"} \cup Conds
      BY <2>3, Zenon DEF cond_broadcast_loop
    <3> QED BY <1>1, <3>2, <3>3, SignalType, Zenon
  <2> QED BY <1>4, <2>1, <2>2, <2>3, Zenon
<1>5. ASSUME cond_wait_release
      PROVE  TypeInv'
  <2>1. cur \in Threads /\ pc[cur] = "cwRel" /\ obj' = obj
    BY <1>2, <1>5, Zenon DEF cond_wait_release, Labels
  <2>2. obj[cur] \in Locks
    BY <1>1, <2>1, Zenon DEF CallsWellFormed
  <2>3. DataInv' /\ pc' = [pc EXCEPT ![cur] = "cwDown"] /\ ret' = ret
    BY <1>1, <1>5, <2>1, <2>2, ReleaseType, ZenonT(30) DEF cond_wait_release
  <2>4. FrameType'
    BY <1>1, <2>1, <2>3, Zenon DEF FrameType, Labels, AllThreads
  <2>5. CallsWellFormed'
    BY <1>1, <2>1, <2>2, <2>3, Zenon DEF FrameType, CallsWellFormed, AllThreads, Labels
  <2> QED BY <1>1, <2>3, <2>4, <2>5, DataAndFrame, Zenon
<1>6. ASSUME cond_wait_down
      PROVE  TypeInv'
  <2>1. cur \in Threads /\ pc[cur] = "cwDown" /\ obj' = obj /\ cur \in SemaIds
    BY <1>2, <1>6, Zenon DEF cond_wait_down, Labels, SemaIds
  <2>2. obj[cur] \in Locks
    BY <1>1, <2>1, Zenon DEF CallsWellFormed
  <2>3. /\ DataInv'
        /\ \/ /\ value[cur] = 0
              /\ pc' = [pc EXCEPT ![cur] = "down"]
              /\ ret' = [ret EXCEPT ![cur] = "cwAcq"]
           \/ /\ value[cur] # 0
              /\ pc' = [pc EXCEPT ![cur] = "cwAcq"]
              /\ ret' = [ret EXCEPT ![cur] = "run"]
    BY <1>1, <1>6, <2>1, DownLoopType, Zenon DEF cond_wait_down
  <2>4. FrameType'
    BY <1>1, <2>1, <2>3, ZenonT(30) DEF FrameType, Labels, AllThreads
  <2>5. CallsWellFormed'
    BY <1>1, <2>1, <2>2, <2>3 DEF FrameType, CallsWellFormed, AllThreads, Labels
  <2> QED BY <1>1, <2>3, <2>4, <2>5, DataAndFrame, Zenon
<1>7. ASSUME cond_wait_acquire
      PROVE  TypeInv'
  <2>1. cur \in Threads /\ pc[cur] = "cwAcq"
    BY <1>2, <1>7, Zenon DEF cond_wait_acquire, Labels
  <2>2. obj[cur] \in Locks /\ ret[cur] = "run"
    BY <1>1, <2>1, Zenon DEF FrameType, CallsWellFormed, AllThreads
  <2> QED BY <1>1, <1>7, <2>1, <2>2, AcquireLoopType, Zenon DEF cond_wait_acquire
<1>8. ASSUME cond_signal_up
      PROVE  TypeInv'
  <2>1. cur \in Threads /\ pc[cur] = "signal" /\ obj' = [obj EXCEPT ![cur] = NULL]
    BY <1>2, <1>8, Zenon DEF cond_signal_up, Labels
  <2>2. obj[cur] \in Threads /\ obj[cur] \in SemaIds /\ ret[cur] \in {"run"} \cup Conds
    BY <1>1, <2>1, Zenon DEF CallsWellFormed, FrameType, SemaIds, AllThreads
  <2>3. /\ DataInv'
        /\ \/ /\ pc' = [pc EXCEPT ![cur] = "yield"]
              /\ ret' = [ret EXCEPT ![cur] = ret[cur]]
           \/ /\ pc' = [pc EXCEPT ![cur] = ret[cur]]
              /\ ret' = [ret EXCEPT ![cur] = "run"]
    BY <1>1, <1>8, <2>1, <2>2, UpByThreadType, Zenon DEF cond_signal_up
  <2>4. FrameType'
    BY <1>1, <2>1, <2>2, <2>3, SMTT(30) DEF FrameType, Labels, AllThreads
  <2>5. CallsWellFormed'
    BY <1>1, <2>1, <2>2, <2>3 DEF FrameType, CallsWellFormed, AllThreads, Labels
  <2> QED BY <1>1, <2>3, <2>4, <2>5, DataAndFrame, Zenon
<1>9. ASSUME NEW c \in Conds, cond_broadcast_return(c)
      PROVE  TypeInv'
  <2>1. cur \in Threads /\ pc[cur] = c
    <3>1. c \notin {"loop", "hlt"}
      BY Zenon DEF Labels
    <3> QED BY <1>2, <1>9, <3>1, Zenon DEF cond_broadcast_return
  <2>2. UNCHANGED <<sched, intr, donation, obj, ret, wake_up_time, panic, synchVars>>
    BY <1>9, Zenon DEF cond_broadcast_return
  <2>3. pc' = [pc EXCEPT ![cur] = "run"]
    BY <1>9, Zenon DEF cond_broadcast_return, GoTo
  <2>4. SliceEnds'
    BY <1>1, <2>2, Zenon DEF DataInv, SliceEnds, sched, intr
  <2>5. DataInv'
    BY <1>1, <2>2, <2>4, UnchangedType, Zenon DEF DataInv
  <2>6. FrameType'
    BY <1>1, <2>1, <2>2, <2>3, Zenon DEF FrameType, Labels, AllThreads
  <2>7. CallsWellFormed'
    BY <1>1, <2>1, <2>2, <2>3, Zenon DEF FrameType, CallsWellFormed, AllThreads, Labels
  <2> QED BY <1>1, <2>5, <2>6, <2>7, DataAndFrame, Zenon
<1> QED BY <1>3, <1>4, <1>5, <1>6, <1>7, <1>8, <1>9, Zenon DEF CondStep

-----------------------------------------------------------------------------
(* The alarm and the interrupts.                                           *)

(* The two steps of timer_sleep.                                           *)
LEMMA SleepStepType ==
    ASSUME TypeInv, SleepStep
    PROVE  TypeInv'
<1> USE ThreadAssumption, SynchAssumption, TimerAssumption
<1>1. DataInv /\ FrameType /\ CallsWellFormed /\ TimerType /\ UNCHANGED synchVars
  BY DataAndFrame, Zenon DEF SleepStep
<1>2. ASSUME Calls("timer_sleep"), NEW n \in 1..MaxTicks, timer_sleep(n)
      PROVE  TypeInv'
  <2>1. cur \in Threads /\ pc[cur] = "run" /\ cur \in AllThreads
    BY <1>2, Zenon DEF Calls, At, AllThreads
  <2>2. UNCHANGED <<sched, intr, donation, obj, ret, panic, timerVars>>
    BY <1>2, Zenon DEF timer_sleep
  <2>3. ticks + n \in Nat
    BY <1>1 DEF TimerType
  <2>4. wake_up_time' \in [AllThreads -> Nat]
    <3>1. wake_up_time' = [wake_up_time EXCEPT ![cur] = ticks + n]
      BY <1>2, Zenon DEF timer_sleep
    <3>2. wake_up_time \in [AllThreads -> Nat]
      BY <1>1, Zenon DEF DataInv
    <3> QED BY <2>1, <2>3, <3>1, <3>2, ExceptType, Zenon
  <2>5. pc' = [pc EXCEPT ![cur] = "sleep"]
    BY <1>2, Zenon DEF timer_sleep, GoTo
  <2>6. SliceEnds'
    BY <1>1, <2>2, Zenon DEF DataInv, SliceEnds, sched, intr
  <2>7. DataInv' /\ TimerType'
    BY <1>1, <2>2, <2>4, <2>6, UnchangedType, Zenon DEF DataInv
  <2>8. FrameType'
    BY <1>1, <2>1, <2>2, <2>5, Zenon DEF FrameType, Labels, AllThreads
  <2>9. CallsWellFormed'
    BY <1>1, <2>1, <2>2, <2>5, Zenon DEF FrameType, CallsWellFormed, AllThreads, Labels
  <2> QED BY <2>7, <2>8, <2>9, DataAndFrame, Zenon
<1>3. ASSUME timer_sleep_block
      PROVE  TypeInv'
  <2>1. cur \in Threads /\ pc[cur] = "sleep"
    BY <1>1, <1>3, Zenon DEF timer_sleep_block, At, CallsWellFormed, DataInv, SchedType, AllThreads
  <2>2. UNCHANGED <<intr, donation, obj, ret, wake_up_time, panic, ticks>>
    BY <1>3, Zenon DEF timer_sleep_block
  <2>3. TimerType'
    <3>1. insert_by_wake_up_time(alarm_list, cur, wake_up_time) \in Seq(Threads)
      BY <1>1, <2>1, InsertByWakeUpTimeType, Zenon DEF TimerType
    <3> QED BY <1>1, <1>3, <2>2, <3>1, Zenon DEF timer_sleep_block, TimerType
  <2>4. thread_block(ready_list)
    BY <1>3, Zenon DEF timer_sleep_block
  <2>5. SchedType' /\ SliceEnds'
    <3>1. SwitchType'
      BY <1>1, <2>4, BlockType, Zenon DEF DataInv, SchedType
    <3> QED BY <3>1, SwitchIsSched, Zenon
  <2>6. DataInv'
    BY <1>1, <2>2, <2>5, UnchangedType, Zenon DEF DataInv
  <2>7. pc' = [pc EXCEPT ![cur] = "run"]
    BY <1>3, Zenon DEF timer_sleep_block, GoTo
  <2>8. FrameType'
    BY <1>1, <2>1, <2>2, <2>7, Zenon DEF FrameType, Labels, AllThreads
  <2>9. CallsWellFormed'
    BY <1>1, <2>1, <2>2, <2>7, Zenon DEF FrameType, CallsWellFormed, AllThreads
  <2> QED BY <2>3, <2>6, <2>8, <2>9, DataAndFrame, Zenon
<1> QED BY <1>2, <1>3, Zenon DEF SleepStep

(* An interrupt takes the idle thread out of "hlt" and no other thread out *)
(* of its place.                                                           *)
LEMMA InterruptFrame ==
    ASSUME FrameType, CallsWellFormed, SchedType, UNCHANGED <<obj, ret>>,
           GoTo(IF cur = Idle THEN "loop" ELSE pc[cur])
    PROVE  FrameType' /\ CallsWellFormed'
<1> USE ThreadAssumption
<1>1. CASE cur = Idle
  <2>1. pc' = [pc EXCEPT ![Idle] = "loop"]
    BY <1>1, Zenon DEF GoTo
  <2>2. FrameType'
    <3>1. "loop" \in Labels
      BY Zenon DEF Labels
    <3>2. pc' \in [AllThreads -> Labels \cup Conds]
      BY <2>1, <3>1, Zenon DEF FrameType, AllThreads
    <3> QED BY <3>2, Zenon DEF FrameType
  <2>3. CallsWellFormed'
    BY <2>1, Zenon DEF FrameType, CallsWellFormed, AllThreads
  <2> QED BY <2>2, <2>3, Zenon
<1>2. CASE cur # Idle
  <2>1. pc' = pc
    BY <1>2, Zenon DEF GoTo, FrameType
  <2> QED BY <2>1, Zenon DEF FrameType, CallsWellFormed
<1> QED BY <1>1, <1>2, Zenon

(* A tick adds to the time slice, and asks for a yield when it is used up. *)
LEMMA TimerTickType ==
    ASSUME TypeInv, TimerTick
    PROVE  TypeInv'
<1> USE ThreadAssumption, TimerAssumption
<1>1. DataInv /\ FrameType /\ CallsWellFormed /\ TimerType /\ UNCHANGED synchVars
  BY DataAndFrame, Zenon DEF TimerTick
<1>2. UNCHANGED <<cur, ready_list, status, donation, obj, ret, wake_up_time, panic, alarm_list>>
  BY Zenon DEF TimerTick, timer_interrupt
<1>3. ~in_external_intr /\ thread_ticks \in 0..TIME_SLICE
  BY <1>1, Zenon DEF TimerTick, timer_interrupt, IntrOn, DataInv, SchedType
<1>4. thread_ticks < TIME_SLICE
  BY <1>1, <1>3 DEF DataInv, SliceEnds
<1>5. thread_ticks' = thread_ticks + 1
  BY Zenon DEF TimerTick, timer_interrupt
<1>6. SchedType'
  BY <1>1, <1>2, <1>3, <1>4, <1>5 DEF DataInv, SchedType
<1>7. in_external_intr' = TRUE /\ yield_on_return' = (thread_ticks + 1 >= TIME_SLICE)
  BY Zenon DEF TimerTick, timer_interrupt, SliceOver
<1>8. IntrType'
  <2>1. (thread_ticks + 1 >= TIME_SLICE) \in BOOLEAN
    OBVIOUS
  <2> QED BY <1>7, <2>1, Zenon DEF IntrType
<1>9. SliceEnds'
  <2>1. CASE thread_ticks + 1 >= TIME_SLICE
    BY <1>7, <2>1, Zenon DEF SliceEnds
  <2>2. CASE ~(thread_ticks + 1 >= TIME_SLICE)
    BY <1>5, <2>2, Zenon DEF SliceEnds
  <2> QED BY <2>1, <2>2, Zenon
<1>10. TimerType'
  BY <1>1, <1>2 DEF TimerTick, timer_interrupt, NextTick, TimerType
<1>11. DataInv'
  BY <1>1, <1>2, <1>6, <1>8, <1>9, UnchangedType, Zenon DEF DataInv
<1>12. FrameType' /\ CallsWellFormed'
  BY <1>1, <1>2, InterruptFrame, Zenon DEF DataInv, TimerTick, timer_interrupt
<1> QED BY <1>10, <1>11, <1>12, DataAndFrame, Zenon

(* The rest of the timer's interrupt handler.                              *)
LEMMA TimerHandlerType ==
    ASSUME TypeInv, TimerHandler
    PROVE  TypeInv'
<1> USE ThreadAssumption, TimerAssumption
<1>1. DataInv /\ FrameType /\ CallsWellFormed /\ TimerType /\ UNCHANGED synchVars
  BY DataAndFrame, Zenon DEF TimerHandler
<1>2. ASSUME timer_interrupt_wake
      PROVE  TypeInv'
  <2>1. UNCHANGED <<cur, thread_ticks, intr, donation, frame, wake_up_time, ticks>>
    BY <1>2, Zenon DEF timer_interrupt_wake
  <2>2. Head(alarm_list) \in Threads /\ Tail(alarm_list) \in Seq(Threads)
    BY <1>1, <1>2 DEF timer_interrupt_wake, HeadIsDue, TimerType
  <2>3. /\ ready_list' = insert_by_priority(ready_list, Head(alarm_list), priority)
        /\ status' = [status EXCEPT ![Head(alarm_list)] = "READY"]
        /\ alarm_list' = Tail(alarm_list)
        /\ panic' \in {panic, "thread_unblock"}
    BY <1>2, Zenon DEF timer_interrupt_wake, ASSERT
  <2>4. SchedType'
    <3>1. ready_list' \in Seq(Threads)
      BY <1>1, <2>2, <2>3, InsertByPriorityType, Zenon DEF DataInv, SchedType
    <3> QED BY <1>1, <2>1, <2>2, <2>3, <3>1, Zenon DEF DataInv, SchedType, Statuses, AllThreads
  <2>5. SliceEnds' /\ CallsWellFormed'
    BY <1>1, <2>1, Zenon DEF DataInv, SliceEnds, CallsWellFormed, intr, frame
  <2>6. panic' \in Failures \cup {NULL}
    BY <1>1, <2>3, Zenon DEF DataInv, Failures
  <2>7. DataInv' /\ FrameType'
    BY <1>1, <2>1, <2>4, <2>5, <2>6, UnchangedType, Zenon DEF DataInv
  <2>8. TimerType'
    BY <1>1, <2>1, <2>2, <2>3, Zenon DEF TimerType
  <2> QED BY <2>5, <2>7, <2>8, DataAndFrame, Zenon
<1>3. ASSUME timer_interrupt_return
      PROVE  TypeInv'
  <2>1. UNCHANGED <<yield_on_return, donation, frame, wake_up_time, panic, timerVars>>
    BY <1>3, Zenon DEF timer_interrupt_return
  <2>2. IntrType'
    BY <1>1, <1>3, <2>1, Zenon DEF timer_interrupt_return, DataInv, IntrType
  <2>3. SchedType' /\ SliceEnds'
    <3>1. CASE yield_on_return
      <4>1. SwitchType'
        BY <1>1, <1>3, <3>1, YieldType, Zenon DEF timer_interrupt_return, DataInv, SchedType
      <4> QED BY <4>1, SwitchIsSched, Zenon
    <3>2. CASE ~yield_on_return
      <4>1. UNCHANGED sched
        BY <1>3, <3>2, Zenon DEF timer_interrupt_return
      <4>2. thread_ticks \in 0..TIME_SLICE /\ ~(thread_ticks >= TIME_SLICE)
        BY <1>1, <3>2, Zenon DEF DataInv, SchedType, SliceEnds
      <4> QED BY <1>1, <4>1, <4>2, UnchangedType, Zenon DEF DataInv, SliceEnds, sched
    <3> QED BY <3>1, <3>2, Zenon
  <2>4. CallsWellFormed'
    BY <1>1, <2>1, Zenon DEF CallsWellFormed, frame
  <2>5. DataInv' /\ FrameType' /\ TimerType'
    BY <1>1, <2>1, <2>2, <2>3, UnchangedType, Zenon DEF DataInv
  <2> QED BY <2>4, <2>5, DataAndFrame, Zenon
<1> QED BY <1>2, <1>3, Zenon DEF TimerHandler

(* A device's interrupt that ups a semaphore.                              *)
LEMMA DeviceIntrType ==
    ASSUME TypeInv, DeviceIntr
    PROVE  TypeInv'
<1>1. DataInv /\ FrameType /\ CallsWellFormed /\ TimerType'
  BY DataAndFrame, UnchangedType, Zenon DEF DeviceIntr
<1>2. PICK s \in Semas : sema_up_from_intr(s)
  BY Zenon DEF DeviceIntr
<1>3. /\ UNCHANGED <<cur, thread_ticks, in_external_intr, donation, obj, ret,
                     wake_up_time, holder, cond_waiters, held>>
      /\ Up(s) /\ status' = StatusAfterUp(s) /\ ready_list' = ReadyAfterUp(s, priority)
      /\ GoTo(IF cur = Idle THEN "loop" ELSE pc[cur])
      /\ ~in_external_intr /\ yield_on_return' = FALSE
  BY <1>2, Zenon DEF sema_up_from_intr, IntrOn
<1>4. /\ SchedType' /\ DonationType' /\ SynchType'
      /\ wake_up_time' \in [AllThreads -> Nat]
      /\ panic' \in Failures \cup {NULL}
  <2>1. s \in SemaIds
    BY Zenon DEF SemaIds
  <2> QED BY <1>1, <1>3, <2>1, UpType, Zenon
<1>5. IntrType'
  BY <1>1, <1>3, Zenon DEF DataInv, IntrType
<1>6. SliceEnds'
  BY <1>1, <1>3, Zenon DEF DataInv, SliceEnds
<1>7. FrameType' /\ CallsWellFormed'
  BY <1>1, <1>3, InterruptFrame, Zenon DEF DataInv
<1> QED BY <1>1, <1>4, <1>5, <1>6, <1>7, DataAndFrame, Zenon DEF DataInv

-----------------------------------------------------------------------------
(* Every step keeps the types and the places in the code.                  *)
LEMMA TypeInvStep == TypeInv /\ [Next]_vars => TypeInv'
<1> SUFFICES ASSUME TypeInv, [Next]_vars PROVE TypeInv'
  BY Zenon
<1>1. CASE UNCHANGED vars
  <2>1. UNCHANGED <<sched, intr, donation, frame, synchVars, timerVars, wake_up_time, panic>>
    BY <1>1, Zenon DEF vars, threadVars
  <2>2. SliceEnds' /\ CallsWellFormed'
    BY <2>1, Zenon DEF TypeInv, SliceEnds, CallsWellFormed, sched, intr, frame
  <2> QED BY <2>1, <2>2, UnchangedType, Zenon DEF TypeInv, TypeOK
<1> QED BY <1>1, ThreadStepType, SemaStepType, LockStepType, CondStepType, SleepStepType,
           TimerTickType, TimerHandlerType, DeviceIntrType, Zenon
        DEF Next, CpuStep

(* Type correctness: whatever the clients call, every variable keeps its   *)
(* type; in particular thread_ticks never passes TIME_SLICE, because a     *)
(* used-up slice makes the interrupt's return yield.                       *)
THEOREM TypeCorrect == Spec => []TypeOK
<1>1. TypeInv => TypeOK
  BY Zenon DEF TypeInv
<1> QED BY <1>1, TypeInvInit, TypeInvStep, PTL DEF Spec
=============================================================================
