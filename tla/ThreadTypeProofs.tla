-------------------------- MODULE ThreadTypeProofs --------------------------
(***************************************************************************)
(* What the operators of KernelList return, and the steps of threads and   *)
(* semaphores keep the types of the kernel's variables, for every set of   *)
(* threads, locks, semaphores and condition variables.  The operators pick *)
(* a position or a rearrangement with CHOOSE; the lemmas show that there   *)
(* is one to pick, for lists of every length.                              *)
(***************************************************************************)
EXTENDS Kernel, WellFoundedInduction, TLAPS

(* An element of a list is of the type of its elements.                    *)
LEMMA ListElement ==
    ASSUME NEW S, NEW list \in Seq(S), NEW i \in 1..Len(list)
    PROVE  list[i] \in S
OBVIOUS

(* A list with one element replaced.                                       *)
LEMMA ListExcept ==
    ASSUME NEW S, NEW list \in Seq(S), NEW i \in 1..Len(list), NEW e \in S
    PROVE  [list EXCEPT ![i] = e] \in Seq(S)
OBVIOUS

(* A set of natural numbers that is not empty has a least element.         *)
LEMMA LeastNatural ==
    ASSUME NEW T, T \subseteq Nat, T # {}
    PROVE  \E x \in T : \A y \in T : x <= y
<1> DEFINE R == OpToRel(<, Nat)
<1>1. IsWellFoundedOn(R, Nat)
  BY NatLessThanWellFounded, Zenon
<1> HIDE DEF R
<1>2. PICK x \in T : \A y \in T : ~(<<y, x>> \in R)
  BY <1>1, WFMin, Zenon
<1>3. \A y \in T : ~(y < x)
  BY <1>2, Zenon DEF R, OpToRel
<1> QED BY <1>3

(* Min picks that element.                                                 *)
LEMMA MinOfNaturals ==
    ASSUME NEW T, T \subseteq Nat, T # {}
    PROVE  Min(T) \in T /\ \A y \in T : Min(T) <= y
BY LeastNatural, Zenon DEF Min

(* An insertion at a position of the list, or at its end, keeps the type.  *)
LEMMA ListInsertType ==
    ASSUME NEW S, NEW list \in Seq(S), NEW e \in S, NEW T,
           T \subseteq 1..(Len(list) + 1), T # {}
    PROVE  list_insert(list, Min(T), e) \in Seq(S)
<1>1. T \subseteq Nat
  OBVIOUS
<1>2. Min(T) \in 1..(Len(list) + 1)
  BY <1>1, MinOfNaturals, Zenon
<1> QED BY <1>2 DEF list_insert

(* list_remove keeps the type of a list, whether elem is on it or not.     *)
LEMMA ListRemoveType ==
    ASSUME NEW S, NEW list \in Seq(S), NEW elem
    PROVE  list_remove(list, elem) \in Seq(S)
<1> DEFINE I == {i \in 1..Len(list) : list[i] = elem}
<1>1. CASE I = {}
  BY <1>1, Zenon DEF list_remove
<1>2. CASE I # {}
  <2>1. I \subseteq Nat /\ I \subseteq 1..Len(list)
    OBVIOUS
  <2>2. list_remove(list, elem) = SubSeq(list, 1, Min(I) - 1) \o SubSeq(list, Min(I) + 1, Len(list))
    BY <1>2, Zenon DEF list_remove
  <2> HIDE DEF I
  <2>3. Min(I) \in 1..Len(list)
    BY <1>2, <2>1, MinOfNaturals, Zenon
  <2>4. \A k \in 1..Len(list) : SubSeq(list, 1, k - 1) \o SubSeq(list, k + 1, Len(list)) \in Seq(S)
    OBVIOUS
  <2> QED BY <2>2, <2>3, <2>4, Zenon
<1> QED BY <1>1, <1>2, Zenon

-----------------------------------------------------------------------------
(* The positions 1..n + 1 of a set K, enumerated from an enumeration of    *)
(* those up to n.                                                          *)
LEMMA EnumerationStep ==
    ASSUME NEW n \in Nat, NEW K \in SUBSET (1..(n + 1)),
           \A L \in SUBSET (1..n) : Enumerations(L, n) # {}
    PROVE  Enumerations(K, n + 1) # {}
<1>1. CASE n + 1 \notin K
  <2>1. K \in SUBSET (1..n)
    BY <1>1
  <2>2. PICK f \in Enumerations(K, n) : TRUE
    BY <2>1, Zenon
  <2>3. f \in Enumerations(K, n + 1)
    BY <2>2 DEF Enumerations
  <2> QED BY <2>3, Zenon
<1>2. CASE n + 1 \in K
  <2> DEFINE L == K \ {n + 1}
  <2>1. L \in SUBSET (1..n)
    OBVIOUS
  <2>2. PICK f \in Enumerations(L, n) : TRUE
    BY <2>1, Zenon
  <2>3. PICK m \in 0..n : f \in [1..m -> L]
    BY <2>2, Zenon DEF Enumerations
  <2> DEFINE g == [i \in 1..(m + 1) |-> IF i = m + 1 THEN n + 1 ELSE f[i]]
  <2>4. g \in [1..(m + 1) -> K] /\ m + 1 \in 0..(n + 1)
    BY <1>2, <2>3
  <2>5. \A i, j \in DOMAIN g : i < j => g[i] < g[j]
    <3> SUFFICES ASSUME NEW i \in 1..(m + 1), NEW j \in 1..(m + 1), i < j
                 PROVE  g[i] < g[j]
      BY Zenon
    <3>1. f[i] \in L /\ i \in DOMAIN f
      BY <2>3
    <3>2. CASE j = m + 1
      <4>1. g[j] = n + 1 /\ g[i] = f[i]
        BY <3>2
      <4>2. f[i] \in 1..n
        BY <3>1, <2>1, Zenon
      <4> QED BY <4>1, <4>2
    <3>3. CASE j # m + 1
      <4>1. j \in DOMAIN f
        BY <2>3, <3>3
      <4> QED BY <2>2, <3>1, <3>3, <4>1 DEF Enumerations
    <3> QED BY <3>2, <3>3, Zenon
  <2>6. \A k \in K : \E i \in DOMAIN g : g[i] = k
    <3> SUFFICES ASSUME NEW k \in K
                 PROVE  \E i \in 1..(m + 1) : g[i] = k
      BY Zenon
    <3>1. CASE k = n + 1
      BY <3>1, <2>3
    <3>2. CASE k # n + 1
      <4>1. PICK i \in DOMAIN f : f[i] = k
        BY <2>2, <3>2, Zenon DEF Enumerations
      <4>2. i \in 1..(m + 1) /\ g[i] = k
        BY <4>1, <2>3
      <4> QED BY <4>2, Zenon
    <3> QED BY <3>1, <3>2, Zenon
  <2>7. g \in Enumerations(K, n + 1)
    <3> HIDE DEF g
    <3> QED BY <2>4, <2>5, <2>6, Zenon DEF Enumerations
  <2> QED BY <2>7, Zenon
<1> QED BY <1>1, <1>2, Zenon

(* Every set of positions of a list has an increasing enumeration.         *)
LEMMA EnumerationExists ==
    ASSUME NEW n \in Nat, NEW K \in SUBSET (1..n)
    PROVE  Enumerations(K, n) # {}
<1> DEFINE T == {m \in Nat : \E L \in SUBSET (1..m) : Enumerations(L, m) = {}}
<1>1. SUFFICES ASSUME T # {} PROVE FALSE
  BY Zenon
<1>2. PICK x \in T : \A y \in T : x <= y
  BY <1>1, LeastNatural, Zenon
<1>3. PICK L \in SUBSET (1..x) : Enumerations(L, x) = {}
  BY <1>2, Zenon
<1>4. CASE x = 0
  <2> DEFINE f == [i \in 1..0 |-> 0]
  <2>1. f \in [1..0 -> L] /\ L = {}
    BY <1>4
  <2>2. f \in Enumerations(L, 0)
    BY <2>1 DEF Enumerations
  <2> QED BY <1>3, <1>4, <2>2, Zenon
<1>5. CASE x # 0
  <2>1. x - 1 \in Nat /\ x - 1 \notin T
    BY <1>2, <1>5
  <2>2. \A M \in SUBSET (1..(x - 1)) : Enumerations(M, x - 1) # {}
    BY <2>1, Zenon
  <2>3. Enumerations(L, (x - 1) + 1) # {}
    <3>1. L \in SUBSET (1..((x - 1) + 1))
      BY <1>2, <1>3
    <3> QED BY <2>1, <2>2, <3>1, EnumerationStep, Zenon
  <2> QED BY <1>2, <1>3, <2>3
<1> QED BY <1>4, <1>5, Zenon

(* Keep returns a list of elements of s that sit at positions in K, and    *)
(* all of them.                                                            *)
LEMMA KeepProperties ==
    ASSUME NEW S, NEW s \in Seq(S), NEW K \in SUBSET (1..Len(s))
    PROVE  /\ Keep(s, K) \in Seq(S)
           /\ \A i \in 1..Len(Keep(s, K)) : \E k \in K : Keep(s, K)[i] = s[k]
           /\ \A k \in K : \E i \in 1..Len(Keep(s, K)) : Keep(s, K)[i] = s[k]
<1> DEFINE f == CHOOSE f \in Enumerations(K, Len(s)) : TRUE
<1>1. f \in Enumerations(K, Len(s))
  BY EnumerationExists
<1>2. Keep(s, K) = [i \in DOMAIN f |-> s[f[i]]]
  BY Zenon DEF Keep
<1> HIDE DEF f
<1>3. PICK m \in 0..Len(s) : f \in [1..m -> K]
  BY <1>1, Zenon DEF Enumerations
<1>4. \A k \in K : \E i \in DOMAIN f : f[i] = k
  BY <1>1, Zenon DEF Enumerations
<1>5. \A i \in 1..m : f[i] \in K /\ s[f[i]] \in S
  <2> TAKE i \in 1..m
  <2>1. f[i] \in K
    BY <1>3, Zenon
  <2>2. f[i] \in 1..Len(s)
    BY <2>1, Zenon
  <2> QED BY <2>1, <2>2, ListElement, Zenon
<1>6. DOMAIN f = 1..m /\ m \in Nat
  BY <1>3
<1>7. Keep(s, K) = [i \in 1..m |-> s[f[i]]]
  BY <1>2, <1>6, Zenon
<1>8. Keep(s, K) \in Seq(S) /\ Len(Keep(s, K)) = m
  BY <1>5, <1>6, <1>7
<1>9. \A i \in 1..m : Keep(s, K)[i] = s[f[i]]
  BY <1>7, Zenon
<1>10. \A i \in 1..Len(Keep(s, K)) : \E k \in K : Keep(s, K)[i] = s[k]
  BY <1>5, <1>8, <1>9, Zenon
<1>11. \A k \in K : \E i \in 1..Len(Keep(s, K)) : Keep(s, K)[i] = s[k]
  <2> TAKE k \in K
  <2>1. PICK i \in 1..m : f[i] = k
    BY <1>4, <1>6, Zenon
  <2>2. Keep(s, K)[i] = s[k] /\ i \in 1..Len(Keep(s, K))
    BY <1>8, <1>9, <2>1, Zenon
  <2> QED BY <2>2, Zenon
<1> QED BY <1>8, <1>10, <1>11, Zenon

-----------------------------------------------------------------------------
(* The stable sorted orders of the positions of a list whose elements have *)
(* the keys key, the largest first.                                        *)
StableOrders(n, key) ==
    {f \in [1..n -> 1..n] :
        \A i, j \in 1..n :
            i < j => /\ f[i] # f[j]
                     /\ ~(key[f[j]] > key[f[i]])
                     /\ ~(key[f[i]] > key[f[j]]) => f[i] < f[j]}

(* A stable order of n positions extends to one of n + 1: the last one     *)
(* goes before the first position with a smaller key.                      *)
LEMMA StableOrderStep ==
    ASSUME NEW n \in Nat, NEW key \in [1..(n + 1) -> Int], NEW f \in StableOrders(n, key)
    PROVE  StableOrders(n + 1, key) # {}
<1> DEFINE T == {i \in 1..(n + 1) : i = n + 1 \/ key[n + 1] > key[f[i]]}
<1>1. n + 1 \in T /\ T \subseteq Nat
  OBVIOUS
<1>2. PICK p \in T : \A y \in T : p <= y
  BY <1>1, LeastNatural, Zenon
<1>3. p \in 1..(n + 1) /\ (p = n + 1 \/ key[n + 1] > key[f[p]])
  BY Zenon
<1>4. \A i \in 1..n : i < p => ~(key[n + 1] > key[f[i]])
  BY <1>2, <1>3
<1> HIDE DEF T
<1>5. /\ f \in [1..n -> 1..n]
      /\ \A i, j \in 1..n :
            i < j => /\ f[i] # f[j]
                     /\ ~(key[f[j]] > key[f[i]])
                     /\ ~(key[f[i]] > key[f[j]]) => f[i] < f[j]
  BY Zenon DEF StableOrders
<1>6. \A i \in 1..n : f[i] \in 1..n /\ key[f[i]] \in Int
  BY <1>5
<1> DEFINE g == [i \in 1..(n + 1) |-> IF i < p THEN f[i]
                                       ELSE IF i = p THEN n + 1 ELSE f[i - 1]]
<1>7. \A i \in 1..(n + 1) :
        /\ i < p => g[i] = f[i] /\ i \in 1..n
        /\ i = p => g[i] = n + 1
        /\ i > p => g[i] = f[i - 1] /\ i - 1 \in 1..n
  BY <1>3
<1>8. g \in [1..(n + 1) -> 1..(n + 1)]
  BY <1>3, <1>6, SMTT(30)
<1> HIDE DEF g
<1>9. ASSUME NEW i \in 1..(n + 1), NEW j \in 1..(n + 1), i < j
      PROVE  /\ g[i] # g[j]
             /\ ~(key[g[j]] > key[g[i]])
             /\ ~(key[g[i]] > key[g[j]]) => g[i] < g[j]
  <2>1. CASE j < p
    <3>1. g[i] = f[i] /\ i \in 1..n /\ g[j] = f[j] /\ j \in 1..n
      BY <1>3, <1>7, <1>9, <2>1
    <3> QED BY <1>5, <1>9, <3>1, Zenon
  <2>2. CASE j = p
    <3>1. g[i] = f[i] /\ i \in 1..n /\ g[j] = n + 1 /\ f[i] \in 1..n
      BY <1>3, <1>6, <1>7, <1>9, <2>2, Zenon
    <3>2. ~(key[n + 1] > key[f[i]])
      BY <1>4, <1>9, <2>2, <3>1, Zenon
    <3> QED BY <3>1, <3>2
  <2>3. CASE i < p /\ j > p
    <3>1. g[i] = f[i] /\ i \in 1..n /\ g[j] = f[j - 1] /\ j - 1 \in 1..n /\ i < j - 1
      BY <1>3, <1>7, <2>3
    <3> QED BY <1>5, <3>1, SMTT(30)
  <2>4. CASE i = p
    <3>1. g[i] = n + 1 /\ g[j] = f[j - 1] /\ j - 1 \in 1..n /\ p \in 1..n /\ p <= j - 1
      BY <1>3, <1>7, <1>9, <2>4
    <3>2. key[n + 1] > key[f[p]]
      BY <1>3, <3>1
    <3>3. ~(key[f[j - 1]] > key[f[p]])
      <4>1. CASE p = j - 1
        BY <1>6, <3>1, <4>1, SMTT(30)
      <4>2. CASE p < j - 1
        BY <1>5, <3>1, <4>2, Zenon
      <4> QED BY <3>1, <4>1, <4>2
    <3>4. key[n + 1] \in Int /\ key[f[p]] \in Int /\ key[f[j - 1]] \in Int /\ f[j - 1] \in 1..n
      BY <1>6, <3>1, SMTT(30)
    <3>5. key[n + 1] > key[f[j - 1]]
      BY <3>2, <3>3, <3>4
    <3> QED BY <3>1, <3>4, <3>5, SMTT(30)
  <2>5. CASE i > p
    <3>1. g[i] = f[i - 1] /\ i - 1 \in 1..n /\ g[j] = f[j - 1] /\ j - 1 \in 1..n /\ i - 1 < j - 1
      BY <1>3, <1>7, <1>9, <2>5
    <3> QED BY <1>5, <3>1
  <2> QED BY <1>3, <1>9, <2>1, <2>2, <2>3, <2>4, <2>5
<1>10. g \in StableOrders(n + 1, key)
  BY <1>8, <1>9, Zenon DEF StableOrders
<1> QED BY <1>10, Zenon

(* Every list has a stable sorted order.                                   *)
LEMMA StableOrderExists ==
    ASSUME NEW n \in Nat, NEW key \in [1..n -> Int]
    PROVE  StableOrders(n, key) # {}
<1> DEFINE T == {m \in Nat : \E k \in [1..m -> Int] : StableOrders(m, k) = {}}
<1>1. SUFFICES ASSUME T # {} PROVE FALSE
  BY Zenon
<1>2. PICK x \in T : \A y \in T : x <= y
  BY <1>1, LeastNatural, Zenon
<1>3. PICK k \in [1..x -> Int] : StableOrders(x, k) = {}
  BY <1>2, Zenon
<1>4. CASE x = 0
  <2> DEFINE f == [i \in 1..0 |-> 0]
  <2>1. f \in StableOrders(0, k)
    BY DEF StableOrders
  <2> QED BY <1>3, <1>4, <2>1, Zenon
<1>5. CASE x # 0
  <2> DEFINE m == x - 1
             h == [i \in 1..m |-> k[i]]
  <2>1. m \in Nat /\ m \notin T /\ x = m + 1
    <3>1. x \in Nat /\ x # 0
      BY <1>2, <1>5, Zenon
    <3>2. m \in Nat /\ x = m + 1 /\ ~(x <= m)
      BY <3>1
    <3> QED BY <1>2, <3>2, Zenon
  <2>2. h \in [1..m -> Int]
    BY <1>3, <2>1
  <2>3. PICK f \in StableOrders(m, h) : TRUE
    BY <2>1, <2>2, Zenon
  <2>4. \A i \in 1..m : f[i] \in 1..m /\ h[f[i]] = k[f[i]]
    BY <2>3, Zenon DEF StableOrders
  <2> HIDE DEF m, h
  <2>5. f \in StableOrders(m, k)
    BY <2>3, <2>4, Zenon DEF StableOrders
  <2>6. k \in [1..(m + 1) -> Int]
    BY <1>3, <2>1, Zenon
  <2> QED BY <1>3, <2>1, <2>5, <2>6, StableOrderStep, Zenon
<1> QED BY <1>4, <1>5, Zenon

-----------------------------------------------------------------------------
(* The invariants about types and places in the code are proved together:  *)
(* what a step stores depends on where its thread is.                      *)
TypeInv == TypeOK /\ CallsWellFormed /\ SliceEnds

-----------------------------------------------------------------------------
(* An assignment to a field of one thread, lock or semaphore keeps the     *)
(* type of that field.                                                     *)
LEMMA ExceptType ==
    ASSUME NEW S, NEW T, NEW f \in [S -> T], NEW x \in S, NEW v \in T
    PROVE  [f EXCEPT ![x] = v] \in [S -> T]
BY Zenon

(* Insertions keep the type of the run queue and of the lists of waiters.  *)
LEMMA InsertByPriorityType ==
    ASSUME NEW list \in Seq(Threads), NEW t \in Threads, NEW pri
    PROVE  insert_by_priority(list, t, pri) \in Seq(Threads)
<1> DEFINE larger == [a \in AllThreads |-> [b \in AllThreads |-> pri[a] > pri[b]]]
           T == {i \in 1..(Len(list) + 1) :
                    i = Len(list) + 1 \/ larger[t][list[i]]}
<1>1. T \subseteq 1..(Len(list) + 1) /\ T # {}
  <2>1. Len(list) + 1 \in T
    OBVIOUS
  <2> QED BY <2>1, Zenon
<1>2. insert_by_priority(list, t, pri) = list_insert(list, Min(T), t)
  BY Zenon DEF insert_by_priority, list_insert_ordered
<1> HIDE DEF T
<1> QED BY <1>1, <1>2, ListInsertType, Zenon

(* The same for the list of sleeping threads.                              *)
LEMMA InsertByWakeUpTimeType ==
    ASSUME NEW list \in Seq(Threads), NEW t \in Threads, NEW wake
    PROVE  insert_by_wake_up_time(list, t, wake) \in Seq(Threads)
<1> DEFINE less == [a \in AllThreads |-> [b \in AllThreads |-> wake[a] < wake[b]]]
           T == {i \in 1..(Len(list) + 1) :
                    i = Len(list) + 1 \/ less[t][list[i]]}
<1>1. T \subseteq 1..(Len(list) + 1) /\ T # {}
  <2>1. Len(list) + 1 \in T
    OBVIOUS
  <2> QED BY <2>1, Zenon
<1>2. insert_by_wake_up_time(list, t, wake) = list_insert(list, Min(T), t)
  BY Zenon DEF insert_by_wake_up_time, list_insert_ordered
<1> HIDE DEF T
<1> QED BY <1>1, <1>2, ListInsertType, Zenon

(* Initially all invariants hold.                                          *)
LEMMA TypeInvInit == Init => TypeInv
<1> SUFFICES ASSUME Init PROVE TypeInv
  BY Zenon
<1> USE ThreadAssumption, SynchAssumption, TimerAssumption
<1>1. TypeOK
  <2>1. SchedType
    BY DEF Init, ThreadInit, SchedType, AllThreads, Statuses
  <2>2. IntrType
    BY Zenon DEF Init, ThreadInit, IntrType
  <2>3. DonationType
    BY DEF Init, ThreadInit, DonationType, Priorities, PRI_MIN
  <2>4. FrameType
    BY Zenon DEF Init, ThreadInit, FrameType, Labels
  <2>5. SynchType
    BY DEF Init, SynchInit, SynchType
  <2>6. TimerType
    BY DEF Init, TimerInit, TimerType
  <2>7. wake_up_time \in [AllThreads -> Nat] /\ panic \in Failures \cup {NULL}
    BY Zenon DEF Init, ThreadInit
  <2> QED BY <2>1, <2>2, <2>3, <2>4, <2>5, <2>6, <2>7, Zenon DEF TypeOK
<1>2. CallsWellFormed
  BY Zenon DEF Init, ThreadInit, CallsWellFormed, AllThreads, Labels
<1>3. SliceEnds
  BY DEF Init, ThreadInit, SliceEnds
<1> QED BY <1>1, <1>2, <1>3, Zenon DEF TypeInv

-----------------------------------------------------------------------------
(* What a switch leaves in the scheduler's variables.                      *)
SwitchType ==
    /\ cur \in AllThreads
    /\ ready_list \in Seq(Threads)
    /\ status \in [AllThreads -> Statuses]
    /\ thread_ticks = 0

(* After a switch a new time slice begins.                                 *)
LEMMA SwitchIsSched == SwitchType' => SchedType' /\ SliceEnds'
BY ThreadAssumption DEF SwitchType, SchedType, SliceEnds

(* schedule switches to a thread of the run queue or to the idle thread.   *)
LEMMA ScheduleType ==
    ASSUME SchedType, NEW st \in [AllThreads -> Statuses], NEW rl \in Seq(Threads),
           schedule(st, rl)
    PROVE  SwitchType'
<1>1. next_thread_to_run(rl) \in AllThreads
  BY DEF next_thread_to_run, AllThreads
<1>2. (IF rl = <<>> THEN rl ELSE Tail(rl)) \in Seq(Threads)
  OBVIOUS
<1> QED BY <1>1, <1>2, Zenon DEF schedule, SwitchType, SchedType, Statuses

(* thread_block is a switch.                                               *)
LEMMA BlockType ==
    ASSUME SchedType, NEW rl \in Seq(Threads), thread_block(rl)
    PROVE  SwitchType'
<1>1. [status EXCEPT ![cur] = "BLOCKED"] \in [AllThreads -> Statuses]
  BY Zenon DEF SchedType, Statuses
<1> QED BY <1>1, ScheduleType, Zenon DEF thread_block

(* So is the body of thread_yield, which queues the running thread first.  *)
LEMMA YieldType ==
    ASSUME SchedType, NEW st \in [AllThreads -> Statuses], NEW rl \in Seq(Threads),
           NEW pri, yield(st, rl, pri)
    PROVE  SwitchType'
<1>1. [st EXCEPT ![cur] = "READY"] \in [AllThreads -> Statuses]
  BY Zenon DEF SchedType, Statuses
<1>2. (IF cur = Idle THEN rl ELSE insert_by_priority(rl, cur, pri)) \in Seq(Threads)
  BY InsertByPriorityType, Zenon DEF SchedType, AllThreads
<1> QED BY <1>1, <1>2, ScheduleType, Zenon DEF yield

(* Variables that a step leaves alone keep their types.                    *)
LEMMA UnchangedType ==
    /\ SchedType /\ UNCHANGED sched => SchedType'
    /\ IntrType /\ UNCHANGED intr => IntrType'
    /\ DonationType /\ UNCHANGED donation => DonationType'
    /\ FrameType /\ UNCHANGED frame => FrameType'
    /\ SynchType /\ UNCHANGED synchVars => SynchType'
    /\ TimerType /\ UNCHANGED timerVars => TimerType'
<1>1. SchedType /\ UNCHANGED sched => SchedType'
  BY Zenon DEF SchedType, sched
<1>2. IntrType /\ UNCHANGED intr => IntrType'
  BY Zenon DEF IntrType, intr
<1>3. DonationType /\ UNCHANGED donation => DonationType'
  BY Zenon DEF DonationType, donation
<1>4. FrameType /\ UNCHANGED frame => FrameType'
  BY Zenon DEF FrameType, frame
<1>5. SynchType /\ UNCHANGED synchVars => SynchType'
  BY Zenon DEF SynchType, synchVars
<1>6. TimerType /\ UNCHANGED timerVars => TimerType'
  BY Zenon DEF TimerType, timerVars
<1> QED BY <1>1, <1>2, <1>3, <1>4, <1>5, <1>6, Zenon

-----------------------------------------------------------------------------
(* thread_create, up to its thread_unblock.                                *)
LEMMA CreateType ==
    ASSUME TypeInv, NEW t \in Threads, NEW p \in Priorities, thread_create(t, p),
           UNCHANGED <<synchVars, timerVars>>
    PROVE  TypeInv'
<1> USE ThreadAssumption, SynchAssumption DEF TypeInv, TypeOK
<1>1. SchedType'
  BY InsertByPriorityType, Zenon DEF SchedType, thread_create, Statuses
<1>2. DonationType'
  <2>1. <<>> \in Seq(Entries)
    OBVIOUS
  <2> QED BY <2>1, Zenon DEF DonationType, thread_create
<1>3. FrameType'
  BY Zenon DEF FrameType, thread_create, Labels, SemaIds
<1>4. wake_up_time' \in [AllThreads -> Nat] /\ UNCHANGED <<intr, panic>>
  BY Zenon DEF thread_create
<1>5. CallsWellFormed'
  BY Zenon DEF FrameType, SchedType, AllThreads, CallsWellFormed, thread_create, Calls, At
<1>6. SliceEnds'
  BY Zenon DEF SliceEnds, thread_create, intr
<1> QED BY <1>1, <1>2, <1>3, <1>4, <1>5, <1>6, UnchangedType, Zenon

(* The test that ends thread_create, whatever it reads.                    *)
LEMMA CreateReturnType ==
    ASSUME TypeInv, thread_create_return, UNCHANGED <<synchVars, timerVars>>
    PROVE  TypeInv'
<1> USE ThreadAssumption, SynchAssumption DEF TypeInv, TypeOK
<1>1. pc[cur] = "create" /\ cur \in Threads
  BY Zenon DEF thread_create_return, At, CallsWellFormed, SchedType, AllThreads
<1>2. PICK label \in {"run", "yield"} : pc' = [pc EXCEPT ![cur] = label]
  BY Zenon DEF thread_create_return, GoTo
<1>3. obj' = [obj EXCEPT ![cur] = NULL] /\ ret' = ret
  BY Zenon DEF thread_create_return
<1>4. FrameType'
  BY <1>1, <1>2, <1>3, Zenon DEF FrameType, Labels, AllThreads
<1>5. CallsWellFormed'
  BY <1>1, <1>2, <1>3, Zenon DEF FrameType, CallsWellFormed, AllThreads
<1>6. UNCHANGED <<sched, intr, donation, wake_up_time, panic>>
  BY Zenon DEF thread_create_return
<1>7. SliceEnds'
  BY <1>6, Zenon DEF SliceEnds, sched, intr
<1> QED BY <1>4, <1>5, <1>6, <1>7, UnchangedType, Zenon

(* thread_yield returns to the place its caller left in ret.               *)
LEMMA YieldStepType ==
    ASSUME TypeInv, thread_yield, UNCHANGED <<synchVars, timerVars>>
    PROVE  TypeInv'
<1> USE ThreadAssumption, SynchAssumption DEF TypeInv, TypeOK
<1>1. cur \in Threads /\ pc[cur] \in {"run", "yield"}
  BY Zenon DEF thread_yield, Calls, At, CallsWellFormed, SchedType, AllThreads
<1>2. SwitchType'
  BY YieldType, Zenon DEF thread_yield, SchedType
<1>3. /\ pc' = [pc EXCEPT ![cur] = ret[cur]]
      /\ ret' = [ret EXCEPT ![cur] = "run"]
      /\ obj' = obj
  BY Zenon DEF thread_yield, GoTo
<1>4. FrameType'
  BY <1>1, <1>3, Zenon DEF FrameType, Labels, AllThreads
<1>5. CallsWellFormed'
  BY <1>1, <1>3, ZenonT(30) DEF FrameType, CallsWellFormed, AllThreads, Labels
<1>6. UNCHANGED <<intr, donation, wake_up_time, panic>>
  BY Zenon DEF thread_yield
<1>7. SliceEnds' /\ SchedType'
  BY <1>2, SwitchIsSched, Zenon
<1> QED BY <1>4, <1>5, <1>6, <1>7, UnchangedType, Zenon

(* thread_exit.                                                            *)
LEMMA ExitType ==
    ASSUME TypeInv, thread_exit, UNCHANGED <<synchVars, timerVars>>
    PROVE  TypeInv'
<1> USE ThreadAssumption, SynchAssumption DEF TypeInv, TypeOK
<1>1. [status EXCEPT ![cur] = "DYING"] \in [AllThreads -> Statuses]
  BY Zenon DEF SchedType, Statuses
<1>2. SwitchType'
  BY <1>1, ScheduleType, Zenon DEF thread_exit, SchedType
<1>3. SliceEnds' /\ SchedType'
  BY <1>2, SwitchIsSched, Zenon
<1>4. UNCHANGED <<intr, donation, frame, wake_up_time, panic>>
  BY Zenon DEF thread_exit
<1>5. CallsWellFormed'
  BY <1>4, Zenon DEF CallsWellFormed, frame
<1> QED BY <1>3, <1>4, <1>5, UnchangedType, Zenon

(* thread_set_priority, with and without a donation in force.              *)
LEMMA SetPriorityType ==
    ASSUME TypeInv, NEW p \in Priorities, thread_set_priority(p),
           UNCHANGED <<synchVars, timerVars>>
    PROVE  TypeInv'
<1> USE ThreadAssumption, SynchAssumption DEF TypeInv, TypeOK
<1>1. cur \in Threads /\ pc[cur] = "run"
  BY Zenon DEF thread_set_priority, Calls, At
<1>2. PICK label \in {"run", "yield"} : pc' = [pc EXCEPT ![cur] = label]
  <2>1. CASE stored[cur] # <<>>
    <3>1. pc' = pc
      BY <2>1, Zenon DEF thread_set_priority
    <3>2. pc' = [pc EXCEPT ![cur] = "run"]
      BY <1>1, <3>1, Zenon DEF FrameType
    <3> QED BY <3>2, Zenon
  <2>2. CASE stored[cur] = <<>>
    BY <2>2, Zenon DEF thread_set_priority, GoTo
  <2> QED BY <2>1, <2>2, Zenon
<1>3. UNCHANGED <<sched, intr, obj, ret, wake_up_time, panic>>
  BY Zenon DEF thread_set_priority
<1>4. FrameType'
  BY <1>1, <1>2, <1>3, Zenon DEF FrameType, Labels, AllThreads
<1>5. CallsWellFormed'
  BY <1>1, <1>2, <1>3, Zenon DEF FrameType, CallsWellFormed, AllThreads, Labels
<1>6. SliceEnds'
  BY <1>3, Zenon DEF SliceEnds, sched, intr
<1>7. DonationType'
  <2>1. CASE stored[cur] # <<>>
    <3> DEFINE e == [stored[cur][1] EXCEPT !.priority = p]
    <3>1. stored[cur] \in Seq(Entries) /\ 1 \in 1..Len(stored[cur])
      BY <1>1, <2>1 DEF DonationType, AllThreads
    <3>2. stored[cur][1] \in Entries
      BY <3>1, ListElement, Zenon
    <3>3. e \in Entries
      BY <3>2, Zenon DEF Entries
    <3>4. [stored[cur] EXCEPT ![1] = e] \in Seq(Entries)
      BY <3>1, <3>3, ListExcept, Zenon
    <3>5. stored' = [stored EXCEPT ![cur] = [stored[cur] EXCEPT ![1] = e]]
      BY <1>1, <2>1, <3>1, Zenon DEF thread_set_priority, DonationType, AllThreads
    <3> HIDE DEF e
    <3>6. stored' \in [AllThreads -> Seq(Entries)]
      BY <1>1, <3>4, <3>5, Zenon DEF DonationType, AllThreads
    <3>7. priority' = priority /\ master' = master /\ base' = [base EXCEPT ![cur] = p]
      BY <2>1, Zenon DEF thread_set_priority
    <3> QED BY <1>1, <3>6, <3>7, Zenon DEF DonationType, AllThreads
  <2>2. CASE stored[cur] = <<>>
    BY <1>1, <2>2, SMTT(30) DEF thread_set_priority, DonationType, AllThreads
  <2> QED BY <2>1, <2>2, Zenon
<1> QED BY <1>3, <1>4, <1>5, <1>6, <1>7, UnchangedType, Zenon

(* A turn of the idle thread's loop.                                       *)
LEMMA IdleType ==
    ASSUME TypeInv, idle, UNCHANGED <<synchVars, timerVars>>
    PROVE  TypeInv'
<1> USE ThreadAssumption, SynchAssumption DEF TypeInv, TypeOK
<1>1. SwitchType'
  BY BlockType, Zenon DEF idle, SchedType
<1>2. SliceEnds' /\ SchedType'
  BY <1>1, SwitchIsSched, Zenon
<1>3. pc' = [pc EXCEPT ![cur] = "hlt"] /\ pc[cur] = "loop"
  BY Zenon DEF idle, GoTo, At
<1>4. UNCHANGED <<intr, donation, obj, ret, wake_up_time, panic>>
  BY Zenon DEF idle
<1>5. FrameType'
  BY <1>3, <1>4, Zenon DEF FrameType, Labels
<1>6. CallsWellFormed'
  BY <1>3, <1>4, Zenon DEF FrameType, CallsWellFormed, SchedType, AllThreads, Labels
<1> QED BY <1>2, <1>4, <1>5, <1>6, UnchangedType, Zenon

(* All steps of the scheduler.                                             *)
LEMMA ThreadStepType == TypeInv /\ ThreadStep => TypeInv'
BY CreateType, CreateReturnType, YieldStepType, ExitType, SetPriorityType, IdleType, Zenon
   DEF ThreadStep

-----------------------------------------------------------------------------
(* Semaphores.  The part of TypeInv that does not speak of the code the    *)
(* threads are in; a lemma about a call that several actions make          *)
(* establishes it, and each action adds where its thread continues.        *)
DataInv ==
    /\ SchedType /\ IntrType /\ DonationType /\ SynchType /\ SliceEnds
    /\ wake_up_time \in [AllThreads -> Nat]
    /\ panic \in Failures \cup {NULL}

(* TypeInv, in the parts in which the actions establish it.                *)
LEMMA DataAndFrame ==
    /\ TypeInv => DataInv /\ FrameType /\ CallsWellFormed /\ TimerType
    /\ DataInv' /\ FrameType' /\ CallsWellFormed' /\ TimerType' => TypeInv'
BY Zenon DEF TypeInv, TypeOK, DataInv

(* sema_down, from its loop test.                                          *)
LEMMA DownLoopType ==
    ASSUME DataInv, cur \in Threads, NEW s \in SemaIds, NEW r, DownLoop(s, r)
    PROVE  /\ DataInv'
           /\ \/ /\ value[s] = 0
                 /\ pc' = [pc EXCEPT ![cur] = "down"]
                 /\ ret' = [ret EXCEPT ![cur] = r]
              \/ /\ value[s] # 0
                 /\ pc' = [pc EXCEPT ![cur] = r]
                 /\ ret' = [ret EXCEPT ![cur] = "run"]
<1> USE DEF DataInv
<1>1. UNCHANGED <<intr, donation, wake_up_time, panic, holder, cond_waiters, held>>
  BY Zenon DEF DownLoop
<1>2. CASE value[s] = 0
  <2>1. waiters' = [waiters EXCEPT ![s] = insert_by_priority(waiters[s], cur, priority)]
    BY <1>2, Zenon DEF DownLoop
  <2>2. insert_by_priority(waiters[s], cur, priority) \in Seq(Threads)
    BY InsertByPriorityType, Zenon DEF SynchType
  <2>3. SynchType'
    BY <1>1, <1>2, <2>1, <2>2, Zenon DEF SynchType, DownLoop
  <2>4. SwitchType'
    BY <1>2, BlockType, Zenon DEF DownLoop, SchedType
  <2>5. SchedType' /\ SliceEnds'
    BY <2>4, SwitchIsSched, Zenon
  <2> QED BY <1>1, <1>2, <2>3, <2>5, UnchangedType, Zenon DEF DownLoop, GoTo
<1>3. CASE value[s] # 0
  <2>1. value' = [value EXCEPT ![s] = value[s] - 1] /\ waiters' = waiters
    BY <1>3, Zenon DEF DownLoop
  <2>2. SynchType'
    BY <1>1, <1>3, <2>1 DEF SynchType
  <2>3. UNCHANGED sched
    BY <1>3, Zenon DEF DownLoop
  <2>4. SliceEnds'
    BY <1>1, <2>3, Zenon DEF SliceEnds, sched, intr
  <2> QED BY <1>1, <1>3, <2>2, <2>3, <2>4, UnchangedType, Zenon DEF DownLoop, GoTo
<1> QED BY <1>2, <1>3, Zenon

(* What sema_up does to the lists and the statuses.                        *)
LEMMA AfterUpType ==
    ASSUME SchedType, SynchType, NEW s \in SemaIds, NEW pri
    PROVE  /\ StatusAfterUp(s) \in [AllThreads -> Statuses]
           /\ ReadyAfterUp(s, pri) \in Seq(Threads)
           /\ WaitersAfterUp(s) \in [SemaIds -> Seq(Threads)]
<1>1. StatusAfterUp(s) \in [AllThreads -> Statuses]
  BY Zenon DEF StatusAfterUp, SchedType, Statuses
<1>2. waiters[s] \in Seq(Threads)
  BY Zenon DEF SynchType
<1>3. CASE waiters[s] = <<>>
  BY <1>1, <1>3, Zenon DEF SchedType, SynchType, ReadyAfterUp, WaitersAfterUp, Wakes
<1>4. CASE waiters[s] # <<>>
  <2>1. Head(waiters[s]) \in Threads /\ Tail(waiters[s]) \in Seq(Threads)
    BY <1>2, <1>4
  <2>2. ReadyAfterUp(s, pri) \in Seq(Threads)
    BY <1>4, <2>1, InsertByPriorityType, Zenon DEF SchedType, ReadyAfterUp, Wakes
  <2>3. WaitersAfterUp(s) \in [SemaIds -> Seq(Threads)]
    BY <1>4, <2>1, Zenon DEF SynchType, WaitersAfterUp, Wakes
  <2> QED BY <1>1, <2>2, <2>3, Zenon
<1> QED BY <1>3, <1>4, Zenon

(* The assignments that sema_up makes in every context.                    *)
LEMMA UpType ==
    ASSUME DataInv, NEW s \in SemaIds, Up(s), status' = StatusAfterUp(s),
           ready_list' = ReadyAfterUp(s, priority),
           UNCHANGED <<cur, thread_ticks, donation, wake_up_time, holder,
                       cond_waiters, held>>
    PROVE  /\ SchedType' /\ DonationType' /\ SynchType'
           /\ wake_up_time' \in [AllThreads -> Nat]
           /\ panic' \in Failures \cup {NULL}
<1> USE DEF DataInv
<1>1. SchedType'
  BY AfterUpType, Zenon DEF SchedType
<1>2. DonationType'
  BY UnchangedType, Zenon
<1>3. value' \in [SemaIds -> Nat]
  BY DEF Up, SynchType
<1>4. SynchType'
  BY <1>3, AfterUpType, Zenon DEF Up, SynchType
<1>5. panic' \in Failures \cup {NULL}
  BY Zenon DEF Up, ASSERT, Failures
<1> QED BY <1>1, <1>2, <1>4, <1>5, Zenon

(* sema_up called by a thread.                                             *)
LEMMA UpByThreadType ==
    ASSUME DataInv, cur \in Threads, NEW s \in SemaIds, NEW r, UpByThread(s, r)
    PROVE  /\ DataInv'
           /\ \/ /\ pc' = [pc EXCEPT ![cur] = "yield"]
                 /\ ret' = [ret EXCEPT ![cur] = r]
              \/ /\ pc' = [pc EXCEPT ![cur] = r]
                 /\ ret' = [ret EXCEPT ![cur] = "run"]
<1>1. /\ SchedType' /\ DonationType' /\ SynchType'
      /\ wake_up_time' \in [AllThreads -> Nat]
      /\ panic' \in Failures \cup {NULL}
  BY UpType, Zenon DEF UpByThread
<1>2. IntrType' /\ SliceEnds'
  <2>1. UNCHANGED <<thread_ticks, intr>>
    BY Zenon DEF UpByThread
  <2> QED BY <2>1, UnchangedType, Zenon DEF DataInv, SliceEnds, intr
<1>3. \/ /\ pc' = [pc EXCEPT ![cur] = "yield"]
         /\ ret' = [ret EXCEPT ![cur] = r]
      \/ /\ pc' = [pc EXCEPT ![cur] = r]
         /\ ret' = [ret EXCEPT ![cur] = "run"]
  BY Zenon DEF UpByThread, GoTo
<1> QED BY <1>1, <1>2, <1>3, Zenon DEF DataInv

(* The steps of sema_down, sema_try_down and sema_up.                      *)
LEMMA SemaStepType ==
    ASSUME TypeInv, SemaStep
    PROVE  TypeInv'
<1> USE ThreadAssumption, SynchAssumption
<1>1. DataInv /\ FrameType /\ CallsWellFormed /\ TimerType'
  BY DataAndFrame, UnchangedType, Zenon DEF SemaStep
<1>2. ASSUME NEW s \in Semas, sema_down(s)
      PROVE  TypeInv'
  <2>1. cur \in Threads /\ pc[cur] = "run" /\ s \in SemaIds
    BY <1>2, Zenon DEF sema_down, Calls, At, SemaIds
  <2>2. /\ DataInv'
        /\ \/ /\ value[s] = 0
              /\ pc' = [pc EXCEPT ![cur] = "down"]
              /\ ret' = [ret EXCEPT ![cur] = "run"]
           \/ /\ value[s] # 0
              /\ pc' = [pc EXCEPT ![cur] = "run"]
              /\ ret' = [ret EXCEPT ![cur] = "run"]
    BY <1>1, <1>2, <2>1, DownLoopType, Zenon DEF sema_down
  <2>3. obj' = [obj EXCEPT ![cur] = IF value[s] = 0 THEN s ELSE NULL]
    BY <1>2, Zenon DEF sema_down
  <2>4. FrameType'
    BY <1>1, <2>1, <2>2, <2>3, ZenonT(30) DEF FrameType, Labels, AllThreads
  <2>5. CallsWellFormed'
    BY <1>1, <2>1, <2>2, <2>3 DEF FrameType, CallsWellFormed, AllThreads, Labels
  <2> QED BY <1>1, <2>2, <2>4, <2>5, DataAndFrame, Zenon
<1>3. ASSUME NEW s \in Semas, sema_try_down(s)
      PROVE  TypeInv'
  <2>1. UNCHANGED <<sched, intr, donation, frame, wake_up_time, panic>>
    BY <1>3, Zenon DEF sema_try_down, threadVars
  <2>2. SynchType'
    BY <1>1, <1>3 DEF sema_try_down, CanDown, SynchType, DataInv, SemaIds
  <2>3. SliceEnds' /\ CallsWellFormed'
    BY <1>1, <2>1, Zenon DEF DataInv, SliceEnds, CallsWellFormed, sched, intr, frame
  <2>4. DataInv' /\ FrameType'
    BY <1>1, <2>1, <2>2, <2>3, UnchangedType, Zenon DEF DataInv
  <2> QED BY <1>1, <2>3, <2>4, DataAndFrame, Zenon
<1>4. ASSUME NEW s \in Semas, sema_up(s)
      PROVE  TypeInv'
  <2>1. cur \in Threads /\ pc[cur] = "run" /\ s \in SemaIds /\ obj' = obj
    BY <1>4, Zenon DEF sema_up, Calls, At, SemaIds
  <2>2. /\ DataInv'
        /\ \/ /\ pc' = [pc EXCEPT ![cur] = "yield"]
              /\ ret' = [ret EXCEPT ![cur] = "run"]
           \/ /\ pc' = [pc EXCEPT ![cur] = "run"]
              /\ ret' = [ret EXCEPT ![cur] = "run"]
    BY <1>1, <1>4, <2>1, UpByThreadType, Zenon DEF sema_up
  <2>3. FrameType'
    BY <1>1, <2>1, <2>2, ZenonT(30) DEF FrameType, Labels, AllThreads
  <2>4. CallsWellFormed'
    BY <1>1, <2>1, <2>2 DEF FrameType, CallsWellFormed, AllThreads, Labels
  <2> QED BY <1>1, <2>2, <2>3, <2>4, DataAndFrame, Zenon
<1>5. ASSUME sema_down_loop
      PROVE  TypeInv'
  <2>1. cur \in Threads /\ pc[cur] = "down"
    BY <1>1, <1>5, Zenon DEF sema_down_loop, At, CallsWellFormed, DataInv, SchedType, AllThreads
  <2>2. CASE ret[cur] = "cwAcq"
    <3>1. obj' = obj /\ cur \in SemaIds /\ obj[cur] \in Locks
      BY <1>1, <1>5, <2>1, <2>2, Zenon DEF sema_down_loop, SemaIds, CallsWellFormed
    <3>2. /\ DataInv'
          /\ \/ /\ value[cur] = 0
                /\ pc' = [pc EXCEPT ![cur] = "down"]
                /\ ret' = [ret EXCEPT ![cur] = "cwAcq"]
             \/ /\ value[cur] # 0
                /\ pc' = [pc EXCEPT ![cur] = "cwAcq"]
                /\ ret' = [ret EXCEPT ![cur] = "run"]
      BY <1>1, <1>5, <2>1, <2>2, <3>1, DownLoopType, Zenon DEF sema_down_loop
    <3>3. FrameType'
      BY <1>1, <2>1, <3>1, <3>2, ZenonT(30) DEF FrameType, Labels, AllThreads
    <3>4. CallsWellFormed'
      BY <1>1, <2>1, <3>1, <3>2 DEF FrameType, CallsWellFormed, AllThreads, Labels
    <3> QED BY <1>1, <3>2, <3>3, <3>4, DataAndFrame, Zenon
  <2>3. CASE ret[cur] # "cwAcq"
    <3>1. obj[cur] \in Semas /\ obj[cur] \in SemaIds
      BY <1>1, <2>1, <2>3, Zenon DEF CallsWellFormed, SemaIds
    <3>2. /\ DataInv'
          /\ \/ /\ value[obj[cur]] = 0
                /\ pc' = [pc EXCEPT ![cur] = "down"]
                /\ ret' = [ret EXCEPT ![cur] = "run"]
             \/ /\ value[obj[cur]] # 0
                /\ pc' = [pc EXCEPT ![cur] = "run"]
                /\ ret' = [ret EXCEPT ![cur] = "run"]
      BY <1>1, <1>5, <2>1, <2>3, <3>1, DownLoopType, Zenon DEF sema_down_loop
    <3>3. obj' = IF value[obj[cur]] = 0 THEN obj ELSE [obj EXCEPT ![cur] = NULL]
      BY <1>5, <2>3, Zenon DEF sema_down_loop
    <3>4. FrameType'
      BY <1>1, <2>1, <3>2, <3>3, ZenonT(30) DEF FrameType, Labels, AllThreads
    <3>5. CallsWellFormed'
      BY <1>1, <2>1, <3>1, <3>2, <3>3 DEF FrameType, CallsWellFormed, AllThreads, Labels
    <3> QED BY <1>1, <3>2, <3>4, <3>5, DataAndFrame, Zenon
  <2> QED BY <2>2, <2>3, Zenon
<1> QED BY <1>2, <1>3, <1>4, <1>5, Zenon DEF SemaStep
=============================================================================
