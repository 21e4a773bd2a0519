----------------------------- MODULE PageProofs -----------------------------
(***************************************************************************)
(* The pages of user processes, for every program, every number of threads *)
(* and every size of the pools: each page that is not free has one owner,  *)
(* a thread, a copy of a command line, a segment that is being read or a   *)
(* page directory with its tables and pages.  Every step of process.c      *)
(* keeps this, wherever it fails.                                          *)
(***************************************************************************)
EXTENDS Process, WellFoundedInduction, TLAPS

(* An entry of a page directory or page table.                             *)
EntryType == [page : Frames \cup {NULL}, p : BOOLEAN, w : BOOLEAN, d : BOOLEAN, a : BOOLEAN]

(* Memory and processor; user programs are not modelled to the level of    *)
(* single accesses, so that nothing is cached.                             *)
MemType == [free : SUBSET Frames, entry : [KernelFrames -> [Slots -> EntryType]],
            cr3 : Frames \cup {NULL}, tlb : {{}}, panic : BOOLEAN]

(* An entry that names a page is present.                                  *)
Consistent(mem) ==
    \A f \in KernelFrames : \A i \in Slots : mem.entry[f][i].p <=> mem.entry[f][i].page # NULL

-----------------------------------------------------------------------------
(* Arithmetic of page numbers: division is monotone.                       *)
LEMMA DivMonotone ==
    ASSUME NEW n \in Nat \ {0}, NEW x \in Nat, NEW y \in Nat, x <= y
    PROVE  x \div n <= y \div n /\ x \div n \in Nat
<1>1. \A z \in Nat : z = n * (z \div n) + (z % n) /\ z % n \in 0..(n - 1) /\ z \div n \in Int
  OBVIOUS
<1>2. ASSUME NEW a \in Int, NEW b \in Int, a > b PROVE n * a >= n * b + n
  <2>1. a - b >= 1 /\ a - b \in Int
    BY <1>2
  <2>2. n * (a - b) >= n
    BY <2>1
  <2> QED BY <2>2
<1>3. x \div n <= y \div n
  BY <1>1, <1>2
<1>4. x \div n >= 0
  <2>1. 0 > x \div n => n * 0 >= n * (x \div n) + n
    BY <1>1, <1>2
  <2> QED BY <1>1, <2>1
<1> QED BY <1>1, <1>3, <1>4

(* pd_no and pt_no of a user page are slots of a directory and of a table. *)
LEMMA SlotNumbers ==
    ASSUME NEW vpage \in UserPages
    PROVE  pd_no(vpage) \in Slots /\ pt_no(vpage) \in Slots
<1> DEFINE a == PT_ENTRIES - 1
           top == PHYS_BASE \div PGSIZE
           b == top \div PT_ENTRIES
<1>0. PT_ENTRIES \in Nat \ {0} /\ PGSIZE \in Nat \ {0} /\ PHYS_BASE \in Nat
  BY PagedirAssumption, Zenon
<1>1. top \in Nat
  BY <1>0, DivMonotone
<1>2. vpage \in Nat /\ vpage <= top
  BY <1>1 DEF UserPages
<1> HIDE DEF top
<1>3. vpage \div PT_ENTRIES <= b /\ vpage \div PT_ENTRIES \in Nat /\ b \in Nat
  BY <1>0, <1>1, <1>2, DivMonotone
<1>4. a \in Nat
  BY <1>0
<1>5. vpage % PT_ENTRIES \in 0..a
  BY <1>0, <1>2
<1> HIDE DEF a, b
<1>6. Max({a, b}) \in Nat /\ Max({a, b}) >= a /\ Max({a, b}) >= b
  <2>1. \E x \in {a, b} : \A y \in {a, b} : x >= y
    BY <1>3, <1>4
  <2>2. Max({a, b}) \in {a, b} /\ \A y \in {a, b} : Max({a, b}) >= y
    BY <2>1, Zenon DEF Max
  <2> QED BY <1>3, <1>4, <2>2, Zenon
<1>7. Slots = 0..Max({a, b})
  BY Zenon DEF Slots, pd_no, a, b, top
<1> QED BY <1>3, <1>4, <1>5, <1>6, <1>7 DEF pd_no, pt_no

-----------------------------------------------------------------------------
(* A set of natural numbers that is not empty has a least element.         *)
LEMMA LeastPage ==
    ASSUME NEW T, T \subseteq Nat, T # {}
    PROVE  Min(T) \in T
<1> DEFINE R == OpToRel(<, Nat)
<1>1. IsWellFoundedOn(R, Nat)
  BY NatLessThanWellFounded, Zenon
<1> HIDE DEF R
<1>2. PICK x \in T : \A y \in T : ~(<<y, x>> \in R)
  BY <1>1, WFMin, Zenon
<1>3. \A y \in T : ~(y < x)
  BY <1>2, Zenon DEF R, OpToRel
<1>4. \A y \in T : x <= y
  BY <1>3
<1> QED BY <1>4, Zenon DEF Min

(* palloc_get_page takes a free page of the pool, or fails.                *)
LEMMA GetPage ==
    ASSUME NEW mem \in MemType, NEW pool \in {UserFrames, KernelFrames}
    PROVE  \/ palloc_get_page(mem, pool) = [m |-> mem, page |-> NULL]
           \/ \E page \in mem.free \cap pool :
                 palloc_get_page(mem, pool) = [m |-> [mem EXCEPT !.free = @ \ {page}], page |-> page]
<1>1. CASE mem.free \cap pool = {}
  BY <1>1, Zenon DEF palloc_get_page
<1>2. CASE mem.free \cap pool # {}
  <2>1. mem.free \cap pool \subseteq Nat
    BY PagedirAssumption, Zenon DEF MemType, Frames
  <2>2. Min(mem.free \cap pool) \in mem.free \cap pool
    BY <1>2, <2>1, LeastPage, Zenon
  <2> QED BY <1>2, <2>2, Zenon DEF palloc_get_page
<1> QED BY <1>1, <1>2, Zenon

(* The tables and pages of a page directory, slot by slot.                 *)
LEMMA TablesAre ==
    ASSUME NEW mem, NEW d
    PROVE  /\ \A x : x \in TablesOf(mem, d) <=>
                 \E i \in Slots : mem.entry[d][i].p /\ mem.entry[d][i].page = x
           /\ \A x : x \in MappedBy(mem, d) <=>
                 \E t \in TablesOf(mem, d) : \E i \in Slots : mem.entry[t][i].p /\ mem.entry[t][i].page = x
<1>1. ASSUME NEW x PROVE x \in TablesOf(mem, d) <=>
                 \E i \in Slots : mem.entry[d][i].p /\ mem.entry[d][i].page = x
  BY Zenon DEF TablesOf, PresentIn
<1>2. ASSUME NEW x PROVE x \in MappedBy(mem, d) <=>
         \E t \in TablesOf(mem, d) : \E i \in Slots : mem.entry[t][i].p /\ mem.entry[t][i].page = x
  <2> DEFINE E == UNION {PresentIn(mem, t) : t \in TablesOf(mem, d)}
  <2>1. \A e : e \in E <=> \E t \in TablesOf(mem, d) : e \in PresentIn(mem, t)
    BY Zenon
  <2>2. \A e, t : e \in PresentIn(mem, t) <=> \E i \in Slots : e = mem.entry[t][i] /\ e.p
    BY Zenon DEF PresentIn
  <2>3. x \in MappedBy(mem, d) <=> \E e \in E : e.page = x
    BY Zenon DEF MappedBy
  <2> HIDE DEF E
  <2>4. ASSUME NEW t \in TablesOf(mem, d), NEW i \in Slots, mem.entry[t][i].p, mem.entry[t][i].page = x
        PROVE  x \in MappedBy(mem, d)
    <3>1. mem.entry[t][i] \in PresentIn(mem, t)
      BY <2>2, <2>4, Zenon
    <3>2. mem.entry[t][i] \in E
      BY <2>1, <3>1, Zenon
    <3> QED BY <2>3, <2>4, <3>2, Zenon
  <2>5. ASSUME x \in MappedBy(mem, d)
        PROVE  \E t \in TablesOf(mem, d) : \E i \in Slots : mem.entry[t][i].p /\ mem.entry[t][i].page = x
    <3>1. PICK e \in E : e.page = x
      BY <2>3, <2>5, Zenon
    <3>2. PICK t \in TablesOf(mem, d) : e \in PresentIn(mem, t)
      BY <2>1, Zenon
    <3>3. PICK i \in Slots : e = mem.entry[t][i] /\ e.p
      BY <2>2, <3>2, Zenon
    <3> QED BY <3>1, <3>3, Zenon
  <2> QED BY <2>4, <2>5, Zenon
<1> QED BY <1>1, <1>2, Zenon

(* They depend on the entries of the directory and its tables only.        *)
LEMMA TablesSame ==
    ASSUME NEW mem, NEW mem2, NEW d, mem2.entry[d] = mem.entry[d],
           \A t \in TablesOf(mem, d) : mem2.entry[t] = mem.entry[t]
    PROVE  TablesOf(mem2, d) = TablesOf(mem, d) /\ MappedBy(mem2, d) = MappedBy(mem, d)
<1>1. \A x : x \in TablesOf(mem2, d) <=> x \in TablesOf(mem, d)
  BY TablesAre
<1>2. TablesOf(mem2, d) = TablesOf(mem, d)
  BY <1>1, Zenon
<1>3. \A x : x \in MappedBy(mem2, d) <=> x \in MappedBy(mem, d)
  BY <1>2, TablesAre
<1> QED BY <1>2, <1>3, Zenon

(* Entry j of table pt of directory d is the one that is new, for kpage.   *)
NewEntry(mem, mem2, d, pt, j, kpage) ==
    /\ mem2.entry[d] = mem.entry[d]
    /\ ~mem.entry[pt][j].p /\ mem2.entry[pt][j].p /\ mem2.entry[pt][j].page = kpage
    /\ \A t \in TablesOf(mem, d), i \in Slots :
          t # pt \/ i # j => mem2.entry[t][i] = mem.entry[t][i]

(* It maps its page, and changes nothing else.                             *)
LEMMA AddPage ==
    ASSUME NEW mem, NEW mem2, NEW d, NEW pt \in TablesOf(mem, d), NEW j \in Slots, NEW kpage,
           NewEntry(mem, mem2, d, pt, j, kpage)
    PROVE  /\ TablesOf(mem2, d) = TablesOf(mem, d)
           /\ MappedBy(mem2, d) = MappedBy(mem, d) \cup {kpage}
<1> USE DEF NewEntry
<1>1. \A x : x \in TablesOf(mem2, d) <=> x \in TablesOf(mem, d)
  BY TablesAre
<1>2. TablesOf(mem2, d) = TablesOf(mem, d)
  BY <1>1, Zenon
<1>3. ASSUME NEW x \in MappedBy(mem2, d) PROVE x \in MappedBy(mem, d) \cup {kpage}
  <2>1. PICK t \in TablesOf(mem, d) : \E i \in Slots : mem2.entry[t][i].p /\ mem2.entry[t][i].page = x
    BY <1>2, <1>3, TablesAre
  <2>2. PICK i \in Slots : mem2.entry[t][i].p /\ mem2.entry[t][i].page = x
    BY <2>1, Zenon
  <2>3. CASE t = pt /\ i = j
    BY <2>2, <2>3, Zenon
  <2>4. CASE t # pt \/ i # j
    <3>1. mem.entry[t][i].p /\ mem.entry[t][i].page = x
      BY <2>2, <2>4, Zenon
    <3> QED BY <3>1, TablesAre, Zenon
  <2> QED BY <2>3, <2>4, Zenon
<1>4. ASSUME NEW x \in MappedBy(mem, d) PROVE x \in MappedBy(mem2, d)
  <2>1. PICK t \in TablesOf(mem, d) : \E i \in Slots : mem.entry[t][i].p /\ mem.entry[t][i].page = x
    BY <1>4, TablesAre
  <2>2. PICK i \in Slots : mem.entry[t][i].p /\ mem.entry[t][i].page = x
    BY <2>1, Zenon
  <2>3. t # pt \/ i # j
    BY <2>2, Zenon
  <2>4. mem2.entry[t][i].p /\ mem2.entry[t][i].page = x
    BY <2>2, <2>3, Zenon
  <2> QED BY <1>2, <2>4, TablesAre, Zenon
<1>5. kpage \in MappedBy(mem2, d)
  BY <1>2, TablesAre, Zenon
<1> QED BY <1>2, <1>3, <1>4, <1>5, Zenon

(* Entry i of directory d is new, for the empty table x.                   *)
EmptyTable(mem, mem2, d, i, x) ==
    /\ i \in Slots
    /\ ~mem.entry[d][i].p /\ mem2.entry[d][i].p /\ mem2.entry[d][i].page = x
    /\ \A k \in Slots : k # i => mem2.entry[d][k] = mem.entry[d][k]
    /\ \A k \in Slots : ~mem2.entry[x][k].p
    /\ \A t \in TablesOf(mem, d) : mem2.entry[t] = mem.entry[t]

(* It maps nothing.                                                        *)
LEMMA AddTable ==
    ASSUME NEW mem, NEW mem2, NEW d, NEW i, NEW x, EmptyTable(mem, mem2, d, i, x)
    PROVE  /\ TablesOf(mem2, d) = TablesOf(mem, d) \cup {x}
           /\ MappedBy(mem2, d) = MappedBy(mem, d)
<1> USE DEF EmptyTable
<1>1. ASSUME NEW t \in TablesOf(mem2, d) PROVE t \in TablesOf(mem, d) \cup {x}
  <2>1. PICK k \in Slots : mem2.entry[d][k].p /\ mem2.entry[d][k].page = t
    BY <1>1, TablesAre
  <2> QED BY <2>1, TablesAre
<1>2. ASSUME NEW t \in TablesOf(mem, d) PROVE t \in TablesOf(mem2, d)
  <2>1. PICK k \in Slots : mem.entry[d][k].p /\ mem.entry[d][k].page = t
    BY <1>2, TablesAre
  <2>2. mem2.entry[d][k].p /\ mem2.entry[d][k].page = t
    BY <2>1, Zenon
  <2> QED BY <2>2, TablesAre, Zenon
<1>3. x \in TablesOf(mem2, d)
  BY TablesAre, Zenon
<1>4. TablesOf(mem2, d) = TablesOf(mem, d) \cup {x}
  BY <1>1, <1>2, <1>3, Zenon
<1>5. ASSUME NEW y PROVE y \in MappedBy(mem2, d) <=> y \in MappedBy(mem, d)
  BY <1>4, TablesAre
<1> QED BY <1>4, <1>5, Zenon

(* What install_page and the caller's error path leave behind: the page    *)
(* was given back, or it is mapped, with a new table where there was none. *)
Installed(mem, d, kpage, r) ==
    /\ r.ok
    /\ r.m \in MemType /\ Consistent(r.m) /\ r.m.cr3 = mem.cr3 /\ ~r.m.panic
    /\ \E new \in SUBSET (KernelFrames \cap mem.free) :
          /\ r.m.free = mem.free \ new
          /\ TablesOf(r.m, d) = TablesOf(mem, d) \cup new
          /\ MappedBy(r.m, d) = MappedBy(mem, d) \cup {kpage}
          /\ \A f \in KernelFrames :
                f \notin {d} \cup TablesOf(mem, d) \cup new => r.m.entry[f] = mem.entry[f]

(* A directory that may be given to install_page.                          *)
Sound(mem, d) ==
    /\ mem \in MemType /\ Consistent(mem) /\ ~mem.panic
    /\ d \in KernelFrames \ mem.free
    /\ TablesOf(mem, d) \subseteq KernelFrames \ mem.free
    /\ d \notin TablesOf(mem, d)

(* Memory after pagedir_set_page has found the table for vpage.            *)
WithPage(mem, d, vpage, kpage, writable) ==
    [WithEntry(mem, d, vpage, Present(kpage, writable)) EXCEPT !.panic = @ \/ EntryOf(mem, d, vpage).p]

(* The page is mapped in it, by a table of d, and all else is as before.   *)
PageMapped(mem, mem2, d, kpage) ==
    /\ mem2 \in MemType /\ Consistent(mem2) /\ mem2.cr3 = mem.cr3 /\ ~mem2.panic
    /\ mem2.free = mem.free
    /\ TablesOf(mem2, d) = TablesOf(mem, d)
    /\ MappedBy(mem2, d) = MappedBy(mem, d) \cup {kpage}
    /\ \A f \in KernelFrames : f \notin TablesOf(mem, d) => mem2.entry[f] = mem.entry[f]

(* pte_create_user in a table that is there.                               *)
LEMMA MapPage ==
    ASSUME NEW mem, NEW d, Sound(mem, d), NEW vpage \in UserPages, NEW kpage \in UserFrames,
           NEW writable \in BOOLEAN,
           mem.entry[d][pd_no(vpage)].page # NULL, ~EntryOf(mem, d, vpage).p
    PROVE  PageMapped(mem, WithPage(mem, d, vpage, kpage, writable), d, kpage)
<1> DEFINE i == pd_no(vpage)
           j == pt_no(vpage)
           pt == mem.entry[d][i].page
           e == Present(kpage, writable)
           mem2 == WithPage(mem, d, vpage, kpage, writable)
<1>0. mem \in MemType /\ Consistent(mem) /\ ~mem.panic /\ d \in KernelFrames
  BY Zenon DEF Sound
<1>1. i \in Slots /\ j \in Slots
  BY SlotNumbers, Zenon
<1>2. mem.entry[d][i].p
  BY <1>0, <1>1, Zenon DEF Consistent
<1>3. pt \in TablesOf(mem, d)
  BY <1>1, <1>2, TablesAre, Zenon
<1>4. pt \in KernelFrames /\ pt # d
  BY <1>3, Zenon DEF Sound
<1>5. EntryOf(mem, d, vpage) = mem.entry[pt][j] /\ lookup_page(mem, d, vpage, FALSE).page = pt
  BY Zenon DEF EntryOf, lookup_page
<1>6. e \in EntryType /\ e.p /\ e.page = kpage /\ kpage # NULL
  BY PagedirAssumption, Zenon DEF Present, EntryType, Frames
<1>7. ~EntryOf(mem, d, vpage).p /\ WithEntry(mem, d, vpage, e) = [mem EXCEPT !.entry[pt][j] = e]
  BY <1>5, Zenon DEF WithEntry
<1>mem2. mem2 = [WithEntry(mem, d, vpage, e) EXCEPT !.panic = @ \/ EntryOf(mem, d, vpage).p]
  BY Zenon DEF WithPage
<1> HIDE DEF i, j, pt, e, mem2
<1>8. WithEntry(mem, d, vpage, e) \in MemType
  <2>1. [mem.entry EXCEPT ![pt][j] = e] \in [KernelFrames -> [Slots -> EntryType]]
    BY <1>0, <1>1, <1>4, <1>6, Zenon DEF MemType
  <2>2. [mem EXCEPT !.entry = [mem.entry EXCEPT ![pt][j] = e]] \in MemType
    BY <1>0, <2>1, Zenon DEF MemType
  <2> QED BY <1>7, <2>2, Zenon
<1>9. /\ mem2.free = mem.free /\ mem2.cr3 = mem.cr3 /\ mem2.tlb = mem.tlb
      /\ mem2.entry = [mem.entry EXCEPT ![pt] = [mem.entry[pt] EXCEPT ![j] = e]]
  BY <1>0, <1>7, <1>8, <1>mem2, Zenon DEF MemType
<1>10. ~mem2.panic
  <2>1. WithEntry(mem, d, vpage, e).panic = mem.panic
    BY <1>0, <1>7, Zenon DEF MemType
  <2>2. mem2.panic = (WithEntry(mem, d, vpage, e).panic \/ EntryOf(mem, d, vpage).p)
    BY <1>8, <1>mem2, Zenon DEF MemType
  <2> QED BY <1>0, <1>7, <2>1, <2>2, Zenon
<1>11. mem2 \in MemType
  <2>1. (WithEntry(mem, d, vpage, e).panic \/ EntryOf(mem, d, vpage).p) \in BOOLEAN
    BY Zenon
  <2> QED BY <1>8, <1>mem2, <2>1, Zenon DEF MemType
<1>12. \A f \in KernelFrames : \A k \in Slots :
          mem2.entry[f][k] = IF f = pt /\ k = j THEN e ELSE mem.entry[f][k]
  BY <1>0, <1>1, <1>4, <1>9 DEF MemType
<1>13. \A f \in KernelFrames : f # pt => mem2.entry[f] = mem.entry[f]
  BY <1>0, <1>9, Zenon DEF MemType
<1>14. Consistent(mem2)
  BY <1>0, <1>6, <1>12 DEF Consistent
<1>15. TablesOf(mem2, d) = TablesOf(mem, d) /\ MappedBy(mem2, d) = MappedBy(mem, d) \cup {kpage}
  <2>1. mem2.entry[pt][j].p /\ mem2.entry[pt][j].page = kpage /\ ~mem.entry[pt][j].p
    BY <1>1, <1>4, <1>5, <1>6, <1>7, <1>12, Zenon DEF e
  <2>2. \A t \in TablesOf(mem, d), k \in Slots : t # pt \/ k # j => mem2.entry[t][k] = mem.entry[t][k]
    BY <1>12, Zenon DEF Sound
  <2>3. mem2.entry[d] = mem.entry[d]
    BY <1>0, <1>4, <1>13, Zenon
  <2>4. NewEntry(mem, mem2, d, pt, j, kpage)
    BY <2>1, <2>2, <2>3, Zenon DEF NewEntry
  <2> QED BY <1>1, <1>3, <2>4, AddPage
<1> QED BY <1>3, <1>9, <1>10, <1>11, <1>13, <1>14, <1>15, Zenon DEF PageMapped, mem2

(* Memory after lookup_page has added table x for vpage to directory d.    *)
WithTable(mem, d, vpage, x) ==
    [mem EXCEPT !.free = @ \ {x},
                !.entry = [@ EXCEPT ![x] = ZeroPage, ![d][pd_no(vpage)] = Present(x, TRUE)]]

(* The table is there and maps nothing, and all else is as before.         *)
TableAdded(mem, mem2, d, vpage, x) ==
    /\ Sound(mem2, d) /\ mem2.cr3 = mem.cr3 /\ mem2.free = mem.free \ {x}
    /\ TablesOf(mem2, d) = TablesOf(mem, d) \cup {x}
    /\ MappedBy(mem2, d) = MappedBy(mem, d)
    /\ \A f \in KernelFrames : f \notin {d, x} => mem2.entry[f] = mem.entry[f]
    /\ mem2.entry[d][pd_no(vpage)].page # NULL /\ ~EntryOf(mem2, d, vpage).p

(* lookup_page adds a table that was free.                                 *)
LEMMA NewTable ==
    ASSUME NEW mem, NEW d, Sound(mem, d), NEW vpage \in UserPages,
           mem.entry[d][pd_no(vpage)].page = NULL, NEW x \in mem.free \cap KernelFrames
    PROVE  TableAdded(mem, WithTable(mem, d, vpage, x), d, vpage, x)
<1> DEFINE i == pd_no(vpage)
           e == Present(x, TRUE)
           mem2 == WithTable(mem, d, vpage, x)
<1>0. mem \in MemType /\ Consistent(mem) /\ ~mem.panic /\ d \in KernelFrames /\ d # x
  BY Zenon DEF Sound
<1>1. i \in Slots /\ pt_no(vpage) \in Slots
  BY SlotNumbers, Zenon
<1>2. e \in EntryType /\ e.p /\ e.page = x /\ x # NULL
  BY PagedirAssumption, Zenon DEF Present, EntryType, Frames
<1>3. /\ ZeroPage \in [Slots -> EntryType]
      /\ \A k \in Slots : ~ZeroPage[k].p /\ ZeroPage[k].page = NULL /\ ZeroPage[k] = Absent
  BY Zenon DEF ZeroPage, Absent, EntryType
<1> HIDE DEF i, e, mem2
<1>4. mem2 = [mem EXCEPT !.free = mem.free \ {x},
                         !.entry = [mem.entry EXCEPT ![x] = ZeroPage, ![d][i] = e]]
  BY <1>0, Zenon DEF i, e, mem2, MemType, WithTable
<1>5. [mem.entry EXCEPT ![x] = ZeroPage, ![d][i] = e] \in [KernelFrames -> [Slots -> EntryType]]
  BY <1>0, <1>1, <1>2, <1>3, Zenon DEF MemType
<1>6. mem2 \in MemType
  <2>1. mem.free \ {x} \in SUBSET Frames
    BY <1>0, Zenon DEF MemType
  <2> QED BY <1>0, <1>4, <1>5, <2>1, Zenon DEF MemType
<1>7. /\ mem2.free = mem.free \ {x} /\ mem2.cr3 = mem.cr3 /\ mem2.panic = mem.panic
      /\ mem2.entry = [mem.entry EXCEPT ![x] = ZeroPage, ![d][i] = e]
  BY <1>0, <1>4, Zenon DEF MemType
<1>8. \A f \in KernelFrames : f \notin {d, x} => mem2.entry[f] = mem.entry[f]
  BY <1>0, <1>7, Zenon DEF MemType
<1>9. mem2.entry[x] = ZeroPage
  BY <1>0, <1>7, Zenon DEF MemType
<1>10. \A k \in Slots : mem2.entry[d][k] = IF k = i THEN e ELSE mem.entry[d][k]
  BY <1>0, <1>1, <1>7 DEF MemType
<1>11. ~mem.entry[d][i].p
  BY <1>0, <1>1, Zenon DEF Consistent, i
<1>12. \A t \in TablesOf(mem, d) : t # d /\ t # x /\ t \in KernelFrames
  BY Zenon DEF Sound
<1>13. EmptyTable(mem, mem2, d, i, x)
  <2>1. mem2.entry[d][i].p /\ mem2.entry[d][i].page = x
    BY <1>1, <1>2, <1>10, Zenon
  <2>2. \A k \in Slots : ~mem2.entry[x][k].p
    BY <1>3, <1>9, Zenon
  <2>3. \A t \in TablesOf(mem, d) : mem2.entry[t] = mem.entry[t]
    BY <1>8, <1>12, Zenon
  <2> QED BY <1>1, <1>10, <1>11, <2>1, <2>2, <2>3, Zenon DEF EmptyTable
<1>14. TablesOf(mem2, d) = TablesOf(mem, d) \cup {x} /\ MappedBy(mem2, d) = MappedBy(mem, d)
  BY <1>13, AddTable
<1>15. Consistent(mem2)
  <2> SUFFICES ASSUME NEW f \in KernelFrames, NEW k \in Slots
               PROVE  mem2.entry[f][k].p <=> mem2.entry[f][k].page # NULL
    BY Zenon DEF Consistent
  <2>1. CASE f = x
    BY <1>3, <1>9, <2>1, Zenon
  <2>2. CASE f = d /\ k = i
    BY <1>2, <1>10, <2>2, Zenon
  <2>3. CASE f # x /\ ~(f = d /\ k = i)
    <3>1. mem2.entry[f][k] = mem.entry[f][k]
      BY <1>8, <1>10, <2>3, Zenon
    <3> QED BY <1>0, <3>1, Zenon DEF Consistent
  <2> QED BY <2>1, <2>2, <2>3, Zenon
<1>16. Sound(mem2, d)
  <2>1. d \in KernelFrames \ mem2.free /\ TablesOf(mem2, d) \subseteq KernelFrames \ mem2.free
    BY <1>0, <1>7, <1>14, Zenon DEF Sound
  <2>2. d \notin TablesOf(mem2, d)
    BY <1>0, <1>12, <1>14, Zenon
  <2>3. ~mem2.panic
    BY <1>0, <1>7, Zenon
  <2> QED BY <1>6, <1>15, <2>1, <2>2, <2>3, Zenon DEF Sound
<1>17. mem2.entry[d][i].page = x
  BY <1>1, <1>2, <1>10, Zenon
<1>18. EntryOf(mem2, d, vpage) = mem2.entry[x][pt_no(vpage)]
  BY <1>2, <1>17, Zenon DEF EntryOf, lookup_page, i
<1>19. ~EntryOf(mem2, d, vpage).p
  BY <1>1, <1>3, <1>9, <1>18, Zenon
<1> QED BY <1>2, <1>7, <1>8, <1>14, <1>16, <1>17, <1>19, Zenon DEF i, mem2, TableAdded

(* install_page and the error path of its callers: with a table that is    *)
(* there, with a new one, without memory for it, or over a mapped page.    *)
LEMMA InstallPage ==
    ASSUME NEW mem, NEW d, Sound(mem, d), NEW vpage \in UserPages, NEW kpage \in UserFrames,
           NEW writable \in BOOLEAN, NEW r, r = InstallOrFree(mem, d, vpage, kpage, writable)
    PROVE  r = [m |-> palloc_free_page(mem, kpage), ok |-> FALSE] \/ Installed(mem, d, kpage, r)
<1> DEFINE pde == mem.entry[d][pd_no(vpage)]
           s == install_page(mem, d, vpage, kpage, writable)
<1>0. mem \in MemType /\ Consistent(mem) /\ d \in KernelFrames
  BY Zenon DEF Sound
<1>1. r = IF s.ok THEN s ELSE [s EXCEPT !.m = palloc_free_page(@, kpage)]
  BY Zenon DEF InstallOrFree
<1>2. ASSUME s = [m |-> mem, ok |-> FALSE]
      PROVE  r = [m |-> palloc_free_page(mem, kpage), ok |-> FALSE]
  <2> HIDE DEF s
  <2> QED BY <1>1, <1>2, ZenonT(30)
<1>3. CASE pagedir_get_page(mem, d, vpage) # NULL
  BY <1>2, <1>3, Zenon DEF install_page
<1>4. CASE pagedir_get_page(mem, d, vpage) = NULL
  <2>1. s = pagedir_set_page(mem, d, vpage, kpage, writable)
    BY <1>4, Zenon DEF install_page
  <2>2. ~EntryOf(mem, d, vpage).p
    <3>1. CASE pde.page = NULL
      BY <3>1, Zenon DEF EntryOf, lookup_page, Absent
    <3>2. CASE pde.page # NULL
      <4>1. pd_no(vpage) \in Slots /\ pt_no(vpage) \in Slots
        BY SlotNumbers, Zenon
      <4>2. pde.page \in KernelFrames
        BY <1>0, <3>2, <4>1, TablesAre, Zenon DEF Sound, Consistent
      <4>3. EntryOf(mem, d, vpage) = mem.entry[pde.page][pt_no(vpage)]
        BY <3>2, Zenon DEF EntryOf, lookup_page
      <4>4. EntryOf(mem, d, vpage).p => EntryOf(mem, d, vpage).page # NULL
        <5>1. \A f \in KernelFrames : \A i \in Slots : mem.entry[f][i].p <=> mem.entry[f][i].page # NULL
          BY <1>0, Zenon DEF Sound, Consistent
        <5>2. PICK f, i : f = pde.page /\ i = pt_no(vpage)
          BY Zenon
        <5>3. mem.entry[f][i].p <=> mem.entry[f][i].page # NULL
          BY <4>1, <4>2, <5>1, <5>2, Zenon
        <5> QED BY <4>3, <5>2, <5>3, Zenon
      <4> QED BY <1>4, <4>4, Zenon DEF pagedir_get_page
    <3> QED BY <3>1, <3>2, Zenon
  <2>3. CASE pde.page # NULL
    <3> DEFINE mem2 == WithPage(mem, d, vpage, kpage, writable)
    <3>1. s = [m |-> mem2, ok |-> TRUE]
      BY <2>1, <2>3, Zenon DEF pagedir_set_page, lookup_page, WithPage
    <3>2. PageMapped(mem, mem2, d, kpage)
      BY <2>2, <2>3, MapPage, Zenon
    <3> HIDE DEF mem2, s
    <3>4. r.m = mem2 /\ r.ok
      BY <1>1, <3>1
    <3>5. {} \in SUBSET (KernelFrames \cap mem.free) /\ mem.free = mem.free \ {}
      OBVIOUS
    <3> QED BY <3>2, <3>4, <3>5, ZenonT(30) DEF Installed, PageMapped
  <2>4. CASE pde.page = NULL
    <3>1. CASE palloc_get_page(mem, KernelFrames) = [m |-> mem, page |-> NULL]
      <4>1. s = [m |-> mem, ok |-> FALSE]
        BY <2>1, <2>4, <3>1 DEF pagedir_set_page, lookup_page
      <4> QED BY <1>2, <4>1, Zenon
    <3>2. ASSUME NEW x \in mem.free \cap KernelFrames,
                 palloc_get_page(mem, KernelFrames) = [m |-> [mem EXCEPT !.free = @ \ {x}], page |-> x]
          PROVE  Installed(mem, d, kpage, r)
      <4>1. x # NULL
        BY PagedirAssumption, Zenon
      <4>2. lookup_page(mem, d, vpage, TRUE) = [m |-> WithTable(mem, d, vpage, x), page |-> x]
        <5> DEFINE one == [mem EXCEPT !.free = @ \ {x}]
                   g == palloc_get_page(mem, KernelFrames)
        <5>1. one.entry = mem.entry /\ g = [m |-> one, page |-> x] /\ g.page = x /\ g.m = one
          BY <1>0, <3>2 DEF MemType
        <5>2. WithTable(mem, d, vpage, x) =
                 [one EXCEPT !.entry = [@ EXCEPT ![x] = ZeroPage, ![d][pd_no(vpage)] = Present(x, TRUE)]]
          BY <1>0, <5>1, Zenon DEF WithTable, MemType
        <5> HIDE DEF one, g
        <5>3. lookup_page(mem, d, vpage, TRUE) =
                 [g EXCEPT !.m.entry = [@ EXCEPT ![x] = ZeroPage, ![d][pd_no(vpage)] = Present(x, TRUE)]]
          BY <2>4, <4>1, <5>1, Zenon DEF lookup_page, g
        <5> QED BY <5>1, <5>2, <5>3, Zenon
      <4> DEFINE mem1 == WithTable(mem, d, vpage, x)
                 mem2 == WithPage(mem1, d, vpage, kpage, writable)
      <4>3. TableAdded(mem, mem1, d, vpage, x)
        BY <2>4, NewTable, Zenon
      <4>4. s = [m |-> mem2, ok |-> TRUE]
        <5> HIDE DEF mem1, s
        <5>1. lookup_page(mem, d, vpage, TRUE).page = x /\ lookup_page(mem, d, vpage, TRUE).m = mem1
          <6>1. PICK l : l = lookup_page(mem, d, vpage, TRUE)
            BY ZenonT(30)
          <6>2. l = [m |-> mem1, page |-> x]
            BY <4>2, <6>1, Zenon DEF mem1
          <6>3. l.page = x /\ l.m = mem1
            BY <6>2, Zenon
          <6> QED BY <6>1, <6>3, Zenon
        <5>2. pagedir_set_page(mem, d, vpage, kpage, writable) = [m |-> mem2, ok |-> TRUE]
          BY <4>1, <5>1, Zenon DEF pagedir_set_page, WithPage
        <5> QED BY <2>1, <5>2, Zenon
      <4> HIDE DEF mem1
      <4>5. Sound(mem1, d) /\ mem1.entry[d][pd_no(vpage)].page # NULL /\ ~EntryOf(mem1, d, vpage).p
        BY <4>3, Zenon DEF TableAdded
      <4>6. PageMapped(mem1, mem2, d, kpage)
        BY <4>5, MapPage, Zenon
      <4> HIDE DEF mem2, s
      <4>8. r.m = mem2 /\ r.ok
        BY <1>1, <4>4
      <4>9. {x} \in SUBSET (KernelFrames \cap mem.free)
        BY Zenon
      <4>10. \A f \in KernelFrames :
                f \notin {d} \cup TablesOf(mem, d) \cup {x} => mem2.entry[f] = mem.entry[f]
        BY <4>3, <4>6, Zenon DEF TableAdded, PageMapped
      <4> QED BY <4>3, <4>6, <4>8, <4>9, <4>10, ZenonT(30) DEF Installed, TableAdded, PageMapped
    <3> QED BY <1>0, <3>1, <3>2, GetPage, Zenon
  <2> QED BY <2>3, <2>4, Zenon
<1> QED BY <1>3, <1>4, Zenon

-----------------------------------------------------------------------------
(* The places in load.                                                     *)
Loading == {"start", "activate", "open", "header", "phdr", "page", "read", "stack", "arguments",
            "done", "loaded"}

(* All places.                                                             *)
Labels == Loading \cup {"unused", "idle", "execute", "create", "intr_exit", "user", "exit",
                        "exit_activate", "exit_destroy", "dying"}

(* What is left to load of a segment.                                      *)
SegmentType == [upage : Nat, ofs : Nat, read : Nat, zero : Nat, writable : BOOLEAN]

(* A page of the kernel pool, or none.                                     *)
KernelPage == KernelFrames \cup {NULL}

(* A thread's record.                                                      *)
ThreadType ==
    [pc : Labels, page : KernelPage, cmd : Commands \cup {NoCommand}, copy : KernelPage,
     child : Commands \cup {NoCommand}, child_copy : KernelPage, pagedir : KernelPage, pd : KernelPage,
     file : {NULL, "program", "empty"}, i : Nat, seg : SegmentType, kpage : UserFrames \cup {NULL},
     success : BOOLEAN, cs : {"SEL_UCSEG", NULL}, argc : {0, 1}]

(* What a thread has at each place: so it frees what it has, and returns   *)
(* only what it has.                                                       *)
Shape(t) ==
    /\ t.kpage # NULL <=> t.pc = "read"
    /\ t.copy # NULL <=> t.pc \in Loading
    /\ t.child_copy # NULL <=> t.pc = "create"
    /\ t.pd # NULL <=> t.pc \in {"exit_activate", "exit_destroy"}
    /\ t.pagedir # NULL =>
          t.pc \in (Loading \ {"start"}) \cup {"intr_exit", "user", "execute", "create", "exit"}
    /\ t.pc \in Loading \ {"start", "done", "loaded"} => t.pagedir # NULL
    /\ t.page = NULL => t.pc \in {"unused", "idle", "execute", "create"} /\ t.pagedir = NULL
    /\ t.page # NULL => t.pc \notin {"unused", "idle"}
    /\ t.file # NULL => t.pc \in {"header", "phdr", "page", "read", "stack", "arguments", "done"}

(* The segment is a number of pages below PHYS_BASE.                       *)
Fits(seg) ==
    \E k \in Nat : seg.read + seg.zero = k * PGSIZE /\ seg.upage + k <= PHYS_BASE \div PGSIZE

(* The state of one thread.                                                *)
ThreadInv(t) ==
    /\ t \in ThreadType
    /\ Shape(t)
    /\ t.pc \in {"page", "read"} => Fits(t.seg)
    /\ t.pc = "read" => t.seg.read + t.seg.zero # 0
    /\ t.pc \in {"phdr", "page", "read"} => t.i # 0
    /\ t.pc \in Loading => t.cmd \in Commands
    /\ t.pc \in {"execute", "create"} => t.child \in Commands

(* The page directory of a thread, also when process_exit has taken it     *)
(* away.                                                                   *)
Root(t) == IF t.pagedir # NULL THEN t.pagedir ELSE t.pd

(* The tables and pages in page directory d.                               *)
Inner(mem, d) == IF d = NULL THEN {} ELSE TablesOf(mem, d) \cup MappedBy(mem, d)

(* The pages that a thread's record names.                                 *)
Own(t) == {t.page, t.copy, t.child_copy, t.kpage, Root(t)} \ {NULL}

(* All that a thread has.                                                  *)
Held(mem, t) == Own(t) \cup Inner(mem, Root(t))

(* The pages that the record names are different ones.                     *)
Distinct(t) ==
    /\ t.page # NULL => t.page \notin {t.copy, t.child_copy, t.kpage, Root(t)}
    /\ t.copy # NULL => t.copy \notin {t.child_copy, t.kpage, Root(t)}
    /\ t.child_copy # NULL => t.child_copy \notin {t.kpage, Root(t)}
    /\ t.kpage # NULL => t.kpage # Root(t)

(* So are those in the page directory, and they are of the right pool.     *)
Apart(mem, t) ==
    /\ Distinct(t)
    /\ Inner(mem, Root(t)) \cap Own(t) = {}
    /\ Root(t) # NULL => TablesOf(mem, Root(t)) \subseteq KernelFrames
                         /\ MappedBy(mem, Root(t)) \subseteq UserFrames

(* Memory mem and threads ts: every page that is not free has one owner.   *)
Owned(mem, ts) ==
    /\ mem \in MemType /\ Consistent(mem) /\ ~mem.panic
    /\ ts \in [Threads -> ThreadType]
    /\ \A p \in Threads : ThreadInv(ts[p]) /\ Apart(mem, ts[p])
    /\ \A f \in Frames : f \notin mem.free <=> \E p \in Threads : f \in Held(mem, ts[p])
    /\ \A p, q \in Threads : p # q => Held(mem, ts[p]) \cap Held(mem, ts[q]) = {}

(* A thread with record t does a step after which its record is u: it      *)
(* changes no table but its own and those in free pages, and what it gets  *)
(* was free and what it gives up is free.                                  *)
Changed(mem, t, mem2, u) ==
    /\ mem2 \in MemType /\ Consistent(mem2) /\ ~mem2.panic
    /\ ThreadInv(u) /\ Apart(mem2, u)
    /\ \A f \in KernelFrames : f \notin mem.free \cup Held(mem, t) => mem2.entry[f] = mem.entry[f]
    /\ Held(mem2, u) \subseteq mem.free \cup Held(mem, t)
    /\ mem2.free = (mem.free \cup Held(mem, t)) \ Held(mem2, u)

(* What a thread has is in the pools.                                      *)
LEMMA HeldFrames ==
    ASSUME NEW mem, NEW t, t \in ThreadType, Apart(mem, t)
    PROVE  Held(mem, t) \subseteq Frames /\ (Root(t) # NULL => Root(t) \in KernelFrames /\ Root(t) \in Held(mem, t))
BY DEF ThreadType, KernelPage, Apart, Held, Own, Inner, Root, Frames

(* The pages of the others stay theirs.                                    *)
LEMMA OneThread ==
    ASSUME NEW mem, NEW ts, Owned(mem, ts), NEW p \in Threads, NEW mem2, NEW u,
           Changed(mem, ts[p], mem2, u)
    PROVE  Owned(mem2, [ts EXCEPT ![p] = u])
<1> DEFINE ts2 == [ts EXCEPT ![p] = u]
<1>1. /\ ts \in [Threads -> ThreadType] /\ u \in ThreadType
      /\ \A q \in Threads : ts[q] \in ThreadType /\ Apart(mem, ts[q]) /\ ThreadInv(ts[q])
  BY Zenon DEF Owned, Changed, ThreadInv
<1>2. /\ ts2 \in [Threads -> ThreadType]
      /\ \A q \in Threads : ts2[q] = IF q = p THEN u ELSE ts[q]
  BY <1>1, Zenon
<1> HIDE DEF ts2
<1>3. ASSUME NEW q \in Threads, q # p
      PROVE  Held(mem2, ts[q]) = Held(mem, ts[q]) /\ Apart(mem2, ts[q])
  <2>1. CASE Root(ts[q]) = NULL
    BY <1>1, <2>1, Zenon DEF Held, Inner, Apart
  <2>2. CASE Root(ts[q]) # NULL
    <3> DEFINE d == Root(ts[q])
    <3>1. d \in KernelFrames /\ d \in Held(mem, ts[q]) /\ TablesOf(mem, d) \subseteq KernelFrames
      BY <1>1, <2>2, HeldFrames, Zenon DEF Apart
    <3>2. TablesOf(mem, d) \subseteq Held(mem, ts[q])
      BY <2>2, Zenon DEF Held, Inner
    <3>3. \A f \in Held(mem, ts[q]) : f \notin mem.free \cup Held(mem, ts[p])
      BY <1>1, <1>3, HeldFrames, Zenon DEF Owned
    <3> HIDE DEF d
    <3>4. mem2.entry[d] = mem.entry[d] /\ \A t \in TablesOf(mem, d) : mem2.entry[t] = mem.entry[t]
      BY <3>1, <3>2, <3>3, Zenon DEF Changed
    <3>5. TablesOf(mem2, d) = TablesOf(mem, d) /\ MappedBy(mem2, d) = MappedBy(mem, d)
      BY <3>4, TablesSame, Zenon
    <3> QED BY <1>1, <3>5, Zenon DEF Held, Inner, Apart, d
  <2> QED BY <2>1, <2>2, Zenon
<1>4. \A q \in Threads : ThreadInv(ts2[q]) /\ Apart(mem2, ts2[q])
  BY <1>1, <1>2, <1>3, Zenon DEF Changed
<1>5. \A q \in Threads : Held(mem2, ts2[q]) = IF q = p THEN Held(mem2, u) ELSE Held(mem, ts[q])
  BY <1>2, <1>3, Zenon
<1>6. /\ \A f \in Frames : f \notin mem.free <=> \E q \in Threads : f \in Held(mem, ts[q])
      /\ \A q, r \in Threads : q # r => Held(mem, ts[q]) \cap Held(mem, ts[r]) = {}
      /\ \A q \in Threads : Held(mem, ts[q]) \subseteq Frames
  BY <1>1, HeldFrames, Zenon DEF Owned
<1>7. /\ Held(mem2, u) \subseteq mem.free \cup Held(mem, ts[p])
      /\ mem2.free = (mem.free \cup Held(mem, ts[p])) \ Held(mem2, u)
  BY Zenon DEF Changed
<1>8. ASSUME NEW f \in Frames PROVE f \notin mem2.free <=> \E q \in Threads : f \in Held(mem2, ts2[q])
  BY <1>5, <1>6, <1>7, Zenon
<1>9. ASSUME NEW q \in Threads, NEW r \in Threads, q # r
      PROVE  Held(mem2, ts2[q]) \cap Held(mem2, ts2[r]) = {}
  BY <1>5, <1>6, <1>7, <1>9
<1>10. mem2 \in MemType /\ Consistent(mem2) /\ ~mem2.panic
  BY Zenon DEF Changed
<1> QED BY <1>2, <1>4, <1>8, <1>9, <1>10, Zenon DEF Owned, ts2

-----------------------------------------------------------------------------
(* A thread's view of it: what it has is not free.                         *)
Fine(mem, t) ==
    /\ mem \in MemType /\ Consistent(mem) /\ ~mem.panic
    /\ ThreadInv(t) /\ Apart(mem, t)
    /\ Held(mem, t) \subseteq Frames /\ Held(mem, t) \cap mem.free = {}

(* Each thread has this view.                                              *)
LEMMA OwnedFine ==
    ASSUME NEW mem, NEW ts, Owned(mem, ts), NEW p \in Threads
    PROVE  Fine(mem, ts[p])
BY HeldFrames, Zenon DEF Owned, Fine, ThreadInv

(* A step that only activates a page directory or changes other fields.    *)
LEMMA KeepsPages ==
    ASSUME NEW mem, NEW t, Fine(mem, t), NEW mem2, NEW u, ThreadInv(u),
           mem2 \in MemType, mem2.free = mem.free, mem2.entry = mem.entry, ~mem2.panic,
           u.page = t.page, u.copy = t.copy, u.child_copy = t.child_copy, u.kpage = t.kpage,
           Root(u) = Root(t)
    PROVE  Changed(mem, t, mem2, u)
<1>1. Inner(mem2, Root(t)) = Inner(mem, Root(t))
  BY TablesSame DEF Inner
<1>2. Root(t) # NULL => /\ TablesOf(mem2, Root(t)) = TablesOf(mem, Root(t))
                        /\ MappedBy(mem2, Root(t)) = MappedBy(mem, Root(t))
  BY TablesSame
<1>3. Own(u) = Own(t) /\ (Distinct(t) => Distinct(u))
  BY Zenon DEF Own, Distinct
<1>4. Held(mem2, u) = Held(mem, t) /\ Apart(mem2, u)
  BY <1>1, <1>2, <1>3, Zenon DEF Held, Apart, Fine
<1>5. Consistent(mem2)
  BY Zenon DEF Consistent, Fine
<1>6. mem2.free = (mem.free \cup Held(mem, t)) \ Held(mem2, u)
  BY <1>4, Zenon DEF Fine
<1> QED BY <1>4, <1>5, <1>6, Zenon DEF Changed

(* The record gets a page that was free.                                   *)
LEMMA TakesPage ==
    ASSUME NEW mem, NEW t, Fine(mem, t), NEW mem2, NEW u, ThreadInv(u), NEW x \in mem.free,
           mem2 = [mem EXCEPT !.free = @ \ {x}], Distinct(u), Own(u) = Own(t) \cup {x}, Root(u) = Root(t)
    PROVE  Changed(mem, t, mem2, u)
<1>1. mem \in MemType
  BY Zenon DEF Fine
<1>2. mem2 \in MemType /\ mem2.entry = mem.entry /\ mem2.free = mem.free \ {x} /\ mem2.panic = mem.panic
  BY <1>1, Zenon DEF MemType
<1>3. Root(t) # NULL => /\ TablesOf(mem2, Root(t)) = TablesOf(mem, Root(t))
                        /\ MappedBy(mem2, Root(t)) = MappedBy(mem, Root(t))
  BY <1>2, TablesSame, ZenonT(30)
<1>4. Inner(mem2, Root(t)) = Inner(mem, Root(t))
  BY <1>3, Zenon DEF Inner
<1>5. Held(mem2, u) = Held(mem, t) \cup {x}
  BY <1>4, Zenon DEF Held
<1>6. Apart(mem2, u)
  BY <1>3, <1>4, Zenon DEF Apart, Fine, Held
<1>7. Consistent(mem2) /\ ~mem2.panic
  BY <1>2, Zenon DEF Consistent, Fine
<1>8. mem2.free = (mem.free \cup Held(mem, t)) \ Held(mem2, u)
  BY <1>2, <1>5, Zenon DEF Fine
<1> QED BY <1>2, <1>5, <1>6, <1>7, <1>8, Zenon DEF Changed

(* palloc_free_page of a page that is not free.                            *)
LEMMA FreePage ==
    ASSUME NEW mem \in MemType, ~mem.panic, NEW x \in Frames, x \notin mem.free
    PROVE  /\ palloc_free_page(mem, x) \in MemType
           /\ palloc_free_page(mem, x).free = mem.free \cup {x}
           /\ palloc_free_page(mem, x).entry = mem.entry
           /\ palloc_free_page(mem, x).cr3 = mem.cr3
           /\ ~palloc_free_page(mem, x).panic
<1>1. (mem.panic \/ x \in mem.free) \in BOOLEAN /\ mem.free \cup {x} \in SUBSET Frames
  BY Zenon DEF MemType
<1>2. palloc_free_page(mem, x).panic = (mem.panic \/ x \in mem.free)
  BY Zenon DEF palloc_free_page, MemType
<1>3. palloc_free_page(mem, x) \in MemType
  BY <1>1, Zenon DEF palloc_free_page, MemType
<1>4. /\ palloc_free_page(mem, x).free = mem.free \cup {x}
      /\ palloc_free_page(mem, x).entry = mem.entry
      /\ palloc_free_page(mem, x).cr3 = mem.cr3
  BY Zenon DEF palloc_free_page, MemType
<1> QED BY <1>2, <1>3, <1>4, Zenon

(* The record gives a page back.                                           *)
LEMMA GivesPage ==
    ASSUME NEW mem, NEW t, Fine(mem, t), NEW mem2, NEW u, ThreadInv(u), NEW x \in Own(t),
           mem2 = palloc_free_page(mem, x), Distinct(u), Own(u) = Own(t) \ {x}, Root(u) = Root(t)
    PROVE  Changed(mem, t, mem2, u)
<1>1. mem \in MemType /\ ~mem.panic /\ x \in Frames /\ x \notin mem.free /\ x \in Held(mem, t)
  BY Zenon DEF Fine, Held
<1>2. mem2 \in MemType /\ mem2.entry = mem.entry /\ mem2.free = mem.free \cup {x} /\ ~mem2.panic
  BY <1>1, FreePage, Zenon
<1>3. Root(t) # NULL => /\ TablesOf(mem2, Root(t)) = TablesOf(mem, Root(t))
                        /\ MappedBy(mem2, Root(t)) = MappedBy(mem, Root(t))
  BY <1>2, TablesSame
<1>4. Inner(mem2, Root(t)) = Inner(mem, Root(t)) /\ x \notin Inner(mem, Root(t))
  BY <1>3, Zenon DEF Inner, Fine, Apart
<1>5. Held(mem2, u) = Held(mem, t) \ {x}
  BY <1>4, Zenon DEF Held
<1>6. Apart(mem2, u)
  BY <1>3, <1>4, Zenon DEF Apart, Fine, Held
<1>7. Consistent(mem2)
  BY <1>2, Zenon DEF Consistent, Fine
<1>8. mem2.free = (mem.free \cup Held(mem, t)) \ Held(mem2, u)
  BY <1>1, <1>2, <1>5, Zenon DEF Fine
<1> QED BY <1>2, <1>5, <1>6, <1>7, <1>8, Zenon DEF Changed

(* pagedir_create: the page that the record gets is an empty directory.    *)
LEMMA TakesPagedir ==
    ASSUME NEW mem, NEW t, Fine(mem, t), NEW mem2, NEW u, ThreadInv(u), NEW x \in mem.free \cap KernelFrames,
           mem2 = [mem EXCEPT !.free = @ \ {x}, !.entry[x] = ZeroPage],
           Distinct(u), Own(u) = Own(t) \cup {x}, Root(t) = NULL, Root(u) = x
    PROVE  Changed(mem, t, mem2, u)
<1>1. mem \in MemType /\ Consistent(mem) /\ ~mem.panic
  BY Zenon DEF Fine
<1>2. ZeroPage \in [Slots -> EntryType] /\ \A i \in Slots : ~ZeroPage[i].p /\ ZeroPage[i].page = NULL
  BY Zenon DEF ZeroPage, Absent, EntryType
<1>3. /\ mem2.free = mem.free \ {x} /\ mem2.panic = mem.panic /\ mem2.cr3 = mem.cr3 /\ mem2.tlb = mem.tlb
      /\ mem2.entry = [mem.entry EXCEPT ![x] = ZeroPage]
  BY <1>1, Zenon DEF MemType
<1> HIDE DEF ZeroPage
<1>4. mem2.entry \in [KernelFrames -> [Slots -> EntryType]] /\ mem2.entry[x] = ZeroPage
      /\ \A f \in KernelFrames : f # x => mem2.entry[f] = mem.entry[f]
  BY <1>1, <1>2, <1>3, Zenon DEF MemType
<1>5. mem2 \in MemType
  <2>1. PICK ents : ents = mem2.entry
    BY Zenon
  <2>2. mem2 = [mem EXCEPT !.free = mem.free \ {x}, !.entry = ents]
    BY <1>1, <1>3, <2>1, Zenon DEF MemType
  <2>3. mem.free \ {x} \in SUBSET Frames /\ ents \in [KernelFrames -> [Slots -> EntryType]]
    BY <1>1, <1>4, <2>1, Zenon DEF MemType
  <2> QED BY <1>1, <2>2, <2>3, Zenon DEF MemType
<1>6. Consistent(mem2)
  BY <1>1, <1>2, <1>4 DEF Consistent
<1>7. TablesOf(mem2, x) = {}
  <2>1. \A i \in Slots : ~mem2.entry[x][i].p
    BY <1>2, <1>4, Zenon
  <2>2. \A y : y \in TablesOf(mem2, x) <=> \E i \in Slots : mem2.entry[x][i].p /\ mem2.entry[x][i].page = y
    BY ONLY TablesAre
  <2>3. \A y : y \notin TablesOf(mem2, x)
    BY ONLY <2>1, <2>2, Zenon
  <2> QED BY ONLY <2>3, Zenon
<1>8. MappedBy(mem2, x) = {}
  <2>1. \A y : y \notin MappedBy(mem2, x)
    BY <1>7, TablesAre, Zenon
  <2> QED BY <2>1, Zenon
<1>9. Inner(mem2, Root(u)) = {} /\ Inner(mem, Root(t)) = {}
  BY <1>7, <1>8, Zenon DEF Inner
<1>10. Held(mem2, u) = Held(mem, t) \cup {x}
  BY <1>9, Zenon DEF Held
<1>11. Apart(mem2, u)
  BY <1>7, <1>8, <1>9, Zenon DEF Apart
<1>12. mem2.free = (mem.free \cup Held(mem, t)) \ Held(mem2, u)
  BY <1>3, <1>10, Zenon DEF Fine
<1> QED BY <1>1, <1>3, <1>4, <1>5, <1>6, <1>10, <1>11, <1>12, ZenonT(30) DEF Changed

(* install_page in load: the page was the record's, or palloc has just     *)
(* given it out.                                                           *)
LEMMA Installs ==
    ASSUME NEW mem, NEW t, Fine(mem, t), NEW kpage \in UserFrames, NEW mem1,
           \/ mem1 = mem /\ kpage \in Own(t)
           \/ mem1 = [mem EXCEPT !.free = @ \ {kpage}] /\ kpage \in mem.free,
           Root(t) \in KernelFrames, NEW vpage \in UserPages, NEW writable \in BOOLEAN,
           NEW r, r = InstallOrFree(mem1, Root(t), vpage, kpage, writable),
           NEW u, ThreadInv(u), Distinct(u), Own(u) = Own(t) \ {kpage}, Root(u) = Root(t)
    PROVE  Changed(mem, t, r.m, u) /\ r.m.cr3 = mem.cr3
<1> DEFINE d == Root(t)
<1>1. mem \in MemType /\ Consistent(mem) /\ ~mem.panic /\ d # NULL
  BY PagedirAssumption, Zenon DEF Fine
<1>2. /\ d \in Own(t) /\ d \notin TablesOf(mem, d) /\ Inner(mem, d) = TablesOf(mem, d) \cup MappedBy(mem, d)
      /\ TablesOf(mem, d) \subseteq KernelFrames /\ MappedBy(mem, d) \subseteq UserFrames
      /\ Inner(mem, d) \cap Own(t) = {} /\ Held(mem, t) = Own(t) \cup Inner(mem, d)
  BY <1>1, Zenon DEF Own, Inner, Fine, Apart, Held
<1>3. Held(mem, t) \cap mem.free = {} /\ Held(mem, t) \subseteq Frames
  BY Zenon DEF Fine
<1>4. /\ mem1 \in MemType /\ mem1.entry = mem.entry /\ mem1.panic = mem.panic /\ mem1.free \subseteq mem.free
      /\ mem1.cr3 = mem.cr3
      /\ kpage \notin mem1.free /\ mem.free \subseteq mem1.free \cup {kpage}
  BY <1>1, <1>2, <1>3 DEF MemType
<1>5. Consistent(mem1) /\ TablesOf(mem1, d) = TablesOf(mem, d) /\ MappedBy(mem1, d) = MappedBy(mem, d)
  BY <1>1, <1>4, TablesSame DEF Consistent
<1>6. Sound(mem1, d)
  BY <1>1, <1>2, <1>3, <1>4, <1>5, Zenon DEF Sound
<1>7. kpage \notin Inner(mem, d) /\ kpage # d /\ UserFrames \cap KernelFrames = {}
      /\ kpage \in mem.free \cup Held(mem, t)
  BY <1>2, <1>3, PagedirAssumption, Zenon
<1>8. CASE r = [m |-> palloc_free_page(mem1, kpage), ok |-> FALSE]
  <2>1. /\ r.m \in MemType /\ r.m.free = mem1.free \cup {kpage} /\ r.m.entry = mem.entry /\ ~r.m.panic
        /\ r.m.cr3 = mem.cr3
    BY <1>1, <1>4, <1>8, FreePage, SMTT(30) DEF Frames
  <2>2. TablesOf(r.m, d) = TablesOf(mem, d) /\ MappedBy(r.m, d) = MappedBy(mem, d) /\ Consistent(r.m)
    BY <1>1, <2>1, TablesSame DEF Consistent
  <2>3. Inner(r.m, d) = Inner(mem, d)
    BY <2>2, Zenon DEF Inner
  <2>4. Held(r.m, u) = (Own(t) \ {kpage}) \cup Inner(mem, d)
    BY <2>3, Zenon DEF Held
  <2>5. Apart(r.m, u)
    BY <1>2, <2>2, <2>3, Zenon DEF Apart
  <2>6. Held(r.m, u) \subseteq Held(mem, t)
    BY <1>2, <2>4, Zenon
  <2>7. r.m.free = (mem.free \cup Held(mem, t)) \ Held(r.m, u)
    BY <1>2, <1>3, <1>4, <1>7, <2>1, <2>4
  <2> QED BY <2>1, <2>2, <2>5, <2>6, <2>7, Zenon DEF Changed
<1>9. CASE Installed(mem1, d, kpage, r)
  <2>1. PICK new \in SUBSET (KernelFrames \cap mem1.free) :
          /\ r.m.free = mem1.free \ new
          /\ TablesOf(r.m, d) = TablesOf(mem, d) \cup new
          /\ MappedBy(r.m, d) = MappedBy(mem, d) \cup {kpage}
          /\ \A f \in KernelFrames :
                f \notin {d} \cup TablesOf(mem, d) \cup new => r.m.entry[f] = mem.entry[f]
    BY <1>4, <1>5, <1>9 DEF Installed
  <2>2. Inner(r.m, d) = Inner(mem, d) \cup new \cup {kpage}
    BY <1>1, <1>2, <2>1, Zenon DEF Inner
  <2>3. Held(r.m, u) = (Own(t) \ {kpage}) \cup Inner(mem, d) \cup new \cup {kpage}
    BY <2>2, Zenon DEF Held
  <2>4. Inner(r.m, d) \cap Own(u) = {}
    BY <1>2, <1>3, <1>4, <2>2, Zenon
  <2>5. Apart(r.m, u)
    BY <1>2, <2>1, <2>4, Zenon DEF Apart
  <2>6. r.m.free = (mem.free \cup Held(mem, t)) \ Held(r.m, u)
    BY <1>2, <1>3, <1>4, <1>7, <2>1, <2>3, SMTT(30)
  <2>7. Held(r.m, u) \subseteq mem.free \cup Held(mem, t)
    BY <1>2, <1>4, <1>7, <2>1, <2>3, Zenon
  <2>8. \A f \in KernelFrames : f \notin mem.free \cup Held(mem, t) => r.m.entry[f] = mem.entry[f]
    BY <1>2, <1>4, <2>1, Zenon
  <2>9. r.m.cr3 = mem.cr3
    BY <1>4, <1>9, Zenon DEF Installed
  <2> QED BY <1>9, <2>5, <2>6, <2>7, <2>8, <2>9, Zenon DEF Changed, Installed
<1> QED BY <1>6, <1>8, <1>9, InstallPage, Zenon

(* pagedir_destroy gives back the directory with all that is in it.        *)
LEMMA GivesPagedir ==
    ASSUME NEW mem, NEW t, Fine(mem, t), NEW d, d = Root(t), d # NULL, NEW mem2,
           mem2 = pagedir_destroy(mem, d), NEW u, ThreadInv(u), Distinct(u),
           Own(u) = Own(t) \ {d}, Root(u) = NULL
    PROVE  Changed(mem, t, mem2, u)
<1> DEFINE pages == {d} \cup TablesOf(mem, d) \cup MappedBy(mem, d)
<1>1. mem \in MemType /\ Consistent(mem) /\ ~mem.panic
  BY Zenon DEF Fine
<1>2. d \in Own(t) /\ Inner(mem, d) = TablesOf(mem, d) \cup MappedBy(mem, d)
      /\ Inner(mem, d) \cap Own(t) = {} /\ Held(mem, t) = Own(t) \cup Inner(mem, d)
  BY Zenon DEF Own, Inner, Fine, Apart, Held
<1>3. Held(mem, t) \cap mem.free = {} /\ Held(mem, t) \subseteq Frames
  BY Zenon DEF Fine
<1>4. pages \subseteq Held(mem, t) /\ Held(mem, t) \ pages = Own(t) \ {d}
  BY <1>2, Zenon
<1> HIDE DEF pages
<1>5. ~(pages \cap mem.free # {}) /\ pages \subseteq Frames
  BY <1>3, <1>4, Zenon
<1>6. ZeroPage \in [Slots -> EntryType] /\ \A i \in Slots : ~ZeroPage[i].p /\ ZeroPage[i].page = NULL
  BY Zenon DEF ZeroPage, Absent, EntryType
<1>7. mem2 = [mem EXCEPT !.free = @ \cup pages, !.panic = @ \/ pages \cap mem.free # {},
                 !.entry = [f \in KernelFrames |-> IF f \in pages THEN ZeroPage ELSE @[f]]]
  BY Zenon DEF pagedir_destroy, pages
<1> HIDE DEF ZeroPage
<1>8. /\ mem2.free = mem.free \cup pages
      /\ mem2.entry = [f \in KernelFrames |-> IF f \in pages THEN ZeroPage ELSE mem.entry[f]]
      /\ mem2.cr3 = mem.cr3 /\ mem2.tlb = mem.tlb
  BY <1>1, <1>7, Zenon DEF MemType
<1>9. mem2.panic = (mem.panic \/ pages \cap mem.free # {})
  BY <1>1, <1>7, Zenon DEF MemType
<1>10. ~mem2.panic
  BY <1>1, <1>5, <1>9, Zenon
<1>11. mem2.entry \in [KernelFrames -> [Slots -> EntryType]]
       /\ \A f \in KernelFrames : mem2.entry[f] = IF f \in pages THEN ZeroPage ELSE mem.entry[f]
  BY <1>1, <1>6, <1>8 DEF MemType
<1>12. (mem.panic \/ pages \cap mem.free # {}) \in BOOLEAN
  BY Zenon
<1>13. mem2 \in MemType
  <2>1. mem.free \cup pages \in SUBSET Frames
    BY <1>1, <1>5, ZenonT(30) DEF MemType
  <2> QED BY <1>1, <1>7, <1>8, <1>11, <1>12, <2>1, ZenonT(30) DEF MemType
<1>14. Consistent(mem2)
  BY <1>1, <1>6, <1>11 DEF Consistent
<1>15. Inner(mem2, Root(u)) = {} /\ Apart(mem2, u)
  BY Zenon DEF Inner, Apart
<1>16. Held(mem2, u) = Own(t) \ {d}
  BY <1>15, Zenon DEF Held
<1>17. mem2.free = (mem.free \cup Held(mem, t)) \ Held(mem2, u)
  BY <1>2, <1>3, <1>4, <1>8, <1>16, ZenonT(30)
<1>18. \A f \in KernelFrames : f \notin mem.free \cup Held(mem, t) => mem2.entry[f] = mem.entry[f]
  BY <1>4, <1>11, Zenon
<1> QED BY <1>2, <1>10, <1>13, <1>14, <1>15, <1>16, <1>17, <1>18, Zenon DEF Changed

-----------------------------------------------------------------------------
(* A step of one thread that changes no owner.                             *)
LEMMA QuietStep ==
    ASSUME Owned(m, th), NEW p \in Threads, NEW u, th' = [th EXCEPT ![p] = u], ThreadInv(u),
           m' = m \/ \E pd \in KernelPage : m' = pagedir_activate(m, pd),
           u.page = th[p].page, u.copy = th[p].copy, u.child_copy = th[p].child_copy,
           u.kpage = th[p].kpage, Root(u) = Root(th[p])
    PROVE  Owned(m', th')
<1>1. m \in MemType /\ ~m.panic /\ Fine(m, th[p])
  BY OwnedFine, Zenon DEF Owned
<1>2. m' \in MemType /\ m'.free = m.free /\ m'.entry = m.entry /\ ~m'.panic
  <2>1. CASE m' = m
    BY <1>1, <2>1, Zenon
  <2>2. ASSUME NEW pd \in KernelPage, m' = pagedir_activate(m, pd)
        PROVE  m' \in MemType /\ m'.free = m.free /\ m'.entry = m.entry /\ ~m'.panic
    <3>1. pd \in Frames \cup {NULL} /\ {} \in {{}}
      BY Zenon DEF KernelPage, Frames
    <3> QED BY <1>1, <2>2, <3>1, Zenon DEF pagedir_activate, MemType
  <2> QED BY <2>1, <2>2, Zenon
<1>3. Changed(m, th[p], m', u)
  BY <1>1, <1>2, KeepsPages, Zenon
<1> QED BY <1>3, OneThread, Zenon

(* load calls process_activate.                                            *)
LEMMA ActivateO == ASSUME Owned(m, th), NEW p \in Threads, Activate(p) PROVE Owned(m', th')
<1> DEFINE u == [th[p] EXCEPT !.pc = "open"]
<1>1. th' = [th EXCEPT ![p] = u] /\ th[p].pc = "activate" /\ ThreadInv(th[p])
  BY Zenon DEF Activate, Goto, At, Owned
<1>2. \E pd \in KernelPage : m' = pagedir_activate(m, pd)
  BY <1>1, Zenon DEF Activate, process_activate, ThreadInv, ThreadType
<1>3. ThreadInv(u) /\ Root(u) = Root(th[p])
  BY <1>1, Zenon DEF ThreadInv, ThreadType, Shape, Labels, Loading, Root
<1> QED BY <1>1, <1>2, <1>3, QuietStep, ZenonT(30) DEF ThreadInv, ThreadType

(* filesys_open of the executable.                                         *)
LEMMA OpenExecutableO ==
    ASSUME Owned(m, th), dir \in [DOMAIN Files -> {"program", "empty", "absent"}], NEW p \in Threads,
           OpenExecutable(p)
    PROVE  Owned(m', th')
<1>1. th[p].pc = "open" /\ ThreadInv(th[p]) /\ m' = m
  BY Zenon DEF OpenExecutable, At, Owned
<1>2. dir[th[p].cmd.file] \in {"program", "empty", "absent"}
  BY <1>1, ProcessAssumption, Zenon DEF ProcessAssumption, ThreadInv, Loading
<1>3. CASE th' = [th EXCEPT ![p].file = dir[th[p].cmd.file], ![p].pc = "header"]
                   /\ dir[th[p].cmd.file] # "absent"
  <2> DEFINE f == dir[th[p].cmd.file]
             u == [th[p] EXCEPT !.file = f, !.pc = "header"]
  <2>1. th' = [th EXCEPT ![p] = u]
    BY <1>3, Zenon DEF Owned
  <2>2. f \in {"program", "empty"}
    BY <1>2, <1>3, Zenon
  <2> HIDE DEF f
  <2>3. ThreadInv(u) /\ Root(u) = Root(th[p])
    BY <1>1, <2>2, ZenonT(30) DEF ThreadInv, ThreadType, Shape, Labels, Loading, Root
  <2> QED BY <1>1, <2>1, <2>3, QuietStep, Zenon DEF ThreadInv, ThreadType
<1>4. CASE Goto(p, "done")
  <2> DEFINE u == [th[p] EXCEPT !.pc = "done"]
  <2>1. th' = [th EXCEPT ![p] = u]
    BY <1>4, Zenon DEF Goto
  <2>2. ThreadInv(u) /\ Root(u) = Root(th[p])
    BY <1>1, Zenon DEF ThreadInv, ThreadType, Shape, Labels, Loading, Root
  <2> QED BY <1>1, <2>1, <2>2, QuietStep, Zenon DEF ThreadInv, ThreadType
<1> QED BY <1>3, <1>4, Zenon DEF OpenExecutable

(* The executable header.                                                  *)
LEMMA ReadHeaderO == ASSUME Owned(m, th), NEW p \in Threads, ReadHeader(p) PROVE Owned(m', th')
<1>1. th[p].pc = "header" /\ ThreadInv(th[p]) /\ m' = m
  BY Zenon DEF ReadHeader, At, Owned
<1>2. CASE th' = [th EXCEPT ![p].i = 1, ![p].pc = "phdr"]
  <2> DEFINE u == [th[p] EXCEPT !.i = 1, !.pc = "phdr"]
  <2>1. th' = [th EXCEPT ![p] = u]
    BY <1>2, Zenon DEF Owned
  <2>4. u.i = 1
    BY <1>1, Zenon DEF ThreadInv, ThreadType
  <2>5. u \in ThreadType
    BY <1>1, Zenon DEF ThreadInv, ThreadType, Labels, Loading
  <2>2. u \in ThreadType /\ u.i # 0
    BY <2>4, <2>5
  <2>3. ThreadInv(u) /\ Root(u) = Root(th[p])
    BY <1>1, <2>2, Zenon DEF ThreadInv, ThreadType, Shape, Loading, Root
  <2> QED BY <1>1, <2>1, <2>3, QuietStep, Zenon DEF ThreadInv, ThreadType
<1>3. CASE th' = [th EXCEPT ![p].pc = "done"]
  <2> DEFINE u == [th[p] EXCEPT !.pc = "done"]
  <2>1. th' = [th EXCEPT ![p] = u]
    BY <1>3, Zenon
  <2>2. ThreadInv(u) /\ Root(u) = Root(th[p])
    BY <1>1, ZenonT(30) DEF ThreadInv, ThreadType, Shape, Labels, Loading, Root
  <2> QED BY <1>1, <2>1, <2>2, QuietStep, Zenon DEF ThreadInv, ThreadType
<1> QED BY <1>2, <1>3, Zenon DEF ReadHeader

-----------------------------------------------------------------------------
(* Comparing multiples of the page size.                                   *)
LEMMA Multiples ==
    ASSUME NEW n \in Nat \ {0}, NEW a \in Int, NEW b \in Int, n * a < n * b + n
    PROVE  a <= b
<1>1. SUFFICES ASSUME a > b PROVE FALSE
  OBVIOUS
<1>2. a - b >= 1 /\ a - b \in Int
  BY <1>1
<1>3. n * (a - b) >= n
  BY <1>2
<1> QED BY <1>3

(* Division with remainder.                                                *)
LEMMA Division ==
    ASSUME NEW n \in Nat \ {0}, NEW z \in Nat
    PROVE  z = n * (z \div n) + (z % n) /\ z % n \in 0..(n - 1) /\ z \div n \in Nat
<1>1. \A y \in Nat : y = n * (y \div n) + (y % n) /\ y % n \in 0..(n - 1) /\ y \div n \in Int
  OBVIOUS
<1>2. z \div n \in Nat
  BY DivMonotone
<1> QED BY <1>1, <1>2, Zenon

(* PHYS_BASE is the first address of a page.                               *)
LEMMA BaseOfPage ==
    /\ PHYS_BASE \div PGSIZE \in Nat
    /\ PHYS_BASE = PGSIZE * (PHYS_BASE \div PGSIZE)
<1> DEFINE c == PGSIZE * PT_ENTRIES
           k == PHYS_BASE \div c
           h == PHYS_BASE \div PGSIZE
           j == PT_ENTRIES * k
<1>1. PGSIZE \in Nat \ {0} /\ PT_ENTRIES \in Nat \ {0} /\ PHYS_BASE \in Nat /\ PHYS_BASE % c = 0
  BY PagedirAssumption, Zenon
<1>2. c \in Nat \ {0}
  BY <1>1
<1> HIDE DEF c
<1>3. k \in Int /\ PHYS_BASE = c * k
  BY <1>1, <1>2
<1>4. /\ h \in Nat /\ PHYS_BASE % PGSIZE \in 0..(PGSIZE - 1)
      /\ PHYS_BASE = PGSIZE * h + (PHYS_BASE % PGSIZE)
  BY <1>1, Division, ZenonT(30)
<1> HIDE DEF k, h
<1>5. j \in Int /\ PHYS_BASE = PGSIZE * j
  BY <1>1, <1>3, SMTT(30) DEF c
<1> HIDE DEF j
<1>6. j <= h
  BY <1>1, <1>4, <1>5, Multiples, SMTT(30)
<1>7. h <= j
  BY <1>1, <1>4, <1>5, Multiples
<1>8. h = j
  BY <1>4, <1>5, <1>6, <1>7, SMTT(30)
<1> QED BY <1>4, <1>5, <1>8, Zenon DEF h

(* A segment that validate_segment accepts is loaded in whole pages below  *)
(* PHYS_BASE: an end that wraps around is below the start.                 *)
LEMMA SegmentFits ==
    ASSUME NEW phdr \in Phdrs, NEW length, validate_segment(phdr, length)
    PROVE  Segment(phdr) \in SegmentType /\ Fits(Segment(phdr))
<1> DEFINE P == PGSIZE
           v == phdr.vaddr
           s == phdr.memsz
           f == phdr.filesz
           off == v % P
           q == v \div P
           N == PHYS_BASE \div P
           read == IF f > 0 THEN off + f ELSE 0
           ofs == phdr.offset - (phdr.offset % P)
<1>1. /\ P \in Nat \ {0} /\ ADDR_MAX \in Nat /\ PHYS_BASE <= ADDR_MAX /\ N \in Nat /\ PHYS_BASE = P * N
      /\ PHYS_BASE \in Nat
  BY PagedirAssumption, ProcessAssumption, BaseOfPage, Zenon DEF ProcessAssumption
<1>2. /\ v \in Nat /\ v < ADDR_MAX /\ s \in Nat /\ s < ADDR_MAX /\ f \in Nat /\ f <= s
      /\ v < PHYS_BASE /\ (v + s) % ADDR_MAX < PHYS_BASE /\ (v + s) % ADDR_MAX >= v
  BY <1>1 DEF Phdrs, validate_segment, is_user_vaddr
<1>3. v + s < PHYS_BASE
  <2>1. CASE v + s < ADDR_MAX
    BY <1>1, <1>2, <2>1, SMTT(30)
  <2>2. CASE v + s >= ADDR_MAX
    <3>1. (v + s) % ADDR_MAX = v + s - ADDR_MAX
      BY <1>1, <1>2, <2>2, SMTT(30)
    <3> QED BY <1>1, <1>2, <3>1, SMTT(30)
  <2> QED BY <1>1, <1>2, <2>1, <2>2, SMTT(30)
<1>4. q \in Nat /\ off \in 0..(P - 1) /\ v = P * q + off
  BY <1>1, <1>2, Division, Zenon
<1>5. ofs \in Nat /\ phdr.writable \in BOOLEAN
  <2>1. phdr.offset \in Nat /\ phdr.writable \in BOOLEAN
    BY Zenon DEF Phdrs
  <2>2. phdr.offset = P * (phdr.offset \div P) + (phdr.offset % P) /\ phdr.offset \div P \in Nat
        /\ phdr.offset % P \in 0..(P - 1)
    BY <1>1, <2>1, Division, ZenonT(30)
  <2>3. P * (phdr.offset \div P) \in Nat
    BY <1>1, <2>2
  <2>4. PICK o, x, y : o = phdr.offset /\ x = phdr.offset % P /\ y = P * (phdr.offset \div P)
    BY Zenon
  <2>5. o = y + x /\ o \in Nat /\ x \in Nat /\ y \in Nat
    BY <1>1, <2>1, <2>2, <2>3, <2>4, SMTT(30)
  <2>6. o - x \in Nat
    BY <2>5
  <2>7. ofs \in Nat
    BY <2>4, <2>6, Zenon
  <2> QED BY <2>1, <2>7, Zenon
<1> DEFINE Z == off + s + P - 1
           K == Z \div P
<1>6. Z \in Nat /\ Z = off + s + P - 1
  BY <1>1, <1>2, <1>4, SMTT(30)
<1> HIDE DEF Z
<1>7. Z \div P \in Nat /\ Z % P \in 0..(P - 1) /\ Z = P * (Z \div P) + (Z % P)
  BY <1>1, <1>6, Division, Zenon
<1>8. K \in Nat /\ P * K <= off + s + P - 1 /\ P * K >= off + s
  <2>1. PICK x, y, a, b : x = Z % P /\ y = P * (Z \div P) /\ a = off /\ b = s
    BY Zenon
  <2>2. /\ Z = y + x /\ x \in 0..(P - 1) /\ y \in Int /\ Z = a + b + P - 1 /\ Z \in Nat
        /\ a \in Nat /\ b \in Nat
    BY <1>1, <1>2, <1>4, <1>6, <1>7, <2>1, SMTT(30)
  <2>3. y <= a + b + P - 1 /\ y >= a + b
    BY <1>1, <2>2, SMTT(30)
  <2> QED BY <1>7, <2>1, <2>3, Zenon
<1>9. read \in Nat /\ read <= off + s
  BY <1>2, <1>4
<1> HIDE DEF P, v, s, f, off, q, N, K, read, ofs
<1>10. P * (q + K) = P * q + P * K /\ q + K \in Int
  BY <1>1, <1>4, <1>8, SMTT(30)
<1>11. q + K <= N
  BY <1>1, <1>2, <1>3, <1>4, <1>8, <1>10, Multiples, SMTT(30)
<1>12. P * K - read \in Nat /\ P * K = K * P
  BY <1>1, <1>2, <1>4, <1>8, <1>9, SMTT(30)
<1>13. Segment(phdr) = [upage |-> q, ofs |-> ofs, read |-> read, zero |-> K * P - read,
                         writable |-> phdr.writable]
  BY Zenon DEF Segment, ROUND_UP, P, v, s, f, off, q, Z, K, read, ofs
<1>14. Segment(phdr) \in SegmentType
  BY <1>4, <1>5, <1>9, <1>12, <1>13, SMTT(30) DEF SegmentType
<1>15. read + (K * P - read) = K * P
  BY <1>1, <1>8, <1>9, <1>12
<1> QED BY <1>8, <1>11, <1>13, <1>14, <1>15, SMTT(30) DEF Fits, P, N

(* One page of the segment: it is below PHYS_BASE, and so is the rest.     *)
LEMMA PageFits ==
    ASSUME NEW seg \in SegmentType, Fits(seg), seg.read + seg.zero # 0, NEW n, n = Min({seg.read, PGSIZE})
    PROVE  /\ seg.upage \in UserPages
           /\ NextPart(seg, n) \in SegmentType /\ Fits(NextPart(seg, n))
<1> DEFINE N == PHYS_BASE \div PGSIZE
           u == NextPart(seg, n)
<1>1. PGSIZE \in Nat \ {0} /\ N \in Nat
  BY PagedirAssumption, BaseOfPage, Zenon
<1> HIDE DEF N
<1>2. seg.upage \in Nat /\ seg.ofs \in Nat /\ seg.read \in Nat /\ seg.zero \in Nat /\ seg.writable \in BOOLEAN
  BY Zenon DEF SegmentType
<1>3. PICK k \in Nat : seg.read + seg.zero = k * PGSIZE /\ seg.upage + k <= N
  BY Zenon DEF Fits, N
<1>4. k # 0
  BY <1>1, <1>3
<1>5. (n = seg.read /\ n <= PGSIZE) \/ (n = PGSIZE /\ n <= seg.read)
  <2>1. \E x \in {seg.read, PGSIZE} : \A y \in {seg.read, PGSIZE} : x <= y
    BY <1>1, <1>2
  <2>2. n \in {seg.read, PGSIZE} /\ \A y \in {seg.read, PGSIZE} : n <= y
    BY <2>1, Zenon DEF Min
  <2> QED BY <1>1, <1>2, <2>2, Zenon
<1>6. k - 1 \in Nat /\ (k - 1) * PGSIZE = k * PGSIZE - PGSIZE /\ (k - 1) * PGSIZE \in Nat
  BY <1>1, <1>3, <1>4
<1>7. n \in Nat /\ seg.read - n \in Nat /\ seg.zero - (PGSIZE - n) \in Nat
  BY <1>1, <1>2, <1>3, <1>5, <1>6, SMTT(30)
<1>8. /\ u.upage = seg.upage + 1 /\ u.ofs = seg.ofs + n /\ u.read = seg.read - n
      /\ u.zero = seg.zero - (PGSIZE - n)
  BY Zenon DEF SegmentType, NextPart
<1>9. u \in SegmentType
  <2>1. PICK a, b, c, d : a = seg.upage + 1 /\ b = seg.ofs + n /\ c = seg.read - n /\ d = seg.zero - (PGSIZE - n)
    BY Zenon
  <2>2. a \in Nat /\ b \in Nat /\ c \in Nat /\ d \in Nat
    BY <1>2, <1>7, <2>1, SMTT(30)
  <2>3. u = [seg EXCEPT !.upage = a, !.ofs = b, !.read = c, !.zero = d]
    BY <2>1, Zenon DEF NextPart
  <2> QED BY <2>2, <2>3, ZenonT(30) DEF SegmentType
<1> HIDE DEF u
<1>10. u.read + u.zero = (k - 1) * PGSIZE /\ u.upage + (k - 1) <= N
  BY <1>1, <1>2, <1>3, <1>6, <1>7, <1>8, SMTT(30)
<1>11. Fits(u)
  BY <1>6, <1>10, Zenon DEF Fits, N
<1>12. seg.upage \in UserPages
  BY <1>1, <1>2, <1>3, <1>4, SMTT(30) DEF UserPages, N
<1> QED BY <1>9, <1>11, <1>12, Zenon DEF u

-----------------------------------------------------------------------------
(* A step that only goes on to another place.                              *)
LEMMA GotoO ==
    ASSUME Owned(m, th), NEW p \in Threads, NEW label, th' = [th EXCEPT ![p].pc = label],
           ThreadInv([th[p] EXCEPT !.pc = label]),
           m' = m \/ \E pd \in KernelPage : m' = pagedir_activate(m, pd)
    PROVE  Owned(m', th')
<1> DEFINE u == [th[p] EXCEPT !.pc = label]
<1>1. th' = [th EXCEPT ![p] = u] /\ th[p] \in ThreadType
  BY Zenon DEF Owned
<1>2. /\ u.page = th[p].page /\ u.copy = th[p].copy /\ u.child_copy = th[p].child_copy
      /\ u.kpage = th[p].kpage /\ Root(u) = Root(th[p])
  BY <1>1, Zenon DEF ThreadType, Root
<1> HIDE DEF u
<1> QED BY <1>1, <1>2, QuietStep, ZenonT(30) DEF u

(* The next program header.                                                *)
LEMMA ReadPhdrO == ASSUME Owned(m, th), NEW p \in Threads, ReadPhdr(p) PROVE Owned(m', th')
<1> DEFINE phdrs == File(p).phdrs
           phdr == phdrs[th[p].i]
<1>1. th[p].pc = "phdr" /\ ThreadInv(th[p]) /\ m' = m
  BY Zenon DEF ReadPhdr, At, Owned
<1>2. th[p].cmd \in Commands /\ th[p].i \in Nat \ {0}
  BY <1>1, Zenon DEF ThreadInv, ThreadType, Loading
<1>3. phdrs \in Seq(Phdrs)
  BY <1>2, ProcessAssumption, Zenon DEF ProcessAssumption, File
<1>4. ASSUME Goto(p, "stack") \/ Goto(p, "done") PROVE Owned(m', th')
  <2>1. ASSUME NEW label \in {"stack", "done"} PROVE ThreadInv([th[p] EXCEPT !.pc = label])
    BY <1>1, <2>1, SMTT(30) DEF ThreadInv, ThreadType, Shape, Labels, Loading
  <2> QED BY <1>1, <1>4, <2>1, GotoO, ZenonT(30) DEF Goto
<1>5. ASSUME th[p].i <= Len(phdrs), validate_segment(phdr, File(p).length),
             th' = [th EXCEPT ![p].seg = Segment(phdr), ![p].pc = "page"]
      PROVE  Owned(m', th')
  <2>1. phdr \in Phdrs
    BY <1>2, <1>3, <1>5, SMTT(30)
  <2>2. PICK seg : seg = Segment(phdr)
    BY Zenon
  <2>3. seg \in SegmentType /\ Fits(seg)
    BY <1>5, <2>1, <2>2, SegmentFits, Zenon
  <2> DEFINE u == [th[p] EXCEPT !.seg = seg, !.pc = "page"]
  <2>4. th' = [th EXCEPT ![p] = u]
    BY <1>5, <2>2, Zenon DEF Owned
  <2>5. ThreadInv(u) /\ Root(u) = Root(th[p])
    BY <1>1, <2>3, ZenonT(30) DEF ThreadInv, ThreadType, Shape, Labels, Loading, Root
  <2> QED BY <1>1, <2>4, <2>5, QuietStep, ZenonT(30) DEF ThreadInv, ThreadType
<1>6. ASSUME th' = [th EXCEPT ![p].i = @ + 1] PROVE Owned(m', th')
  <2> DEFINE u == [th[p] EXCEPT !.i = @ + 1]
  <2>1. th' = [th EXCEPT ![p] = u]
    BY <1>6, ZenonT(30)
  <2>2. ThreadInv(u) /\ Root(u) = Root(th[p])
    BY <1>1, <1>2 DEF ThreadInv, ThreadType, Shape, Labels, Loading, Root
  <2> QED BY <1>1, <2>1, <2>2, QuietStep, Zenon DEF ThreadInv, ThreadType
<1> QED BY <1>4, <1>5, <1>6, Zenon DEF ReadPhdr

(* load_segment gets a page from the user pool, or fails.                  *)
LEMMA GetSegmentPageO == ASSUME Owned(m, th), NEW p \in Threads, GetSegmentPage(p) PROVE Owned(m', th')
<1> DEFINE r == palloc_get_page(m, UserFrames)
<1>1. th[p].pc = "page" /\ ThreadInv(th[p]) /\ m \in MemType /\ Fine(m, th[p])
  BY OwnedFine, Zenon DEF GetSegmentPage, At, Owned
<1>2. th[p].seg \in SegmentType /\ th[p].i \in Nat
  BY <1>1, Zenon DEF ThreadInv, ThreadType
<1>5. \/ r = [m |-> m, page |-> NULL]
      \/ \E x \in m.free \cap UserFrames : r = [m |-> [m EXCEPT !.free = @ \ {x}], page |-> x]
  BY <1>1, GetPage, Zenon
<1> HIDE DEF r
<1>3. ASSUME th' = [th EXCEPT ![p].i = @ + 1, ![p].seg = NoSegment, ![p].pc = "phdr"], m' = m
      PROVE  Owned(m', th')
  <2>1. PICK k : k = th[p].i + 1
    BY Zenon
  <2>2. k \in Nat /\ k # 0
    BY <1>2, <2>1
  <2> DEFINE u == [th[p] EXCEPT !.i = k, !.seg = NoSegment, !.pc = "phdr"]
  <2>3. th' = [th EXCEPT ![p] = u]
    BY <1>3, <2>1, ZenonT(30) DEF Owned
  <2>4. NoSegment \in SegmentType
    BY Zenon DEF NoSegment, SegmentType
  <2>5. ThreadInv(u) /\ Root(u) = Root(th[p])
    BY <1>1, <2>2, <2>4, ZenonT(30) DEF ThreadInv, ThreadType, Shape, Labels, Loading, Root
  <2> QED BY <1>1, <1>3, <2>3, <2>5, QuietStep, ZenonT(30) DEF ThreadInv, ThreadType
<1>4. ASSUME ~(th[p].seg.read = 0 /\ th[p].seg.zero = 0), m' = r.m,
             th' = [th EXCEPT ![p].kpage = r.page, ![p].pc = IF r.page = NULL THEN "done" ELSE "read"]
      PROVE  Owned(m', th')
  <2>1. th[p].seg.read + th[p].seg.zero # 0
    BY <1>2, <1>4 DEF SegmentType
  <2>2. th[p].kpage = NULL
    BY <1>1, Zenon DEF ThreadInv, Shape
  <2>3. CASE r = [m |-> m, page |-> NULL]
    <3>1. [th[p] EXCEPT !.kpage = NULL] = th[p]
      BY <1>1, <2>2, Zenon DEF ThreadInv, ThreadType
    <3>2. th' = [th EXCEPT ![p].pc = "done"] /\ m' = m
      BY <1>4, <2>3, <3>1, Zenon DEF Owned
    <3>3. ThreadInv([th[p] EXCEPT !.pc = "done"])
      BY <1>1, <2>2 DEF ThreadInv, ThreadType, Shape, Labels, Loading
    <3> QED BY <3>2, <3>3, GotoO, Zenon
  <2>4. ASSUME NEW x \in m.free \cap UserFrames, r = [m |-> [m EXCEPT !.free = @ \ {x}], page |-> x]
        PROVE  Owned(m', th')
    <3> DEFINE u == [th[p] EXCEPT !.kpage = x, !.pc = "read"]
    <3>1. x # NULL
      BY PagedirAssumption, Zenon
    <3>2. th' = [th EXCEPT ![p] = u] /\ m' = [m EXCEPT !.free = @ \ {x}]
      BY <1>4, <2>4, <3>1, Zenon DEF Owned
    <3>3. ThreadInv(u) /\ Root(u) = Root(th[p])
      BY <1>1, <2>1, <3>1, ZenonT(30) DEF ThreadInv, ThreadType, Shape, Labels, Loading, Root
    <3>4. u.page = th[p].page /\ u.copy = th[p].copy /\ u.child_copy = th[p].child_copy /\ u.kpage = x
      BY <1>1, Zenon DEF ThreadInv, ThreadType
    <3> HIDE DEF u
    <3>5. Own(u) = Own(th[p]) \cup {x}
      BY <2>2, <3>1, <3>3, <3>4, ZenonT(30) DEF Own
    <3>6. x \notin Own(th[p])
      BY <1>1, Zenon DEF Fine, Held
    <3>7. Distinct(u)
      BY <1>1, <3>3, <3>4, <3>6, ZenonT(30) DEF Distinct, Own, Fine, Apart
    <3>8. Changed(m, th[p], m', u)
      BY <1>1, <3>2, <3>3, <3>5, <3>7, TakesPage, ZenonT(30)
    <3> QED BY <3>2, <3>8, OneThread, Zenon
  <2> QED BY <1>5, <2>3, <2>4, Zenon
<1> QED BY <1>3, <1>4, Zenon DEF GetSegmentPage, r

(* The page is read and mapped, or given back.                             *)
LEMMA ReadSegmentPageO ==
    ASSUME Owned(m, th), NEW p \in Threads, ReadSegmentPage(p)
    PROVE  Owned(m', th') /\ m'.cr3 = m.cr3
<1> DEFINE seg == th[p].seg
           n == Min({seg.read, PGSIZE})
           seg2 == NextPart(seg, n)
           x == th[p].kpage
           r == InstallOrFree(m, th[p].pagedir, seg.upage, x, seg.writable)
<1>1. th[p].pc = "read" /\ ThreadInv(th[p]) /\ m \in MemType /\ Fine(m, th[p])
  BY OwnedFine, Zenon DEF ReadSegmentPage, At, Owned
<1>2. /\ seg \in SegmentType /\ Fits(seg) /\ seg.read + seg.zero # 0 /\ x \in UserFrames /\ x # NULL
      /\ th[p].pagedir \in KernelFrames /\ th[p].pagedir # NULL /\ th[p].pd = NULL
  BY <1>1, PagedirAssumption, ZenonT(30) DEF ThreadInv, ThreadType, Shape, Loading, KernelPage
<1>3. seg.upage \in UserPages /\ seg2 \in SegmentType /\ Fits(seg2) /\ seg.writable \in BOOLEAN
  <2>1. seg.writable \in BOOLEAN
    BY <1>2, Zenon DEF SegmentType
  <2> QED BY <1>2, <2>1, PageFits, Zenon
<1>4. Root(th[p]) = th[p].pagedir /\ x \in Own(th[p])
  BY <1>2, Zenon DEF Root, Own
<1>5. ASSUME NEW u, u \in ThreadType, u.kpage = NULL, u.page = th[p].page, u.copy = th[p].copy,
             u.child_copy = th[p].child_copy, Root(u) = Root(th[p])
      PROVE  Own(u) = Own(th[p]) \ {x} /\ Distinct(u)
  <2>1. Distinct(th[p])
    BY <1>1, ZenonT(30) DEF Fine, Apart
  <2> QED BY <1>2, <1>5, <2>1, ZenonT(30) DEF Own, Distinct
<1>6. ASSUME m' = palloc_free_page(m, x), th' = [th EXCEPT ![p].kpage = NULL, ![p].pc = "done"]
      PROVE  Owned(m', th') /\ m'.cr3 = m.cr3
  <2> DEFINE u == [th[p] EXCEPT !.kpage = NULL, !.pc = "done"]
  <2>1. th' = [th EXCEPT ![p] = u]
    BY <1>6, Zenon DEF Owned
  <2>2. /\ u \in ThreadType /\ Root(u) = Root(th[p]) /\ u.kpage = NULL /\ u.page = th[p].page
        /\ u.copy = th[p].copy /\ u.child_copy = th[p].child_copy
    BY <1>1, ZenonT(30) DEF ThreadInv, ThreadType, Labels, Loading, Root
  <2>3. ThreadInv(u)
    BY <1>1, <2>2, Zenon DEF ThreadInv, ThreadType, Shape, Loading
  <2> HIDE DEF u
  <2>4. Own(u) = Own(th[p]) \ {x} /\ Distinct(u)
    BY <1>5, <2>2, Zenon
  <2>5. Changed(m, th[p], m', u)
    BY <1>1, <1>4, <1>6, <2>2, <2>3, <2>4, GivesPage, ZenonT(30)
  <2>6. m'.cr3 = m.cr3
    BY <1>6 DEF palloc_free_page, MemType
  <2> QED BY <2>1, <2>5, <2>6, OneThread, Zenon
<1> HIDE DEF r, seg2
<1>7. ASSUME m' = r.m, NEW label \in {"page", "done"},
             th' = [th EXCEPT ![p].kpage = NULL, ![p].pc = label, ![p].seg = seg2]
      PROVE  Owned(m', th') /\ m'.cr3 = m.cr3
  <2> DEFINE u == [th[p] EXCEPT !.kpage = NULL, !.pc = label, !.seg = seg2]
  <2>1. th' = [th EXCEPT ![p] = u]
    BY <1>7, Zenon DEF Owned
  <2>2. /\ u \in ThreadType /\ Root(u) = Root(th[p]) /\ u.kpage = NULL /\ u.page = th[p].page
        /\ u.copy = th[p].copy /\ u.child_copy = th[p].child_copy /\ u.seg = seg2 /\ u.pc = label
    BY <1>1, <1>3, <1>7, ZenonT(30) DEF ThreadInv, ThreadType, Labels, Loading, Root
  <2>3. ThreadInv(u)
    BY <1>1, <1>3, <1>7, <2>2, Zenon DEF ThreadInv, ThreadType, Shape, Loading
  <2> HIDE DEF u
  <2>4. Own(u) = Own(th[p]) \ {x} /\ Distinct(u)
    BY <1>5, <2>2, Zenon
  <2>5. r = InstallOrFree(m, Root(th[p]), seg.upage, x, seg.writable)
    BY <1>4, ZenonT(30) DEF r
  <2>6. Changed(m, th[p], r.m, u) /\ r.m.cr3 = m.cr3
    BY <1>1, <1>2, <1>3, <1>4, <2>2, <2>3, <2>4, <2>5, Installs, SMTT(30)
  <2>7. Changed(m, th[p], m', u) /\ m'.cr3 = m.cr3
    BY <1>7, <2>6, Zenon
  <2> HIDE DEF r, x, seg, n
  <2> QED BY <2>1, <2>7, OneThread, Zenon
<1>8. CASE n > 0 /\ seg.ofs + n > File(p).length
  BY <1>6, <1>8, Zenon DEF ReadSegmentPage
<1>9. CASE ~(n > 0 /\ seg.ofs + n > File(p).length)
  <2>1. /\ m' = r.m
        /\ th' = [th EXCEPT ![p].kpage = NULL, ![p].pc = IF r.ok THEN "page" ELSE "done",
                      ![p].seg = seg2]
    BY <1>9, Zenon DEF ReadSegmentPage, r, seg2
  <2>2. PICK label \in {"page", "done"} : label = IF r.ok THEN "page" ELSE "done"
    BY Zenon
  <2>3. th' = [th EXCEPT ![p].kpage = NULL, ![p].pc = label, ![p].seg = seg2]
    BY <2>1, <2>2, Zenon
  <2> QED BY <1>7, <2>1, <2>3, ZenonT(30)
<1> QED BY <1>8, <1>9, Zenon

(* setup_stack: a page below PHYS_BASE.                                    *)
LEMMA SetupStackO ==
    ASSUME Owned(m, th), NEW p \in Threads, setup_stack(p)
    PROVE  Owned(m', th') /\ m'.cr3 = m.cr3
<1> DEFINE g == palloc_get_page(m, UserFrames)
           top == PHYS_BASE \div PGSIZE - 1
           r == InstallOrFree(g.m, th[p].pagedir, top, g.page, TRUE)
<1>1. th[p].pc = "stack" /\ ThreadInv(th[p]) /\ m \in MemType /\ Fine(m, th[p])
  BY OwnedFine, ZenonT(30) DEF setup_stack, At, Owned
<1>2. th[p].pagedir \in KernelFrames /\ th[p].pagedir # NULL /\ th[p].pd = NULL /\ th[p].kpage = NULL
  BY <1>1, ZenonT(30) DEF ThreadInv, ThreadType, Shape, Loading, KernelPage
<1>3. Root(th[p]) = th[p].pagedir
  BY <1>2, Zenon DEF Root
<1>4. top \in UserPages
  <2>1. PHYS_BASE \div PGSIZE \in Nat /\ PHYS_BASE \div PGSIZE # 0
    BY BaseOfPage, PagedirAssumption, SMTT(30)
  <2> QED BY <2>1 DEF UserPages
<1>5. ASSUME NEW label \in {"arguments", "done"} PROVE ThreadInv([th[p] EXCEPT !.pc = label])
  BY <1>1, <1>5 DEF ThreadInv, ThreadType, Shape, Labels, Loading
<1>6. \/ g = [m |-> m, page |-> NULL]
      \/ \E x \in m.free \cap UserFrames : g = [m |-> [m EXCEPT !.free = @ \ {x}], page |-> x]
  BY <1>1, GetPage, Zenon
<1>7. \/ g.page = NULL /\ Goto(p, "done") /\ m' = m
      \/ g.page # NULL /\ m' = r.m /\ Goto(p, IF r.ok THEN "arguments" ELSE "done")
  BY Zenon DEF setup_stack
<1> HIDE DEF g, top
<1>8. CASE g.page = NULL /\ Goto(p, "done") /\ m' = m
  BY <1>5, <1>8, GotoO, Zenon DEF Goto
<1>9. CASE g.page # NULL /\ m' = r.m /\ Goto(p, IF r.ok THEN "arguments" ELSE "done")
  <2>1. PICK x \in m.free \cap UserFrames : g = [m |-> [m EXCEPT !.free = @ \ {x}], page |-> x]
    BY <1>6, <1>9
  <2>2. PICK label \in {"arguments", "done"} : Goto(p, label)
    BY <1>9, ZenonT(30)
  <2> DEFINE u == [th[p] EXCEPT !.pc = label]
  <2>3. th' = [th EXCEPT ![p] = u]
    BY <2>2, Zenon DEF Goto
  <2>4. ThreadInv(u)
    BY <1>5, Zenon
  <2>5. /\ Root(u) = Root(th[p]) /\ u.kpage = th[p].kpage /\ u.page = th[p].page
        /\ u.copy = th[p].copy /\ u.child_copy = th[p].child_copy
    BY <1>1, Zenon DEF ThreadInv, ThreadType, Root
  <2> HIDE DEF u
  <2>6. x \notin Own(th[p]) /\ Distinct(th[p])
    BY <1>1, Zenon DEF Fine, Held, Apart
  <2>7. Own(u) = Own(th[p]) \ {x} /\ Distinct(u)
    BY <2>5, <2>6, Zenon DEF Own, Distinct
  <2>8. PICK mem1 : mem1 = [m EXCEPT !.free = @ \ {x}]
    BY Zenon
  <2>9. PICK writable \in BOOLEAN : writable = TRUE
    BY ZenonT(30)
  <2>10. PICK s : s = InstallOrFree(mem1, Root(th[p]), top, x, writable)
    BY Zenon
  <2>11. s = r
    BY <1>3, <2>1, <2>8, <2>9, <2>10, ZenonT(30)
  <2>12. x \in UserFrames /\ Root(th[p]) \in KernelFrames /\ Root(u) = Root(th[p])
         /\ (\/ mem1 = m /\ x \in Own(th[p])
             \/ mem1 = [m EXCEPT !.free = @ \ {x}] /\ x \in m.free)
    BY <1>2, <1>3, <2>5, <2>8, Zenon
  <2>13. Changed(m, th[p], s.m, u) /\ s.m.cr3 = m.cr3
    BY <1>1, <1>4, <2>4, <2>7, <2>10, <2>12, Installs, SMTT(30)
  <2> QED BY <1>9, <2>3, <2>11, <2>13, OneThread, ZenonT(30)
<1> QED BY <1>7, <1>8, <1>9, ZenonT(30)

(* The arguments.                                                          *)
LEMMA PushArgumentsO == ASSUME Owned(m, th), NEW p \in Threads, PushArguments(p) PROVE Owned(m', th')
<1>1. th[p].pc = "arguments" /\ ThreadInv(th[p]) /\ m' = m
  BY Zenon DEF PushArguments, At, Owned
<1>2. PICK cs : cs = IF File(p).name_bytes \in 5..6 THEN th[p].cs ELSE NULL
  BY Zenon
<1>3. cs \in {"SEL_UCSEG", NULL}
  BY <1>1, <1>2, Zenon DEF ThreadInv, ThreadType
<1> DEFINE u == [th[p] EXCEPT !.argc = 1, !.success = TRUE, !.pc = "done", !.cs = cs]
<1>4. th' = [th EXCEPT ![p] = u]
  <2>1. PICK a : a = [th EXCEPT ![p].argc = 1, ![p].success = TRUE, ![p].pc = "done"]
    BY Zenon
  <2>2. a[p].cs = th[p].cs
    BY <1>1, <2>1, Zenon DEF Owned, ThreadInv, ThreadType
  <2>3. th' = [a EXCEPT ![p].cs = IF File(p).name_bytes \in 5..6 THEN a[p].cs ELSE NULL]
    BY <2>1, ZenonT(30) DEF PushArguments
  <2>4. th' = [a EXCEPT ![p].cs = cs]
    BY <1>2, <2>2, <2>3, Zenon
  <2> QED BY <2>1, <2>4, Zenon DEF Owned
<1>5. u \in ThreadType
  BY <1>1, <1>3, Zenon DEF ThreadInv, ThreadType, Labels, Loading
<1>6. ThreadInv(u) /\ Root(u) = Root(th[p])
  BY <1>1, <1>5, ZenonT(30) DEF ThreadInv, ThreadType, Shape, Loading, Root
<1> QED BY <1>1, <1>4, <1>6, QuietStep, Zenon DEF ThreadInv, ThreadType

(* The end of load.                                                        *)
LEMMA DoneO == ASSUME Owned(m, th), NEW p \in Threads, Done(p) PROVE Owned(m', th')
<1>1. th[p].pc = "done" /\ ThreadInv(th[p]) /\ m' = m
  BY Zenon DEF Done, At, Owned
<1> DEFINE u == [th[p] EXCEPT !.file = NULL, !.seg = NoSegment, !.pc = "loaded"]
<1>2. th' = [th EXCEPT ![p] = u]
  BY Zenon DEF Owned, Done
<1>3. NoSegment \in SegmentType
  BY Zenon DEF NoSegment, SegmentType
<1>4. ThreadInv(u) /\ Root(u) = Root(th[p])
  BY <1>1, <1>3, ZenonT(30) DEF ThreadInv, ThreadType, Shape, Labels, Loading, Root
<1> QED BY <1>1, <1>2, <1>4, QuietStep, Zenon DEF ThreadInv, ThreadType

(* start_process gives the copy of the command line back.                  *)
LEMMA FreeCommandO == ASSUME Owned(m, th), NEW p \in Threads, FreeCommand(p) PROVE Owned(m', th')
<1> DEFINE x == th[p].copy
<1>1. th[p].pc = "loaded" /\ ThreadInv(th[p]) /\ m \in MemType /\ Fine(m, th[p]) /\ m' = palloc_free_page(m, x)
  BY OwnedFine, Zenon DEF FreeCommand, At, Owned
<1>2. PICK label \in {"intr_exit", "exit"} : th' = [th EXCEPT ![p].copy = NULL, ![p].pc = label]
  BY Zenon DEF FreeCommand
<1> DEFINE u == [th[p] EXCEPT !.copy = NULL, !.pc = label]
<1>3. th' = [th EXCEPT ![p] = u]
  BY <1>2, Zenon DEF Owned
<1>4. /\ u \in ThreadType /\ Root(u) = Root(th[p]) /\ u.kpage = th[p].kpage /\ u.page = th[p].page
      /\ u.copy = NULL /\ u.child_copy = th[p].child_copy
  <2>1. NULL \in KernelPage /\ label \in Labels
    BY <1>2, Zenon DEF Labels, KernelPage
  <2> QED BY <1>1, <2>1, ZenonT(30) DEF ThreadInv, ThreadType, Root
<1>5. ThreadInv(u)
  BY <1>1, <1>2, <1>4, Zenon DEF ThreadInv, ThreadType, Shape, Loading
<1> HIDE DEF u
<1>6. x # NULL /\ x \in Own(th[p]) /\ Distinct(th[p])
  BY <1>1, ZenonT(30) DEF ThreadInv, Shape, Loading, Own, Fine, Apart
<1>7. Own(u) = Own(th[p]) \ {x} /\ Distinct(u)
  BY <1>4, <1>6, ZenonT(30) DEF Own, Distinct
<1>8. Changed(m, th[p], m', u)
  BY <1>1, <1>4, <1>5, <1>6, <1>7, GivesPage, ZenonT(30)
<1> QED BY <1>3, <1>8, OneThread, Zenon

(* The steps of the user program and around it that keep all pages.        *)
LEMMA UserO ==
    ASSUME Owned(m, th), NEW p \in Threads, EnterUser(p) \/ UserStep(p) \/ RunTask(p)
    PROVE  Owned(m', th')
<1>1. m' = m /\ ThreadInv(th[p]) /\ th[p].pc \in {"intr_exit", "user", "idle"}
  BY Zenon DEF EnterUser, UserStep, RunTask, SYS_HALT, Quits, SYS_EXEC, SYS_CREATE, SYS_REMOVE, At, Owned
<1>2. CASE th' = th
  BY <1>1, <1>2, Zenon
<1>3. CASE Goto(p, "user") /\ th[p].pc = "intr_exit"
  <2>1. ThreadInv([th[p] EXCEPT !.pc = "user"])
    BY <1>1, <1>3 DEF ThreadInv, ThreadType, Shape, Labels, Loading
  <2> QED BY <1>1, <1>3, <2>1, GotoO, ZenonT(30) DEF Goto
<1>4. CASE Goto(p, "exit") /\ th[p].pc = "user"
  <2>1. ThreadInv([th[p] EXCEPT !.pc = "exit"])
    BY <1>1, <1>4 DEF ThreadInv, ThreadType, Shape, Labels, Loading
  <2> QED BY <1>1, <1>4, <2>1, GotoO, Zenon DEF Goto
<1>5. ASSUME NEW cmd \in Commands, th' = [th EXCEPT ![p].child = cmd, ![p].pc = "execute"],
             th[p].pc \in {"user", "idle"}
      PROVE  Owned(m', th')
  <2> DEFINE u == [th[p] EXCEPT !.child = cmd, !.pc = "execute"]
  <2>1. th' = [th EXCEPT ![p] = u]
    BY <1>5, ZenonT(30) DEF Owned
  <2>2. u \in ThreadType
    BY <1>1, ZenonT(30) DEF ThreadInv, ThreadType, Labels, Loading
  <2>3. ThreadInv(u) /\ Root(u) = Root(th[p])
    BY <1>1, <1>5, <2>2, ZenonT(30) DEF ThreadInv, ThreadType, Shape, Loading, Root
  <2> QED BY <1>1, <2>1, <2>3, QuietStep, Zenon DEF ThreadInv, ThreadType
<1>6. CASE EnterUser(p)
  BY <1>2, <1>3, <1>6, Zenon DEF EnterUser, At
<1>7. CASE UserStep(p)
  BY <1>2, <1>4, <1>5, <1>7, Zenon DEF UserStep, SYS_HALT, Quits, SYS_EXEC, SYS_CREATE, SYS_REMOVE, At, Exits
<1>8. CASE RunTask(p)
  BY <1>5, <1>8, ZenonT(30) DEF RunTask, At
<1> QED BY <1>6, <1>7, <1>8, Zenon

(* process_exit, up to the page directory.                                 *)
LEMMA ForgetPagedirO == ASSUME Owned(m, th), NEW p \in Threads, ForgetPagedir(p) PROVE Owned(m', th')
<1>1. th[p].pc = "exit" /\ ThreadInv(th[p]) /\ m' = m
  BY Zenon DEF ForgetPagedir, At, Owned
<1>2. PICK label : label = IF th[p].pagedir = NULL THEN "dying" ELSE "exit_activate"
  BY Zenon
<1> DEFINE u == [th[p] EXCEPT !.pd = th[p].pagedir, !.pagedir = NULL, !.pc = label]
<1>3. th' = [th EXCEPT ![p] = u]
  BY <1>2, Zenon DEF Owned, ForgetPagedir
<1>4. th[p].pagedir \in KernelPage /\ NULL \in KernelPage /\ label \in Labels
  BY <1>1, <1>2, Zenon DEF ThreadInv, ThreadType, KernelPage, Labels
<1>5. u \in ThreadType /\ u.pd = th[p].pagedir /\ u.pagedir = NULL /\ u.pc = label
  BY <1>1, <1>4, Zenon DEF ThreadInv, ThreadType
<1>6. ThreadInv(u)
  BY <1>1, <1>2, <1>5 DEF ThreadInv, ThreadType, Shape, Loading
<1>7. th[p].pd = NULL
  BY <1>1, Zenon DEF ThreadInv, Shape
<1>8. Root(u) = Root(th[p])
  BY <1>5, <1>7, Zenon DEF Root
<1> QED BY <1>1, <1>3, <1>6, <1>8, QuietStep, Zenon DEF ThreadInv, ThreadType

(* The base page directory is activated.                                   *)
LEMMA ActivateBaseO == ASSUME Owned(m, th), NEW p \in Threads, ActivateBase(p) PROVE Owned(m', th')
<1>1. th[p].pc = "exit_activate" /\ ThreadInv(th[p]) /\ m' = pagedir_activate(m, NULL) /\ NULL \in KernelPage
  BY Zenon DEF ActivateBase, At, Owned, KernelPage
<1>2. ThreadInv([th[p] EXCEPT !.pc = "exit_destroy"])
  BY <1>1, ZenonT(30) DEF ThreadInv, ThreadType, Shape, Labels, Loading
<1> QED BY <1>1, <1>2, GotoO, Zenon DEF ActivateBase, Goto

(* The page directory of the process is destroyed.                         *)
LEMMA DestroyPagedirO == ASSUME Owned(m, th), NEW p \in Threads, DestroyPagedir(p) PROVE Owned(m', th')
<1> DEFINE d == th[p].pd
           u == [th[p] EXCEPT !.pagedir = NULL, !.pd = NULL, !.pc = "dying"]
<1>1. th[p].pc = "exit_destroy" /\ ThreadInv(th[p]) /\ Fine(m, th[p]) /\ m' = pagedir_destroy(m, d)
  BY OwnedFine, Zenon DEF DestroyPagedir, At, Owned
<1>2. th' = [th EXCEPT ![p] = u]
  BY ZenonT(30) DEF DestroyPagedir, Owned
<1>3. NULL \in KernelPage /\ "dying" \in Labels
  BY Zenon DEF KernelPage, Labels
<1>4. /\ u \in ThreadType /\ u.pd = NULL /\ u.pagedir = NULL /\ u.pc = "dying" /\ u.page = th[p].page
      /\ u.copy = th[p].copy /\ u.child_copy = th[p].child_copy /\ u.kpage = th[p].kpage
  BY <1>1, <1>3, ZenonT(30) DEF ThreadInv, ThreadType
<1>5. ThreadInv(u)
  BY <1>1, <1>4, Zenon DEF ThreadInv, ThreadType, Shape, Loading
<1> HIDE DEF u
<1>6. d # NULL /\ d = Root(th[p]) /\ Root(u) = NULL /\ Distinct(th[p])
  BY <1>1, <1>4, ZenonT(30) DEF ThreadInv, Shape, Loading, Root, Fine, Apart
<1>7. Own(u) = Own(th[p]) \ {d} /\ Distinct(u)
  BY <1>4, <1>6, ZenonT(30) DEF Own, Distinct
<1>8. Changed(m, th[p], m', u)
  BY <1>1, <1>5, <1>6, <1>7, GivesPagedir, ZenonT(30)
<1> QED BY <1>2, <1>8, OneThread, ZenonT(30)

(* pagedir_create in load.                                                 *)
LEMMA CreatePagedirO == ASSUME Owned(m, th), NEW p \in Threads, CreatePagedir(p) PROVE Owned(m', th')
<1> DEFINE g == palloc_get_page(m, KernelFrames)
           r == pagedir_create(m)
<1>1. th[p].pc = "start" /\ ThreadInv(th[p]) /\ m \in MemType /\ Fine(m, th[p])
  BY OwnedFine, Zenon DEF CreatePagedir, At, Owned
<1>2. th[p].pagedir = NULL /\ th[p].pd = NULL /\ Root(th[p]) = NULL
  BY <1>1, Zenon DEF ThreadInv, Shape, Loading, Root
<1>3. \/ g = [m |-> m, page |-> NULL]
      \/ \E x \in m.free \cap KernelFrames : g = [m |-> [m EXCEPT !.free = @ \ {x}], page |-> x]
  BY <1>1, GetPage, Zenon
<1>4. r = IF g.page = NULL THEN g ELSE [g EXCEPT !.m.entry[g.page] = ZeroPage]
  BY Zenon DEF pagedir_create
<1>5. /\ m' = r.m
      /\ th' = [th EXCEPT ![p].pagedir = r.page, ![p].pc = IF r.page = NULL THEN "done" ELSE "activate"]
  BY Zenon DEF CreatePagedir
<1> HIDE DEF g, r
<1>6. CASE g = [m |-> m, page |-> NULL]
  <2>1. [th[p] EXCEPT !.pagedir = NULL] = th[p]
    BY <1>1, <1>2, Zenon DEF ThreadInv, ThreadType
  <2>2. th' = [th EXCEPT ![p].pc = "done"] /\ m' = m
    BY <1>4, <1>5, <1>6, <2>1, Zenon DEF Owned
  <2>3. ThreadInv([th[p] EXCEPT !.pc = "done"])
    BY <1>1, ZenonT(30) DEF ThreadInv, ThreadType, Shape, Labels, Loading
  <2> QED BY <2>2, <2>3, GotoO, Zenon
<1>7. ASSUME NEW x \in m.free \cap KernelFrames, g = [m |-> [m EXCEPT !.free = @ \ {x}], page |-> x]
      PROVE  Owned(m', th')
  <2> DEFINE u == [th[p] EXCEPT !.pagedir = x, !.pc = "activate"]
  <2>1. x # NULL /\ x \in KernelPage /\ "activate" \in Labels
    BY PagedirAssumption, Zenon DEF KernelPage, Labels, Loading
  <2>2. r.page = x /\ m' = [m EXCEPT !.free = @ \ {x}, !.entry[x] = ZeroPage]
    BY <1>4, <1>5, <1>7, <2>1, Zenon
  <2>3. th' = [th EXCEPT ![p] = u]
    BY <1>5, <2>1, <2>2, Zenon DEF Owned
  <2>4. /\ u \in ThreadType /\ u.pagedir = x /\ u.pc = "activate" /\ u.page = th[p].page
        /\ u.copy = th[p].copy /\ u.child_copy = th[p].child_copy /\ u.kpage = th[p].kpage
    BY <1>1, <2>1, ZenonT(30) DEF ThreadInv, ThreadType
  <2>5. ThreadInv(u)
    BY <1>1, <2>1, <2>4, Zenon DEF ThreadInv, ThreadType, Shape, Loading
  <2> HIDE DEF u
  <2>6. Root(u) = x
    BY <2>1, <2>4, Zenon DEF Root
  <2>7. Own(u) = Own(th[p]) \cup {x}
    BY <1>2, <2>1, <2>4, <2>6, Zenon DEF Own
  <2>8. x \notin Own(th[p]) /\ Distinct(th[p])
    BY <1>1, Zenon DEF Fine, Held, Apart
  <2>9. Distinct(u)
    BY <1>2, <2>4, <2>6, <2>8, Zenon DEF Distinct, Own
  <2>10. Changed(m, th[p], m', u)
    BY <1>1, <1>2, <2>2, <2>5, <2>6, <2>7, <2>9, TakesPagedir, ZenonT(30)
  <2> QED BY <2>3, <2>10, OneThread, Zenon
<1> QED BY <1>3, <1>6, <1>7, Zenon

(* process_execute returns.                                                *)
LEMMA ReturnedInv ==
    ASSUME NEW t, ThreadInv(t), t.pc \in {"execute", "create"}
    PROVE  /\ ThreadInv(Returned(t)) /\ Root(Returned(t)) = Root(t)
           /\ Returned(t).page = t.page /\ Returned(t).copy = t.copy /\ Returned(t).kpage = t.kpage
           /\ Returned(t).child_copy = NULL /\ Returned(t).pagedir = t.pagedir /\ Returned(t).pd = t.pd
           /\ Returned(t).file = t.file /\ Returned(t).pc \in {"idle", "exit"}
<1>1. PICK label : label = IF t.page = NULL THEN "idle" ELSE "exit"
  BY Zenon
<1>2. PICK u : u = Returned(t)
  BY Zenon
<1>3. u = [t EXCEPT !.pc = label, !.child = NoCommand, !.child_copy = NULL]
  BY <1>1, <1>2, Zenon DEF Returned
<1>4. label \in Labels /\ NULL \in KernelPage /\ label \in {"idle", "exit"}
  BY <1>1, Zenon DEF Labels, KernelPage
<1>5. u \in ThreadType
  BY <1>3, <1>4, Zenon DEF ThreadInv, ThreadType
<1>6. /\ u.pc = label /\ u.page = t.page /\ u.copy = t.copy /\ u.kpage = t.kpage /\ u.child_copy = NULL
      /\ u.pagedir = t.pagedir /\ u.pd = t.pd /\ u.file = t.file
  BY <1>3, Zenon DEF ThreadInv, ThreadType
<1>7. ThreadInv(u)
  BY <1>1, <1>5, <1>6, ZenonT(30) DEF ThreadInv, Shape, Loading
<1>8. Root(u) = Root(t)
  BY <1>6, Zenon DEF Root
<1> QED BY <1>2, <1>4, <1>6, <1>7, <1>8, Zenon

(* process_execute copies the command line.                                *)
LEMMA CopyCommandO == ASSUME Owned(m, th), NEW p \in Threads, CopyCommand(p) PROVE Owned(m', th')
<1> DEFINE r == palloc_get_page(m, KernelFrames)
<1>1. th[p].pc = "execute" /\ ThreadInv(th[p]) /\ m \in MemType /\ Fine(m, th[p])
  BY OwnedFine, Zenon DEF CopyCommand, At, Owned
<1>2. th[p].child_copy = NULL
  BY <1>1, Zenon DEF ThreadInv, Shape
<1>3. \/ r = [m |-> m, page |-> NULL]
      \/ \E x \in m.free \cap KernelFrames : r = [m |-> [m EXCEPT !.free = @ \ {x}], page |-> x]
  BY <1>1, GetPage, Zenon
<1>4. /\ m' = r.m
      /\ th' = [th EXCEPT ![p] = IF r.page = NULL THEN Returned(th[p])
                                 ELSE [th[p] EXCEPT !.pc = "create", !.child_copy = r.page]]
  BY Zenon DEF CopyCommand
<1> HIDE DEF r
<1>5. CASE r = [m |-> m, page |-> NULL]
  <2>1. th' = [th EXCEPT ![p] = Returned(th[p])] /\ m' = m
    BY <1>4, <1>5, Zenon
  <2> QED BY <1>1, <1>2, <2>1, ReturnedInv, QuietStep, Zenon
<1>6. ASSUME NEW x \in m.free \cap KernelFrames, r = [m |-> [m EXCEPT !.free = @ \ {x}], page |-> x]
      PROVE  Owned(m', th')
  <2> DEFINE u == [th[p] EXCEPT !.pc = "create", !.child_copy = x]
  <2>1. x # NULL /\ x \in KernelPage /\ "create" \in Labels
    BY PagedirAssumption, Zenon DEF KernelPage, Labels
  <2>2. m' = [m EXCEPT !.free = @ \ {x}] /\ th' = [th EXCEPT ![p] = u]
    BY <1>4, <1>6, <2>1, ZenonT(30)
  <2>3. /\ u \in ThreadType /\ u.pagedir = th[p].pagedir /\ u.pd = th[p].pd /\ u.pc = "create"
        /\ u.page = th[p].page /\ u.copy = th[p].copy /\ u.child_copy = x /\ u.kpage = th[p].kpage
    BY <1>1, <2>1, ZenonT(30) DEF ThreadInv, ThreadType
  <2>4. ThreadInv(u)
    BY <1>1, <2>1, <2>3, Zenon DEF ThreadInv, ThreadType, Shape, Loading
  <2> HIDE DEF u
  <2>5. Root(u) = Root(th[p]) /\ Own(u) = Own(th[p]) \cup {x}
    BY <1>2, <2>1, <2>3, ZenonT(30) DEF Root, Own
  <2>6. x \notin Own(th[p]) /\ Distinct(th[p])
    BY <1>1, Zenon DEF Fine, Held, Apart
  <2>7. Distinct(u)
    BY <1>2, <2>3, <2>5, <2>6, Zenon DEF Distinct, Own
  <2>8. Changed(m, th[p], m', u)
    BY <1>1, <2>2, <2>4, <2>5, <2>7, TakesPage, Zenon
  <2> QED BY <2>2, <2>8, OneThread, ZenonT(30)
<1> QED BY <1>3, <1>5, <1>6, Zenon

(* An unused slot has no pages; thread_create fills it.                    *)
LEMMA UnusedHas ==
    ASSUME NEW t, ThreadInv(t), t.pc = "unused"
    PROVE  Own(t) = {} /\ Root(t) = NULL /\ t.file = NULL
<1>1. /\ t.page = NULL /\ t.copy = NULL /\ t.child_copy = NULL /\ t.kpage = NULL /\ t.pagedir = NULL
      /\ t.pd = NULL /\ t.file = NULL
  BY Zenon DEF ThreadInv, Shape, Loading
<1> QED BY <1>1, Zenon DEF Own, Root

(* The new thread has its page and the copy of the command line, which are *)
(* both taken as if they had been free.                                    *)
LEMMA NewThread ==
    ASSUME NEW mem, mem \in MemType, Consistent(mem), ~mem.panic, NEW t, ThreadInv(t), t.pc = "unused",
           NEW x \in KernelFrames \cap mem.free, NEW c \in KernelFrames \cap mem.free, x # c,
           NEW mem2, mem2 \in MemType, mem2.entry = mem.entry, mem2.free = mem.free \ {x, c}, ~mem2.panic,
           NEW cmd \in Commands, NEW v,
           v = [Unused EXCEPT !.pc = "start", !.page = x, !.cmd = cmd, !.copy = c]
    PROVE  Changed(mem, t, mem2, v)
<1>1. x # NULL /\ c # NULL /\ x \in KernelPage /\ c \in KernelPage /\ NULL \in KernelPage
      /\ x # c /\ cmd \in Commands
  BY PagedirAssumption, Zenon DEF KernelPage
<1>2. NoSegment \in SegmentType /\ "start" \in Labels /\ 0 \in Nat
  BY Zenon DEF NoSegment, SegmentType, Labels, Loading
<1>3. /\ v = [pc |-> "start", page |-> x, cmd |-> cmd, copy |-> c,
              child |-> NoCommand, child_copy |-> NULL, pagedir |-> NULL, pd |-> NULL,
              file |-> NULL, i |-> 0, seg |-> NoSegment, kpage |-> NULL,
              success |-> FALSE, cs |-> "SEL_UCSEG", argc |-> 0]
  BY ZenonT(30) DEF Unused
<1>4. v \in ThreadType
  BY ONLY <1>1, <1>2, <1>3, Zenon DEF ThreadType
<1>5. /\ v.pc = "start" /\ v.page = x /\ v.cmd = cmd /\ v.copy = c /\ v.child_copy = NULL
      /\ v.pagedir = NULL /\ v.pd = NULL /\ v.file = NULL /\ v.kpage = NULL
  BY ONLY <1>3, Zenon
<1>6. ThreadInv(v)
  BY ONLY <1>1, <1>4, <1>5, Zenon DEF ThreadInv, Shape, Loading
<1>7. Root(v) = NULL /\ Own(v) = {x, c} /\ Distinct(v)
  BY ONLY <1>1, <1>5, Zenon DEF Root, Own, Distinct
<1>8. Inner(mem2, Root(v)) = {} /\ Held(mem2, v) = {x, c} /\ Apart(mem2, v)
  BY <1>7, Zenon DEF Inner, Held, Apart
<1>9. Held(mem, t) = {}
  BY UnusedHas, Zenon DEF Held, Inner
<1>10. Consistent(mem2)
  BY Zenon DEF Consistent
<1> QED BY <1>6, <1>8, <1>9, <1>10, Zenon DEF Changed

(* thread_create in process_execute: without memory the copy is freed.     *)
LEMMA CreateThreadO == ASSUME Owned(m, th), NEW p \in Threads, CreateThread(p) PROVE Owned(m', th')
<1> DEFINE r == palloc_get_page(m, KernelFrames)
           c == th[p].child_copy
           u == Returned(th[p])
           mem1 == palloc_free_page(m, c)
<1>1. th[p].pc = "create" /\ ThreadInv(th[p]) /\ m \in MemType /\ ~m.panic /\ Fine(m, th[p])
  BY OwnedFine, Zenon DEF CreateThread, At, Owned
<1>2. c # NULL /\ c \in KernelFrames /\ c \in Own(th[p]) /\ Distinct(th[p]) /\ th[p].child \in Commands
  BY <1>1, ZenonT(30) DEF ThreadInv, Shape, ThreadType, KernelPage, Own, Fine, Apart
<1>3. ThreadInv(u) /\ Root(u) = Root(th[p]) /\ Own(u) = Own(th[p]) \ {c} /\ Distinct(u)
  <2>1. PICK w : w = u
    BY Zenon
  <2>2. /\ ThreadInv(w) /\ Root(w) = Root(th[p]) /\ w.page = th[p].page /\ w.copy = th[p].copy
        /\ w.kpage = th[p].kpage /\ w.child_copy = NULL
    BY <1>1, <2>1, ReturnedInv, Zenon
  <2>3. Own(w) = Own(th[p]) \ {c} /\ Distinct(w)
    BY <1>2, <2>2, Zenon DEF Own, Distinct
  <2> QED BY <2>1, <2>2, <2>3, Zenon
<1> HIDE DEF u, mem1, c
<1>4. Changed(m, th[p], mem1, u)
  BY <1>1, <1>2, <1>3, GivesPage, Zenon DEF mem1
<1>5. Owned(mem1, [th EXCEPT ![p] = u])
  BY <1>4, OneThread, Zenon
<1>6. \/ m' = m /\ th' = th
      \/ m' = mem1 /\ th' = [th EXCEPT ![p] = u]
      \/ /\ r.page # NULL /\ m' = r.m /\ FreeSlots # {}
         /\ th' = [th EXCEPT ![p] = u, ![CHOOSE q \in FreeSlots : TRUE] =
                       [Unused EXCEPT !.pc = "start", !.page = r.page, !.cmd = th[p].child, !.copy = c]]
  BY Zenon DEF CreateThread, u, mem1, c
<1>7. \/ r = [m |-> m, page |-> NULL]
      \/ \E x \in m.free \cap KernelFrames : r = [m |-> [m EXCEPT !.free = @ \ {x}], page |-> x]
  BY <1>1, GetPage, Zenon
<1> HIDE DEF r
<1>8. CASE /\ r.page # NULL /\ m' = r.m /\ FreeSlots # {}
           /\ th' = [th EXCEPT ![p] = u, ![CHOOSE q \in FreeSlots : TRUE] =
                        [Unused EXCEPT !.pc = "start", !.page = r.page, !.cmd = th[p].child, !.copy = c]]
  <2>1. PICK x \in m.free \cap KernelFrames : r = [m |-> [m EXCEPT !.free = @ \ {x}], page |-> x]
    BY <1>7, <1>8
  <2>2. PICK q : q = CHOOSE s \in FreeSlots : TRUE
    BY Zenon
  <2>3. q \in Threads /\ th[q].pc = "unused" /\ q # p /\ ThreadInv(th[q])
    BY <1>1, <1>8, <2>2, Zenon DEF FreeSlots, Owned
  <2>4. PICK v : v = [Unused EXCEPT !.pc = "start", !.page = x, !.cmd = th[p].child, !.copy = c]
    BY Zenon
  <2>5. PICK ts : ts = [th EXCEPT ![p] = u]
    BY ZenonT(30)
  <2>6. th' = [ts EXCEPT ![q] = v] /\ ts[q] = th[q]
    BY <1>8, <2>1, <2>2, <2>3, <2>4, <2>5, Zenon DEF Owned
  <2>7. c \notin m.free /\ c \in Frames
    BY <1>1, <1>2, Zenon DEF Fine, Held
  <2>8. /\ mem1 \in MemType /\ Consistent(mem1) /\ ~mem1.panic /\ mem1.free = m.free \cup {c}
        /\ mem1.entry = m.entry
    BY <1>1, <1>4, <2>7, FreePage, ZenonT(30) DEF mem1, Changed
  <2>9. m' \in MemType /\ m'.entry = m.entry /\ m'.free = m.free \ {x} /\ ~m'.panic
    BY <1>1, <1>8, <2>1, Zenon DEF MemType
  <2>10. Changed(mem1, th[q], m', v)
    <3>1. m'.free = mem1.free \ {x, c} /\ x # c /\ m'.entry = mem1.entry
      BY <2>7, <2>8, <2>9, Zenon
    <3> QED BY <1>2, <2>3, <2>4, <2>8, <2>9, <3>1, NewThread, ZenonT(30)
  <2> QED BY <1>5, <2>3, <2>5, <2>6, <2>10, OneThread, ZenonT(30)
<1> QED BY <1>5, <1>6, <1>8, Zenon

(* thread_schedule_tail.                                                   *)
LEMMA ScheduleO ==
    ASSUME Owned(m, th), cur \in Threads, NEW q \in Threads, Schedule(q)
    PROVE  Owned(m', th')
<1> DEFINE mem1 == pagedir_activate(m, th[q].pagedir)
           t == th[cur]
<1>1. ThreadInv(th[q]) /\ ThreadInv(t) /\ Fine(m, t) /\ m \in MemType /\ ~m.panic /\ th[q].pagedir \in Frames \cup {NULL}
  BY OwnedFine, Zenon DEF Owned, ThreadInv, ThreadType, KernelPage, Frames
<1>2. mem1 \in MemType /\ mem1.free = m.free /\ mem1.entry = m.entry /\ ~mem1.panic
  BY <1>1, Zenon DEF pagedir_activate, MemType
<1>3. \/ m' = palloc_free_page(mem1, t.page) /\ th' = [th EXCEPT ![cur] = Unused] /\ t.pc = "dying"
      \/ m' = mem1 /\ th' = th
  BY Zenon DEF Schedule, process_activate
<1> HIDE DEF mem1, t
<1>4. Changed(m, t, mem1, t)
  BY <1>1, <1>2, KeepsPages, Zenon
<1>5. [th EXCEPT ![cur] = t] = th
  BY Zenon DEF Owned, t
<1>6. Owned(mem1, th)
  BY <1>4, <1>5, OneThread DEF t
<1>7. CASE m' = palloc_free_page(mem1, t.page) /\ th' = [th EXCEPT ![cur] = Unused] /\ t.pc = "dying"
  <2>1. Fine(mem1, t)
    BY <1>6, OwnedFine, Zenon DEF t
  <2>2. /\ t.page # NULL /\ t.copy = NULL /\ t.child_copy = NULL /\ t.kpage = NULL /\ t.pagedir = NULL
        /\ t.pd = NULL
    BY <1>1, <1>7, ZenonT(30) DEF ThreadInv, Shape, Loading
  <2>3. Own(t) = {t.page} /\ Root(t) = NULL
    BY <2>2, Zenon DEF Own, Root
  <2>4. NULL \in KernelPage /\ NoSegment \in SegmentType /\ "unused" \in Labels
    BY Zenon DEF KernelPage, NoSegment, SegmentType, Labels
  <2>5. Unused \in ThreadType
    BY <2>4, Zenon DEF Unused, ThreadType
  <2>6. /\ Unused.pc = "unused" /\ Unused.page = NULL /\ Unused.copy = NULL /\ Unused.child_copy = NULL
        /\ Unused.kpage = NULL /\ Unused.pagedir = NULL /\ Unused.pd = NULL /\ Unused.file = NULL
    BY Zenon DEF Unused
  <2>7. ThreadInv(Unused)
    BY <2>5, <2>6, Zenon DEF ThreadInv, Shape, Loading
  <2>8. Own(Unused) = {} /\ Root(Unused) = NULL /\ Distinct(Unused)
    BY <2>6, Zenon DEF Own, Root, Distinct
  <2>9. Changed(mem1, t, m', Unused)
    BY <1>7, <2>1, <2>3, <2>7, <2>8, GivesPage, Zenon
  <2> QED BY <1>6, <1>7, <2>9, OneThread, ZenonT(30) DEF t
<1> QED BY <1>3, <1>6, <1>7, Zenon
=============================================================================
