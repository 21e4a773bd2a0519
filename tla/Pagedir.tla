------------------------------ MODULE Pagedir -------------------------------
(***************************************************************************)
(* Page directories (userprog/pagedir.c) and the part of the processor     *)
(* that they drive.  The state is one record m:                            *)
(*   free    the pages that palloc has not given out                       *)
(*   entry   the entries of the pages that are used as page directories    *)
(*           and page tables, for the user part of the address space       *)
(*   cr3     the active page directory, NULL for init_page_dir             *)
(*   tlb     the translations that the processor has cached                *)
(*   panic   an ASSERT failed                                              *)
(* A virtual address is a number; a page of it is its number vpage.        *)
(***************************************************************************)
EXTENDS Integers, FiniteSets, FiniteSetsExt

CONSTANTS NULL,
          UserFrames, KernelFrames,  \* the pages of the two pools
          PGSIZE, PHYS_BASE,
          PT_ENTRIES                 \* entries of a page table

ASSUME PagedirAssumption ==
    /\ UserFrames \subseteq Nat /\ KernelFrames \subseteq Nat
    /\ UserFrames \cap KernelFrames = {} /\ NULL \notin UserFrames \cup KernelFrames
    /\ PGSIZE \in Nat \ {0} /\ PT_ENTRIES \in Nat \ {0} /\ PHYS_BASE \in Nat \ {0}
    /\ PHYS_BASE % (PGSIZE * PT_ENTRIES) = 0

Frames == UserFrames \cup KernelFrames

UserPages == 0..(PHYS_BASE \div PGSIZE - 1)

pd_no(vpage) == vpage \div PT_ENTRIES

pt_no(vpage) == vpage % PT_ENTRIES

(* An entry that is 0; p, w, d and a are PTE_P, PTE_W, PTE_D and PTE_A.    *)
Absent == [page |-> NULL, p |-> FALSE, w |-> FALSE, d |-> FALSE, a |-> FALSE]

(* pde_create and pte_create_user.                                         *)
Present(page, writable) == [page |-> page, p |-> TRUE, w |-> writable, d |-> FALSE, a |-> FALSE]

Slots == 0..Max({PT_ENTRIES - 1, pd_no(PHYS_BASE \div PGSIZE)})

ZeroPage == [i \in Slots |-> Absent]

PagedirInit == [free |-> Frames, entry |-> [f \in KernelFrames |-> ZeroPage],
                cr3 |-> NULL, tlb |-> {}, panic |-> FALSE]

(* The promise of threads/palloc.c for one page.                           *)
palloc_get_page(m, pool) ==
    IF m.free \cap pool = {} THEN [m |-> m, page |-> NULL]
    ELSE LET page == Min(m.free \cap pool)
         IN  [m |-> [m EXCEPT !.free = @ \ {page}], page |-> page]

palloc_free_page(m, page) ==
    [m EXCEPT !.free = @ \cup {page}, !.panic = @ \/ page \in m.free]

-----------------------------------------------------------------------------
(* Loading cr3 drops the cached translations.                              *)
pagedir_activate(m, pd) == [m EXCEPT !.cr3 = pd, !.tlb = {}]

active_pd(m) == m.cr3

invalidate_pagedir(m, pd) == IF active_pd(m) = pd THEN pagedir_activate(m, pd) ELSE m

(* The copy of init_page_dir has no entry in the user part.                *)
pagedir_create(m) ==
    LET r == palloc_get_page(m, KernelFrames)
    IN  IF r.page = NULL THEN r
        ELSE [r EXCEPT !.m.entry[r.page] = ZeroPage]

(* The page tables of pd, and the pages that they map.                     *)
PresentIn(m, table) == {e \in {m.entry[table][i] : i \in Slots} : e.p}

TablesOf(m, pd) == {e.page : e \in PresentIn(m, pd)}

MappedBy(m, pd) == {e.page : e \in UNION {PresentIn(m, pt) : pt \in TablesOf(m, pd)}}

(* pagedir_destroy frees each page, each page table and pd itself.         *)
pagedir_destroy(m, pd) ==
    LET pages == {pd} \cup TablesOf(m, pd) \cup MappedBy(m, pd)
    IN  [m EXCEPT !.free = @ \cup pages, !.panic = @ \/ pages \cap m.free # {},
                  !.entry = [f \in KernelFrames |-> IF f \in pages THEN ZeroPage ELSE @[f]]]

(* The page table for vpage, which is added when there is none and create  *)
(* is set; NULL when there is none, or no memory for it.                   *)
lookup_page(m, pd, vpage, create) ==
    LET pde == m.entry[pd][pd_no(vpage)]
        r   == palloc_get_page(m, KernelFrames)
    IN  IF pde.page # NULL THEN [m |-> m, page |-> pde.page]
        ELSE IF ~create \/ r.page = NULL THEN [m |-> m, page |-> NULL]
        ELSE [r EXCEPT !.m.entry = [@ EXCEPT ![r.page] = ZeroPage,
                                             ![pd][pd_no(vpage)] = Present(r.page, TRUE)]]

(* The entry for vpage in pd, or Absent.                                   *)
EntryOf(m, pd, vpage) ==
    LET pt == lookup_page(m, pd, vpage, FALSE).page
    IN  IF pt = NULL THEN Absent ELSE m.entry[pt][pt_no(vpage)]

WithEntry(m, pd, vpage, e) ==
    [m EXCEPT !.entry[lookup_page(m, pd, vpage, FALSE).page][pt_no(vpage)] = e]

pagedir_get_page(m, pd, vpage) ==
    IF EntryOf(m, pd, vpage).p THEN EntryOf(m, pd, vpage).page ELSE NULL

pagedir_set_page(m, pd, vpage, kpage, writable) ==
    LET r == lookup_page(m, pd, vpage, TRUE)
    IN  IF r.page = NULL THEN [m |-> r.m, ok |-> FALSE]
        ELSE [m |-> [WithEntry(r.m, pd, vpage, Present(kpage, writable))
                     EXCEPT !.panic = @ \/ EntryOf(r.m, pd, vpage).p],
              ok |-> TRUE]

(* Mutant: the processor may go on to use the translation.                 *)
ClearQuietly(m, pd, vpage) ==
    IF ~EntryOf(m, pd, vpage).p THEN m
    ELSE WithEntry(m, pd, vpage, [EntryOf(m, pd, vpage) EXCEPT !.p = FALSE])

pagedir_clear_page(m, pd, vpage) ==
    LET e == EntryOf(m, pd, vpage)
    IN  IF ~e.p THEN m
        ELSE invalidate_pagedir(WithEntry(m, pd, vpage, [e EXCEPT !.p = FALSE]), pd)

pagedir_is_dirty(m, pd, vpage) == EntryOf(m, pd, vpage).d

pagedir_is_accessed(m, pd, vpage) == EntryOf(m, pd, vpage).a

pagedir_set_dirty(m, pd, vpage, dirty) ==
    LET n == WithEntry(m, pd, vpage, [EntryOf(m, pd, vpage) EXCEPT !.d = dirty])
    IN  IF lookup_page(m, pd, vpage, FALSE).page = NULL THEN m
        ELSE IF dirty THEN n ELSE invalidate_pagedir(n, pd)

pagedir_set_accessed(m, pd, vpage, accessed) ==
    LET n == WithEntry(m, pd, vpage, [EntryOf(m, pd, vpage) EXCEPT !.a = accessed])
    IN  IF lookup_page(m, pd, vpage, FALSE).page = NULL THEN m
        ELSE IF accessed THEN n ELSE invalidate_pagedir(n, pd)

-----------------------------------------------------------------------------
(* The processor uses address vpage: it takes a cached translation that    *)
(* permits the use, or else the entry of the active page directory, whose  *)
(* bits it sets and which it caches.  Without either it raises a fault.    *)
Translate(m, vpage, write) ==
    LET hit == {t \in m.tlb : t.vpage = vpage /\ (write => t.w /\ t.d)}
        e   == EntryOf(m, m.cr3, vpage)
        n   == [e EXCEPT !.a = TRUE, !.d = @ \/ write]
    IN  IF hit # {} THEN [m |-> m, page |-> (CHOOSE t \in hit : TRUE).page]
        ELSE IF ~e.p \/ (write /\ ~e.w) THEN [m |-> m, page |-> NULL]
        ELSE [m |-> [WithEntry(m, m.cr3, vpage, n) EXCEPT
                        !.tlb = {t \in @ : t.vpage # vpage}
                                \cup {[vpage |-> vpage, page |-> n.page, w |-> n.w, d |-> n.d]}],
              page |-> n.page]
=============================================================================
