--------------------------- MODULE ProcessProofs ----------------------------
(***************************************************************************)
(* User processes, for every program, every number of threads and every    *)
(* size of the pools: the processor never uses a page directory that was   *)
(* freed, and wherever a load fails and whenever a process exits, no page  *)
(* and no open file is lost.                                               *)
(***************************************************************************)
EXTENDS PageProofs, FiniteSetTheorems

(* The processor: it has the page directory of the running thread, but for *)
(* the moments before process_activate and pagedir_activate.               *)
Cpu ==
    /\ cur \in Threads /\ tss = cur /\ th[cur].pc # "unused"
    /\ \/ m.cr3 = th[cur].pagedir
       \/ th[cur].pc = "activate" /\ m.cr3 = NULL
       \/ th[cur].pc = "exit_activate" /\ m.cr3 = th[cur].pd

(* The root directory.                                                     *)
DirType == dir \in [DOMAIN Files -> {"program", "empty", "absent"}]

(* The inductive invariant.                                                *)
ProcessInv == Owned(m, th) /\ Cpu /\ ExecutablesClosed /\ DirType

(* A step that concerns neither the processor nor an open file.            *)
PlainStep(p) ==
    /\ cur = p /\ cur' = cur /\ tss' = tss /\ opened' = opened
    /\ th[p].pc \notin {"activate", "exit_activate"}
    /\ m'.cr3 = m.cr3 /\ th'[p].pagedir = th[p].pagedir /\ th'[p].pc # "unused"
    /\ \A q \in Threads : th'[q].file = th[q].file

(* The steps that only go on, or take or return a page.                    *)
LEMMA LoadPlain ==
    ASSUME Owned(m, th), NEW p \in Threads,
           ReadHeader(p) \/ ReadPhdr(p) \/ PushArguments(p) \/ FreeCommand(p)
    PROVE  PlainStep(p)
<1>1. m \in MemType /\ th \in [Threads -> ThreadType] /\ th[p] \in ThreadType
  BY Zenon DEF Owned
<1>2. CASE ReadHeader(p)
  BY <1>1, <1>2, ZenonT(30) DEF ReadHeader, At, Rest, PlainStep, ThreadType
<1>3. CASE ReadPhdr(p)
  BY <1>1, <1>3, SMTT(30) DEF ReadPhdr, At, Rest, PlainStep, ThreadType, Goto
<1>4. CASE PushArguments(p)
  BY <1>1, <1>4, Zenon DEF PushArguments, At, Rest, PlainStep, ThreadType
<1>5. CASE FreeCommand(p)
  <2>1. m'.cr3 = m.cr3
    BY <1>1, <1>5, Zenon DEF FreeCommand, palloc_free_page, MemType
  <2> QED BY <1>1, <1>5, <2>1, Zenon DEF FreeCommand, At, Rest, PlainStep, ThreadType
<1> QED BY <1>2, <1>3, <1>4, <1>5, Zenon

(* The steps that load a page.                                             *)
LEMMA PagePlain ==
    ASSUME Owned(m, th), NEW p \in Threads, GetSegmentPage(p) \/ ReadSegmentPage(p) \/ setup_stack(p)
    PROVE  PlainStep(p)
<1>1. m \in MemType /\ th \in [Threads -> ThreadType] /\ th[p] \in ThreadType
  BY Zenon DEF Owned
<1>2. CASE GetSegmentPage(p)
  <2>1. PICK r : r = palloc_get_page(m, UserFrames)
    BY Zenon
  <2>2. r.m.cr3 = m.cr3
    BY <1>1, <2>1, GetPage DEF MemType
  <2>3. \/ th' = [th EXCEPT ![p].i = @ + 1, ![p].seg = NoSegment, ![p].pc = "phdr"] /\ m' = m
        \/ /\ m' = r.m
           /\ th' = [th EXCEPT ![p].kpage = r.page, ![p].pc = IF r.page = NULL THEN "done" ELSE "read"]
    BY <1>2, <2>1, Zenon DEF GetSegmentPage
  <2> QED BY <1>1, <1>2, <2>2, <2>3, SMTT(30) DEF GetSegmentPage, At, Rest, PlainStep, ThreadType
<1>3. CASE ReadSegmentPage(p)
  <2>1. PICK seg2 : \E label \in {"page", "done"} :
           \/ th' = [th EXCEPT ![p].kpage = NULL, ![p].pc = "done"]
           \/ th' = [th EXCEPT ![p].kpage = NULL, ![p].pc = label, ![p].seg = seg2]
    BY <1>3, Zenon DEF ReadSegmentPage
  <2>2. th'[p].pagedir = th[p].pagedir /\ th'[p].pc # "unused" /\ \A q \in Threads : th'[q].file = th[q].file
    BY <1>1, <2>1 DEF ThreadType
  <2>3. m'.cr3 = m.cr3
    BY <1>3, ReadSegmentPageO, Zenon
  <2>4. /\ cur = p /\ cur' = cur /\ tss' = tss /\ opened' = opened /\ th[p].pc = "read"
    BY <1>3, Zenon DEF ReadSegmentPage, At
  <2> QED BY <2>2, <2>3, <2>4, Zenon DEF PlainStep
<1>4. CASE setup_stack(p)
  <2>1. PICK label \in {"arguments", "done"} : th' = [th EXCEPT ![p].pc = label]
    BY <1>4, ZenonT(30) DEF setup_stack, Goto
  <2>2. th'[p].pagedir = th[p].pagedir /\ th'[p].pc # "unused" /\ \A q \in Threads : th'[q].file = th[q].file
    BY <1>1, <2>1, Zenon DEF ThreadType
  <2>3. m'.cr3 = m.cr3
    BY <1>4, SetupStackO, Zenon
  <2>4. /\ cur = p /\ cur' = cur /\ tss' = tss /\ opened' = opened /\ th[p].pc = "stack"
    BY <1>4, ZenonT(30) DEF setup_stack, At
  <2> QED BY <2>2, <2>3, <2>4, Zenon DEF PlainStep
<1> QED BY <1>2, <1>3, <1>4, Zenon

(* process_execute, and the end of process_exit.                           *)
LEMMA ExecutePlain ==
    ASSUME Owned(m, th), NEW p \in Threads, CopyCommand(p) \/ CreateThread(p) \/ DestroyPagedir(p)
    PROVE  PlainStep(p)
<1>1. m \in MemType /\ th \in [Threads -> ThreadType] /\ th[p] \in ThreadType /\ ThreadInv(th[p])
  BY Zenon DEF Owned
<1>2. PICK r : r = palloc_get_page(m, KernelFrames)
  BY Zenon
<1>3. r.m.cr3 = m.cr3
  BY <1>1, <1>2, GetPage, SMTT(30) DEF MemType
<1>4. CASE CopyCommand(p)
  <2>1. /\ cur = p /\ cur' = cur /\ tss' = tss /\ opened' = opened /\ th[p].pc = "execute" /\ m' = r.m
        /\ th' = [th EXCEPT ![p] = IF r.page = NULL THEN Returned(th[p])
                                   ELSE [th[p] EXCEPT !.pc = "create", !.child_copy = r.page]]
    BY <1>2, <1>4, Zenon DEF CopyCommand, At, Rest
  <2>2. PICK u : u = IF r.page = NULL THEN Returned(th[p])
                     ELSE [th[p] EXCEPT !.pc = "create", !.child_copy = r.page]
    BY Zenon
  <2>3. u.pagedir = th[p].pagedir /\ u.pc # "unused" /\ u.file = th[p].file
    BY <1>1, <2>1, <2>2, ReturnedInv, Zenon DEF ThreadType
  <2>4. th' = [th EXCEPT ![p] = u]
    BY <2>1, <2>2, Zenon
  <2> QED BY <1>1, <1>3, <2>1, <2>3, <2>4, ZenonT(30) DEF PlainStep
<1>5. CASE CreateThread(p)
  <2> DEFINE u == Returned(th[p])
  <2>1. /\ cur = p /\ cur' = cur /\ tss' = tss /\ opened' = opened /\ th[p].pc = "create"
        /\ \/ m' = m /\ th' = th
           \/ m' = palloc_free_page(m, th[p].child_copy) /\ th' = [th EXCEPT ![p] = u]
           \/ /\ m' = r.m /\ FreeSlots # {}
              /\ th' = [th EXCEPT ![p] = u, ![CHOOSE q \in FreeSlots : TRUE] =
                       [Unused EXCEPT !.pc = "start", !.page = r.page, !.cmd = th[p].child,
                                      !.copy = th[p].child_copy]]
    BY <1>2, <1>5, Zenon DEF CreateThread, At
  <2>2. u.pagedir = th[p].pagedir /\ u.pc # "unused" /\ u.file = th[p].file
    BY <1>1, <2>1, ReturnedInv, Zenon
  <2> HIDE DEF u
  <2>3. m'.cr3 = m.cr3
    BY <1>1, <1>3, <2>1, ZenonT(30) DEF palloc_free_page, MemType
  <2>4. CASE th' = th \/ th' = [th EXCEPT ![p] = u]
    BY <1>1, <2>1, <2>2, <2>3, <2>4, ZenonT(30) DEF PlainStep
  <2>5. ASSUME NEW s, s = (CHOOSE q \in FreeSlots : TRUE), FreeSlots # {}, NEW v, v.file = NULL,
               th' = [th EXCEPT ![p] = u, ![s] = v]
        PROVE  PlainStep(p)
    <3>1. s \in Threads /\ th[s].pc = "unused" /\ s # p /\ ThreadInv(th[s])
      BY <2>1, <2>5, Zenon DEF FreeSlots, Owned
    <3>2. th[s].file = NULL
      BY <3>1, UnusedHas, Zenon
    <3>3. \A q \in Threads : th'[q] = IF q = s THEN v ELSE IF q = p THEN u ELSE th[q]
      BY <1>1, <2>5, <3>1, Zenon
    <3>4. /\ th'[p].pagedir = th[p].pagedir /\ th'[p].pc # "unused"
          /\ \A q \in Threads : th'[q].file = th[q].file
      BY ONLY <2>2, <2>5, <3>1, <3>2, <3>3, p \in Threads, ZenonT(30)
    <3>5. cur = p /\ cur' = cur /\ tss' = tss /\ opened' = opened /\ th[p].pc = "create"
      BY <2>1, Zenon
    <3> QED BY ONLY <2>3, <3>4, <3>5, Zenon DEF PlainStep
  <2>6. PICK v : v = [Unused EXCEPT !.pc = "start", !.page = r.page, !.cmd = th[p].child,
                                    !.copy = th[p].child_copy]
    BY Zenon
  <2>7. v.file = NULL
    BY <2>6, Zenon DEF Unused
  <2>8. PICK s : s = CHOOSE q \in FreeSlots : TRUE
    BY Zenon
  <2>9. th' = th \/ th' = [th EXCEPT ![p] = u] \/ (FreeSlots # {} /\ th' = [th EXCEPT ![p] = u, ![s] = v])
    BY <2>1, <2>6, <2>8, Zenon
  <2> QED BY <2>4, <2>5, <2>7, <2>8, <2>9, Zenon
<1>6. CASE DestroyPagedir(p)
  <2>1. m'.cr3 = m.cr3
    BY <1>1, <1>6, Zenon DEF DestroyPagedir, pagedir_destroy, MemType
  <2>2. th[p].pc = "exit_destroy" /\ th[p].pagedir = NULL
    BY <1>1, <1>6, Zenon DEF DestroyPagedir, At, ThreadInv, Shape, Loading
  <2> QED BY <1>1, <1>6, <2>1, <2>2, Zenon DEF DestroyPagedir, At, Rest, PlainStep, ThreadType
<1> QED BY <1>4, <1>5, <1>6, Zenon

(* The user program, and what starts it.                                   *)
LEMMA UserPlain ==
    ASSUME Owned(m, th), NEW p \in Threads, EnterUser(p) \/ UserStep(p) \/ RunTask(p)
    PROVE  PlainStep(p)
<1>1. m \in MemType /\ th \in [Threads -> ThreadType] /\ th[p] \in ThreadType
  BY Zenon DEF Owned
<1>2. /\ cur = p /\ cur' = cur /\ tss' = tss /\ opened' = opened /\ m' = m
      /\ th[p].pc \in {"intr_exit", "user", "idle"}
  BY Zenon DEF EnterUser, UserStep, RunTask, SYS_HALT, Quits, SYS_EXEC, SYS_CREATE, SYS_REMOVE, At, Rest
<1>3. \/ th' = th
      \/ \E label \in {"user", "exit"} : th' = [th EXCEPT ![p].pc = label]
      \/ \E cmd \in Commands : th' = [th EXCEPT ![p].child = cmd, ![p].pc = "execute"]
  <2>1. CASE EnterUser(p)
    BY <2>1, Zenon DEF EnterUser, Goto
  <2>2. CASE UserStep(p)
    BY <2>2, Zenon DEF UserStep, SYS_HALT, Quits, SYS_EXEC, SYS_CREATE, SYS_REMOVE, Exits, Goto
  <2>3. CASE RunTask(p)
    BY <2>3, Zenon DEF RunTask
  <2> QED BY <2>1, <2>2, <2>3, Zenon
<1>4. /\ th'[p].pagedir = th[p].pagedir /\ th'[p].pc # "unused"
      /\ \A q \in Threads : th'[q].file = th[q].file
  <2>1. CASE th' = th
    BY <1>2, <2>1, Zenon
  <2>2. ASSUME NEW label \in {"user", "exit"}, th' = [th EXCEPT ![p].pc = label]
        PROVE  /\ th'[p].pagedir = th[p].pagedir /\ th'[p].pc # "unused"
               /\ \A q \in Threads : th'[q].file = th[q].file
    BY <1>1, <2>2, Zenon DEF ThreadType
  <2>3. ASSUME NEW cmd \in Commands, th' = [th EXCEPT ![p].child = cmd, ![p].pc = "execute"]
        PROVE  /\ th'[p].pagedir = th[p].pagedir /\ th'[p].pc # "unused"
               /\ \A q \in Threads : th'[q].file = th[q].file
    BY <1>1, <2>3, Zenon DEF ThreadType
  <2> QED BY <1>3, <2>1, <2>2, <2>3, ZenonT(30)
<1> QED BY <1>2, <1>4, Zenon DEF PlainStep

-----------------------------------------------------------------------------
(* The threads with an open executable.                                    *)
Loaders == {p \in Threads : th[p].file # NULL}

(* A plain step concerns neither the processor nor the open files.         *)
LEMMA PlainKeeps ==
    ASSUME Cpu, ExecutablesClosed, NEW p \in Threads, PlainStep(p)
    PROVE  Cpu' /\ ExecutablesClosed'
<1>1. Cpu'
  BY Zenon DEF Cpu, PlainStep
<1>2. Loaders' = Loaders /\ opened' = opened
  BY Zenon DEF Loaders, PlainStep
<1>3. ExecutablesClosed'
  BY <1>2, Zenon DEF ExecutablesClosed, Loaders
<1> QED BY <1>1, <1>3, Zenon

(* load opens the file.                                                    *)
LEMMA OpenKeeps ==
    ASSUME Owned(m, th), Cpu, ExecutablesClosed, DirType, NEW p \in Threads, OpenExecutable(p)
    PROVE  Cpu' /\ ExecutablesClosed'
<1>1. /\ th \in [Threads -> ThreadType] /\ th[p] \in ThreadType /\ ThreadInv(th[p])
      /\ cur = p /\ th[p].pc = "open" /\ cur' = cur /\ tss' = tss /\ m' = m
  BY Zenon DEF Owned, OpenExecutable, At
<1>2. th[p].file = NULL
  BY <1>1, Zenon DEF ThreadInv, Shape
<1>3. IsFiniteSet(Loaders) /\ opened = Cardinality(Loaders) /\ p \notin Loaders
  BY <1>2, ProcessAssumption, FS_Subset, ZenonT(30) DEF Loaders, ExecutablesClosed, ProcessAssumption
<1>4. CASE /\ dir[th[p].cmd.file] # "absent" /\ opened' = opened + 1
           /\ th' = [th EXCEPT ![p].file = dir[th[p].cmd.file], ![p].pc = "header"]
  <2>1. dir[th[p].cmd.file] \in {"program", "empty"}
    BY <1>1, <1>4, ProcessAssumption, Zenon DEF ProcessAssumption, ThreadInv, Loading, DirType
  <2>2. PICK f : f = dir[th[p].cmd.file]
    BY Zenon
  <2>3. f # NULL
    BY <2>1, <2>2, ProcessAssumption, Zenon DEF ProcessAssumption
  <2>4. th' = [th EXCEPT ![p].file = f, ![p].pc = "header"]
    BY <1>4, <2>2, Zenon
  <2>5. /\ th'[p].file = f /\ th'[p].pc = "header" /\ th'[p].pagedir = th[p].pagedir
        /\ \A q \in Threads : q # p => th'[q] = th[q]
    BY <1>1, <2>4, Zenon DEF ThreadType
  <2>6. Cpu'
    BY <1>1, <2>5, Zenon DEF Cpu
  <2>7. Loaders' = Loaders \cup {p}
    BY <2>3, <2>5, Zenon DEF Loaders
  <2>8. Cardinality(Loaders') = Cardinality(Loaders) + 1
    BY <1>3, <2>7, FS_AddElement, Zenon
  <2>9. ExecutablesClosed'
    BY <1>3, <1>4, <2>8, ZenonT(30) DEF ExecutablesClosed, Loaders
  <2> QED BY <2>6, <2>9, Zenon
<1>5. CASE Goto(p, "done") /\ UNCHANGED opened
  <2>1. PlainStep(p)
    BY <1>1, <1>5, Zenon DEF PlainStep, Goto, ThreadType
  <2> QED BY <2>1, PlainKeeps, Zenon
<1> QED BY <1>4, <1>5, Zenon DEF OpenExecutable

(* load closes the file, if it was opened, wherever it failed.             *)
LEMMA DoneKeeps ==
    ASSUME Owned(m, th), Cpu, ExecutablesClosed, NEW p \in Threads, Done(p)
    PROVE  Cpu' /\ ExecutablesClosed'
<1>1. /\ th \in [Threads -> ThreadType] /\ th[p] \in ThreadType
      /\ cur = p /\ th[p].pc = "done" /\ cur' = cur /\ tss' = tss /\ m' = m
      /\ th' = [th EXCEPT ![p].file = NULL, ![p].seg = NoSegment, ![p].pc = "loaded"]
      /\ opened' = IF th[p].file = NULL THEN opened ELSE opened - 1
  BY Zenon DEF Owned, Done, At
<1>2. /\ th'[p].file = NULL /\ th'[p].pc = "loaded" /\ th'[p].pagedir = th[p].pagedir
      /\ \A q \in Threads : q # p => th'[q] = th[q]
  BY <1>1, Zenon DEF ThreadType
<1>3. Cpu'
  BY <1>1, <1>2, Zenon DEF Cpu
<1>4. IsFiniteSet(Loaders) /\ opened = Cardinality(Loaders)
  BY ProcessAssumption, FS_Subset, Zenon DEF Loaders, ExecutablesClosed, ProcessAssumption
<1>5. Loaders' = Loaders \ {p}
  BY <1>2, Zenon DEF Loaders
<1>6. Cardinality(Loaders') = IF p \in Loaders THEN Cardinality(Loaders) - 1 ELSE Cardinality(Loaders)
  BY <1>4, <1>5, FS_RemoveElement, ZenonT(30)
<1>7. opened' = Cardinality(Loaders')
  BY <1>1, <1>4, <1>6, Zenon DEF Loaders
<1> QED BY <1>3, <1>7, Zenon DEF ExecutablesClosed, Loaders

(* The steps that change the page directory or activate one, and switches. *)
LEMMA SwitchKeeps ==
    ASSUME Owned(m, th), Cpu, ExecutablesClosed, NEW p \in Threads,
           CreatePagedir(p) \/ Activate(p) \/ ForgetPagedir(p) \/ ActivateBase(p) \/ Schedule(p)
    PROVE  Cpu' /\ ExecutablesClosed'
<1>1. /\ m \in MemType /\ th \in [Threads -> ThreadType] /\ th[p] \in ThreadType /\ ThreadInv(th[p])
      /\ cur \in Threads /\ tss = cur
  BY ZenonT(30) DEF Owned, Cpu
<1>2. ASSUME opened' = opened, \A q \in Threads : th'[q].file = th[q].file PROVE ExecutablesClosed'
  <2>1. Loaders' = Loaders
    BY <1>2, Zenon DEF Loaders
  <2> QED BY <1>2, <2>1, Zenon DEF ExecutablesClosed, Loaders
<1>3. CASE CreatePagedir(p)
  <2>1. PICK r : r = pagedir_create(m)
    BY Zenon
  <2>2. r.m.cr3 = m.cr3
    <3>1. PICK g : g = palloc_get_page(m, KernelFrames)
      BY Zenon
    <3>2. r = IF g.page = NULL THEN g ELSE [g EXCEPT !.m.entry[g.page] = ZeroPage]
      BY <2>1, <3>1, Zenon DEF pagedir_create
    <3>3. \/ g = [m |-> m, page |-> NULL]
          \/ \E x \in m.free \cap KernelFrames : g = [m |-> [m EXCEPT !.free = @ \ {x}], page |-> x]
      BY <1>1, <3>1, GetPage, Zenon
    <3> QED BY <1>1, <3>2, <3>3 DEF MemType
  <2>3. /\ cur = p /\ th[p].pc = "start" /\ cur' = cur /\ tss' = tss /\ opened' = opened /\ m' = r.m
        /\ th' = [th EXCEPT ![p].pagedir = r.page, ![p].pc = IF r.page = NULL THEN "done" ELSE "activate"]
    BY <1>3, <2>1, Zenon DEF CreatePagedir, At, Rest
  <2>4. m.cr3 = NULL
    BY <1>1, <2>3, Zenon DEF Cpu, ThreadInv, Shape, Loading
  <2>5. /\ th'[p].pagedir = r.page /\ th'[p].pc = IF r.page = NULL THEN "done" ELSE "activate"
        /\ \A q \in Threads : th'[q].file = th[q].file
    BY <1>1, <2>3, Zenon DEF ThreadType
  <2>6. Cpu'
    BY <1>1, <2>2, <2>3, <2>4, <2>5, SMTT(30) DEF Cpu
  <2> QED BY <1>2, <2>3, <2>5, <2>6, ZenonT(30)
<1>4. CASE Activate(p)
  <2>1. /\ cur = p /\ cur' = cur /\ tss' = p /\ opened' = opened /\ m' = pagedir_activate(m, th[p].pagedir)
        /\ th' = [th EXCEPT ![p].pc = "open"]
    BY <1>4, Zenon DEF Activate, At, Goto, process_activate
  <2>2. m'.cr3 = th[p].pagedir
    BY <1>1, <2>1, Zenon DEF pagedir_activate, MemType
  <2>3. /\ th'[p].pagedir = th[p].pagedir /\ th'[p].pc = "open" /\ \A q \in Threads : th'[q].file = th[q].file
    BY <1>1, <2>1, Zenon DEF ThreadType
  <2> QED BY <1>1, <1>2, <2>1, <2>2, <2>3, Zenon DEF Cpu
<1>5. CASE ForgetPagedir(p)
  <2>1. /\ cur = p /\ cur' = cur /\ tss' = tss /\ opened' = opened /\ m' = m /\ th[p].pc = "exit"
        /\ th' = [th EXCEPT ![p].pd = th[p].pagedir, ![p].pagedir = NULL,
                            ![p].pc = IF th[p].pagedir = NULL THEN "dying" ELSE "exit_activate"]
    BY <1>5, Zenon DEF ForgetPagedir, At, Rest
  <2>2. /\ th'[p].pagedir = NULL /\ th'[p].pd = th[p].pagedir
        /\ th'[p].pc = IF th[p].pagedir = NULL THEN "dying" ELSE "exit_activate"
        /\ \A q \in Threads : th'[q].file = th[q].file
    BY <1>1, <2>1, Zenon DEF ThreadType
  <2>3. Cpu'
    BY <1>1, <2>1, <2>2, SMTT(30) DEF Cpu
  <2> QED BY <1>2, <2>1, <2>2, <2>3, ZenonT(30)
<1>6. CASE ActivateBase(p)
  <2>1. /\ cur = p /\ cur' = cur /\ tss' = tss /\ opened' = opened /\ m' = pagedir_activate(m, NULL)
        /\ th[p].pc = "exit_activate" /\ th' = [th EXCEPT ![p].pc = "exit_destroy"]
    BY <1>6, Zenon DEF ActivateBase, At, Goto, Rest
  <2>2. m'.cr3 = NULL /\ th[p].pagedir = NULL
    BY <1>1, <2>1, Zenon DEF pagedir_activate, MemType, ThreadInv, Shape, Loading
  <2>3. /\ th'[p].pagedir = th[p].pagedir /\ th'[p].pc = "exit_destroy"
        /\ \A q \in Threads : th'[q].file = th[q].file
    BY <1>1, <2>1, Zenon DEF ThreadType
  <2> QED BY <1>1, <1>2, <2>1, <2>2, <2>3, ZenonT(30) DEF Cpu
<1>7. CASE Schedule(p)
  <2> DEFINE mem1 == pagedir_activate(m, th[p].pagedir)
  <2>1. /\ p # cur /\ th[p].pc # "unused" /\ cur' = p /\ tss' = p /\ opened' = opened
        /\ \/ m' = palloc_free_page(mem1, th[cur].page) /\ th' = [th EXCEPT ![cur] = Unused] /\ th[cur].pc = "dying"
           \/ m' = mem1 /\ th' = th
    BY <1>7, Zenon DEF Schedule, process_activate
  <2>2. m'.cr3 = th[p].pagedir
    BY <1>1, <2>1, ZenonT(30) DEF pagedir_activate, palloc_free_page, MemType
  <2>3. ThreadInv(th[cur]) /\ Unused.file = NULL
    BY <1>1, ZenonT(30) DEF Owned, Unused
  <2>4. th[cur].pc = "dying" => th[cur].file = NULL
    BY <2>3, ZenonT(30) DEF ThreadInv, Shape
  <2>5. th'[p] = th[p] /\ \A q \in Threads : th'[q].file = th[q].file
    BY <1>1, <2>1, <2>3, <2>4, ZenonT(30)
  <2> QED BY <1>2, <2>1, <2>2, <2>5, ZenonT(30) DEF Cpu
<1> QED BY <1>3, <1>4, <1>5, <1>6, <1>7, Zenon

-----------------------------------------------------------------------------
(* At boot every page is free and only the main thread exists.             *)
LEMMA InitP == Init => ProcessInv
<1> SUFFICES ASSUME Init PROVE ProcessInv
  BY Zenon
<1> DEFINE Idle == [Unused EXCEPT !.pc = "idle"]
<1>1. /\ m = PagedirInit /\ cur = main /\ tss = main /\ opened = 0 /\ main \in Threads /\ IsFiniteSet(Threads)
      /\ th = [p \in Threads |-> IF p = main THEN Idle ELSE Unused]
      /\ dir = [f \in DOMAIN Files |-> "program"]
  BY ProcessAssumption, Zenon DEF Init, ProcessAssumption
<1>2. m \in MemType /\ Consistent(m) /\ ~m.panic /\ m.free = Frames /\ m.cr3 = NULL
  <2>1. ZeroPage \in [Slots -> EntryType] /\ \A i \in Slots : ~ZeroPage[i].p /\ ZeroPage[i].page = NULL
    BY PagedirAssumption, Zenon DEF ZeroPage, Absent, EntryType, PagedirAssumption
  <2>2. PICK z : z = ZeroPage
    BY Zenon
  <2>3. m = [free |-> Frames, entry |-> [f \in KernelFrames |-> z], cr3 |-> NULL, tlb |-> {}, panic |-> FALSE]
    BY <1>1, <2>2, Zenon DEF PagedirInit
  <2> QED BY <2>1, <2>2, <2>3, Zenon DEF MemType, Consistent
<1>3. /\ Unused \in ThreadType /\ Idle \in ThreadType
      /\ Unused.pc = "unused" /\ Idle.pc = "idle"
  <2>1. /\ "unused" \in Labels /\ "idle" \in Labels /\ NULL \in KernelPage /\ NoSegment \in SegmentType
        /\ NoCommand \in Commands \cup {NoCommand}
    BY Zenon DEF Labels, KernelPage, NoSegment, SegmentType
  <2> QED BY <2>1, ZenonT(30) DEF Unused, ThreadType
<1>4. \A t \in {Unused, Idle} :
        /\ t.page = NULL /\ t.copy = NULL /\ t.child_copy = NULL /\ t.kpage = NULL /\ t.pagedir = NULL
        /\ t.pd = NULL /\ t.file = NULL /\ t.pc \in {"unused", "idle"}
  BY DEF Unused
<1> HIDE DEF Idle
<1>5. \A t \in {Unused, Idle} : ThreadInv(t)
  BY <1>3, <1>4, Zenon DEF ThreadInv, Shape, Loading
<1>6. \A t \in {Unused, Idle} : Root(t) = NULL /\ Held(m, t) = {} /\ Apart(m, t)
  BY <1>4, Zenon DEF Root, Held, Own, Inner, Apart, Distinct
<1>7. \A p \in Threads : th[p] \in {Unused, Idle}
  BY <1>1, Zenon
<1>8. Owned(m, th)
  <2>1. th \in [Threads -> ThreadType]
    BY <1>1, <1>3, Zenon
  <2>2. \A p \in Threads : ThreadInv(th[p]) /\ Apart(m, th[p]) /\ Held(m, th[p]) = {}
    BY <1>5, <1>6, <1>7, Zenon
  <2> QED BY <1>2, <2>1, <2>2, Zenon DEF Owned
<1>9. Cpu
  <2>1. th[main] = Idle
    BY <1>1, Zenon
  <2> QED BY <1>1, <1>2, <1>3, <1>4, <2>1, Zenon DEF Cpu
<1>10. ExecutablesClosed
  <2>1. {p \in Threads : th[p].file # NULL} = {}
    BY <1>4, <1>7, Zenon
  <2> QED BY <1>1, <2>1, FS_EmptySet, Zenon DEF ExecutablesClosed
<1>11. DirType
  BY <1>1, Zenon DEF DirType
<1> QED BY <1>8, <1>9, <1>10, <1>11, ZenonT(30) DEF ProcessInv

(* The directory changes when a program creates or removes a file.         *)
LEMMA DirKept == ASSUME DirType, [Next]_vars PROVE DirType'
<1>1. ASSUME dir' = dir PROVE DirType'
  BY <1>1, Zenon DEF DirType
<1>2. ASSUME NEW p \in Threads, NEW f \in UserNames, SYS_CREATE(p, f) \/ SYS_REMOVE(p, f)
      PROVE  DirType'
  BY <1>2, Zenon DEF SYS_CREATE, SYS_REMOVE, DirType
<1>3. ASSUME NEW p \in Threads, Step(p) \/ RunTask(p) \/ Schedule(p) \/ SYS_HALT(p) \/ Quits(p) \/ SYS_EXEC(p)
      PROVE  dir' = dir
  BY <1>3, Zenon DEF Step, CreatePagedir, Activate, OpenExecutable, ReadHeader, ReadPhdr, GetSegmentPage,
     ReadSegmentPage, setup_stack, PushArguments, Done, FreeCommand, EnterUser, ForgetPagedir, ActivateBase,
     DestroyPagedir, CopyCommand, CreateThread, RunTask, Schedule, SYS_HALT, Quits, SYS_EXEC, Rest
<1>4. ASSUME UNCHANGED vars PROVE dir' = dir
  BY <1>4, Zenon DEF vars
<1> QED BY <1>1, <1>2, <1>3, <1>4, Zenon DEF Next, UserStep

(* Every step keeps every page and every open file with its owner, and the *)
(* processor with the running thread.                                      *)
LEMMA NextP == ASSUME ProcessInv, [Next]_vars PROVE ProcessInv'
<1>1. Owned(m, th) /\ Cpu /\ ExecutablesClosed /\ DirType /\ cur \in Threads
  BY Zenon DEF ProcessInv, Cpu
<1>2. DirType'
  BY <1>1, DirKept, Zenon
<1>3. ASSUME Owned(m', th'), Cpu', ExecutablesClosed' PROVE ProcessInv'
  BY <1>2, <1>3, Zenon DEF ProcessInv
<1>4. ASSUME NEW p \in Threads, PlainStep(p), Owned(m', th') PROVE ProcessInv'
  BY <1>1, <1>3, <1>4, PlainKeeps, ZenonT(30)
<1>5. ASSUME NEW p \in Threads, CreatePagedir(p) PROVE ProcessInv'
  BY <1>1, <1>3, <1>5, CreatePagedirO, SwitchKeeps, ZenonT(30)
<1>6. ASSUME NEW p \in Threads, Activate(p) PROVE ProcessInv'
  BY <1>1, <1>3, <1>6, ActivateO, SwitchKeeps, ZenonT(30)
<1>7. ASSUME NEW p \in Threads, OpenExecutable(p) PROVE ProcessInv'
  BY <1>1, <1>3, <1>7, OpenExecutableO, OpenKeeps, ZenonT(30) DEF DirType
<1>8. ASSUME NEW p \in Threads, ReadHeader(p) PROVE ProcessInv'
  BY <1>1, <1>4, <1>8, ReadHeaderO, LoadPlain, ZenonT(30)
<1>9. ASSUME NEW p \in Threads, ReadPhdr(p) PROVE ProcessInv'
  BY <1>1, <1>4, <1>9, ReadPhdrO, LoadPlain, ZenonT(30)
<1>10. ASSUME NEW p \in Threads, GetSegmentPage(p) PROVE ProcessInv'
  BY <1>1, <1>4, <1>10, GetSegmentPageO, PagePlain, ZenonT(30)
<1>11. ASSUME NEW p \in Threads, ReadSegmentPage(p) PROVE ProcessInv'
  BY <1>1, <1>4, <1>11, ReadSegmentPageO, PagePlain, Zenon
<1>12. ASSUME NEW p \in Threads, setup_stack(p) PROVE ProcessInv'
  BY <1>1, <1>4, <1>12, SetupStackO, PagePlain, Zenon
<1>13. ASSUME NEW p \in Threads, PushArguments(p) PROVE ProcessInv'
  BY <1>1, <1>4, <1>13, PushArgumentsO, LoadPlain, Zenon
<1>14. ASSUME NEW p \in Threads, Done(p) PROVE ProcessInv'
  BY <1>1, <1>3, <1>14, DoneO, DoneKeeps, Zenon
<1>15. ASSUME NEW p \in Threads, FreeCommand(p) PROVE ProcessInv'
  BY <1>1, <1>4, <1>15, FreeCommandO, LoadPlain, Zenon
<1>16. ASSUME NEW p \in Threads, EnterUser(p) \/ UserStep(p) \/ RunTask(p) PROVE ProcessInv'
  BY <1>1, <1>4, <1>16, UserO, UserPlain, Zenon
<1>17. ASSUME NEW p \in Threads, ForgetPagedir(p) PROVE ProcessInv'
  BY <1>1, <1>3, <1>17, ForgetPagedirO, SwitchKeeps, Zenon
<1>18. ASSUME NEW p \in Threads, ActivateBase(p) PROVE ProcessInv'
  BY <1>1, <1>3, <1>18, ActivateBaseO, SwitchKeeps, Zenon
<1>19. ASSUME NEW p \in Threads, DestroyPagedir(p) PROVE ProcessInv'
  BY <1>1, <1>4, <1>19, DestroyPagedirO, ExecutePlain, Zenon
<1>20. ASSUME NEW p \in Threads, CopyCommand(p) PROVE ProcessInv'
  BY <1>1, <1>4, <1>20, CopyCommandO, ExecutePlain, Zenon
<1>21. ASSUME NEW p \in Threads, CreateThread(p) PROVE ProcessInv'
  BY <1>1, <1>4, <1>21, CreateThreadO, ExecutePlain, ZenonT(30)
<1>22. ASSUME NEW p \in Threads, Schedule(p) PROVE ProcessInv'
  BY <1>1, <1>3, <1>22, ScheduleO, SwitchKeeps, ZenonT(30)
<1>23. ASSUME UNCHANGED vars PROVE ProcessInv'
  BY <1>23, Zenon DEF vars, ProcessInv, Cpu, ExecutablesClosed, DirType
<1> QED
  BY <1>5, <1>6, <1>7, <1>8, <1>9, <1>10, <1>11, <1>12, <1>13, <1>14, <1>15, <1>16, <1>17, <1>18, <1>19,
     <1>20, <1>21, <1>22, <1>23, ZenonT(30) DEF Next, Step

(* Every page that is not free and every open file has one owner, and the  *)
(* processor serves the running thread, whatever fails and whenever the    *)
(* timer interrupts: the inductive invariant.                              *)
THEOREM ProcessCorrect == Spec => []ProcessInv
BY InitP, NextP, PTL, SMTT(30) DEF Spec

(* The page directory in the processor was not freed and is a thread's.    *)
LEMMA CpuRight == ProcessInv => CpuServesThread
<1> SUFFICES ASSUME ProcessInv PROVE CpuServesThread
  BY Zenon
<1>1. /\ Owned(m, th) /\ cur \in Threads /\ tss = cur /\ ThreadInv(th[cur]) /\ Apart(m, th[cur])
      /\ \/ m.cr3 = th[cur].pagedir
         \/ th[cur].pc = "activate" /\ m.cr3 = NULL
         \/ th[cur].pc = "exit_activate" /\ m.cr3 = th[cur].pd
  BY ZenonT(30) DEF ProcessInv, Cpu, Owned
<1>2. th[cur].pd # NULL => th[cur].pagedir = NULL
  BY <1>1, ZenonT(30) DEF ThreadInv, Shape, Loading
<1>3. m.cr3 # NULL => m.cr3 = Root(th[cur]) /\ m.cr3 \in {th[cur].pagedir, th[cur].pd}
  BY <1>1, <1>2, ZenonT(30) DEF Root, ThreadInv, Shape
<1>4. m.cr3 # NULL => m.cr3 \in Held(m, th[cur]) /\ m.cr3 \in Frames
  BY <1>1, <1>3, HeldFrames, ZenonT(30) DEF ThreadInv, Frames
<1>5. m.cr3 # NULL => m.cr3 \notin m.free
  BY <1>1, <1>4, ZenonT(30) DEF Owned
<1> QED BY <1>1, <1>3, <1>5, Zenon DEF CpuServesThread

(* The processor never translates through a page directory that was freed, *)
(* although process_exit may be interrupted between any two of its steps,  *)
(* and a user program runs in its own page directory, with its thread's    *)
(* stack in the TSS.                                                       *)
THEOREM ProcessorServes == Spec => []CpuServesThread
BY ProcessCorrect, CpuRight, PTL

(* What a thread has is what the accounts say that it has.                 *)
LEMMA Accounts == ProcessInv => ResourcesAccounted
<1> SUFFICES ASSUME ProcessInv PROVE ResourcesAccounted
  BY Zenon
<1> DEFINE own(p) == {th[p].page, th[p].copy, th[p].child_copy, th[p].kpage} \ {NULL}
           space(p) == LET pd == IF th[p].pagedir # NULL THEN th[p].pagedir ELSE th[p].pd
                       IN  IF pd = NULL THEN {} ELSE {pd} \cup TablesOf(m, pd) \cup MappedBy(m, pd)
<1>1. Owned(m, th) /\ ExecutablesClosed /\ ~m.panic
  BY ZenonT(30) DEF ProcessInv, Owned
<1>2. ASSUME NEW p \in Threads PROVE own(p) \cup space(p) = Held(m, th[p])
  <2>1. PICK pd : pd = Root(th[p])
    BY Zenon
  <2>2. space(p) = IF pd = NULL THEN {} ELSE {pd} \cup TablesOf(m, pd) \cup MappedBy(m, pd)
    BY <2>1, Zenon DEF Root
  <2>3. Held(m, th[p]) = ({th[p].page, th[p].copy, th[p].child_copy, th[p].kpage, pd} \ {NULL})
                         \cup IF pd = NULL THEN {} ELSE TablesOf(m, pd) \cup MappedBy(m, pd)
    BY <2>1, Zenon DEF Held, Own, Inner
  <2> HIDE DEF space
  <2> QED BY <2>2, <2>3, Zenon
<1> HIDE DEF own, space
<1>3. \A p \in Threads : Held(m, th[p]) \subseteq Frames
  BY <1>1, HeldFrames, Zenon DEF Owned
<1>4. Frames \ m.free = UNION {own(p) \cup space(p) : p \in Threads}
  <2>1. \A f : f \in Frames \ m.free <=> \E p \in Threads : f \in Held(m, th[p])
    BY <1>1, <1>3, Zenon DEF Owned
  <2>2. \A f : f \in UNION {own(p) \cup space(p) : p \in Threads} <=> \E p \in Threads : f \in Held(m, th[p])
    BY <1>2, Zenon
  <2> QED BY <2>1, <2>2, Zenon
<1>5. \A p, q \in Threads : p # q => (own(p) \cup space(p)) \cap (own(q) \cup space(q)) = {}
  BY <1>1, <1>2, Zenon DEF Owned
<1>6. PagesAccounted
  BY <1>4, <1>5, Zenon DEF PagesAccounted, own, space
<1> QED BY <1>1, <1>6, Zenon DEF ResourcesAccounted, NoPanic

(* Wherever a load fails and whenever a process exits, no ASSERT of        *)
(* palloc.c or pagedir.c fails, each page that is not free has exactly one *)
(* owner and the open files are those of the loads in progress: nothing is *)
(* freed twice and nothing leaks.                                          *)
THEOREM NothingLost == Spec => []ResourcesAccounted
BY ProcessCorrect, Accounts, PTL
=============================================================================
