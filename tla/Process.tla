------------------------------ MODULE Process -------------------------------
(***************************************************************************)
(* User processes (userprog/process.c, userprog/syscall.c, and what        *)
(* userprog/exception.c and userprog/tss.c do for them): process_execute,  *)
(* load in the new thread, system calls, faults and process_exit, in       *)
(* threads that the timer interrupts between any two steps.  The user      *)
(* stack is mapped and a system call's arguments are readable.             *)
(* The content of a page is a record: cnt cells from offset ofs of the     *)
(* file on, and zeros after them.                                          *)
(***************************************************************************)
EXTENDS Pagedir, Sequences

CONSTANTS Threads, main,    \* slots for threads, and the initial thread
          ADDR_MAX,         \* 2^32
          Files,            \* by name: bytes of the name, length, phdrs, elf
          Commands,         \* command lines: file, tokens, read_only
          UserNames,        \* files that programs create and remove
          MaxExecs          \* bound: calls of process_execute

(* Program headers; PT_NOTE stands for the types that load ignores, and    *)
(* PT_DYNAMIC for those that it refuses.                                   *)
Phdrs == [type : {"PT_LOAD", "PT_NOTE", "PT_DYNAMIC"}, offset : Nat, vaddr : 0..(ADDR_MAX - 1),
          filesz : Nat, memsz : 0..(ADDR_MAX - 1), writable : BOOLEAN]

ASSUME ProcessAssumption ==
    /\ IsFiniteSet(Threads) /\ main \in Threads
    /\ ADDR_MAX \in Nat /\ PHYS_BASE <= ADDR_MAX
    /\ \A f \in DOMAIN Files : Files[f].phdrs \in Seq(Phdrs)
    /\ \A cmd \in Commands : cmd.file \in DOMAIN Files
    /\ NULL \notin {"program", "empty"}

VARIABLES m,         \* memory and the processor's translation, as in Pagedir
          data,      \* the contents of the pages of the user pool
          th, cur,   \* the threads, and the running one
          tss,       \* the thread whose stack tss->esp0 is the end of
          dir,       \* the root directory: what each name is
          opened,    \* open files of the file system
          execs, halted

vars == <<m, data, th, cur, tss, dir, opened, execs, halted>>

NoCommand == [file |-> NULL, tokens |-> 0, read_only |-> FALSE]

NoSegment == [upage |-> 0, ofs |-> 0, read |-> 0, zero |-> 0, writable |-> FALSE]

Unused == [pc |-> "unused", page |-> NULL, cmd |-> NoCommand, copy |-> NULL,
           child |-> NoCommand, child_copy |-> NULL, pagedir |-> NULL, pd |-> NULL,
           file |-> NULL, i |-> 0, seg |-> NoSegment, kpage |-> NULL,
           success |-> FALSE, cs |-> "SEL_UCSEG", argc |-> 0]

Init ==
    /\ m = PagedirInit
    /\ data = [f \in UserFrames |-> [ofs |-> 0, cnt |-> 0]]
    /\ th = [p \in Threads |-> IF p = main THEN [Unused EXCEPT !.pc = "idle"] ELSE Unused]
    /\ cur = main /\ tss = main
    /\ dir = [f \in DOMAIN Files |-> "program"]
    /\ opened = 0 /\ execs = 0 /\ halted = "no"

-----------------------------------------------------------------------------
is_user_vaddr(vaddr) == vaddr < PHYS_BASE

validate_segment(phdr, length) ==
    /\ phdr.offset % PGSIZE = phdr.vaddr % PGSIZE
    /\ phdr.offset <= length
    /\ phdr.memsz >= phdr.filesz
    /\ phdr.memsz # 0
    /\ is_user_vaddr(phdr.vaddr)
    /\ is_user_vaddr((phdr.vaddr + phdr.memsz) % ADDR_MAX)
    /\ (phdr.vaddr + phdr.memsz) % ADDR_MAX >= phdr.vaddr
    /\ phdr.vaddr >= PGSIZE

ROUND_UP(x, step) == ((x + step - 1) \div step) * step

(* What load passes to load_segment for a program header.                  *)
Segment(phdr) ==
    LET page_offset == phdr.vaddr % PGSIZE
        read == IF phdr.filesz > 0 THEN page_offset + phdr.filesz ELSE 0
    IN  [upage |-> phdr.vaddr \div PGSIZE, ofs |-> phdr.offset - (phdr.offset % PGSIZE),
         read |-> read, zero |-> ROUND_UP(page_offset + phdr.memsz, PGSIZE) - read,
         writable |-> phdr.writable]

install_page(mem, pd, upage, kpage, writable) ==
    IF pagedir_get_page(mem, pd, upage) # NULL THEN [m |-> mem, ok |-> FALSE]
    ELSE pagedir_set_page(mem, pd, upage, kpage, writable)

(* The page is mapped, or given back.                                      *)
InstallOrFree(mem, pd, upage, kpage, writable) ==
    LET r == install_page(mem, pd, upage, kpage, writable)
    IN  IF r.ok THEN r ELSE [r EXCEPT !.m = palloc_free_page(@, kpage)]

(* process_activate in thread p, with tss_update.                          *)
process_activate(mem, p) == [m |-> pagedir_activate(mem, th[p].pagedir), tss |-> p]

-----------------------------------------------------------------------------
At(p, label) == cur = p /\ th[p].pc = label

Goto(p, label) == th' = [th EXCEPT ![p].pc = label]

Rest == <<data, cur, tss, dir, opened, execs, halted>>

(* Where process_execute returns to: the loop of the initial thread, or    *)
(* the end of syscall_handler, which is thread_exit.                       *)
Returned(t) == [t EXCEPT !.pc = IF t.page = NULL THEN "idle" ELSE "exit",
                         !.child = NoCommand, !.child_copy = NULL]

(* process_execute: a copy of the command line, and then a thread for it.  *)
(* strtok_r in between writes to the caller's string, when the command has *)
(* arguments: a fault in the kernel, which panics, when that is read-only. *)
CopyCommand(p) ==
    /\ At(p, "execute")
    /\ LET r == palloc_get_page(m, KernelFrames)
       IN  /\ m' = r.m
           /\ th' = [th EXCEPT ![p] = IF r.page = NULL THEN Returned(@)
                                      ELSE [@ EXCEPT !.pc = "create", !.child_copy = r.page]]
    /\ UNCHANGED Rest

(* Bound: threads that there can be at the same time.                      *)
FreeSlots == {q \in Threads : th[q].pc = "unused"}

CreateThread(p) ==
    /\ At(p, "create")
    /\ LET r == palloc_get_page(m, KernelFrames)
           faults == th[p].child.read_only /\ th[p].child.tokens > 1
       IN  \/ faults /\ halted' = "panic" /\ UNCHANGED <<m, th>>
           \/ /\ ~faults /\ r.page = NULL
              /\ m' = palloc_free_page(m, th[p].child_copy)
              /\ th' = [th EXCEPT ![p] = Returned(@)]
              /\ UNCHANGED halted
           \/ /\ ~faults /\ r.page # NULL
              /\ m' = r.m
              /\ FreeSlots # {}
              /\ th' = [th EXCEPT ![p] = Returned(@),
                                  ![CHOOSE q \in FreeSlots : TRUE] =
                                      [Unused EXCEPT !.pc = "start", !.page = r.page,
                                           !.cmd = th[p].child, !.copy = th[p].child_copy]]
              /\ UNCHANGED halted
    /\ UNCHANGED <<data, cur, tss, dir, opened, execs>>

-----------------------------------------------------------------------------
(* load in thread p.  Every failure goes to the label done.                *)
File(p) == Files[th[p].cmd.file]

CreatePagedir(p) ==
    /\ At(p, "start")
    /\ LET r == pagedir_create(m)
       IN  /\ m' = r.m
           /\ th' = [th EXCEPT ![p].pagedir = r.page, ![p].pc = IF r.page = NULL THEN "done" ELSE "activate"]
    /\ UNCHANGED Rest

Activate(p) ==
    /\ At(p, "activate")
    /\ LET r == process_activate(m, p) IN m' = r.m /\ tss' = r.tss
    /\ Goto(p, "open")
    /\ UNCHANGED <<data, cur, dir, opened, execs, halted>>

(* filesys_open fails when there is no such file or no memory.             *)
OpenExecutable(p) ==
    /\ At(p, "open")
    /\ \/ /\ dir[th[p].cmd.file] # "absent"
          /\ opened' = opened + 1
          /\ th' = [th EXCEPT ![p].file = dir[th[p].cmd.file], ![p].pc = "header"]
       \/ Goto(p, "done") /\ UNCHANGED opened
    /\ UNCHANGED <<m, data, cur, tss, dir, execs, halted>>

ReadHeader(p) ==
    /\ At(p, "header")
    /\ th' = IF th[p].file = "program" /\ File(p).elf
             THEN [th EXCEPT ![p].i = 1, ![p].pc = "phdr"]
             ELSE [th EXCEPT ![p].pc = "done"]
    /\ UNCHANGED m /\ UNCHANGED Rest

ReadPhdr(p) ==
    /\ At(p, "phdr")
    /\ LET phdr == File(p).phdrs[th[p].i]
       IN  \/ th[p].i > Len(File(p).phdrs) /\ Goto(p, "stack")
           \/ /\ th[p].i <= Len(File(p).phdrs)
              /\ CASE phdr.type = "PT_LOAD" /\ validate_segment(phdr, File(p).length) ->
                          th' = [th EXCEPT ![p].seg = Segment(phdr), ![p].pc = "page"]
                   [] phdr.type = "PT_NOTE" -> th' = [th EXCEPT ![p].i = @ + 1]
                   [] OTHER -> Goto(p, "done")
    /\ UNCHANGED m /\ UNCHANGED Rest

(* What is left of the segment after a page with n bytes of the file.      *)
NextPart(seg, n) ==
    [seg EXCEPT !.upage = @ + 1, !.ofs = @ + n, !.read = @ - n, !.zero = @ - (PGSIZE - n)]

(* Mutant: load_segment waits for a page.                                  *)
WaitForPage(p) ==
    /\ At(p, "page")
    /\ LET r == palloc_get_page(m, UserFrames)
       IN  IF th[p].seg.read = 0 /\ th[p].seg.zero = 0
           THEN th' = [th EXCEPT ![p].i = @ + 1, ![p].seg = NoSegment, ![p].pc = "phdr"] /\ UNCHANGED m
           ELSE /\ m' = r.m
                /\ th' = [th EXCEPT ![p].kpage = r.page, ![p].pc = IF r.page = NULL THEN "page" ELSE "read"]
    /\ UNCHANGED Rest

(* load_segment: a page for the next part of the segment.                  *)
GetSegmentPage(p) ==
    /\ At(p, "page")
    /\ LET r == palloc_get_page(m, UserFrames)
       IN  IF th[p].seg.read = 0 /\ th[p].seg.zero = 0
           THEN th' = [th EXCEPT ![p].i = @ + 1, ![p].seg = NoSegment, ![p].pc = "phdr"] /\ UNCHANGED m
           ELSE /\ m' = r.m
                /\ th' = [th EXCEPT ![p].kpage = r.page, ![p].pc = IF r.page = NULL THEN "done" ELSE "read"]
    /\ UNCHANGED Rest

(* Mutant: the page is kept when the file is too short.                    *)
ReadLeaks(p) ==
    /\ At(p, "read")
    /\ LET seg == th[p].seg
           n   == Min({seg.read, PGSIZE})
           r   == InstallOrFree(m, th[p].pagedir, seg.upage, th[p].kpage, seg.writable)
       IN  IF n > 0 /\ seg.ofs + n > File(p).length
           THEN th' = [th EXCEPT ![p].kpage = NULL, ![p].pc = "done"] /\ UNCHANGED <<m, data>>
           ELSE /\ m' = r.m
                /\ data' = [data EXCEPT ![th[p].kpage] = [ofs |-> seg.ofs, cnt |-> n]]
                /\ th' = [th EXCEPT ![p].kpage = NULL, ![p].pc = IF r.ok THEN "page" ELSE "done",
                              ![p].seg = NextPart(seg, n)]
    /\ UNCHANGED <<cur, tss, dir, opened, execs, halted>>

(* Mutant: the rest of the page keeps what the page held before.           *)
ReadUncleared(p) ==
    /\ At(p, "read")
    /\ LET seg == th[p].seg
           n   == Min({seg.read, PGSIZE})
           r   == InstallOrFree(m, th[p].pagedir, seg.upage, th[p].kpage, seg.writable)
       IN  IF n > 0 /\ seg.ofs + n > File(p).length
           THEN /\ m' = palloc_free_page(m, th[p].kpage)
                /\ th' = [th EXCEPT ![p].kpage = NULL, ![p].pc = "done"] /\ UNCHANGED data
           ELSE /\ m' = r.m
                /\ data' = [data EXCEPT ![th[p].kpage] = [ofs |-> seg.ofs, cnt |-> Max({n, @.cnt})]]
                /\ th' = [th EXCEPT ![p].kpage = NULL, ![p].pc = IF r.ok THEN "page" ELSE "done",
                              ![p].seg = NextPart(seg, n)]
    /\ UNCHANGED <<cur, tss, dir, opened, execs, halted>>

(* The page is read and mapped; it is given back when either fails.        *)
ReadSegmentPage(p) ==
    /\ At(p, "read")
    /\ LET seg == th[p].seg
           n   == Min({seg.read, PGSIZE})
           r   == InstallOrFree(m, th[p].pagedir, seg.upage, th[p].kpage, seg.writable)
       IN  IF n > 0 /\ seg.ofs + n > File(p).length
           THEN /\ m' = palloc_free_page(m, th[p].kpage)
                /\ th' = [th EXCEPT ![p].kpage = NULL, ![p].pc = "done"] /\ UNCHANGED data
           ELSE /\ m' = r.m
                /\ data' = [data EXCEPT ![th[p].kpage] = [ofs |-> seg.ofs, cnt |-> n]]
                /\ th' = [th EXCEPT ![p].kpage = NULL, ![p].pc = IF r.ok THEN "page" ELSE "done",
                              ![p].seg = NextPart(seg, n)]
    /\ UNCHANGED <<cur, tss, dir, opened, execs, halted>>

setup_stack(p) ==
    /\ At(p, "stack")
    /\ LET g == palloc_get_page(m, UserFrames)
           r == InstallOrFree(g.m, th[p].pagedir, PHYS_BASE \div PGSIZE - 1, g.page, TRUE)
       IN  IF g.page = NULL THEN Goto(p, "done") /\ UNCHANGED <<m, data>>
           ELSE /\ m' = r.m
                /\ data' = [data EXCEPT ![g.page] = [ofs |-> 0, cnt |-> 0]]
                /\ Goto(p, IF r.ok THEN "arguments" ELSE "done")
    /\ UNCHANGED <<cur, tss, dir, opened, execs, halted>>

(* The arguments are pushed below the address of if_.esp in start_process, *)
(* where the rest of that interrupt frame is, and not on the user's stack. *)
(* The second strtok_r starts over in the file name, so that this is the   *)
(* only argument.  Its bytes overwrite eflags and the unused half of cs    *)
(* when they are 5 or 6, and cs itself when they are more; the zero that   *)
(* follows overwrites cs when they are at most 4.  The others of the frame *)
(* are data segments, and words that nothing uses.                         *)
PushArguments(p) ==
    /\ At(p, "arguments")
    /\ th' = [th EXCEPT ![p].argc = 1, ![p].success = TRUE, ![p].pc = "done",
                        ![p].cs = IF File(p).name_bytes \in 5..6 THEN @ ELSE NULL]
    /\ UNCHANGED m /\ UNCHANGED Rest

Done(p) ==
    /\ At(p, "done")
    /\ opened' = IF th[p].file = NULL THEN opened ELSE opened - 1
    /\ th' = [th EXCEPT ![p].file = NULL, ![p].seg = NoSegment, ![p].pc = "loaded"]
    /\ UNCHANGED <<m, data, cur, tss, dir, execs, halted>>

(* The rest of start_process.                                              *)
FreeCommand(p) ==
    /\ At(p, "loaded")
    /\ m' = palloc_free_page(m, th[p].copy)
    /\ th' = [th EXCEPT ![p].copy = NULL, ![p].pc = IF th[p].success THEN "intr_exit" ELSE "exit"]
    /\ UNCHANGED Rest

(* Returning to an overwritten cs is a fault in the kernel: kill panics.   *)
EnterUser(p) ==
    /\ At(p, "intr_exit")
    /\ IF th[p].cs = "SEL_UCSEG" THEN Goto(p, "user") /\ UNCHANGED halted
       ELSE halted' = "panic" /\ UNCHANGED th
    /\ UNCHANGED <<m, data, cur, tss, dir, opened, execs>>

-----------------------------------------------------------------------------
(* syscall_handler: whatever the call, it ends in thread_exit.  f->eax is  *)
(* set for a process that does not run again, and the status is printed    *)
(* and kept nowhere.                                                       *)
Exits(p) == Goto(p, "exit")

SYS_HALT(p) == At(p, "user") /\ halted' = "off" /\ UNCHANGED <<m, data, th, cur, tss, dir, opened, execs>>

(* exit, wait, write, the calls that are not implemented, a page fault and *)
(* another exception (kill).                                               *)
Quits(p) ==
    /\ At(p, "user")
    /\ Exits(p)
    /\ UNCHANGED m /\ UNCHANGED Rest

SYS_EXEC(p) ==
    /\ At(p, "user")
    /\ execs < MaxExecs /\ execs' = execs + 1
    /\ \E cmd \in Commands : th' = [th EXCEPT ![p].child = cmd, ![p].pc = "execute"]
    /\ UNCHANGED <<m, data, cur, tss, dir, opened, halted>>

(* The file system calls; a file that is created is no program.            *)
SYS_CREATE(p, f) ==
    /\ At(p, "user")
    /\ dir' = IF dir[f] = "absent" THEN [dir EXCEPT ![f] = "empty"] ELSE dir
    /\ Exits(p)
    /\ UNCHANGED <<m, data, cur, tss, opened, execs, halted>>

SYS_REMOVE(p, f) ==
    /\ At(p, "user")
    /\ dir' = [dir EXCEPT ![f] = "absent"]
    /\ Exits(p)
    /\ UNCHANGED <<m, data, cur, tss, opened, execs, halted>>

-----------------------------------------------------------------------------
(* Mutant: the page directory is taken away only after it was destroyed.   *)
ForgetLater(p) ==
    /\ At(p, "exit")
    /\ th' = [th EXCEPT ![p].pd = th[p].pagedir,
                        ![p].pc = IF th[p].pagedir = NULL THEN "dying" ELSE "exit_activate"]
    /\ UNCHANGED m /\ UNCHANGED Rest

(* process_exit takes pagedir away, activates the base page directory and  *)
(* destroys the process's, with the timer in between.                      *)
ForgetPagedir(p) ==
    /\ At(p, "exit")
    /\ th' = [th EXCEPT ![p].pd = th[p].pagedir, ![p].pagedir = NULL,
                        ![p].pc = IF th[p].pagedir = NULL THEN "dying" ELSE "exit_activate"]
    /\ UNCHANGED m /\ UNCHANGED Rest

ActivateBase(p) ==
    /\ At(p, "exit_activate")
    /\ m' = pagedir_activate(m, NULL)
    /\ Goto(p, "exit_destroy")
    /\ UNCHANGED Rest

DestroyPagedir(p) ==
    /\ At(p, "exit_destroy")
    /\ m' = pagedir_destroy(m, th[p].pd)
    /\ th' = [th EXCEPT ![p].pagedir = NULL, ![p].pd = NULL, ![p].pc = "dying"]
    /\ UNCHANGED Rest

-----------------------------------------------------------------------------
(* The initial thread: run_task; process_wait returns at once.             *)
RunTask(p) ==
    /\ At(p, "idle")
    /\ execs < MaxExecs /\ execs' = execs + 1
    /\ \E cmd \in Commands : ~cmd.read_only /\ th' = [th EXCEPT ![p].child = cmd, ![p].pc = "execute"]
    /\ UNCHANGED <<m, data, cur, tss, dir, opened, halted>>

(* thread_schedule_tail in thread q: its address space is activated, and   *)
(* the page of a thread that has died is freed.                            *)
Schedule(q) ==
    /\ q # cur /\ th[q].pc \notin {"unused", "dying"}
    /\ cur' = q
    /\ LET r == process_activate(m, q)
       IN  /\ tss' = r.tss
           /\ IF th[cur].pc = "dying"
              THEN m' = palloc_free_page(r.m, th[cur].page) /\ th' = [th EXCEPT ![cur] = Unused]
              ELSE m' = r.m /\ UNCHANGED th
    /\ UNCHANGED <<data, dir, opened, execs, halted>>

Step(p) ==
    \/ CopyCommand(p) \/ CreateThread(p)
    \/ CreatePagedir(p) \/ Activate(p) \/ OpenExecutable(p) \/ ReadHeader(p) \/ ReadPhdr(p)
    \/ GetSegmentPage(p) \/ ReadSegmentPage(p) \/ setup_stack(p) \/ PushArguments(p) \/ Done(p)
    \/ FreeCommand(p) \/ EnterUser(p)
    \/ ForgetPagedir(p) \/ ActivateBase(p) \/ DestroyPagedir(p)

UserStep(p) ==
    \/ SYS_HALT(p) \/ Quits(p) \/ SYS_EXEC(p)
    \/ \E f \in UserNames : SYS_CREATE(p, f) \/ SYS_REMOVE(p, f)

Next ==
    /\ halted = "no"
    /\ \E p \in Threads : Step(p) \/ UserStep(p) \/ RunTask(p) \/ Schedule(p)

(* A ready thread is scheduled, and one that is scheduled again and again  *)
(* gets to its next step in the kernel.  What user programs do is free.    *)
Fairness == \A p \in Threads : WF_vars(halted = "no" /\ Schedule(p)) /\ SF_vars(halted = "no" /\ Step(p))

Spec == Init /\ [][Next]_vars /\ Fairness

-----------------------------------------------------------------------------
(* No ASSERT of palloc_free_page or of pagedir.c fails: no page is freed   *)
(* twice and no page is mapped over another.                               *)
NoPanic == ~m.panic

(* The processor never translates through a page directory that was freed, *)
(* whenever the timer interrupts process_exit ("Correct ordering here is   *)
(* crucial").  While a user program runs, the processor uses its page      *)
(* directory, and an interrupt would use the stack of its thread           *)
(* (process_activate).                                                     *)
CpuServesThread ==
    /\ m.cr3 # NULL => /\ m.cr3 \notin m.free
                       /\ \E p \in Threads : m.cr3 \in {th[p].pagedir, th[p].pd}
    /\ th[cur].pc = "user" => m.cr3 = th[cur].pagedir /\ tss = cur

(* Each page that is not free has one owner: a thread, a copy of a command *)
(* line, a segment being read, or one page directory with its tables and   *)
(* pages.  So nothing leaks when a load fails or a process exits.          *)
PagesAccounted ==
    LET own(p) == {th[p].page, th[p].copy, th[p].child_copy, th[p].kpage} \ {NULL}
        space(p) == LET pd == IF th[p].pagedir # NULL THEN th[p].pagedir ELSE th[p].pd
                    IN  IF pd = NULL THEN {} ELSE {pd} \cup TablesOf(m, pd) \cup MappedBy(m, pd)
    IN  /\ Frames \ m.free = UNION {own(p) \cup space(p) : p \in Threads}
        /\ \A p, q \in Threads : p # q => (own(p) \cup space(p)) \cap (own(q) \cup space(q)) = {}

(* A user program starts with the image that its program headers describe: *)
(* each byte of a segment is the byte of the file or zero, with the right  *)
(* protection, although load works in whole pages; no page outside the     *)
(* segments and the stack is mapped.                                       *)
ImageRight ==
    \A p \in {q \in Threads : th[q].pc = "user"} :
        LET loads == {x \in {File(p).phdrs[i] : i \in DOMAIN File(p).phdrs} : x.type = "PT_LOAD"}
            cell(b) == LET c == data[pagedir_get_page(m, th[p].pagedir, b \div PGSIZE)]
                       IN  IF b % PGSIZE < c.cnt THEN c.ofs + (b % PGSIZE) ELSE -1
            covered == {PHYS_BASE \div PGSIZE - 1} \cup
                       {b \div PGSIZE : b \in UNION {x.vaddr .. x.vaddr + x.memsz - 1 : x \in loads}}
        IN  /\ \A x \in loads : \A b \in x.vaddr .. x.vaddr + x.memsz - 1 :
                   /\ EntryOf(m, th[p].pagedir, b \div PGSIZE).p
                   /\ EntryOf(m, th[p].pagedir, b \div PGSIZE).w = x.writable
                   /\ cell(b) = IF b - x.vaddr < x.filesz THEN x.offset + b - x.vaddr ELSE -1
            /\ {v \in UserPages : EntryOf(m, th[p].pagedir, v).p} = covered

(* The executable is open during load and at no other time, also when the  *)
(* load fails (the label done).                                            *)
ExecutablesClosed == opened = Cardinality({p \in Threads : th[p].file # NULL})

(* Wherever a load fails and whenever a process exits, no page is freed    *)
(* twice and no page and no open file is lost.                             *)
ResourcesAccounted == NoPanic /\ PagesAccounted /\ ExecutablesClosed

(* A process that was created runs or is gone in the end, unless the       *)
(* machine stops: no path through start_process gets stuck.                *)
LoadEnds ==
    \A p \in Threads \ {main} : th[p].pc = "start" ~> (th[p].pc \in {"user", "unused"} \/ halted # "no")
=============================================================================
