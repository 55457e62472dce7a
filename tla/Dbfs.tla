-------------------------------- MODULE Dbfs ---------------------------------
(***************************************************************************)
(* The debugfs modules of src/kernellab-handout: ptree (dbfs_ptree.c) and  *)
(* paddr (dbfs_paddr.c).  Both read the kernel's task table, which is the  *)
(* environment here and does not change while they run.                    *)
(*                                                                         *)
(* ptree: a write of a pid to "input" walks from that task up its parents  *)
(* to the idle task (pid 0), prepending one line "comm (pid)\n" per task   *)
(* to the static buffer buf, cut at MAXLEN bytes; a read of "ptree" copies *)
(* bytes of buf to the user.  buf and curr are globals of the module      *)
(* shared by every writer and reader, without a lock.  A character of a    *)
(* task's line is the token <<"line", p>>: the walk's prepend and cut are  *)
(* about positions and lengths, not about which letters they move.  The    *)
(* text a user writes to "input" is the one token <<"in", p>>.            *)
(*                                                                         *)
(* paddr: a read of "output" takes a pid and a virtual address from the    *)
(* user's buffer, walks that task's page table and returns the physical    *)
(* address in bytes 16-20 of the same buffer.                              *)
(***************************************************************************)
EXTENDS Integers, Sequences, SequencesExt, FiniteSets

CONSTANTS
  Pids,      \* pids of the tasks in the table; 0 is the idle task
  Parent,    \* Parent[p]: the task's parent; the idle task is its own
  LineLen,   \* LineLen[p]: the length of snprintf's "%s (%d)\n" for p
  MAXLEN,    \* the size of buf (512 in the code)
  Writers,   \* threads writing a pid to "input"
  Readers,   \* threads reading "ptree"
  InPids,    \* the pids the writers write
  Lengths,   \* the lengths the readers ask for
  Mm,        \* Mm[p]: the task's mm, or NoMm for a kernel thread
  NoMm,
  UpperOk(_, _, _), \* UpperOk(mm, l, va): level l (pgd .. pmd) of mm's
                    \* page table neither none nor bad for va
  PteVal(_, _),     \* PteVal(mm, va): the pte for va (0: none, odd: present)
  PAGE_SHIFT,       \* in bits
  BYTE,             \* the values a byte holds (256 in the code)
  PMAXLEN,          \* paddr's MAXLEN (64 in the code)
  PReaders,  \* threads reading paddr's "output"
  PReqPids,  \* the pids they ask about
  PReqVAddrs, \* and the virtual addresses
  PLengths,   \* and the lengths
  PhysAddr(_, _) \* the reference: the physical address of a virtual
                 \* address of a pid, or EINVAL

ASSUME 0 \in Pids /\ Parent \in [Pids -> Pids] /\ Parent[0] = 0
ASSUME LineLen \in [Pids -> 1 .. MAXLEN]

NUL == <<"nul">>
NULL == -1            \* pid_task finding no task
Line(p) == [i \in 1 .. LineLen[p] |-> <<"line", p>>]
Nuls(n) == [i \in 1 .. n |-> NUL]

VARIABLES
  buf,       \* static char buf[MAXLEN]
  curr,      \* static struct task_struct *curr, as the task's pid
  wpc,       \* a writer's place in write_pid_to_input
  input_pid, \* a writer's parsed pid
  buf_add,   \* a writer's local buffer
  pos,       \* a reader's file position
  lastpid    \* history: the pid of the last write that returned its length,
             \* NULL before any and after a write that failed

ptreeVars == <<buf, curr, wpc, input_pid, buf_add, pos, lastpid>>

VARIABLES
  task,      \* paddr's static struct task_struct *task, as a pid
  ppc,       \* a paddr reader's place in read_output
  req,       \* the pid, virtual address and length a reader asked with
  reply      \* what the read returned, and bytes 16-20 of the user's buffer

paddrVars == <<task, ppc, req, reply>>
vars == <<ptreeVars, paddrVars>>

(* pid_task(find_get_pid(pid), PIDTYPE_PID): the idle task has no struct  *)
(* pid, so pid 0 finds no task either.                                    *)
pid_task(x) == IF x \in Pids \ {0} THEN x ELSE NULL

-----------------------------------------------------------------------------
(***************************************************************************)
(* write_pid_to_input (dbfs_ptree.c 15-43), one step per access to buf or  *)
(* curr.  copy_from_user puts the user's text at the start of buf.         *)
(***************************************************************************)
WriteCopy(w, p) ==
  /\ wpc[w] = "idle"
  /\ buf' = [buf EXCEPT ![1] = <<"in", p>>]
  /\ wpc' = [wpc EXCEPT ![w] = "parse"]
  /\ UNCHANGED <<curr, input_pid, buf_add, pos, lastpid, paddrVars>>

(* copy_from_user fails on a bad user buffer: the bytes it could not copy *)
(* are zeroed, so the start of buf holds part of the user's text or NUL,  *)
(* and the write returns -EFAULT with buf so left.  No write's result is  *)
(* in buf any more.                                                       *)
WriteFault(w, p) ==
  /\ wpc[w] = "idle"
  /\ \E x \in {<<"in", p>>, NUL} : buf' = [buf EXCEPT ![1] = x]
  /\ lastpid' = NULL
  /\ UNCHANGED <<curr, wpc, input_pid, buf_add, pos, paddrVars>>

(* sscanf(buf, "%u", &input_pid) reads whatever text buf now starts with; *)
(* when that is not a number, input_pid keeps its uninitialised value.    *)
WriteParse(w) ==
  /\ wpc[w] = "parse"
  /\ \E x \in IF buf[1][1] = "in" THEN {buf[1][2]} ELSE Pids \cup {NULL} :
       input_pid' = [input_pid EXCEPT ![w] = x]
  /\ wpc' = [wpc EXCEPT ![w] = "reset"]
  /\ UNCHANGED <<buf, curr, buf_add, pos, lastpid, paddrVars>>

(* Mutant: the memset of buf left out. *)
WriteReset_nomemset(w) ==
  /\ wpc[w] = "reset"
  /\ curr' = pid_task(input_pid[w])
  /\ wpc' = [wpc EXCEPT ![w] = "loop"]
  /\ UNCHANGED <<buf, input_pid, buf_add, pos, lastpid, paddrVars>>

(* memset(buf, 0, MAXLEN); curr = pid_task(find_get_pid(input_pid)) *)
WriteReset(w) ==
  /\ wpc[w] = "reset"
  /\ buf' = Nuls(MAXLEN) /\ curr' = pid_task(input_pid[w])
  /\ wpc' = [wpc EXCEPT ![w] = "loop"]
  /\ UNCHANGED <<input_pid, buf_add, pos, lastpid, paddrVars>>

(* Mutant: memcpy(buf_add + len_add, buf, MAXLEN), the old text not cut. *)
WriteLine_nocut(w) ==
  /\ wpc[w] = "loop"
  /\ CASE curr = NULL -> wpc' = [wpc EXCEPT ![w] = "oops"] /\ UNCHANGED <<buf_add, lastpid>>
       [] curr = 0 -> /\ wpc' = [wpc EXCEPT ![w] = "idle"]
                      /\ lastpid' = input_pid[w] /\ UNCHANGED buf_add
       [] OTHER -> /\ buf_add' = [buf_add EXCEPT ![w] = Line(curr) \o buf]
                   /\ wpc' = [wpc EXCEPT ![w] = "publish"] /\ UNCHANGED lastpid
  /\ UNCHANGED <<buf, curr, input_pid, pos, paddrVars>>

(* Mutant: while(curr), a walk that stops only at a NULL parent. *)
WriteLine_whilecurr(w) ==
  /\ wpc[w] = "loop"
  /\ CASE curr = NULL -> wpc' = [wpc EXCEPT ![w] = "idle"]
                         /\ lastpid' = input_pid[w] /\ UNCHANGED buf_add
       [] OTHER -> /\ buf_add' = [buf_add EXCEPT ![w] =
                         Line(curr) \o SubSeq(buf, 1, MAXLEN - LineLen[curr])]
                   /\ wpc' = [wpc EXCEPT ![w] = "publish"] /\ UNCHANGED lastpid
  /\ UNCHANGED <<buf, curr, input_pid, pos, paddrVars>>

(* while(curr->pid): at pid 0 the write returns; otherwise snprintf the   *)
(* line into buf_add and memcpy the first MAXLEN - len_add bytes of buf   *)
(* after it.  A NULL curr is dereferenced: a kernel oops.                 *)
WriteLine(w) ==
  /\ wpc[w] = "loop"
  /\ CASE curr = NULL -> wpc' = [wpc EXCEPT ![w] = "oops"] /\ UNCHANGED <<buf_add, lastpid>>
       [] curr = 0 -> /\ wpc' = [wpc EXCEPT ![w] = "idle"]
                      /\ lastpid' = input_pid[w] /\ UNCHANGED buf_add
       [] OTHER -> /\ buf_add' = [buf_add EXCEPT ![w] =
                         Line(curr) \o SubSeq(buf, 1, MAXLEN - LineLen[curr])]
                   /\ wpc' = [wpc EXCEPT ![w] = "publish"] /\ UNCHANGED lastpid
  /\ UNCHANGED <<buf, curr, input_pid, pos, paddrVars>>

(* memcpy(buf, buf_add, MAXLEN); curr = curr->parent *)
WritePublish(w) ==
  /\ wpc[w] = "publish"
  /\ buf' = buf_add[w]
  /\ IF curr = NULL THEN wpc' = [wpc EXCEPT ![w] = "oops"] /\ UNCHANGED curr
     ELSE curr' = Parent[curr] /\ wpc' = [wpc EXCEPT ![w] = "loop"]
  /\ UNCHANGED <<input_pid, buf_add, pos, lastpid, paddrVars>>

(***************************************************************************)
(* read_trace_from_output (dbfs_ptree.c 45-56): len is the smaller of     *)
(* length and MAXLEN less the file position, and copy_to_user copies len   *)
(* bytes from the start of buf, whatever the position.  The bytes copied  *)
(* are not kept: no property here is about them.  A read returning 0 is   *)
(* the end of the file, after which the user closes and reopens at 0.     *)
(***************************************************************************)
ReadTrace(r, length) ==
  /\ LET len == IF length < MAXLEN - pos[r] THEN length ELSE MAXLEN - pos[r]
     IN  \/ len > 0 /\ pos' = [pos EXCEPT ![r] = @ + len]
         \/ len = 0 /\ pos' = [pos EXCEPT ![r] = 0]
  /\ UNCHANGED <<buf, curr, wpc, input_pid, buf_add, lastpid, paddrVars>>

-----------------------------------------------------------------------------
(***************************************************************************)
(* read_output (dbfs_paddr.c 15-72).  The user's buffer holds the pid in   *)
(* bytes 0-3 and the virtual address in bytes 8-13, least significant      *)
(* first; the kernel copies len = min(length, MAXLEN) bytes of it into a   *)
(* zeroed buf, and copies len bytes back with the physical address in      *)
(* bytes 16-20.  Two steps: the lookup that sets the global task, and the *)
(* walk of task's page table.                                             *)
(***************************************************************************)
EINVAL == -22

(* Byte i of x, as the user or "(paddr >> (8*i)) & 255" stores it. *)
ByteOf(x, i) == (x \div (BYTE ^ i)) % BYTE

(* The loops "v += ((T)(buf[off+i])) << (8*i)" over k bytes of buf, which *)
(* holds the user's byte only where off + i < len.                         *)
Decode(x, off, k, len) ==
  LET RECURSIVE D(_)
      D(i) == IF i = k THEN 0
              ELSE (IF off + i < len THEN ByteOf(x, i) ELSE 0) * (BYTE ^ i) + D(i + 1)
  IN  D(0)

(* Mutant: the pte value or-ed with the offset, its flags not masked.    *)
Translate_nomask(mm, va) ==
  LET pte == PteVal(mm, va)
  IN  IF (\A l \in 1 .. 4 : UpperOk(mm, l, va)) /\ pte % 2 = 1
      THEN pte + (va % (2 ^ PAGE_SHIFT))
      ELSE EINVAL

(* pgd_offset .. pte_offset_kernel with their none and bad checks, then   *)
(* (pte_val & PAGE_MASK) | (vaddr & ~PAGE_MASK); EINVAL when a level is   *)
(* missing or the page is not present.                                    *)
Translate(mm, va) ==
  LET pte == PteVal(mm, va)
      PAGE == 2 ^ PAGE_SHIFT
  IN  IF (\A l \in 1 .. 4 : UpperOk(mm, l, va)) /\ pte % 2 = 1
      THEN (pte \div PAGE) * PAGE + (va % PAGE)
      ELSE EINVAL

PaddrLookup(t, p, va, length) ==
  /\ ppc[t] \in {"idle", "done"}
  /\ LET len == IF length < PMAXLEN THEN length ELSE PMAXLEN
         pid == Decode(p, 0, 4, len)
     IN  /\ task' = pid_task(pid)
         /\ req' = [req EXCEPT ![t] = [pid |-> p, va |-> va, len |-> len,
                                       vaddr |-> Decode(va, 8, 6, len)]]
         /\ IF pid_task(pid) = NULL
            THEN ppc' = [ppc EXCEPT ![t] = "done"]
                 /\ reply' = [reply EXCEPT ![t] = [ret |-> EINVAL, out |-> <<0, 0, 0, 0, 0>>]]
            ELSE ppc' = [ppc EXCEPT ![t] = "walk"] /\ UNCHANGED reply
  /\ UNCHANGED ptreeVars

(* mm = task->mm reads the global task; a kernel thread has no mm, and    *)
(* pgd_offset(NULL, vaddr) is a kernel oops.                              *)
PaddrWalk(t) ==
  /\ ppc[t] = "walk"
  /\ IF Mm[task] = NoMm THEN ppc' = [ppc EXCEPT ![t] = "oops"] /\ UNCHANGED reply
     ELSE LET paddr == Translate(Mm[task], req[t].vaddr)
          IN  /\ ppc' = [ppc EXCEPT ![t] = "done"]
              /\ reply' = [reply EXCEPT ![t] =
                   IF paddr = EINVAL THEN [ret |-> EINVAL, out |-> <<0, 0, 0, 0, 0>>]
                   ELSE [ret |-> req[t].len,
                         out |-> [i \in 1 .. 5 |->
                                    IF 16 + i - 1 < req[t].len THEN ByteOf(paddr, i - 1) ELSE 0]]]
  /\ UNCHANGED <<task, req, ptreeVars>>

-----------------------------------------------------------------------------
(* The module's statics start zeroed; no handler is running. *)
Init ==
  /\ buf = Nuls(MAXLEN) /\ curr = NULL
  /\ wpc = [w \in Writers |-> "idle"] /\ input_pid = [w \in Writers |-> NULL]
  /\ buf_add = [w \in Writers |-> Nuls(MAXLEN)]
  /\ pos = [r \in Readers |-> 0]
  /\ lastpid = NULL
  /\ task = NULL /\ ppc = [t \in PReaders |-> "idle"]
  /\ req = [t \in PReaders |-> [pid |-> NULL, va |-> 0, len |-> 0, vaddr |-> 0]]
  /\ reply = [t \in PReaders |-> [ret |-> 0, out |-> <<0, 0, 0, 0, 0>>]]

(* The steps a writer takes inside write_pid_to_input. *)
WriteStep(w) == WriteParse(w) \/ WriteReset(w) \/ WriteLine(w) \/ WritePublish(w)

Next ==
  \/ \E w \in Writers : (\E p \in InPids : WriteCopy(w, p) \/ WriteFault(w, p)) \/ WriteStep(w)
  \/ \E r \in Readers, n \in Lengths : ReadTrace(r, n)
  \/ \E t \in PReaders :
       \/ \E p \in PReqPids, va \in PReqVAddrs, n \in PLengths : PaddrLookup(t, p, va, n)
       \/ PaddrWalk(t)

(* A thread inside a handler never blocks: the scheduler runs it on.  The *)
(* users' calls are not fair; they may stop calling at any time.          *)
Spec == Init /\ [][Next]_vars /\ \A w \in Writers : WF_vars(WriteStep(w))

-----------------------------------------------------------------------------
Chars == {NUL} \cup {<<"line", p>> : p \in Pids} \cup {<<"in", p>> : p \in InPids}

TypeOK ==
  /\ buf \in [1 .. MAXLEN -> Chars] /\ curr \in Pids \cup {NULL}
  /\ wpc \in [Writers -> {"idle", "parse", "reset", "loop", "publish", "oops"}]
  /\ \A w \in Writers : buf_add[w] \in [1 .. MAXLEN -> Chars]
  /\ pos \in [Readers -> 0 .. MAXLEN]
  /\ ppc \in [PReaders -> {"idle", "walk", "done", "oops"}]

(* The text of p's ancestry, from the oldest ancestor below the idle task *)
(* down to p, one line per task.                                          *)
RECURSIVE Ancestry(_)
Ancestry(p) == IF p = 0 THEN <<>> ELSE Ancestry(Parent[p]) \o Line(p)

(* The first MAXLEN bytes of that text, NUL-padded. *)
Output(p) == SubSeq(Ancestry(p) \o Nuls(MAXLEN), 1, MAXLEN)

(***************************************************************************)
(* Once a write to "input" has returned its length, none is running and   *)
(* none has failed since, buf holds the ancestry of the pid written,      *)
(* oldest first and cut at MAXLEN: the prepend loop of write_pid_to_input *)
(* (dbfs_ptree.c 29-41) builds it one parent per iteration, keeping the   *)
(* oldest lines when it is too long.                                       *)
(***************************************************************************)
PtreeOutput ==
  (lastpid # NULL /\ \A w \in Writers : wpc[w] = "idle") => buf = Output(lastpid)

(***************************************************************************)
(* Every write to "input" returns: the walk up curr->parent reaches the    *)
(* idle task, whose pid 0 ends the loop although it is its own parent.     *)
(***************************************************************************)
WriteTerminates == \A w \in Writers : wpc[w] # "idle" ~> wpc[w] = "idle"

(***************************************************************************)
(* A read of paddr's "output" answers with the physical address that the  *)
(* task's page table maps the virtual address to, in bytes 16-20 of the   *)
(* user's buffer (dbfs_paddr.c 39-60), and with EINVAL exactly when the   *)
(* task does not exist or the address is not mapped.                       *)
(***************************************************************************)
PaddrCorrect ==
  \A t \in PReaders :
    ppc[t] = "done" =>
      LET phys == PhysAddr(req[t].pid, req[t].va)
          out == reply[t].out
      IN  IF phys = EINVAL THEN reply[t].ret = EINVAL
          ELSE /\ reply[t].ret > 0
               /\ out[1] + BYTE * (out[2] + BYTE * (out[3] + BYTE * (out[4] + BYTE * out[5]))) = phys
====
