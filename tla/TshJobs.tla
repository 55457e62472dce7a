------------------------------- MODULE TshJobs -------------------------------
(***************************************************************************)
(* Job control in the tiny shell, src/shlab-handout/tsh.c.                 *)
(*                                                                         *)
(* The shell is one process.  Its main flow (the read/eval loop, eval,     *)
(* do_bgfg, waitfg) is a program counter pc, and the signal handlers it    *)
(* is running are a stack of frames on top of it: a pending signal that    *)
(* is not blocked is delivered by pushing a frame, only the top frame      *)
(* steps, and the main flow steps only when the stack is empty.  Steps are *)
(* cut exactly where the code changes its signal mask or where a handler   *)
(* may read what the interrupted code has half done, so each interleaving  *)
(* the kernel allows is a behaviour of the model.                          *)
(*                                                                         *)
(* Children are processes in the kernel's view (proc): forked but not yet  *)
(* in their own process group, running, stopped (reported to waitpid or    *)
(* not), zombie (exited or killed by a signal), or reaped ("free").  They  *)
(* exit, stop and die on their own, and the shell's kill(-pid, sig) acts   *)
(* on the process group pid.  The user's ctrl-c and ctrl-z make SIGINT and *)
(* SIGTSTP pending for the shell.  Pending signals are a set: a signal     *)
(* that is already pending is not queued twice.                            *)
(***************************************************************************)
EXTENDS Naturals, Sequences, FiniteSets

CONSTANTS
  Pids,         \* process ids fork may return (positive)
  MAXJOBS,      \* tsh.c MAXJOBS: slots of the job list
  Cmds,         \* what the user types: "run_fg", "run_bg" (a program), "fg", "bg"
  JidArgs,      \* job ids the user passes to the bg and fg builtins ("%j")
  PidArgs,      \* process ids the user passes to them
  UserSigs,     \* signals the terminal may send the shell: "SIGINT", "SIGTSTP"
  ChildEvents,  \* what a child may do by itself: "exit", "stop", "killed"
  MAXJID        \* model bound: no fork once nextjid is past it

ASSUME Pids \subseteq Nat \ {0} /\ MAXJOBS \in Nat \ {0} /\ MAXJID \in Nat
ASSUME Cmds \subseteq {"run_fg", "run_bg", "fg", "bg"}
ASSUME UserSigs \subseteq {"SIGINT", "SIGTSTP"}
ASSUME ChildEvents \subseteq {"exit", "stop", "killed"}

(* Job states, tsh.c 25-28. *)
UNDEF == "UNDEF"
FG == "FG"
BG == "BG"
ST == "ST"

Slots == 1 .. MAXJOBS
Job == [pid : Pids \cup {0}, jid : 0 .. MAXJID, state : {UNDEF, FG, BG, ST}]

VARIABLES
  jobs,       \* struct job_t jobs[MAXJOBS]
  nextjid,    \* int nextjid
  pc,         \* the main flow's place in main, eval, do_bgfg and waitfg
  fpid,       \* eval's pid: the child just forked
  wpid,       \* waitfg's argument
  slot,       \* do_bgfg's job pointer, as a slot index
  isbg,       \* eval's and do_bgfg's bg flag
  stack,      \* the signal handlers running, innermost last
  pending,    \* signals pending for the shell
  proc        \* the kernel's state of each child process

vars == <<jobs, nextjid, pc, fpid, wpid, slot, isbg, stack, pending, proc>>

(***************************************************************************)
(* Job list helpers, tsh.c 501-619.  A scan "for (i = 0; i < MAXJOBS; i++)" *)
(* returning the first match is the least matching slot.                   *)
(***************************************************************************)
clearjob == [pid |-> 0, jid |-> 0, state |-> UNDEF]

First(S) == IF S = {} THEN 0 ELSE CHOOSE i \in S : \A k \in S : i <= k

maxjid(js) == LET used == {js[i].jid : i \in Slots}
              IN  CHOOSE m \in used \cup {0} : \A x \in used : x <= m

(* addjob (529-552): the first free slot takes the job and nextjid++, and   *)
(* nextjid wraps to 1 past MAXJOBS.  With no free slot nothing changes.     *)
addjob(js, nj, pid, state) ==
  LET i == First({k \in Slots : js[k].pid = 0})
  IN  IF pid < 1 \/ i = 0 THEN [js |-> js, nj |-> nj]
      ELSE [js |-> [js EXCEPT ![i] = [pid |-> pid, jid |-> nj, state |-> state]],
            nj |-> IF nj + 1 > MAXJOBS THEN 1 ELSE nj + 1]

(* Mutant: nextjid = maxjid(jobs), the + 1 dropped. *)
deletejob_nomax(js, nj, pid) ==
  LET i == First({k \in Slots : js[k].pid = pid})
  IN  IF pid < 1 \/ i = 0 THEN [js |-> js, nj |-> nj]
      ELSE LET cleared == [js EXCEPT ![i] = clearjob]
           IN  [js |-> cleared, nj |-> maxjid(cleared)]

(* deletejob (555-570): clear the job's slot and set nextjid past the      *)
(* largest job id left.                                                    *)
deletejob(js, nj, pid) ==
  LET i == First({k \in Slots : js[k].pid = pid})
  IN  IF pid < 1 \/ i = 0 THEN [js |-> js, nj |-> nj]
      ELSE LET cleared == [js EXCEPT ![i] = clearjob]
           IN  [js |-> cleared, nj |-> maxjid(cleared) + 1]

(* fgpid (573-580): the pid of the first FG slot, or 0. *)
fgpid(js) == LET i == First({k \in Slots : js[k].state = FG})
             IN  IF i = 0 THEN 0 ELSE js[i].pid

(* getjobpid and getjobjid (583-605): the first matching slot, 0 for NULL. *)
getjobpid(js, pid) == IF pid < 1 THEN 0 ELSE First({k \in Slots : js[k].pid = pid})
getjobjid(js, jid) == IF jid < 1 THEN 0 ELSE First({k \in Slots : js[k].jid = jid})

-----------------------------------------------------------------------------
(***************************************************************************)
(* Signals and masks.  The main flow's mask at each pc is what the code    *)
(* has set there with Sigprocmask; a handler frame blocks its own signal   *)
(* (Signal installs no SA_NODEFER), and sigchld_handler blocks every       *)
(* signal around its job-list update (432-453).                            *)
(***************************************************************************)
Sigs == {"SIGCHLD", "SIGINT", "SIGTSTP"}

MainMask ==
  CASE pc \in {"eval_add", "wf_check"} -> {"SIGCHLD"}
    [] OTHER -> {}

Mask ==
  MainMask \cup UNION {IF stack[k].ph = "update" THEN Sigs ELSE {stack[k].sig}
                       : k \in DOMAIN stack}

Top == stack[Len(stack)]

(* A child's process group exists once it has called setpgid(0, 0), until *)
(* it is reaped; a zombie still belongs to it.                            *)
GroupExists(p) == p \in Pids /\ proc[p] \in {"run", "stop_new", "stop", "exited", "signaled"}

(* What kill(-p, sig) does to the child leading group p (p # 0).  A        *)
(* stopped child does not act on SIGINT or SIGTSTP until continued; the    *)
(* kernel sends SIGCHLD for a stop, a death and a continue.                *)
SignalGroup(p, sig) ==
  CASE sig = "SIGINT" /\ proc[p] = "run" ->
         proc' = [proc EXCEPT ![p] = "signaled"] /\ pending' = pending \cup {"SIGCHLD"}
    [] sig = "SIGTSTP" /\ proc[p] = "run" ->
         proc' = [proc EXCEPT ![p] = "stop_new"] /\ pending' = pending \cup {"SIGCHLD"}
    [] sig = "SIGCONT" /\ proc[p] \in {"stop_new", "stop"} ->
         proc' = [proc EXCEPT ![p] = "run"] /\ pending' = pending \cup {"SIGCHLD"}
    [] OTHER -> UNCHANGED <<proc, pending>>

(* Kill (787-793) of kill(-p, sig): kill(0, sig) signals the shell's own  *)
(* group, which holds no stopped job; kill of a group that does not exist  *)
(* fails, and unix_error exits the shell.                                  *)
KillFails(p) == p # 0 /\ ~GroupExists(p)
KillEffect(p, sig) == IF p = 0 THEN UNCHANGED <<proc, pending>> ELSE SignalGroup(p, sig)

(* unix_error (671-675): the shell exits. *)
Die ==
  /\ pc' = "dead" /\ stack' = <<>>
  /\ UNCHANGED <<jobs, nextjid, fpid, wpid, slot, isbg, pending, proc>>

ShellAlive == pc # "dead"

(* A handler's frame when its signal is delivered. *)
Frame(sig) == [sig |-> sig, ph |-> IF sig = "SIGCHLD" THEN "wait" ELSE "read",
               pid |-> 0, st |-> "none"]

(* Sigprocmask unblocking SIGCHLD, with no handler running: a SIGCHLD     *)
(* already pending is delivered before sigprocmask returns, so its        *)
(* handler runs before the main flow's next statement.                     *)
UnblockChld ==
  IF "SIGCHLD" \in pending
  THEN stack' = <<Frame("SIGCHLD")>> /\ pending' = pending \ {"SIGCHLD"}
  ELSE UNCHANGED <<stack, pending>>

-----------------------------------------------------------------------------
Init ==
  /\ jobs = [i \in Slots |-> clearjob] /\ nextjid = 1        \* initjobs (510-515)
  /\ pc = "read" /\ fpid = 0 /\ wpid = 0 /\ slot = 0 /\ isbg = FALSE
  /\ stack = <<>> /\ pending = {}
  /\ proc = [p \in Pids |-> "free"]

MainStep == ShellAlive /\ stack = <<>>

(* eval (201-210) for a program: block SIGCHLD and fork.  The child       *)
(* starts in the shell's process group.  Job ids grow without bound     *)
(* while jobs outlive each other (deletejob sets nextjid past the largest *)
(* left), so the model forks only while nextjid is at most MAXJID.        *)
EvalFork(bg) ==
  /\ MainStep /\ pc = "read" /\ nextjid <= MAXJID
  /\ \E p \in Pids :
       /\ proc[p] = "free"
       /\ proc' = [proc EXCEPT ![p] = "nogrp"]
       /\ fpid' = p
  /\ isbg' = bg /\ pc' = "eval_add"
  /\ UNCHANGED <<jobs, nextjid, wpid, slot, stack, pending>>

(* eval (220-228): addjob with SIGCHLD blocked, unblock, and for a        *)
(* foreground job go to waitfg(pid).                                       *)
EvalAdd ==
  /\ MainStep /\ pc = "eval_add"
  /\ \E r \in {addjob(jobs, nextjid, fpid, IF isbg THEN BG ELSE FG)} :
       jobs' = r.js /\ nextjid' = r.nj
  /\ pc' = IF isbg THEN "msg" ELSE "wf_entry"
  /\ wpid' = fpid
  /\ UnblockChld
  /\ UNCHANGED <<fpid, slot, isbg, proc>>

(* waitfg (400): block SIGCHLD. *)
WaitfgBlock ==
  /\ MainStep /\ pc = "wf_entry"
  /\ pc' = "wf_check"
  /\ UNCHANGED <<jobs, nextjid, fpid, wpid, slot, isbg, stack, pending, proc>>

(* waitfg (402-405): while pid is the foreground job, sigsuspend; else    *)
(* restore the mask and return.  Either unblocks SIGCHLD.                  *)
WaitfgCheck ==
  /\ MainStep /\ pc = "wf_check"
  /\ pc' = IF wpid = fgpid(jobs) THEN "wf_suspend" ELSE "msg"
  /\ UnblockChld
  /\ UNCHANGED <<jobs, nextjid, fpid, wpid, slot, isbg, proc>>

(* do_bgfg (331-363): look the job up, with no signal blocked.  No such   *)
(* job prints a message and returns.                                       *)
BgfgLookup(bg, i) ==
  /\ MainStep /\ pc = "read"
  /\ pc' = IF i = 0 THEN "msg" ELSE "bgfg_cont"
  /\ slot' = i /\ isbg' = bg
  /\ UNCHANGED <<jobs, nextjid, fpid, wpid, stack, pending, proc>>

(* Mutant: job->state = FG whatever the command. *)
BgfgCont_allfg ==
  /\ MainStep /\ pc = "bgfg_cont"
  /\ LET p == jobs[slot].pid
     IN  IF KillFails(p) THEN Die
         ELSE /\ KillEffect(p, "SIGCONT")
              /\ jobs' = [jobs EXCEPT ![slot].state = FG]
              /\ pc' = IF isbg THEN "msg" ELSE "bgfg_wait"
              /\ UNCHANGED <<nextjid, fpid, wpid, slot, isbg, stack>>

(* do_bgfg (365-378): block SIGCHLD, SIGCONT the job's group, set its     *)
(* state, unblock.  The job is read through the pointer found before.     *)
BgfgCont ==
  /\ MainStep /\ pc = "bgfg_cont"
  /\ LET p == jobs[slot].pid
     IN  IF KillFails(p) THEN Die
         ELSE /\ KillEffect(p, "SIGCONT")
              /\ jobs' = [jobs EXCEPT ![slot].state = IF isbg THEN BG ELSE FG]
              /\ pc' = IF isbg THEN "msg" ELSE "bgfg_wait"
              /\ UNCHANGED <<nextjid, fpid, wpid, slot, isbg, stack>>

(* do_bgfg (380-381) then waitfg (400): waitfg(job->pid) reads the job    *)
(* again, after the unblock, and blocks SIGCHLD.                           *)
BgfgWait ==
  /\ MainStep /\ pc = "bgfg_wait"
  /\ wpid' = jobs[slot].pid /\ pc' = "wf_check"
  /\ UNCHANGED <<jobs, nextjid, fpid, slot, isbg, stack, pending, proc>>

(* eval (233-242): print the handler's messages; back to the read loop.  *)
(* eval's and do_bgfg's locals are dead from here on and are cleared.    *)
EvalMsgs ==
  /\ MainStep /\ pc = "msg"
  /\ pc' = "read"
  /\ fpid' = 0 /\ wpid' = 0 /\ slot' = 0 /\ isbg' = FALSE
  /\ UNCHANGED <<jobs, nextjid, stack, pending, proc>>

-----------------------------------------------------------------------------
(***************************************************************************)
(* Signal delivery and the handlers (412-491).  A signal pending and not   *)
(* blocked is delivered: its handler's frame is pushed.  When the last     *)
(* frame returns while the main flow is in sigsuspend, sigsuspend returns. *)
(***************************************************************************)
Deliver(sig) ==
  /\ ShellAlive /\ sig \in pending /\ sig \notin Mask
  /\ stack' = Append(stack, Frame(sig))
  /\ pending' = pending \ {sig}
  /\ UNCHANGED <<jobs, nextjid, pc, fpid, wpid, slot, isbg, proc>>

Return ==
  /\ stack' = SubSeq(stack, 1, Len(stack) - 1)
  /\ pc' = IF Len(stack) = 1 /\ pc = "wf_suspend" THEN "wf_check" ELSE pc

HandlerStep(sig, ph) == ShellAlive /\ stack # <<>> /\ Top.sig = sig /\ Top.ph = ph

SetTop(f) == stack' = [stack EXCEPT ![Len(stack)] = f]

(* sigchld_handler (428): waitpid(-1, &status, WNOHANG|WUNTRACED) reaps a  *)
(* zombie or reports a new stop, of any child; with none it returns 0 and  *)
(* the handler returns.                                                    *)
ChldWaitpid ==
  /\ HandlerStep("SIGCHLD", "wait")
  /\ \/ \E p \in Pids :
          /\ proc[p] \in {"exited", "signaled", "stop_new"}
          /\ proc' = [proc EXCEPT ![p] = IF proc[p] = "stop_new" THEN "stop" ELSE "free"]
          /\ SetTop([Top EXCEPT !.ph = "reaped", !.pid = p, !.st = proc[p]])
          /\ UNCHANGED pc
     \/ /\ \A p \in Pids : proc[p] \notin {"exited", "signaled", "stop_new"}
        /\ Return /\ UNCHANGED proc
  /\ UNCHANGED <<jobs, nextjid, fpid, wpid, slot, isbg, pending>>

(* sigchld_handler (432): block every signal.  Until then only SIGCHLD is *)
(* blocked, and a SIGINT or SIGTSTP handler may run on top.               *)
ChldBlock ==
  /\ HandlerStep("SIGCHLD", "reaped")
  /\ SetTop([Top EXCEPT !.ph = "update"])
  /\ UNCHANGED <<jobs, nextjid, pc, fpid, wpid, slot, isbg, pending, proc>>

(* Mutant: no WIFSIGNALED branch; a killed child's job stays. *)
ChldUpdate_keepsig ==
  /\ HandlerStep("SIGCHLD", "update")
  /\ IF Top.st = "stop_new"
     THEN LET i == getjobpid(jobs, Top.pid)
          IN  /\ jobs' = IF i = 0 THEN jobs ELSE [jobs EXCEPT ![i].state = ST]
              /\ UNCHANGED nextjid
     ELSE IF Top.st = "signaled" THEN UNCHANGED <<jobs, nextjid>>
     ELSE \E r \in {deletejob(jobs, nextjid, Top.pid)} : jobs' = r.js /\ nextjid' = r.nj
  /\ SetTop([Top EXCEPT !.ph = "wait", !.pid = 0, !.st = "none"])
  /\ UNCHANGED <<pc, fpid, wpid, slot, isbg, pending, proc>>

(* Mutant: "if" for "while": the handler returns after one child. *)
ChldUpdate_once ==
  /\ HandlerStep("SIGCHLD", "update")
  /\ IF Top.st = "stop_new"
     THEN LET i == getjobpid(jobs, Top.pid)
          IN  /\ jobs' = IF i = 0 THEN jobs ELSE [jobs EXCEPT ![i].state = ST]
              /\ UNCHANGED nextjid
     ELSE \E r \in {deletejob(jobs, nextjid, Top.pid)} : jobs' = r.js /\ nextjid' = r.nj
  /\ Return
  /\ UNCHANGED <<fpid, wpid, slot, isbg, pending, proc>>

(* sigchld_handler (434-453), with every signal blocked: an exited or     *)
(* killed child's job is deleted, a stopped child's job becomes ST.       *)
ChldUpdate ==
  /\ HandlerStep("SIGCHLD", "update")
  /\ IF Top.st = "stop_new"
     THEN LET i == getjobpid(jobs, Top.pid)
          IN  /\ jobs' = IF i = 0 THEN jobs ELSE [jobs EXCEPT ![i].state = ST]
              /\ UNCHANGED nextjid
     ELSE \E r \in {deletejob(jobs, nextjid, Top.pid)} : jobs' = r.js /\ nextjid' = r.nj
  /\ SetTop([Top EXCEPT !.ph = "wait", !.pid = 0, !.st = "none"])
  /\ UNCHANGED <<pc, fpid, wpid, slot, isbg, pending, proc>>

(* sigint_handler and sigtstp_handler (464-491): read fgpid(jobs), with   *)
(* nothing blocked but the handler's own signal; return if it is 0.       *)
FwdRead(sig) ==
  /\ HandlerStep(sig, "read")
  /\ IF fgpid(jobs) = 0 THEN Return
     ELSE SetTop([Top EXCEPT !.ph = "kill", !.pid = fgpid(jobs)]) /\ UNCHANGED pc
  /\ UNCHANGED <<jobs, nextjid, fpid, wpid, slot, isbg, pending, proc>>

(* ... then Kill(-pid, sig) and return. *)
FwdKill(sig) ==
  /\ HandlerStep(sig, "kill")
  /\ IF KillFails(Top.pid) THEN Die
     ELSE KillEffect(Top.pid, sig) /\ Return
          /\ UNCHANGED <<jobs, nextjid, fpid, wpid, slot, isbg>>

-----------------------------------------------------------------------------
(* The children and the terminal.  A child first puts itself in its own   *)
(* process group (211); then it runs its program, which may exit, stop or *)
(* be killed from outside.  The kernel makes SIGCHLD pending each time.   *)
ChildSetpgid(p) ==
  /\ proc[p] = "nogrp" /\ proc' = [proc EXCEPT ![p] = "run"]
  /\ UNCHANGED <<jobs, nextjid, pc, fpid, wpid, slot, isbg, stack, pending>>

ChildEvent(p, e) ==
  /\ \/ e = "exit" /\ proc[p] = "run" /\ proc' = [proc EXCEPT ![p] = "exited"]
     \/ e = "stop" /\ proc[p] = "run" /\ proc' = [proc EXCEPT ![p] = "stop_new"]
     \/ e = "killed" /\ proc[p] \in {"run", "stop_new", "stop"}
        /\ proc' = [proc EXCEPT ![p] = "signaled"]
  /\ pending' = pending \cup {"SIGCHLD"}
  /\ UNCHANGED <<jobs, nextjid, pc, fpid, wpid, slot, isbg, stack>>

(* ctrl-c or ctrl-z at the terminal. *)
Terminal(sig) ==
  /\ ShellAlive /\ pending' = pending \cup {sig}
  /\ UNCHANGED <<jobs, nextjid, pc, fpid, wpid, slot, isbg, stack, proc>>

-----------------------------------------------------------------------------
(* The user types a command at the prompt (main 154-170, builtin_cmd). *)
ReadCommand ==
  \E c \in Cmds :
    \/ c = "run_fg" /\ EvalFork(FALSE)
    \/ c = "run_bg" /\ EvalFork(TRUE)
    \/ c \in {"fg", "bg"} /\ \E j \in JidArgs : BgfgLookup(c = "bg", getjobjid(jobs, j))
    \/ c \in {"fg", "bg"} /\ \E p \in PidArgs : BgfgLookup(c = "bg", getjobpid(jobs, p))

(* The main flow's steps, the sigchld handler's and a forwarding handler's. *)
MainRuns == EvalAdd \/ WaitfgBlock \/ WaitfgCheck \/ BgfgCont \/ BgfgWait \/ EvalMsgs
ChldRuns == ChldWaitpid \/ ChldBlock \/ ChldUpdate
FwdRuns(sig) == FwdRead(sig) \/ FwdKill(sig)

Next ==
  \/ ReadCommand
  \/ MainRuns
  \/ \E sig \in Sigs : Deliver(sig)
  \/ ChldRuns
  \/ \E sig \in {"SIGINT", "SIGTSTP"} : FwdRuns(sig)
  \/ \E p \in Pids : ChildSetpgid(p) \/ \E e \in ChildEvents : ChildEvent(p, e)
  \/ \E sig \in UserSigs : Terminal(sig)

(* Fairness.  The kernel delivers a pending signal at the next return to  *)
(* user mode with it unblocked, so a signal unblocked infinitely often is *)
(* delivered (strong fairness: waitfg unblocks SIGCHLD only inside        *)
(* sigsuspend).  Code that is scheduled infinitely often runs its next    *)
(* step: the main flow and each handler frame may be interrupted again    *)
(* and again by a handler on top, but the user's keystrokes come slower   *)
(* than a handler's few instructions, so these are strongly fair too.     *)
(* A forked child's setpgid is weakly fair.  The user's commands and      *)
(* keystrokes and the children's programs owe nothing.                    *)
Fairness ==
  /\ SF_vars(MainRuns) /\ SF_vars(ChldRuns)
  /\ \A sig \in Sigs : SF_vars(Deliver(sig))
  /\ \A sig \in {"SIGINT", "SIGTSTP"} : SF_vars(FwdRuns(sig))
  /\ \A p \in Pids : WF_vars(ChildSetpgid(p))

Spec == Init /\ [][Next]_vars /\ Fairness

-----------------------------------------------------------------------------
TypeOK ==
  /\ jobs \in [Slots -> Job] /\ nextjid \in 1 .. MAXJID + 1
  /\ pc \in {"read", "eval_add", "wf_entry", "wf_check", "wf_suspend",
             "bgfg_cont", "bgfg_wait", "msg", "dead"}
  /\ fpid \in Pids \cup {0} /\ wpid \in Pids \cup {0} /\ slot \in Slots \cup {0}
  /\ pending \subseteq Sigs
  /\ proc \in [Pids -> {"free", "nogrp", "run", "stop_new", "stop", "exited", "signaled"}]

(* A job in the table names a child the shell has not reaped yet, except  *)
(* the one the sigchld handler has just reaped and is about to delete      *)
(* (428-452): kill(-pid) and getjobpid rely on the pid being a live child. *)
JustReaped(p) ==
  \E k \in DOMAIN stack : /\ stack[k].ph \in {"reaped", "update"}
                          /\ stack[k].pid = p /\ stack[k].st # "stop_new"

JobsAreChildren ==
  ShellAlive => \A i \in Slots : jobs[i].pid # 0 =>
                  proc[jobs[i].pid] # "free" \/ JustReaped(jobs[i].pid)

(* When the shell prompts (main 155-170), no job is in the foreground:     *)
(* eval and do_bgfg return only after waitfg has seen its job leave FG.    *)
PromptHasNoForeground == (pc = "read" /\ stack = <<>>) => fgpid(jobs) = 0

(* sigchld_handler "reaps all available zombie children" (417-421): a     *)
(* child that has exited or been killed is eventually reaped while the    *)
(* shell lives, though SIGCHLDs that arrive together are one pending      *)
(* signal.                                                                 *)
ReapedEventually ==
  \A p \in Pids : (ShellAlive /\ proc[p] \in {"exited", "signaled"})
                    ~> (proc[p] = "free" \/ ~ShellAlive)

(* sigint_handler and sigtstp_handler forward ctrl-c and ctrl-z to the    *)
(* foreground job (457-491); the shell itself never exits through        *)
(* unix_error on the way.                                                  *)
ShellSurvives == ShellAlive

(* waitfg "blocks until process pid is no longer the foreground process"  *)
(* (393-408): once the child waited for has terminated or stopped, or     *)
(* there is no child to wait for, waitfg returns.                          *)
WaitPcs == {"wf_entry", "wf_check", "wf_suspend"}
ForegroundDone == wpid = 0 \/ proc[wpid] \notin {"nogrp", "run"}

====
