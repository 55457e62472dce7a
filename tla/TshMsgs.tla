------------------------------- MODULE TshMsgs -------------------------------
(***************************************************************************)
(* The stop and termination messages of the tiny shell, tsh.c, on top of  *)
(* its job control (TshJobs).  sigchld_handler does not print: it leaves   *)
(* what happened in msg_jid, msg_pid and msg_sig and raises stop_msg or    *)
(* term_msg (90-95, 436-450), and eval prints and lowers the flags when it *)
(* is done with the command (233-242).  The handler may run between any   *)
(* two of eval's steps, since eval blocks no signal there.                 *)
(*                                                                         *)
(* Every variable and constant of TshJobs has the same name here and is    *)
(* substituted implicitly.  Each action is a TshJobs action with the       *)
(* message state left alone, except the handler's update, which also       *)
(* writes the message, and eval's end, which prints.  msg_sig is kept as   *)
(* the kind of signal it holds: WSTOPSIG gives a stop signal, WTERMSIG a   *)
(* terminating one, and the two sets are disjoint.  msg_jid is pid2jid of *)
(* msg_pid, written in the same step, so msg_pid stands for both.         *)
(***************************************************************************)
EXTENDS Naturals, Sequences

CONSTANTS Pids, MAXJOBS, Cmds, JidArgs, PidArgs, UserSigs, ChildEvents, MAXJID

VARIABLES jobs, nextjid, pc, fpid, wpid, slot, isbg, stack, pending, proc,
          stop_msg, term_msg,  \* the message flags
          msg_pid,             \* msg_jid and msg_pid: the child the message is about
          msg_sig              \* "stop" or "term": the kind of signal in msg_sig

J == INSTANCE TshJobs
Top == J!Top

msgvars == <<stop_msg, term_msg, msg_pid, msg_sig>>
vars == <<jobs, nextjid, pc, fpid, wpid, slot, isbg, stack, pending, proc, msgvars>>

(* static volatile sig_atomic_t stop_msg = 0, term_msg = 0; the data are   *)
(* zero-initialised statics.                                               *)
Init ==
  /\ J!Init
  /\ stop_msg = FALSE /\ term_msg = FALSE /\ msg_pid = 0 /\ msg_sig = "none"

(* sigchld_handler (434-453), every signal blocked: as in TshJobs, and a   *)
(* stop or a death by a signal is also written to the message, overwriting *)
(* one eval has not printed yet.  A normal exit writes nothing.            *)
ChldUpdate ==
  /\ J!ChldUpdate
  /\ CASE Top.st = "stop_new" ->
            msg_pid' = Top.pid /\ msg_sig' = "stop" /\ stop_msg' = TRUE
            /\ UNCHANGED term_msg
       [] Top.st = "signaled" ->
            msg_pid' = Top.pid /\ msg_sig' = "term" /\ term_msg' = TRUE
            /\ UNCHANGED stop_msg
       [] OTHER -> UNCHANGED msgvars


(* eval (233, 238): test a flag; no signal is blocked. *)
TestStop ==
  /\ J!MainStep /\ pc = "msg"
  /\ pc' = IF stop_msg THEN "print_stop" ELSE "test_term"
  /\ UNCHANGED <<jobs, nextjid, fpid, wpid, slot, isbg, stack, pending, proc, msgvars>>

TestTerm ==
  /\ J!MainStep /\ pc = "test_term"
  /\ pc' = IF term_msg THEN "print_term" ELSE "done"
  /\ UNCHANGED <<jobs, nextjid, fpid, wpid, slot, isbg, stack, pending, proc, msgvars>>

(* eval (234-235, 239-240): printf reads msg_jid, msg_pid and msg_sig.  The *)
(* output is not kept: the properties are stated on the state it reads.   *)
PrintStop ==
  /\ J!MainStep /\ pc = "print_stop"
  /\ pc' = "clear_stop"
  /\ UNCHANGED <<jobs, nextjid, fpid, wpid, slot, isbg, stack, pending, proc, msgvars>>

PrintTerm ==
  /\ J!MainStep /\ pc = "print_term"
  /\ pc' = "clear_term"
  /\ UNCHANGED <<jobs, nextjid, fpid, wpid, slot, isbg, stack, pending, proc, msgvars>>

(* eval (236, 241): lower the flag just printed. *)
ClearStop ==
  /\ J!MainStep /\ pc = "clear_stop"
  /\ stop_msg' = FALSE /\ pc' = "test_term"
  /\ UNCHANGED <<jobs, nextjid, fpid, wpid, slot, isbg, stack, pending, proc,
                 term_msg, msg_pid, msg_sig>>

ClearTerm ==
  /\ J!MainStep /\ pc = "clear_term"
  /\ term_msg' = FALSE /\ pc' = "done"
  /\ UNCHANGED <<jobs, nextjid, fpid, wpid, slot, isbg, stack, pending, proc,
                 stop_msg, msg_pid, msg_sig>>

(* eval returns to the read loop; its and do_bgfg's locals are dead. *)
EvalReturn ==
  /\ J!MainStep /\ pc = "done"
  /\ pc' = "read"
  /\ fpid' = 0 /\ wpid' = 0 /\ slot' = 0 /\ isbg' = FALSE
  /\ UNCHANGED <<jobs, nextjid, stack, pending, proc, msgvars>>

EvalMsgs == TestStop \/ PrintStop \/ ClearStop \/ TestTerm \/ PrintTerm \/ ClearTerm \/ EvalReturn

(* Every other step of TshJobs, with the message left alone. *)
JobSteps ==
  \/ J!ReadCommand
  \/ J!EvalAdd \/ J!WaitfgBlock \/ J!WaitfgCheck \/ J!BgfgCont \/ J!BgfgWait
  \/ \E sig \in J!Sigs : J!Deliver(sig)
  \/ J!ChldWaitpid \/ J!ChldBlock
  \/ \E sig \in {"SIGINT", "SIGTSTP"} : J!FwdRuns(sig)
  \/ \E p \in Pids : J!ChildSetpgid(p) \/ \E e \in ChildEvents : J!ChildEvent(p, e)
  \/ \E sig \in UserSigs : J!Terminal(sig)

Next ==
  \/ JobSteps /\ UNCHANGED msgvars
  \/ ChldUpdate
  \/ EvalMsgs

Spec == Init /\ [][Next]_vars

-----------------------------------------------------------------------------
(* What the shell prints at line 234, "Job [%d] (%d) stopped by signal %d", *)
(* is true: when eval prints a stop message, the child it names was stopped *)
(* by the signal it names, whatever SIGCHLDs came in between.              *)
StopMessageTrue == (J!MainStep /\ pc = "print_stop") => msg_sig = "stop"
====
