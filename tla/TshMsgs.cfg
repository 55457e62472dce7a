\* Two children that stop and are killed, ctrl-z at the terminal.
CONSTANTS
  Pids = {1, 2}
  MAXJOBS = 2
  MAXJID = 2
  Cmds = {"run_fg", "run_bg"}
  JidArgs = {}
  PidArgs = {}
  UserSigs = {"SIGTSTP"}
  ChildEvents = {"stop", "killed"}
SPECIFICATION Spec
INVARIANT StopMessageTrue
CHECK_DEADLOCK FALSE
