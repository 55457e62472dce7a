\* Reaping under the handler's fairness: two children run in the background
\* or the foreground, exit, stop or die, with ctrl-z at the terminal.
CONSTANTS
  Pids = {1, 2}
  MAXJOBS = 2
  MAXJID = 3
  Cmds = {"run_fg", "run_bg"}
  JidArgs = {}
  PidArgs = {}
  UserSigs = {"SIGTSTP"}
  ChildEvents = {"exit", "stop", "killed"}
SPECIFICATION Spec
PROPERTIES ReapedEventually
CHECK_DEADLOCK FALSE
