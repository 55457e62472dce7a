\* Job control of tsh: two children, two job slots, every command and event.
CONSTANTS
  Pids = {1, 2}
  MAXJOBS = 2
  MAXJID = 3
  Cmds = {"run_fg", "run_bg", "fg", "bg"}
  JidArgs = {1, 2}
  PidArgs = {1}
  UserSigs = {"SIGINT", "SIGTSTP"}
  ChildEvents = {"exit", "stop", "killed"}
SPECIFICATION Spec
INVARIANTS TypeOK JobsAreChildren PromptHasNoForeground

CHECK_DEADLOCK FALSE
