CONSTANTS
  Kinds = {"anthropic", "cursor", "opencode", "zaitokens", "codex", "gemini", "copilot", "antigravity", "minimax", "kimi", "grok", "zaitime", "openrouter", "deepseek", "moonshot"}
  MaxUse = 2
  Margin = 1
  Drop = 1
  Low = 2
  Window = 6
  Grace = 1
  Minute = 0
  Tolerance = 2
  Shift = 3
  Skews <- MCSkews
  PollTimes = {5, 7, 8, 13}
  MaxPolls = 4
  MaxStops = 1
  MaxRestarts = 1
  Null = Null
SPECIFICATION Spec
INVARIANT OneCyclePerWindow
INVARIANT OneWindowPerCycle
INVARIANT MergedOnlyAcrossRestart
INVARIANT SharpChangeSeen
INVARIANT AnnouncedOnce
PROPERTY LogSpec
CHECK_DEADLOCK FALSE
