SPECIFICATION VoiceSpec
CONSTANTS
  \* the trigger
  wake = wake  word = word  eol = eol
  Keyword <- MCKeyword
  Token = {wake, word}
  Blank = {}
  LineEnd = eol
  LineMax = 2
  Debounce = 1
  MaxBytes = 4
  MaxTalks = 2
  MaxEdges = 1
  MaxStarts = 2
  MaxClock = 2
  \* the memory, with HIST_MAX, LLM_MAX_HISTORY and EXTRACT_EVERY_ROUNDS
  \* as they are shipped
  v1 = v1  v2 = v2
  Voice = {v1}
  HistMax = 8
  Limits = {3}
  Every = 8
  MaxFail = 2
  FactMax = 2
  MaxRounds = 4
  NoFile = nofile
INVARIANT WindowIsLast
CHECK_DEADLOCK FALSE
