SPECIFICATION VoiceSpec
CONSTANTS
  \* the trigger
  wake = wake  word = word  eol = eol
  Keyword <- MCKeyword
  Token = {wake, word}
  Blank = {}
  LineEnd = eol
  LineMax = 2
  Debounce = 1
  MaxBytes = 4
  MaxTalks = 2
  MaxEdges = 1
  MaxStarts = 2
  MaxClock = 2
  \* the memory
  v1 = v1  v2 = v2
  Voice = {v1, v2}
  HistMax = 2
  Limits = {0, 1, 2}
  Every = 2
  MaxFail = 2
  FactMax = 2
  MaxRounds = 3
  NoFile = nofile
INVARIANT VoiceTypes
INVARIANT OneTalkAtATime
INVARIANT MemoryIsKept
PROPERTY FactsStay
PROPERTY VoiceComesToRest
CHECK_DEADLOCK FALSE
