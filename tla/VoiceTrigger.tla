---------------------------- MODULE VoiceTrigger ----------------------------
(***************************************************************************)
(* The wake-up daemon of the voice assistant (trigger.c): it reads bytes   *)
(* of a serial line and the level of a GPIO, starts one conversation (a    *)
(* child process) per wake-up and ignores what arrives while it runs.      *)
(* Bytes, levels, the end of a conversation and signals come at any time   *)
(* between the steps of its loop.                                          *)
(***************************************************************************)
EXTENDS Integers, FiniteSets, Sequences, SequencesExt

CONSTANTS
  Keyword,    \* the tokens of uart_keyword; <<>> if any line wakes
  Token,      \* what the serial line carries, apart from line ends
  Blank,      \* the tokens that are white space
  LineEnd,    \* \n or \r
  LineMax,    \* LINE_BUF_SIZE - 1
  Debounce,   \* debounce_ms
  MaxBytes,   \* bound: bytes that arrive
  MaxTalks,   \* bound: conversations
  MaxEdges,   \* bound: changes of the GPIO
  MaxStarts,  \* bound: starts of the daemon
  MaxClock    \* bound: the clock

ASSUME TriggerConstants ==
  /\ Keyword \in Seq(Token) /\ LineEnd \notin Token /\ Blank \subseteq Token
  /\ LineMax \in Nat \ {0} /\ Debounce \in Nat
  /\ {MaxBytes, MaxTalks, MaxEdges, MaxStarts} \subseteq Nat /\ MaxClock \in Nat \ {0}

(* A byte, and whether a conversation was on when it arrived.              *)
Byte == [tok : Token \cup {LineEnd}, late : BOOLEAN]
Talk == 1 .. MaxTalks   \* the conversations, by number; 0 is no child

VARIABLES
  tpc,        \* the daemon: off, or the next step of its loop
  uart,       \* the bytes the kernel holds
  line,       \* linebuf
  child,      \* the conversation the daemon waits for
  listening,  \* state = ST_LISTENING
  lastFire,   \* last_trigger_ms, 0 if there was none
  level,      \* the level of the GPIO; high is the active one
  levelSeen,  \* gpio_last
  edge,       \* whether poll reports the GPIO
  clock,      \* now_ms()
  talking,    \* the conversations that run
  begun,      \* the number of conversations started so far
  orphans,    \* history: conversations that outlived their daemon
  cause,      \* history: the line that started the last conversation
  budget      \* bounds: bytes, edges and starts that are left

daemon == <<line, child, listening, lastFire, levelSeen>>
world  == <<uart, level, edge, clock, talking, begun, orphans, cause, budget>>
trigVars == <<tpc, daemon, world>>

TrigInit ==
  /\ tpc = "off" /\ uart = <<>> /\ line = <<>>
  /\ child = 0 /\ listening = FALSE /\ lastFire = 0
  /\ level = 0 /\ levelSeen = 0 /\ edge = FALSE
  /\ clock = 1 /\ talking = {} /\ begun = 0 /\ orphans = {} /\ cause = <<>>
  /\ budget = [bytes |-> MaxBytes, edges |-> MaxEdges, starts |-> MaxStarts]

Spend(what) == budget[what] > 0 /\ budget' = [budget EXCEPT ![what] = @ - 1]

-----------------------------------------------------------------------------
(* trigger_run until its loop: the state is empty, the line is flushed.    *)
TrigStart ==
  /\ tpc = "off" /\ Spend("starts")
  /\ tpc' = "reap"
  /\ line' = <<>> /\ child' = 0 /\ listening' = FALSE /\ lastFire' = 0
  /\ uart' = <<>> /\ levelSeen' = level /\ edge' = FALSE
  /\ UNCHANGED <<level, clock, talking, begun, orphans, cause>>

(* Mutant: what arrived during the conversation is not flushed.            *)
ReapUnflushed ==
  /\ tpc = "reap" /\ tpc' = "read"
  /\ IF child # 0 /\ child \notin talking
     THEN child' = 0 /\ listening' = FALSE /\ UNCHANGED <<line, uart>>
     ELSE UNCHANGED <<child, listening, line, uart>>
  /\ UNCHANGED <<lastFire, levelSeen, level, edge, clock, talking, begun,
                 orphans, cause, budget>>

(* reap_child: if the child has ended the daemon is idle again, and what   *)
(* is in the line and in the buffer is thrown away.                        *)
Reap ==
  /\ tpc = "reap" /\ tpc' = "read"
  /\ IF child # 0 /\ child \notin talking
     THEN child' = 0 /\ listening' = FALSE /\ line' = <<>> /\ uart' = <<>>
     ELSE UNCHANGED <<child, listening, line, uart>>
  /\ UNCHANGED <<lastFire, levelSeen, level, edge, clock, talking, begun,
                 orphans, cause, budget>>

Bouncing == lastFire # 0 /\ clock - lastFire < Debounce

MayFire == ~Bouncing /\ ~listening

(* fire: fork a conversation; if the fork fails nothing changes.           *)
Fire(why) ==
  \/ /\ begun < MaxTalks
     /\ begun' = begun + 1 /\ talking' = talking \cup {begun + 1}
     /\ child' = begun + 1 /\ listening' = TRUE /\ lastFire' = clock
     /\ cause' = why
  \/ UNCHANGED <<begun, talking, child, listening, lastFire, cause>>

Tokens(bytes) == [i \in DOMAIN bytes |-> bytes[i].tok]
Wakes(bytes)  == \/ Keyword = <<>>
                 \/ \E i, j \in DOMAIN bytes : SubSeq(Tokens(bytes), i, j) = Keyword

(* handle_line: the keyword, debouncing and the state decide.              *)
HandleLine(bytes) ==
  IF ~(ToSet(Tokens(bytes)) \subseteq Blank) /\ Wakes(bytes) /\ MayFire
  THEN Fire(bytes)
  ELSE UNCHANGED <<begun, talking, child, listening, lastFire, cause>>

(* The body of the loop over the bytes: a line ends, or a byte is added    *)
(* and the keyword is looked for, or a line that is too long is dropped.   *)
ReadByte ==
  /\ tpc = "read" /\ uart # <<>>
  /\ uart' = Tail(uart)
  /\ LET b == Head(uart)
         l == Append(line, b)
         ends == b.tok = LineEnd
         wakes == ~ends /\ Len(line) < LineMax /\ Keyword # <<>> /\ Wakes(l)
     IN /\ line' = IF ends \/ wakes \/ Len(line) = LineMax THEN <<>> ELSE l
        /\ IF ends /\ line # <<>> THEN HandleLine(line)
           ELSE IF wakes THEN HandleLine(l)
           ELSE UNCHANGED <<begun, talking, child, listening, lastFire, cause>>
  /\ UNCHANGED <<tpc, levelSeen, level, edge, clock, orphans, budget>>

ReadEnds ==
  /\ tpc = "read" /\ uart = <<>> /\ tpc' = "gpio"
  /\ UNCHANGED <<daemon, world>>

(* The GPIO: a change to the active level wakes; a change that is ignored  *)
(* is seen all the same.                                                   *)
ReadGpio ==
  /\ tpc = "gpio" /\ tpc' = "reap"
  /\ edge' = FALSE
  /\ IF edge THEN /\ levelSeen' = level
                  /\ IF level # levelSeen /\ level = 1 /\ MayFire
                     THEN Fire(<<>>)
                     ELSE UNCHANGED <<begun, talking, child, listening, lastFire, cause>>
     ELSE UNCHANGED <<levelSeen, begun, talking, child, listening, lastFire, cause>>
  /\ UNCHANGED <<line, uart, level, clock, orphans, budget>>

(* g_quit: three seconds for the child, then a signal it may take its time *)
(* to follow; the daemon does not wait for that.                           *)
TrigExit ==
  /\ tpc = "reap" /\ tpc' = "off"
  /\ orphans' = IF child \in talking THEN orphans \cup {child} ELSE orphans
  /\ UNCHANGED <<daemon, uart, level, edge, clock, talking, begun, cause, budget>>

-----------------------------------------------------------------------------
(* The world: a byte arrives, the GPIO changes, a conversation ends.       *)
ByteArrives(t) ==
  /\ Spend("bytes")
  /\ uart' = Append(uart, [tok |-> t, late |-> child \in talking])
  /\ UNCHANGED <<tpc, daemon, level, edge, clock, talking, begun, orphans, cause>>

LevelChanges ==
  /\ Spend("edges")
  /\ level' = 1 - level /\ edge' = (tpc # "off")
  /\ UNCHANGED <<tpc, daemon, uart, clock, talking, begun, orphans, cause>>

TalkEnds(c) ==
  /\ c \in talking /\ talking' = talking \ {c}
  /\ UNCHANGED <<tpc, daemon, uart, level, edge, clock, begun, orphans, cause, budget>>

ClockTicks ==
  /\ clock < MaxClock /\ clock' = clock + 1
  /\ UNCHANGED <<tpc, daemon, uart, level, edge, talking, begun, orphans, cause, budget>>

TrigLoop == Reap \/ ReadByte \/ ReadEnds \/ ReadGpio

TrigNext ==
  \/ TrigStart \/ TrigLoop \/ TrigExit
  \/ \E t \in Token \cup {LineEnd} : ByteArrives(t)
  \/ LevelChanges \/ ClockTicks
  \/ \E c \in Talk : TalkEnds(c)

TrigSpec == TrigInit /\ [][TrigNext]_trigVars
TrigFairSpec == /\ TrigSpec /\ WF_trigVars(TrigLoop)
                /\ \A c \in Talk : WF_trigVars(TalkEnds(c))

-----------------------------------------------------------------------------
(* The types; the daemon listens exactly while it has a child to wait for. *)
TrigTypeOK ==
  /\ tpc \in {"off", "reap", "read", "gpio"}
  /\ uart \in Seq(Byte) /\ line \in Seq(Byte) /\ cause \in Seq(Byte)
  /\ Len(line) <= LineMax
  /\ child \in Talk \cup {0} /\ (listening <=> child # 0)
  /\ lastFire \in 0 .. clock /\ clock \in 1 .. MaxClock
  /\ {level, levelSeen} \subseteq {0, 1} /\ edge \in BOOLEAN
  /\ talking \subseteq Talk /\ orphans \subseteq Talk /\ begun \in 0 .. MaxTalks

(* No second conversation competes for the microphone (trigger.c:13-15),   *)
(* other than one that outlived the daemon that started it.                *)
OneConversation == \A c \in talking \ orphans : c = child

(* A wake word that was said during a conversation, even in part, does not *)
(* start the next one (trigger.c:264).                                     *)
NoStaleWake == \A i \in DOMAIN cause : ~cause[i].late

(* The daemon does not stay in a conversation that has ended.              *)
IdleAgain == listening ~> (~listening \/ tpc = "off")

(* One wake word, one conversation, and none that starts itself again.     *)
OneTalkAtATime ==
  /\ OneConversation
  /\ NoStaleWake
=============================================================================
