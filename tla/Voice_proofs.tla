---------------------------- MODULE Voice_proofs ----------------------------
(* The voice assistant for every number of bytes, conversations, processes *)
(* and rounds: the trigger starts one conversation at a time and none by   *)
(* what was said during one, and the memory keeps what it promises.        *)
EXTENDS MCVoice, SequenceTheorems, FiniteSetTheorems, TLAPS

-----------------------------------------------------------------------------
(* The trigger.  Who has no child has nothing in the line or in the buffer *)
(* that arrived during a conversation: what sets child to 0 flushes both.  *)
AllFresh(s) == \A i \in DOMAIN s : ~s[i].late

TrigInv ==
  /\ TrigTypeOK /\ OneConversation /\ NoStaleWake
  /\ tpc = "off" => talking \subseteq orphans
  /\ child = 0 => AllFresh(uart) /\ AllFresh(line)

LEMMA NoBytes == <<>> \in Seq(Byte) /\ Len(<<>>) = 0 /\ AllFresh(<<>>)
BY DEF AllFresh

LEMMA TrigInitInv == TrigInit => TrigInv
<1> SUFFICES ASSUME TrigInit PROVE TrigInv
  OBVIOUS
<1>1. TrigTypeOK
  <2>1. /\ tpc = "off" /\ uart = <<>> /\ line = <<>> /\ cause = <<>>
        /\ child = 0 /\ listening = FALSE /\ lastFire = 0
        /\ level = 0 /\ levelSeen = 0 /\ edge = FALSE
        /\ clock = 1 /\ talking = {} /\ begun = 0 /\ orphans = {}
    BY DEF TrigInit
  <2>2. uart \in Seq(Byte) /\ line \in Seq(Byte) /\ cause \in Seq(Byte) /\ Len(line) <= LineMax
    BY <2>1, NoBytes, TriggerConstants
  <2>3. /\ lastFire \in 0 .. clock /\ clock \in 1 .. MaxClock
        /\ {level, levelSeen} \subseteq {0, 1} /\ begun \in 0 .. MaxTalks
    BY <2>1, TriggerConstants
  <2>4. /\ tpc \in {"off", "reap", "read", "gpio"} /\ edge \in BOOLEAN
        /\ child \in Talk \cup {0} /\ (listening <=> child # 0)
        /\ talking \subseteq Talk /\ orphans \subseteq Talk
    BY <2>1
  <2>. QED BY <2>2, <2>3, <2>4 DEF TrigTypeOK
<1>. QED BY <1>1, NoBytes DEF TrigInit, TrigInv, OneConversation, NoStaleWake

(* What the sequences of bytes do.                                         *)
LEMMA FreshTail ==
  ASSUME NEW s \in Seq(Byte), s # <<>>
  PROVE  /\ Tail(s) \in Seq(Byte) /\ Head(s) \in Byte
         /\ AllFresh(s) => AllFresh(Tail(s)) /\ ~Head(s).late
BY DEF AllFresh

LEMMA FreshAppend ==
  ASSUME NEW s \in Seq(Byte), NEW b \in Byte
  PROVE  /\ Append(s, b) \in Seq(Byte) /\ Len(Append(s, b)) = Len(s) + 1
         /\ AllFresh(s) /\ ~b.late => AllFresh(Append(s, b))
BY DEF AllFresh

(* A conversation is started only by an idle daemon.                       *)
Untouched == UNCHANGED <<begun, talking, child, listening, lastFire, cause>>
Begins(why) ==
  /\ child = 0 /\ begun < MaxTalks
  /\ begun' = begun + 1 /\ talking' = talking \cup {begun + 1}
  /\ child' = begun + 1 /\ listening' = TRUE /\ lastFire' = clock
  /\ cause' = why

LEMMA Firing ==
  ASSUME TrigTypeOK, NEW why, HandleLine(why) \/ (MayFire /\ Fire(why)) \/ Untouched
  PROVE  Begins(why) \/ Untouched
BY DEF HandleLine, MayFire, Fire, Begins, Untouched, TrigTypeOK

LEMMA FiringKeeps ==
  ASSUME TrigInv, NEW why \in Seq(Byte), child = 0 => AllFresh(why),
         Begins(why) \/ Untouched,
         UNCHANGED <<orphans, clock>>, tpc # "off"
  PROVE  /\ OneConversation' /\ NoStaleWake'
         /\ cause' \in Seq(Byte) /\ begun' \in 0 .. MaxTalks
         /\ child' \in Talk \cup {0} /\ (listening' <=> child' # 0)
         /\ lastFire' \in 0 .. clock' /\ talking' \subseteq Talk
         /\ child' = 0 => child = 0
<1>. USE TriggerConstants DEF TrigInv, TrigTypeOK, Talk
<1>1. CASE Begins(why)
  <2>1. OneConversation'
    BY <1>1 DEF Begins, OneConversation
  <2>2. NoStaleWake'
    BY <1>1 DEF Begins, NoStaleWake, AllFresh
  <2>. QED BY <1>1, <2>1, <2>2 DEF Begins
<1>2. CASE Untouched
  BY <1>2 DEF Untouched, OneConversation, NoStaleWake
<1>. QED BY <1>1, <1>2

LEMMA TrigNextInv == TrigInv /\ [TrigNext]_trigVars => TrigInv'
<1> SUFFICES ASSUME TrigInv, [TrigNext]_trigVars PROVE TrigInv'
  OBVIOUS
<1>. USE TriggerConstants
<1>1. CASE TrigStart
  <2>1. TrigTypeOK'
    <3>1. TrigTypeOK
      BY DEF TrigInv
    <3>2. /\ tpc' = "reap" /\ uart' = <<>> /\ line' = <<>> /\ child' = 0 /\ listening' = FALSE
          /\ lastFire' = 0 /\ levelSeen' = level /\ edge' = FALSE
          /\ UNCHANGED <<level, clock, talking, begun, orphans, cause>>
      BY <1>1 DEF TrigStart
    <3>3. /\ uart' \in Seq(Byte) /\ line' \in Seq(Byte) /\ cause' \in Seq(Byte)
          /\ Len(line') <= LineMax
      BY <3>1, <3>2, NoBytes DEF TrigTypeOK
    <3>4. /\ lastFire' \in 0 .. clock' /\ clock' \in 1 .. MaxClock
          /\ {level', levelSeen'} \subseteq {0, 1} /\ begun' \in 0 .. MaxTalks
      BY <3>1, <3>2 DEF TrigTypeOK
    <3>5. /\ tpc' \in {"off", "reap", "read", "gpio"} /\ edge' \in BOOLEAN
          /\ child' \in Talk \cup {0} /\ (listening' <=> child' # 0)
          /\ talking' \subseteq Talk /\ orphans' \subseteq Talk
      BY <3>1, <3>2 DEF TrigTypeOK
    <3>. QED BY <3>3, <3>4, <3>5 DEF TrigTypeOK
  <2>. QED BY <1>1, <2>1, NoBytes DEF TrigInv, OneConversation, NoStaleWake, TrigStart
<1>2. CASE Reap
  <2>1. TrigTypeOK'
    <3>1. TrigTypeOK
      BY DEF TrigInv
    <3>2. /\ tpc' = "read"
          /\ UNCHANGED <<lastFire, levelSeen, level, edge, clock, talking, begun, orphans, cause>>
      BY <1>2 DEF Reap
    <3>3. \/ child' = 0 /\ listening' = FALSE /\ line' = <<>> /\ uart' = <<>>
          \/ UNCHANGED <<child, listening, line, uart>>
      BY <1>2 DEF Reap
    <3>4. uart' \in Seq(Byte) /\ line' \in Seq(Byte) /\ Len(line') <= LineMax
      <4>1. uart \in Seq(Byte) /\ line \in Seq(Byte) /\ Len(line) <= LineMax
        BY <3>1, Zenon DEF TrigTypeOK
      <4>2. CASE line' = <<>> /\ uart' = <<>>
        BY <4>2, NoBytes, TriggerConstants
      <4>3. CASE UNCHANGED <<line, uart>>
        BY <4>1, <4>3
      <4>. QED BY <3>3, <4>2, <4>3
    <3>5. child' \in Talk \cup {0} /\ (listening' <=> child' # 0)
      BY <3>1, <3>3 DEF TrigTypeOK
    <3>. QED BY <3>1, <3>2, <3>4, <3>5 DEF TrigTypeOK
  <2>. QED BY <1>2, <2>1, NoBytes DEF TrigInv, OneConversation, NoStaleWake, AllFresh, Reap
<1>3. CASE ReadByte
  <2> DEFINE b == Head(uart)
             l == Append(line, b)
  <2>1. /\ uart \in Seq(Byte) /\ uart # <<>> /\ line \in Seq(Byte) /\ uart' = Tail(uart)
        /\ TrigTypeOK
    BY <1>3 DEF TrigInv, TrigTypeOK, ReadByte
  <2>2. /\ b \in Byte /\ l \in Seq(Byte) /\ Tail(uart) \in Seq(Byte) /\ Len(l) = Len(line) + 1
        /\ child = 0 => AllFresh(Tail(uart)) /\ AllFresh(line) /\ AllFresh(l)
    BY <2>1, FreshTail, FreshAppend DEF TrigInv
  <2>3. /\ UNCHANGED <<tpc, levelSeen, level, edge, clock, orphans, budget>> /\ tpc = "read"
        /\ line' = <<>> \/ (line' = l /\ Len(line) # LineMax)
        /\ HandleLine(line) \/ HandleLine(l) \/ Untouched
    BY <1>3 DEF ReadByte, Untouched
  <2>4. PICK why \in {line, l} : Begins(why) \/ Untouched
    <3>1. CASE HandleLine(line)
      BY <3>1, <2>1, Firing
    <3>2. CASE HandleLine(l)
      BY <3>2, <2>1, Firing
    <3>. QED BY <3>1, <3>2, <2>3
  <2>5. /\ OneConversation' /\ NoStaleWake'
        /\ cause' \in Seq(Byte) /\ begun' \in 0 .. MaxTalks
        /\ child' \in Talk \cup {0} /\ (listening' <=> child' # 0)
        /\ lastFire' \in 0 .. clock' /\ talking' \subseteq Talk
        /\ child' = 0 => child = 0
    BY <2>1, <2>2, <2>3, <2>4, FiringKeeps
  <2>6. line' \in Seq(Byte) /\ Len(line') <= LineMax /\ uart' \in Seq(Byte)
    <3>1. Len(line) <= LineMax
      BY <2>1, Zenon DEF TrigTypeOK
    <3>2. line \in Seq(Byte)
      BY <2>1
    <3>3. Len(line) \in Nat
      BY <3>2
    <3>4. CASE line' = <<>>
      BY <2>1, <2>2, <3>4, NoBytes
    <3>5. CASE line' = l /\ Len(line) # LineMax
      <4>. HIDE DEF b, l
      <4>1. Len(line') = Len(line) + 1 /\ line' \in Seq(Byte) /\ uart' \in Seq(Byte)
        BY <2>1, <2>2, <3>5
      <4>2. Len(line) + 1 <= LineMax
        BY <3>1, <3>3, <3>5
      <4>. QED BY <4>1, <4>2
    <3>. QED BY <2>3, <3>4, <3>5
  <2>7. child' = 0 => AllFresh(uart') /\ AllFresh(line')
    BY <2>1, <2>2, <2>3, <2>5, NoBytes
  <2>8. TrigTypeOK'
    BY <2>1, <2>3, <2>5, <2>6 DEF TrigTypeOK
  <2>. QED BY <2>3, <2>5, <2>7, <2>8 DEF TrigInv, AllFresh
<1>4. CASE ReadEnds
  BY <1>4 DEF TrigInv, TrigTypeOK, OneConversation, NoStaleWake, AllFresh, ReadEnds, daemon, world
<1>5. CASE ReadGpio
  <2>1. /\ UNCHANGED <<line, uart, level, clock, orphans, budget>> /\ tpc = "gpio" /\ tpc' = "reap"
        /\ edge' = FALSE /\ levelSeen' \in {level, levelSeen}
        /\ (MayFire /\ Fire(<<>>)) \/ Untouched
    BY <1>5 DEF ReadGpio, Untouched
  <2>2. Begins(<<>>) \/ Untouched
    BY <2>1, Firing DEF TrigInv
  <2>3. <<>> \in Seq(Byte) /\ AllFresh(<<>>)
    BY DEF AllFresh
  <2>4. /\ OneConversation' /\ NoStaleWake'
        /\ cause' \in Seq(Byte) /\ begun' \in 0 .. MaxTalks
        /\ child' \in Talk \cup {0} /\ (listening' <=> child' # 0)
        /\ lastFire' \in 0 .. clock' /\ talking' \subseteq Talk
        /\ child' = 0 => child = 0
    BY <2>1, <2>2, <2>3, FiringKeeps
  <2>. QED BY <2>1, <2>4 DEF TrigInv, TrigTypeOK, AllFresh
<1>6. CASE TrigExit
  BY <1>6 DEF TrigInv, TrigTypeOK, OneConversation, NoStaleWake, AllFresh, TrigExit, daemon
<1>7. ASSUME NEW t \in Token \cup {LineEnd}, ByteArrives(t) PROVE TrigInv'
  <2> DEFINE b == [tok |-> t, late |-> child \in talking]
  <2>1. uart' = Append(uart, b) /\ b \in Byte /\ uart \in Seq(Byte) /\ b.late = (child \in talking)
    BY <1>7 DEF ByteArrives, Byte, TrigInv, TrigTypeOK
  <2>2. UNCHANGED <<tpc, daemon, level, edge, clock, talking, begun, orphans, cause>>
    BY <1>7 DEF ByteArrives
  <2>3. child = 0 => ~b.late
    <3>1. talking \subseteq Talk /\ 0 \notin Talk
      BY DEF TrigInv, TrigTypeOK, Talk
    <3>2. child = 0 => child \notin talking
      BY <3>1
    <3>. QED BY <2>1, <3>2, Zenon
  <2>4. uart' \in Seq(Byte) /\ (child = 0 => AllFresh(uart'))
    BY <2>1, <2>3, FreshAppend DEF TrigInv
  <2>. QED BY <2>2, <2>4 DEF TrigInv, TrigTypeOK, OneConversation, NoStaleWake, AllFresh, daemon
<1>8. CASE LevelChanges
  BY <1>8 DEF TrigInv, TrigTypeOK, OneConversation, NoStaleWake, AllFresh, LevelChanges, daemon
<1>9. CASE ClockTicks
  BY <1>9 DEF TrigInv, TrigTypeOK, OneConversation, NoStaleWake, AllFresh, ClockTicks, daemon
<1>10. ASSUME NEW c \in Talk, TalkEnds(c) PROVE TrigInv'
  BY <1>10 DEF TrigInv, TrigTypeOK, OneConversation, NoStaleWake, AllFresh, TalkEnds, daemon
<1>11. CASE UNCHANGED trigVars
  BY <1>11 DEF TrigInv, TrigTypeOK, OneConversation, NoStaleWake, AllFresh, trigVars, daemon, world
<1>. QED
  BY <1>1, <1>2, <1>3, <1>4, <1>5, <1>6, <1>7, <1>8, <1>9, <1>10, <1>11 DEF TrigNext, TrigLoop

THEOREM TrigInvariant == TrigSpec => []TrigInv
<1>. QED BY TrigInitInv, TrigNextInv, PTL DEF TrigSpec

(* The trigger (trigger.c) never starts a second conversation beside one   *)
(* of its own, and none by a wake word, or a part of one, that was said    *)
(* during the one before.                                                  *)
THEOREM TalksOneAtATime == TrigSpec => []OneTalkAtATime
<1>1. TrigInv => OneTalkAtATime
  BY DEF TrigInv, OneTalkAtATime
<1>. QED BY <1>1, TrigInvariant, PTL
-----------------------------------------------------------------------------
(* The memory.  The invariant: the window is as long as the history and    *)
(* the rounds said allow, and every slot of the ring, counted from its     *)
(* head, holds the round last written there; no slot holds a later round   *)
(* than the last; the period cannot pass without an extraction; while no   *)
(* two processes save at once, the temporary file is that of the one       *)
(* process that saves; and a process has at least the facts it loaded.     *)
RingSlot(a) == a % HistMax
WindowLength(p) == count[p] = IF Len(said[p]) < limit[p] THEN Len(said[p]) ELSE limit[p]

(* The slot d behind the head h is the place of round q: with k rounds     *)
(* overwritten, s said and a history of L.                                 *)
Holds(f, h, k, s, L) ==
  \A d \in 0 .. (HistMax - 1) :
    LET q == k + d + 1
        x == f[RingSlot(h + d)]
    IN /\ q <= L /\ q <= Len(s) => x = s[q]
       /\ q > HistMax => x = s[q - (HistMax - L)]
       /\ q <= HistMax /\ (q > L \/ q > Len(s)) => \A i \in DOMAIN s : x # s[i]
WindowRounds(p) ==
  limit[p] > 0 => Holds(ring[p], head[p], Len(said[p]) - count[p], said[p], limit[p])
RingIsPast(p) == \A d \in 0 .. (HistMax - 1) : ring[p][d] <= asked

PeriodInv(p) ==
  /\ since[p] <= Len(said[p])
  /\ limit[p] > 0 => /\ since[p] <= Every
                     /\ vpc[p] \notin {"extract", "gone"} => since[p] < Every

SaveInv ==
  shared \/ /\ confFile.whole /\ inConf = {}
            /\ \A p \in inTmp : vpc[p] = "fill"
            /\ \A p, q \in Voice : {vpc[p], vpc[q]} \subseteq {"fill", "rename"} => p = q
            /\ \A p \in Voice : vpc[p] = "fill" => p \in inTmp /\ ~tmpFile.whole
            /\ \A p \in Voice : vpc[p] = "rename" =>
                 tmpFile = [facts |-> known[p], by |-> p, whole |-> TRUE]

FactsInv ==
  /\ Cardinality(confFile.facts) <= FactMax
  /\ tmpFile = NoFile \/ Cardinality(tmpFile.facts) <= FactMax
  /\ inTmp # {} => tmpFile \in Profile
  /\ \A p \in Voice : cmd[p] # "forget" => loaded[p] \subseteq known[p]

MemInv ==
  /\ MemTypeOK /\ SaveInv /\ FactsInv
  /\ \A p \in Voice : WindowLength(p) /\ WindowRounds(p) /\ PeriodInv(p) /\ RingIsPast(p)

LEMMA MemInitInv == MemInit => MemInv
<1> SUFFICES ASSUME MemInit PROVE MemInv
  OBVIOUS
<1>. USE VoiceConstants
<1>1. /\ \A p \in Voice : /\ cmd[p] = "chat" /\ vpc[p] = "off" /\ head[p] = 0 /\ count[p] = 0
                          /\ since[p] = 0 /\ known[p] = {} /\ loaded[p] = {} /\ said[p] = <<>>
      /\ \A p \in Voice : limit[p] \in Limits /\ limit[p] \in Nat
  <2>1. \A p \in Voice : /\ cmd[p] = "chat" /\ vpc[p] = "off" /\ head[p] = 0 /\ count[p] = 0
                         /\ since[p] = 0 /\ known[p] = {} /\ loaded[p] = {} /\ said[p] = <<>>
    BY DEF MemInit
  <2>2. \A p \in Voice : limit[p] \in Limits
    BY DEF MemInit
  <2>3. \A l \in Limits : l \in Nat
    OBVIOUS
  <2>. QED BY <2>1, <2>2, <2>3
<1>2. Cardinality({}) = 0
  BY FS_EmptySet
<1>3. MemTypeOK
  <2>1. /\ limit \in [Voice -> Limits]
        /\ ring \in [Voice -> [0 .. (HistMax - 1) -> 0 .. MaxRounds]]
        /\ head \in [Voice -> 0 .. (HistMax - 1)]
        /\ since \in [Voice -> Nat] /\ fails \in [Voice -> Nat] /\ asked \in 0 .. MaxRounds
    BY DEF MemInit
  <2>2. count \in [Voice -> Nat] /\ \A p \in Voice : count[p] <= limit[p]
    <3>1. count \in [Voice -> Nat]
      BY DEF MemInit
    <3>. QED BY <1>1, <3>1
  <2>3. /\ cmd \in [Voice -> {"chat", "ask", "forget"}]
        /\ vpc \in [Voice -> {"off", "round", "leave", "extract", "open", "fill",
                              "rename", "gone"}]
        /\ quit \in [Voice -> BOOLEAN] /\ shared \in BOOLEAN
    BY DEF MemInit
  <2>4. known \in [Voice -> SUBSET Round] /\ \A p \in Voice : Cardinality(known[p]) <= FactMax
    <3>0. known \in [Voice -> SUBSET Round]
      BY DEF MemInit
    <3>1. 0 <= FactMax
      OBVIOUS
    <3>. QED BY <1>1, <1>2, <3>0, <3>1, Zenon
  <2>5. loaded \in [Voice -> SUBSET Round] /\ said \in [Voice -> Seq(Round)]
    BY DEF MemInit
  <2>6. /\ confFile \in Profile /\ tmpFile \in Profile \cup {NoFile}
        /\ inTmp \subseteq Voice /\ inConf \subseteq Voice
    BY DEF MemInit, Profile
  <2>. QED BY <2>1, <2>2, <2>3, <2>4, <2>5, <2>6 DEF MemTypeOK
<1>4. SaveInv
  BY <1>1 DEF MemInit, SaveInv
<1>5. FactsInv
  <2>1. confFile = [facts |-> {}, by |-> NoFile, whole |-> TRUE]
    BY DEF MemInit
  <2>2. tmpFile = NoFile /\ confFile.facts = {} /\ inTmp = {}
    BY <2>1 DEF MemInit
  <2>. QED BY <1>1, <1>2, <2>2 DEF FactsInv
<1>6. ASSUME NEW p \in Voice
      PROVE  WindowLength(p) /\ WindowRounds(p) /\ PeriodInv(p) /\ RingIsPast(p)
  <2>1. WindowLength(p) /\ PeriodInv(p)
    BY <1>1 DEF WindowLength, PeriodInv
  <2>2. WindowRounds(p)
    <3>1. limit[p] \in 0 .. HistMax /\ HistMax \in Nat /\ Len(<<>>) = 0
      BY <1>1
    <3>. QED BY <1>1, <3>1 DEF WindowRounds, Holds
  <2>3. RingIsPast(p)
    BY DEF MemInit, RingIsPast
  <2>. QED BY <2>1, <2>2, <2>3
<1>. QED BY <1>3, <1>4, <1>5, <1>6 DEF MemInv

(* The slots of the ring.                                                  *)
LEMMA Slot ==
  ASSUME NEW a \in Nat, a < HistMax + HistMax
  PROVE  RingSlot(a) = IF a < HistMax THEN a ELSE a - HistMax
BY VoiceConstants DEF RingSlot

LEMMA SlotOfSum ==
  ASSUME NEW a \in Nat, NEW b \in Nat, a + b < HistMax + HistMax
  PROVE  RingSlot(a + b) = IF a + b < HistMax THEN a + b ELSE a + b - HistMax
BY VoiceConstants DEF RingSlot

(* Places of the ring that are less than its size apart are two slots.     *)
LEMMA SlotsDiffer ==
  ASSUME NEW H \in Nat \ {0}, NEW h \in 0 .. (H - 1), NEW L \in Nat, L < H, NEW i \in 1 .. L,
         NEW a, a = (IF h + i - 1 < H THEN h + i - 1 ELSE h + i - 1 - H),
         NEW b, b = (IF h + L < H THEN h + L ELSE h + L - H)
  PROVE  a # b /\ a \in 0 .. (H - 1)
OBVIOUS

(* A round is added behind a window that is not full.                      *)
LEMMA WindowGrows ==
  ASSUME NEW f \in [0 .. (HistMax - 1) -> 0 .. MaxRounds], NEW h \in 0 .. (HistMax - 1),
         NEW s \in Seq(Round), NEW r \in Round, NEW L \in 1 .. HistMax, Len(s) < L,
         \A d \in 0 .. (HistMax - 1) : f[d] # r,
         Holds(f, h, 0, s, L)
  PROVE  Holds([f EXCEPT ![RingSlot(h + Len(s))] = r], h, 0, Append(s, r), L)
<1>. DEFINE H == HistMax
            n == Len(s)
            t == Append(s, r)
            g == [f EXCEPT ![RingSlot(h + n)] = r]
<1>1. /\ H \in Nat \ {0} /\ n \in Nat /\ n < H /\ L \in Nat /\ L <= H /\ n < L
      /\ DOMAIN s = 1 .. n
  BY VoiceConstants
<1>2. /\ Len(t) = n + 1 /\ t[n + 1] = r /\ (\A i \in 1 .. n : t[i] = s[i]) /\ DOMAIN t = 1 .. (n + 1)
  BY <1>1
<1>3. ASSUME NEW d \in 0 .. (H - 1)
      PROVE  /\ RingSlot(h + d) = IF h + d < H THEN h + d ELSE h + d - H
             /\ RingSlot(h + d) \in 0 .. (H - 1)
  <2>1. h + d \in Nat /\ h + d < H + H
    BY <1>1
  <2>. QED BY <1>1, <2>1, Slot
<1>4. n \in 0 .. (H - 1)
  BY <1>1
<1>5. ASSUME NEW d \in 0 .. (H - 1)
      PROVE  g[RingSlot(h + d)] = IF d = n THEN r ELSE f[RingSlot(h + d)]
  <2>1. /\ RingSlot(h + d) = (IF h + d < H THEN h + d ELSE h + d - H)
        /\ RingSlot(h + n) = (IF h + n < H THEN h + n ELSE h + n - H)
        /\ RingSlot(h + d) \in 0 .. (H - 1) /\ RingSlot(h + n) \in 0 .. (H - 1)
    BY <1>3, <1>4
  <2>2. h \in 0 .. (H - 1) /\ n \in 0 .. (H - 1)
    BY <1>4
  <2>. HIDE DEF n, H
  <2>3. d # n => RingSlot(h + d) # RingSlot(h + n)
    BY <1>1, <2>1, <2>2
  <2>. QED BY <2>1, <2>3 DEF H
<1>. HIDE DEF g, t, n, H
<1>6. ASSUME NEW d \in 0 .. (H - 1)
      PROVE  LET q == 0 + d + 1
                 x == g[RingSlot(h + d)]
             IN /\ q <= L /\ q <= Len(t) => x = t[q]
                /\ q > H => x = t[q - (H - L)]
                /\ q <= H /\ (q > L \/ q > Len(t)) => \A i \in DOMAIN t : x # t[i]
  <2>1. /\ d + 1 <= L /\ d + 1 <= n => f[RingSlot(h + d)] = s[d + 1]
        /\ d + 1 > L \/ d + 1 > n => \A i \in 1 .. n : f[RingSlot(h + d)] # s[i]
    <3>1. /\ 0 + d + 1 <= L /\ 0 + d + 1 <= n => f[RingSlot(h + d)] = s[0 + d + 1]
          /\ 0 + d + 1 <= H /\ (0 + d + 1 > L \/ 0 + d + 1 > n) =>
               \A i \in DOMAIN s : f[RingSlot(h + d)] # s[i]
      BY DEF Holds, H, n
    <3>2. 0 + d + 1 = d + 1 /\ d + 1 <= H
      BY <1>1
    <3>. QED BY <1>1, <3>1, <3>2
  <2>2. f[RingSlot(h + d)] # r
    BY <1>3 DEF H
  <2>3. CASE d = n
    BY <1>1, <1>2, <1>5, <2>3
  <2>4. CASE d # n
    <3>1. g[RingSlot(h + d)] = f[RingSlot(h + d)]
      BY <1>5, <2>4
    <3>2. d + 1 <= L /\ d + 1 <= n + 1 => g[RingSlot(h + d)] = t[d + 1]
      BY <1>1, <1>2, <2>1, <2>4, <3>1
    <3>3. ASSUME d + 1 > L \/ d + 1 > n + 1, NEW i \in 1 .. (n + 1)
          PROVE  g[RingSlot(h + d)] # t[i]
      <4>1. CASE i = n + 1
        BY <1>2, <2>2, <3>1, <4>1
      <4>2. CASE i \in 1 .. n
        BY <1>1, <1>2, <2>1, <3>1, <3>3, <4>2
      <4>. QED BY <1>1, <4>1, <4>2
    <3>. QED BY <1>1, <1>2, <3>2, <3>3
  <2>. QED BY <2>3, <2>4
<1>. QED BY <1>6 DEF Holds, H, g, t, n

(* A round is written over the first one of a full window.                 *)
LEMMA WindowMoves ==
  ASSUME NEW f \in [0 .. (HistMax - 1) -> 0 .. MaxRounds], NEW h \in 0 .. (HistMax - 1),
         NEW s \in Seq(Round), NEW r \in Round, NEW L \in 1 .. HistMax, NEW k \in Nat,
         Len(s) = k + L,
         \A d \in 0 .. (HistMax - 1) : f[d] # r,
         Holds(f, h, k, s, L)
  PROVE  Holds([f EXCEPT ![h] = r], RingSlot(h + 1), k + 1, Append(s, r), L)
<1>. DEFINE H == HistMax
            n == Len(s)
            t == Append(s, r)
            g == [f EXCEPT ![h] = r]
            m == RingSlot(h + 1)
<1>1. /\ H \in Nat \ {0} /\ n \in Nat /\ n = k + L /\ L \in Nat /\ L <= H /\ L > 0
      /\ DOMAIN s = 1 .. n
  BY VoiceConstants
<1>2. /\ Len(t) = n + 1 /\ t[n + 1] = r /\ (\A i \in 1 .. n : t[i] = s[i]) /\ DOMAIN t = 1 .. (n + 1)
  BY <1>1
<1>4. m = (IF h + 1 < H THEN h + 1 ELSE h + 1 - H) /\ m \in 0 .. (H - 1)
  <2>1. h + 1 \in Nat /\ h + 1 < H + H
    BY <1>1
  <2>2. m = IF h + 1 < H THEN h + 1 ELSE h + 1 - H
    BY <1>1, <2>1, Slot
  <2>. QED BY <1>1, <2>2
<1>. HIDE DEF g, t, n, H, m
<1>5. ASSUME NEW d \in 0 .. (H - 1), d # H - 1
      PROVE  /\ d + 1 \in 0 .. (H - 1) /\ RingSlot(m + d) = RingSlot(h + (d + 1))
             /\ RingSlot(m + d) \in 0 .. (H - 1) /\ RingSlot(m + d) # h
  <2>1. m + d \in Nat /\ m + d < H + H /\ h + (d + 1) \in Nat /\ h + (d + 1) < H + H
    BY <1>1, <1>4, <1>5 DEF H
  <2>2. /\ RingSlot(m + d) = IF m + d < H THEN m + d ELSE m + d - H
        /\ RingSlot(h + (d + 1)) = IF h + (d + 1) < H THEN h + (d + 1) ELSE h + (d + 1) - H
    <3>1. m \in Nat /\ d \in Nat /\ h \in Nat /\ d + 1 \in Nat
      BY <1>1, <1>4, <1>5
    <3>2. RingSlot(m + d) = IF m + d < H THEN m + d ELSE m + d - H
      BY <2>1, <3>1, SlotOfSum DEF H
    <3>3. RingSlot(h + (d + 1)) = IF h + (d + 1) < H THEN h + (d + 1) ELSE h + (d + 1) - H
      BY <2>1, <3>1, SlotOfSum DEF H
    <3>. QED BY <3>2, <3>3
  <2>. QED BY <1>1, <1>4, <1>5, <2>2 DEF H
<1>6. RingSlot(m + (H - 1)) = h
  <2>1. m + (H - 1) \in Nat /\ m + (H - 1) < H + H
    BY <1>1, <1>4
  <2>2. RingSlot(m + (H - 1)) = IF m + (H - 1) < H THEN m + (H - 1) ELSE m + (H - 1) - H
    BY <1>1, <1>4, <2>1, SlotOfSum DEF H
  <2>. QED BY <1>1, <1>4, <2>2 DEF H
<1>7. ASSUME NEW d \in 0 .. (H - 1)
      PROVE  LET q == (k + 1) + d + 1
                 x == g[RingSlot(m + d)]
             IN /\ q <= L /\ q <= Len(t) => x = t[q]
                /\ q > H => x = t[q - (H - L)]
                /\ q <= H /\ (q > L \/ q > Len(t)) => \A i \in DOMAIN t : x # t[i]
  <2>1. CASE d = H - 1
    <3>1. g[RingSlot(m + d)] = r
      BY <1>6, <2>1 DEF g, H
    <3>2. (k + 1) + d + 1 > H /\ (k + 1) + d + 1 - (H - L) = n + 1 /\ (k + 1) + d + 1 > L
      BY <1>1, <2>1
    <3>3. ~((k + 1) + d + 1 <= L) /\ ~((k + 1) + d + 1 <= H)
      BY <1>1, <2>1
    <3>4. g[RingSlot(m + d)] = t[(k + 1) + d + 1 - (H - L)]
      BY <1>2, <3>1, <3>2, Zenon
    <3>. QED BY <1>1, <1>2, <3>2, <3>3, <3>4
  <2>2. CASE d # H - 1
    <3>. DEFINE q == k + (d + 1) + 1
                y == f[RingSlot(h + (d + 1))]
    <3>1. g[RingSlot(m + d)] = y /\ y # r
      BY <1>5, <2>2 DEF g, H
    <3>2. d + 1 \in 0 .. (H - 1) /\ q \in Nat /\ (k + 1) + d + 1 = q /\ q > 0
      BY <1>5, <2>2
    <3>3. /\ q <= L /\ q <= n => y = s[q]
          /\ q > H => y = s[q - (H - L)]
          /\ q <= H /\ (q > L \/ q > n) => \A i \in 1 .. n : y # s[i]
      BY <1>1, <3>2 DEF Holds, H, n
    <3>. HIDE DEF q, y
    <3>4. q <= L => y = t[q]
      BY <1>1, <1>2, <3>2, <3>3
    <3>5. q > H => y = t[q - (H - L)]
      <4>1. q > H => q - (H - L) \in 1 .. n
        BY <1>1, <3>2 DEF q
      <4>. QED BY <1>1, <1>2, <3>3, <4>1
    <3>6. ASSUME q <= H, q > L \/ q > n + 1, NEW i \in 1 .. (n + 1) PROVE y # t[i]
      <4>1. CASE i = n + 1
        BY <1>2, <3>1, <4>1
      <4>2. CASE i \in 1 .. n
        BY <1>1, <1>2, <3>2, <3>3, <3>6, <4>2
      <4>. QED BY <1>1, <4>1, <4>2
    <3>. QED BY <1>2, <3>1, <3>2, <3>4, <3>5, <3>6
  <2>. QED BY <2>1, <2>2
<1>. QED BY <1>7 DEF Holds, H, g, t, n, m

(* The next round is added to the history.                                 *)
RoundAdded(p, r) ==
  /\ HistAdd(p, r) /\ said' = Set(said, p, Append(said[p], r)) /\ UNCHANGED limit
  /\ r = asked + 1 /\ asked' = r

LEMMA AddsRound ==
  ASSUME MemInv, NEW p \in Voice, NEW r \in Round, RoundAdded(p, r)
  PROVE  /\ ring' \in [Voice -> [0 .. (HistMax - 1) -> 0 .. MaxRounds]]
         /\ head' \in [Voice -> 0 .. (HistMax - 1)]
         /\ count' \in [Voice -> Nat] /\ \A q \in Voice : count'[q] <= limit'[q]
         /\ said' \in [Voice -> Seq(Round)] /\ Len(said'[p]) = Len(said[p]) + 1
         /\ \A q \in Voice : WindowLength(q)' /\ WindowRounds(q)' /\ RingIsPast(q)'
         /\ \A q \in Voice \ {p} : said'[q] = said[q]
<1>1. /\ limit \in [Voice -> Limits] /\ ring \in [Voice -> [0 .. (HistMax - 1) -> 0 .. MaxRounds]]
      /\ head \in [Voice -> 0 .. (HistMax - 1)]
      /\ count \in [Voice -> Nat] /\ \A q \in Voice : count[q] <= limit[q]
      /\ said \in [Voice -> Seq(Round)]
  BY DEF MemInv, MemTypeOK
<1>2. /\ said' \in [Voice -> Seq(Round)] /\ said'[p] = Append(said[p], r)
      /\ \A q \in Voice \ {p} : said'[q] = said[q]
  BY <1>1 DEF RoundAdded, Set
<1>. DEFINE H == HistMax
            c == count[p]
            h == head[p]
            s == said[p]
<1>3. /\ H \in Nat \ {0} /\ h \in 0 .. (H - 1) /\ s \in Seq(Round) /\ r \in 0 .. MaxRounds
      /\ ring[p] \in [0 .. (H - 1) -> 0 .. MaxRounds]
      /\ c \in Nat /\ c <= limit[p]
  BY <1>1, VoiceConstants DEF Round
<1>4. limit[p] \in Nat /\ limit[p] <= H /\ c \in Nat /\ c <= limit[p]
  <2>1. limit[p] \in 0 .. H
    BY <1>1, VoiceConstants
  <2>. QED BY <1>3, <2>1
<1>5. Len(s) \in Nat /\ Len(said'[p]) = Len(s) + 1
  BY <1>2, <1>3
<1>6. WindowLength(p) /\ WindowRounds(p) /\ limit' = limit
  BY DEF MemInv, RoundAdded
<1>10. /\ asked \in Nat /\ asked' = asked + 1 /\ r = asked + 1
       /\ \A q \in Voice : \A d \in 0 .. (H - 1) :
            ring[q][d] \in Nat /\ ring[q][d] <= asked /\ ring[q][d] # r /\ ring[q][d] <= asked'
  <2>1. asked \in Nat /\ asked' = asked + 1 /\ r = asked + 1
    BY VoiceConstants DEF MemInv, MemTypeOK, RoundAdded
  <2>2. ASSUME NEW q \in Voice, NEW d \in 0 .. (H - 1) PROVE ring[q][d] \in Nat /\ ring[q][d] <= asked
    <3>1. ring[q][d] \in 0 .. MaxRounds
      BY <1>1
    <3>. QED BY <3>1 DEF MemInv, RingIsPast
  <2>. QED BY <2>1, <2>2
<1>. HIDE DEF H
<1>11. ASSUME NEW q \in Voice \ {p}, ring'[q] = ring[q], head'[q] = head[q], count'[q] = count[q]
       PROVE  WindowLength(q)' /\ WindowRounds(q)' /\ RingIsPast(q)'
  <2>1. WindowLength(q) /\ WindowRounds(q) /\ said'[q] = said[q] /\ limit'[q] = limit[q]
    BY <1>2, <1>6 DEF MemInv
  <2>2. RingIsPast(q)'
    BY <1>10, <1>11 DEF RingIsPast, H
  <2>. QED BY <1>11, <2>1, <2>2 DEF WindowLength, WindowRounds
<1>7. CASE limit[p] = 0 /\ UNCHANGED <<ring, head, count>>
  <2>1. WindowLength(p)'
    BY <1>4, <1>5, <1>6, <1>7 DEF WindowLength
  <2>2. WindowRounds(p)' /\ RingIsPast(p)'
    BY <1>6, <1>7, <1>10 DEF WindowRounds, RingIsPast, H
  <2>3. ASSUME NEW q \in Voice \ {p} PROVE WindowLength(q)' /\ WindowRounds(q)' /\ RingIsPast(q)'
    BY <1>7, <1>11
  <2>. QED BY <1>1, <1>2, <1>5, <1>6, <1>7, <2>1, <2>2, <2>3
<1>8. CASE /\ c < limit[p]
           /\ ring' = [ring EXCEPT ![p][RingSlot(h + c)] = r]
           /\ count' = Set(count, p, c + 1)
           /\ UNCHANGED head
  <2>1. c = Len(s)
    BY <1>4, <1>5, <1>6, <1>8 DEF WindowLength
  <2>2. Len(s) - c = 0 /\ Holds(ring[p], h, 0, s, limit[p])
    <3>1. Len(s) - c = 0
      BY <1>3, <2>1
    <3>. QED BY <1>4, <1>6, <1>8, <3>1 DEF WindowRounds
  <2>3. h + c \in Nat /\ h + c < H + H
    BY <1>3, <1>4, <1>8
  <2>4. RingSlot(h + c) \in 0 .. (H - 1)
    <3>1. RingSlot(h + c) = IF h + c < H THEN h + c ELSE h + c - H
      BY <1>3, <2>3, Slot DEF H
    <3>. QED BY <1>3, <1>4, <1>8, <3>1
  <2>5. /\ ring'[p] = [ring[p] EXCEPT ![RingSlot(h + c)] = r]
        /\ \A q \in Voice \ {p} : ring'[q] = ring[q]
    BY <1>1, <1>8
  <2>6. ring' \in [Voice -> [0 .. (H - 1) -> 0 .. MaxRounds]]
    <3>1. [ring[p] EXCEPT ![RingSlot(h + c)] = r] \in [0 .. (H - 1) -> 0 .. MaxRounds]
      BY <1>3, <2>4
    <3>. QED BY <1>1, <1>8, <3>1 DEF H
  <2>7. /\ count'[p] = c + 1 /\ \A q \in Voice \ {p} : count'[q] = count[q]
        /\ count' \in [Voice -> Nat] /\ \A q \in Voice : count'[q] <= limit'[q]
    <3>1. /\ count'[p] = c + 1 /\ \A q \in Voice \ {p} : count'[q] = count[q]
          /\ count' \in [Voice -> Nat]
      BY <1>1, <1>4, <1>8 DEF Set
    <3>2. c + 1 <= limit[p]
      BY <1>4, <1>8
    <3>. QED BY <1>1, <1>6, <3>1, <3>2
  <2>8. WindowLength(p)'
    BY <1>4, <1>5, <1>6, <1>8, <2>1, <2>7 DEF WindowLength
  <2>9. WindowRounds(p)' /\ RingIsPast(p)'
    <3>1. limit[p] \in 1 .. H /\ Len(s) < limit[p]
      BY <1>3, <1>4, <1>5, <1>8, <2>1
    <3>2. Holds([ring[p] EXCEPT ![RingSlot(h + Len(s))] = r], h, 0, Append(s, r), limit[p])
      BY <1>3, <1>10, <2>2, <3>1, WindowGrows DEF H
    <3>3. Len(said'[p]) - count'[p] = 0
      BY <1>3, <1>5, <2>1, <2>7
    <3>4. Holds(ring'[p], h, 0, Append(s, r), limit[p])
      BY <2>1, <2>5, <3>2
    <3>5. WindowRounds(p)'
      BY <1>2, <1>6, <1>8, <3>3, <3>4 DEF WindowRounds
    <3>6. RingIsPast(p)'
      <4>1. \A d \in 0 .. (H - 1) : ring'[p][d] = r \/ ring'[p][d] = ring[p][d]
        BY <1>3, <2>5
      <4>2. r <= asked'
        BY <1>10
      <4>. QED BY <1>10, <4>1, <4>2 DEF RingIsPast, H
    <3>. QED BY <3>5, <3>6
  <2>10. ASSUME NEW q \in Voice \ {p} PROVE WindowLength(q)' /\ WindowRounds(q)' /\ RingIsPast(q)'
    BY <1>8, <1>11, <2>5, <2>7
  <2>. QED BY <1>1, <1>2, <1>5, <1>8, <2>6, <2>7, <2>8, <2>9, <2>10 DEF H
<1>9. CASE /\ limit[p] > 0 /\ c = limit[p]
           /\ ring' = [ring EXCEPT ![p][h] = r]
           /\ head' = Set(head, p, RingSlot(h + 1))
           /\ UNCHANGED count
  <2>1. RingSlot(h + 1) \in 0 .. (H - 1)
    <3>1. h + 1 \in Nat /\ h + 1 < H + H
      BY <1>3
    <3>2. RingSlot(h + 1) = IF h + 1 < H THEN h + 1 ELSE h + 1 - H
      BY <1>3, <3>1, Slot DEF H
    <3>. QED BY <1>3, <3>2
  <2>2. /\ ring'[p] = [ring[p] EXCEPT ![h] = r]
        /\ \A q \in Voice \ {p} : ring'[q] = ring[q]
    BY <1>1, <1>9
  <2>3. ring' \in [Voice -> [0 .. (H - 1) -> 0 .. MaxRounds]]
    <3>1. [ring[p] EXCEPT ![h] = r] \in [0 .. (H - 1) -> 0 .. MaxRounds]
      BY <1>3
    <3>. QED BY <1>1, <1>9, <3>1 DEF H
  <2>4. /\ head'[p] = RingSlot(h + 1) /\ \A q \in Voice \ {p} : head'[q] = head[q]
        /\ head' \in [Voice -> 0 .. (H - 1)]
    BY <1>1, <1>9, <2>1 DEF Set, H
  <2>5. Len(s) >= limit[p]
    BY <1>4, <1>5, <1>6, <1>9 DEF WindowLength
  <2>6. WindowLength(p)'
    BY <1>4, <1>5, <1>6, <1>9, <2>5 DEF WindowLength
  <2>7. WindowRounds(p)' /\ RingIsPast(p)'
    <3>. DEFINE k == Len(s) - c
    <3>1. limit[p] \in 1 .. H /\ k \in Nat /\ Len(s) = k + limit[p]
      BY <1>3, <1>4, <1>5, <1>9, <2>5
    <3>2. Holds(ring[p], h, k, s, limit[p])
      BY <1>6, <1>9 DEF WindowRounds
    <3>3. Len(said'[p]) - count'[p] = k + 1
      BY <1>3, <1>5, <1>9
    <3>. HIDE DEF k
    <3>4. Holds([ring[p] EXCEPT ![h] = r], RingSlot(h + 1), k + 1, Append(s, r), limit[p])
      BY <1>3, <1>10, <3>1, <3>2, WindowMoves DEF H
    <3>5. Holds(ring'[p], head'[p], k + 1, said'[p], limit'[p])
      BY <1>2, <1>6, <2>2, <2>4, <3>4
    <3>6. WindowRounds(p)'
      BY <3>3, <3>5 DEF WindowRounds
    <3>7. RingIsPast(p)'
      BY <1>3, <1>10, <2>2 DEF RingIsPast, H
    <3>. QED BY <3>6, <3>7
  <2>8. ASSUME NEW q \in Voice \ {p} PROVE WindowLength(q)' /\ WindowRounds(q)' /\ RingIsPast(q)'
    BY <1>9, <1>11, <2>2, <2>4
  <2>. QED BY <1>1, <1>2, <1>5, <1>6, <1>9, <2>3, <2>4, <2>6, <2>7, <2>8 DEF H
<1>. QED BY <1>7, <1>8, <1>9 DEF RoundAdded, HistAdd, RingSlot, H

(* The steps that leave the window, or the files, alone.                   *)
LEMMA KeepsWindow ==
  ASSUME MemInv, UNCHANGED <<limit, ring, head, count, asked, said>>
  PROVE  \A p \in Voice : WindowLength(p)' /\ WindowRounds(p)' /\ RingIsPast(p)'
BY DEF MemInv, WindowLength, WindowRounds, Holds, RingIsPast

LEMMA KeepsFiles ==
  ASSUME MemInv, NEW p \in Voice, NEW x, vpc' = Set(vpc, p, x), UNCHANGED disk,
         {vpc[p], x} \cap {"fill", "rename"} = {},
         \A q \in Voice \ {p} : known'[q] = known[q]
  PROVE  SaveInv'
<1>1. /\ vpc'[p] = x /\ \A q \in Voice \ {p} : vpc'[q] = vpc[q]
      /\ inTmp \subseteq Voice /\ vpc[p] \notin {"fill", "rename"} /\ x \notin {"fill", "rename"}
  BY DEF MemInv, MemTypeOK, Set
<1>2. UNCHANGED <<confFile, tmpFile, inTmp, inConf, shared>> /\ SaveInv
  BY DEF MemInv, disk
<1>3. CASE ~shared
  <2>1. confFile.whole /\ inConf = {}
    BY <1>2, <1>3 DEF SaveInv
  <2>2. \A q \in inTmp : vpc'[q] = "fill"
    <3>1. ASSUME NEW q \in inTmp PROVE vpc[q] = "fill" /\ q \in Voice \ {p}
      BY <1>1, <1>2, <1>3 DEF SaveInv
    <3>. QED BY <1>1, <3>1
  <2>3. \A q, w \in Voice : {vpc'[q], vpc'[w]} \subseteq {"fill", "rename"} => q = w
    BY <1>1, <1>2, <1>3 DEF SaveInv
  <2>4. \A q \in Voice : vpc'[q] = "fill" => q \in inTmp /\ ~tmpFile.whole
    BY <1>1, <1>2, <1>3 DEF SaveInv
  <2>5. \A q \in Voice : vpc'[q] = "rename" =>
          tmpFile = [facts |-> known'[q], by |-> q, whole |-> TRUE]
    BY <1>1, <1>2, <1>3 DEF SaveInv
  <2>. QED BY <1>2, <2>1, <2>2, <2>3, <2>4, <2>5 DEF SaveInv
<1>4. CASE shared
  BY <1>2, <1>4 DEF SaveInv
<1>. QED BY <1>3, <1>4

LEMMA Goes == ASSUME NEW p, NEW q, NEW f PROVE GoesOn(p, q, f) \in {"round", "leave"}
BY DEF GoesOn

(* The end of the period, and of the window.                               *)
LEMMA KeepsPeriod ==
  ASSUME MemInv, NEW p \in Voice, NEW x, vpc' = Set(vpc, p, x), UNCHANGED <<limit, since>>,
         vpc[p] \in {"extract", "gone"} => x = "gone",
         \A q \in Voice : Len(said'[q]) >= Len(said[q]) /\ Len(said'[q]) \in Nat
  PROVE  \A q \in Voice : PeriodInv(q)'
<1>1. vpc'[p] = x /\ \A q \in Voice \ {p} : vpc'[q] = vpc[q]
  BY DEF MemInv, MemTypeOK, Set
<1>2. ASSUME NEW q \in Voice PROVE PeriodInv(q)'
  <2>1. PeriodInv(q) /\ since[q] \in Nat /\ said[q] \in Seq(Round)
    BY DEF MemInv, MemTypeOK
  <2>2. vpc'[q] \notin {"extract", "gone"} => vpc[q] \notin {"extract", "gone"}
    BY <1>1
  <2>3. since[q] <= Len(said'[q])
    BY <2>1 DEF PeriodInv
  <2>. QED BY <2>1, <2>2, <2>3 DEF PeriodInv
<1>. QED BY <1>2

LEMMA ForgetsRounds ==
  ASSUME MemInv, NEW p \in Voice, Forgets(p), NEW x, vpc' = Set(vpc, p, x)
  PROVE  /\ head' \in [Voice -> 0 .. (HistMax - 1)] /\ count' \in [Voice -> Nat]
         /\ \A q \in Voice : count'[q] <= limit'[q]
         /\ since' \in [Voice -> Nat] /\ said' \in [Voice -> Seq(Round)]
         /\ \A q \in Voice : WindowLength(q)' /\ WindowRounds(q)' /\ PeriodInv(q)' /\ RingIsPast(q)'
<1>. USE VoiceConstants
<1>1. /\ limit \in [Voice -> Limits] /\ head \in [Voice -> 0 .. (HistMax - 1)]
      /\ count \in [Voice -> Nat] /\ \A q \in Voice : count[q] <= limit[q]
      /\ since \in [Voice -> Nat] /\ said \in [Voice -> Seq(Round)]
      /\ vpc \in [Voice -> {"off", "round", "leave", "extract", "open", "fill", "rename", "gone"}]
  BY DEF MemInv, MemTypeOK
<1>2. /\ head' = Set(head, p, 0) /\ count' = Set(count, p, 0)
      /\ since' = Set(since, p, 0) /\ said' = Set(said, p, <<>>)
      /\ UNCHANGED <<limit, ring, asked>>
  BY DEF Forgets
<1>3. /\ head' \in [Voice -> 0 .. (HistMax - 1)] /\ count' \in [Voice -> Nat]
      /\ since' \in [Voice -> Nat]
  BY <1>1, <1>2 DEF Set
<1>4. said' \in [Voice -> Seq(Round)]
  BY <1>1, <1>2 DEF Set
<1>5. head'[p] = 0 /\ count'[p] = 0 /\ since'[p] = 0 /\ said'[p] = <<>>
  BY <1>1, <1>2 DEF Set
<1>6. ASSUME NEW q \in Voice \ {p}
      PROVE  /\ head'[q] = head[q] /\ count'[q] = count[q] /\ since'[q] = since[q]
             /\ said'[q] = said[q] /\ vpc'[q] = vpc[q]
  <2>1. head'[q] = head[q] /\ count'[q] = count[q] /\ since'[q] = since[q]
    BY <1>1, <1>2 DEF Set
  <2>2. said'[q] = said[q]
    BY <1>1, <1>2 DEF Set
  <2>3. vpc'[q] = vpc[q]
    BY <1>1 DEF Set
  <2>. QED BY <2>1, <2>2, <2>3
<1>7. limit[p] \in Nat
  <2>1. limit[p] \in Limits
    BY <1>1
  <2>2. \A l \in Limits : l \in Nat
    OBVIOUS
  <2>. QED BY <2>1, <2>2
<1>8. WindowLength(p)' /\ WindowRounds(p)' /\ PeriodInv(p)'
  <2>1. WindowLength(p)' /\ PeriodInv(p)'
    BY <1>2, <1>5, <1>7 DEF WindowLength, PeriodInv
  <2>2. WindowRounds(p)'
    <3>1. Len(<<>>) = 0 /\ DOMAIN <<>> = {} /\ HistMax \in Nat
      OBVIOUS
    <3>2. ASSUME NEW f, NEW L PROVE Holds(f, 0, 0, <<>>, L)
      BY <3>1 DEF Holds
    <3>. QED BY <1>5, <3>1, <3>2 DEF WindowRounds
  <2>. QED BY <2>1, <2>2
<1>9. ASSUME NEW q \in Voice \ {p} PROVE WindowLength(q)' /\ WindowRounds(q)' /\ PeriodInv(q)'
  <2>1. limit'[q] = limit[q] /\ ring'[q] = ring[q]
    BY <1>2
  <2>2. WindowLength(q) /\ WindowRounds(q) /\ PeriodInv(q)
    BY DEF MemInv
  <2>3. WindowLength(q)'
    BY <1>6, <2>1, <2>2 DEF WindowLength
  <2>4. WindowRounds(q)'
    BY <1>6, <2>1, <2>2 DEF WindowRounds
  <2>5. PeriodInv(q)'
    BY <1>6, <2>1, <2>2 DEF PeriodInv
  <2>. QED BY <2>3, <2>4, <2>5
<1>10. ASSUME NEW q \in Voice PROVE count'[q] <= limit'[q]
  <2>1. CASE q = p
    <3>1. count'[p] = 0 /\ limit'[p] = limit[p]
      BY <1>2, <1>5
    <3>. QED BY <1>7, <2>1, <3>1
  <2>2. CASE q # p
    <3>1. count'[q] = count[q] /\ limit'[q] = limit[q]
      BY <1>2, <1>6, <2>2
    <3>2. count[q] <= limit[q]
      BY <1>1
    <3>. QED BY <3>1, <3>2
  <2>. QED BY <2>1, <2>2
<1>11. \A q \in Voice : RingIsPast(q)'
  BY <1>2 DEF MemInv, RingIsPast
<1>. QED BY <1>3, <1>4, <1>8, <1>9, <1>10, <1>11

(* Each step of a process.                                                 *)
LEMMA MemStartKeeps ==
  ASSUME MemInv, NEW p \in Voice, NEW c \in {"chat", "ask", "forget"}, MemStart(p, c)
  PROVE  MemInv'
<1>. DEFINE x == IF c = "forget" THEN "open" ELSE "round"
<1>1. /\ vpc[p] = "off" /\ cmd' = Set(cmd, p, c) /\ known' = Set(known, p, Loaded(c))
      /\ loaded' = Set(loaded, p, confFile.facts) /\ vpc' = Set(vpc, p, x)
      /\ UNCHANGED <<quit, limit, ring, head, count, since, fails, asked, said, confFile, tmpFile,
                     inTmp, inConf, shared>>
  BY DEF MemStart, memory, disk
<1>2. MemTypeOK /\ SaveInv /\ FactsInv
  BY DEF MemInv
<1>3. confFile.facts \in SUBSET Round /\ Cardinality(confFile.facts) <= FactMax
  BY <1>2 DEF MemTypeOK, Profile, FactsInv
<1>4. Loaded(c) \in SUBSET Round /\ Cardinality(Loaded(c)) <= FactMax
  <2>1. Cardinality({}) = 0 /\ 0 <= FactMax
    BY FS_EmptySet, VoiceConstants
  <2>2. Loaded(c) = {} \/ Loaded(c) = confFile.facts
    BY DEF Loaded
  <2>. QED BY <1>3, <2>1, <2>2
<1>5. known' \in [Voice -> SUBSET Round] /\ known'[p] = Loaded(c)
      /\ \A q \in Voice \ {p} : known'[q] = known[q]
  BY <1>1, <1>2, <1>4 DEF MemTypeOK, Set
<1>6. \A q \in Voice : Cardinality(known'[q]) <= FactMax
  BY <1>2, <1>4, <1>5 DEF MemTypeOK
<1>7. loaded' \in [Voice -> SUBSET Round] /\ loaded'[p] = confFile.facts
      /\ \A q \in Voice \ {p} : loaded'[q] = loaded[q]
  BY <1>1, <1>2, <1>3 DEF MemTypeOK, Set
<1>8. /\ cmd' \in [Voice -> {"chat", "ask", "forget"}] /\ cmd'[p] = c
      /\ \A q \in Voice \ {p} : cmd'[q] = cmd[q]
      /\ vpc' \in [Voice -> {"off", "round", "leave", "extract", "open", "fill", "rename", "gone"}]
  BY <1>1, <1>2 DEF MemTypeOK, Set
<1>9. MemTypeOK'
  BY <1>1, <1>2, <1>5, <1>6, <1>7, <1>8 DEF MemTypeOK
<1>10. SaveInv'
  BY <1>1, <1>5, KeepsFiles DEF disk
<1>11. FactsInv'
  <2>1. \A q \in Voice : cmd'[q] # "forget" => loaded'[q] \subseteq known'[q]
    BY <1>2, <1>5, <1>7, <1>8 DEF FactsInv, Loaded
  <2>. QED BY <1>1, <1>2, <2>1 DEF FactsInv
<1>12. \A q \in Voice : PeriodInv(q)'
  <2>1. \A q \in Voice : said[q] \in Seq(Round)
    BY <1>2 DEF MemTypeOK
  <2>2. \A q \in Voice : Len(said'[q]) >= Len(said[q]) /\ Len(said'[q]) \in Nat
    BY <1>1, <2>1
  <2>. QED BY <1>1, <2>2, KeepsPeriod
<1>13. \A q \in Voice : WindowLength(q)' /\ WindowRounds(q)' /\ RingIsPast(q)'
  BY <1>1, KeepsWindow
<1>. QED BY <1>9, <1>10, <1>11, <1>12, <1>13 DEF MemInv

(* The rounds: they leave the files and what is known alone.               *)
LEMMA RoundKeeps ==
  ASSUME MemInv, NEW p \in Voice, NEW x, vpc' = Set(vpc, p, x),
         x \in {"round", "leave", "extract", "gone"}, vpc[p] \in {"round", "leave", "extract"},
         UNCHANGED <<cmd, quit, known, loaded, limit, disk>>,
         /\ ring' \in [Voice -> [0 .. (HistMax - 1) -> 0 .. MaxRounds]]
         /\ head' \in [Voice -> 0 .. (HistMax - 1)]
         /\ count' \in [Voice -> Nat] /\ \A q \in Voice : count'[q] <= limit'[q]
         /\ said' \in [Voice -> Seq(Round)] /\ since' \in [Voice -> Nat]
         /\ fails' \in [Voice -> Nat] /\ asked' \in 0 .. MaxRounds,
         \A q \in Voice : WindowLength(q)' /\ WindowRounds(q)' /\ PeriodInv(q)' /\ RingIsPast(q)'
  PROVE  MemInv'
<1>1. /\ UNCHANGED <<confFile, tmpFile, inTmp, inConf, shared>>
      /\ MemTypeOK /\ FactsInv
  BY DEF MemInv, disk
<1>2. vpc' \in [Voice -> {"off", "round", "leave", "extract", "open", "fill", "rename", "gone"}]
  BY <1>1 DEF MemTypeOK, Set
<1>3. MemTypeOK'
  BY <1>1, <1>2 DEF MemTypeOK
<1>4. SaveInv'
  BY KeepsFiles
<1>5. FactsInv'
  BY <1>1 DEF FactsInv
<1>. QED BY <1>3, <1>4, <1>5 DEF MemInv

LEMMA RoundsKeep ==
  ASSUME MemInv, NEW p \in Voice, RoundFails(p) \/ RoundIsSilent(p) \/ RoundIsSpoken(p) \/ Leave(p)
  PROVE  MemInv'
<1>1. /\ MemTypeOK /\ asked \in 0 .. MaxRounds /\ MaxRounds \in Nat
      /\ since \in [Voice -> Nat] /\ fails \in [Voice -> Nat] /\ said \in [Voice -> Seq(Round)]
  BY VoiceConstants DEF MemInv, MemTypeOK
<1>2. /\ ring \in [Voice -> [0 .. (HistMax - 1) -> 0 .. MaxRounds]]
      /\ head \in [Voice -> 0 .. (HistMax - 1)]
      /\ count \in [Voice -> Nat] /\ \A q \in Voice : count[q] <= limit[q]
  BY <1>1 DEF MemTypeOK
<1>3. Set(fails, p, fails[p] + 1) \in [Voice -> Nat] /\ Set(fails, p, 0) \in [Voice -> Nat]
  BY <1>1 DEF Set
<1>4. \A q \in Voice : Len(said[q]) \in Nat
  <2>1. \A q \in Voice : said[q] \in Seq(Round)
    BY <1>1
  <2>. QED BY <2>1
<1>5. CASE RoundFails(p)
  <2>1. /\ vpc[p] = "round" /\ fails' = Set(fails, p, fails[p] + 1)
        /\ UNCHANGED <<cmd, quit, known, loaded, limit, ring, head, count, since, asked, said, disk>>
    BY <1>5 DEF RoundFails
  <2>2. PICK x \in {"round", "leave"} : vpc' = Set(vpc, p, x)
    BY <1>5, Goes DEF RoundFails
  <2>3. \A q \in Voice : WindowLength(q)' /\ WindowRounds(q)' /\ RingIsPast(q)'
    BY <2>1, KeepsWindow
  <2>4. \A q \in Voice : PeriodInv(q)'
    <3>1. \A q \in Voice : Len(said'[q]) >= Len(said[q]) /\ Len(said'[q]) \in Nat
      BY <1>4, <2>1
    <3>. QED BY <2>1, <2>2, <3>1, KeepsPeriod
  <2>. QED BY <1>1, <1>2, <1>3, <2>1, <2>2, <2>3, <2>4, RoundKeeps
<1>6. CASE Leave(p)
  <2>1. /\ vpc[p] = "leave"
        /\ UNCHANGED <<cmd, quit, known, loaded, limit, ring, head, count, since, fails, asked, said, disk>>
    BY <1>6 DEF Leave, memory
  <2>2. PICK x \in {"extract", "gone"} : vpc' = Set(vpc, p, x)
    BY <1>6 DEF Leave
  <2>3. \A q \in Voice : WindowLength(q)' /\ WindowRounds(q)' /\ RingIsPast(q)'
    BY <2>1, KeepsWindow
  <2>4. \A q \in Voice : PeriodInv(q)'
    <3>1. \A q \in Voice : Len(said'[q]) >= Len(said[q]) /\ Len(said'[q]) \in Nat
      BY <1>4, <2>1
    <3>. QED BY <2>1, <2>2, <3>1, KeepsPeriod
  <2>. QED BY <1>1, <1>2, <2>1, <2>2, <2>3, <2>4, RoundKeeps
<1>7. ASSUME asked < MaxRounds, HistAdd(p, asked + 1), asked' = asked + 1,
             said' = Set(said, p, Append(said[p], asked + 1)), UNCHANGED limit
      PROVE  /\ ring' \in [Voice -> [0 .. (HistMax - 1) -> 0 .. MaxRounds]]
             /\ head' \in [Voice -> 0 .. (HistMax - 1)]
             /\ count' \in [Voice -> Nat] /\ \A q \in Voice : count'[q] <= limit'[q]
             /\ said' \in [Voice -> Seq(Round)] /\ Len(said'[p]) = Len(said[p]) + 1
             /\ \A q \in Voice \ {p} : said'[q] = said[q]
             /\ \A q \in Voice : WindowLength(q)' /\ WindowRounds(q)' /\ RingIsPast(q)'
             /\ \A q \in Voice : Len(said'[q]) >= Len(said[q]) /\ Len(said'[q]) \in Nat
             /\ asked' \in 0 .. MaxRounds
  <2>1. asked + 1 \in Round /\ asked' \in 0 .. MaxRounds
    BY <1>1, <1>7 DEF Round
  <2>2. RoundAdded(p, asked + 1)
    BY <1>7 DEF RoundAdded
  <2>3. /\ ring' \in [Voice -> [0 .. (HistMax - 1) -> 0 .. MaxRounds]]
        /\ head' \in [Voice -> 0 .. (HistMax - 1)]
        /\ count' \in [Voice -> Nat] /\ \A q \in Voice : count'[q] <= limit'[q]
        /\ said' \in [Voice -> Seq(Round)] /\ Len(said'[p]) = Len(said[p]) + 1
        /\ \A q \in Voice : WindowLength(q)' /\ WindowRounds(q)' /\ RingIsPast(q)'
        /\ \A q \in Voice \ {p} : said'[q] = said[q]
    BY <2>1, <2>2, AddsRound
  <2>4. \A q \in Voice : Len(said'[q]) >= Len(said[q]) /\ Len(said'[q]) \in Nat
    <3>1. Len(said'[p]) >= Len(said[p]) /\ Len(said'[p]) \in Nat
      BY <1>4, <2>3
    <3>2. ASSUME NEW q \in Voice \ {p} PROVE Len(said'[q]) >= Len(said[q]) /\ Len(said'[q]) \in Nat
      BY <1>4, <2>3
    <3>. QED BY <3>1, <3>2
  <2>. QED BY <2>1, <2>3, <2>4
<1>8. CASE RoundIsSilent(p)
  <2>1. /\ vpc[p] = "round" /\ asked < MaxRounds /\ HistAdd(p, asked + 1) /\ asked' = asked + 1
        /\ said' = Set(said, p, Append(said[p], asked + 1)) /\ fails' = Set(fails, p, fails[p] + 1)
        /\ UNCHANGED <<cmd, quit, known, loaded, limit, since, disk>>
    BY <1>8 DEF RoundIsSilent
  <2>2. PICK x \in {"round", "leave"} : vpc' = Set(vpc, p, x)
    BY <1>8, Goes DEF RoundIsSilent
  <2>3. \A q \in Voice : PeriodInv(q)'
    BY <1>7, <2>1, <2>2, KeepsPeriod
  <2>. QED BY <1>1, <1>3, <1>7, <2>1, <2>2, <2>3, RoundKeeps
<1>9. CASE RoundIsSpoken(p)
  <2>. DEFINE x == IF Due(since[p] + 1) /\ limit[p] > 0 THEN "extract" ELSE GoesOn(p, quit[p], 0)
  <2>1. /\ vpc[p] = "round" /\ asked < MaxRounds /\ HistAdd(p, asked + 1) /\ asked' = asked + 1
        /\ said' = Set(said, p, Append(said[p], asked + 1)) /\ fails' = Set(fails, p, 0)
        /\ since' = Set(since, p, since[p] + 1) /\ vpc' = Set(vpc, p, x)
        /\ UNCHANGED <<cmd, quit, known, loaded, limit, disk>>
    BY <1>9 DEF RoundIsSpoken
  <2>2. x \in {"round", "leave", "extract"}
    BY Goes
  <2>3. /\ since' \in [Voice -> Nat] /\ since'[p] = since[p] + 1 /\ since[p] \in Nat
        /\ \A q \in Voice \ {p} : since'[q] = since[q]
    BY <1>1, <2>1 DEF Set
  <2>4. vpc'[p] = x /\ \A q \in Voice \ {p} : vpc'[q] = vpc[q]
    BY <1>1, <2>1 DEF MemTypeOK, Set
  <2>5. PeriodInv(p)'
    <3>1. PeriodInv(p) /\ Every \in Nat /\ Len(said'[p]) = Len(said[p]) + 1 /\ Len(said[p]) \in Nat
      BY <1>4, <1>7, <2>1, VoiceConstants DEF MemInv
    <3>2. since'[p] <= Len(said'[p])
      BY <2>3, <3>1 DEF PeriodInv
    <3>3. ASSUME limit[p] > 0 PROVE since'[p] <= Every /\ (x # "extract" => since'[p] < Every)
      BY <2>1, <2>2, <2>3, <3>1, <3>3 DEF PeriodInv, Due
    <3>. QED BY <2>1, <2>4, <3>2, <3>3 DEF PeriodInv
  <2>6. ASSUME NEW q \in Voice \ {p} PROVE PeriodInv(q)'
    BY <1>7, <2>1, <2>3, <2>4 DEF MemInv, PeriodInv
  <2>7. \A q \in Voice : PeriodInv(q)'
    BY <2>5, <2>6
  <2>. HIDE DEF x
  <2>. QED BY <1>1, <1>3, <1>7, <2>1, <2>2, <2>3, <2>7, RoundKeeps
<1>. QED BY <1>5, <1>6, <1>8, <1>9

(* What was extracted, or not, is all that a window leaves behind.         *)
LEMMA ExtractKeeps ==
  ASSUME MemInv, NEW p \in Voice, Extract(p) \/ ExtractFails(p)
  PROVE  MemInv'
<1>1. /\ MemTypeOK /\ FactsInv /\ ring \in [Voice -> [0 .. (HistMax - 1) -> 0 .. MaxRounds]]
      /\ fails \in [Voice -> Nat] /\ asked \in 0 .. MaxRounds /\ known \in [Voice -> SUBSET Round]
      /\ \A q \in Voice : Cardinality(known[q]) <= FactMax
  BY DEF MemInv, MemTypeOK
<1>2. /\ vpc[p] = "extract" /\ Forgets(p)
      /\ UNCHANGED <<cmd, quit, loaded, limit, ring, fails, asked, disk>>
  BY DEF Extract, ExtractFails, Forgets
<1>3. PICK x \in {"open", "round", "leave"} : vpc' = Set(vpc, p, x)
  BY Goes DEF Extract, ExtractFails
<1>4. /\ head' \in [Voice -> 0 .. (HistMax - 1)] /\ count' \in [Voice -> Nat]
      /\ \A q \in Voice : count'[q] <= limit'[q]
      /\ since' \in [Voice -> Nat] /\ said' \in [Voice -> Seq(Round)]
      /\ \A q \in Voice : WindowLength(q)' /\ WindowRounds(q)' /\ PeriodInv(q)' /\ RingIsPast(q)'
  BY <1>2, <1>3, ForgetsRounds
<1>5. PICK new \in SUBSET Round : /\ Cardinality(known[p] \cup new) <= FactMax
                                  /\ known' = Set(known, p, known[p] \cup new)
  <2>1. CASE Extract(p)
    BY <2>1 DEF Extract
  <2>2. CASE ExtractFails(p)
    <3>1. known' = Set(known, p, known[p] \cup {}) /\ Cardinality(known[p] \cup {}) <= FactMax
      <4>1. known[p] \cup {} = known[p] /\ known' = known
        BY <2>2 DEF ExtractFails
      <4>2. Set(known, p, known[p]) = known
        BY <1>1 DEF Set
      <4>. QED BY <1>1, <4>1, <4>2
    <3>. QED BY <3>1
  <2>. QED BY <2>1, <2>2
<1>6. /\ known'[p] = known[p] \cup new /\ \A q \in Voice \ {p} : known'[q] = known[q]
      /\ known' \in [Voice -> SUBSET Round]
  BY <1>1, <1>5 DEF Set
<1>7. \A q \in Voice : Cardinality(known'[q]) <= FactMax
  BY <1>1, <1>5, <1>6
<1>8. vpc' \in [Voice -> {"off", "round", "leave", "extract", "open", "fill", "rename", "gone"}]
  BY <1>1, <1>3 DEF MemTypeOK, Set
<1>9. UNCHANGED <<confFile, tmpFile, inTmp, inConf, shared>>
  BY <1>2 DEF disk
<1>10. MemTypeOK'
  BY <1>1, <1>2, <1>4, <1>6, <1>7, <1>8, <1>9 DEF MemTypeOK
<1>11. SaveInv'
  BY <1>2, <1>3, <1>6, KeepsFiles
<1>12. FactsInv'
  <2>1. \A q \in Voice : cmd'[q] # "forget" => loaded'[q] \subseteq known'[q]
    BY <1>1, <1>2, <1>6 DEF FactsInv
  <2>. QED BY <1>1, <1>9, <2>1 DEF FactsInv
<1>. QED BY <1>4, <1>10, <1>11, <1>12 DEF MemInv

(* The steps of a save leave the rounds alone.                             *)
LEMMA SaveKeeps ==
  ASSUME MemInv, NEW p \in Voice, NEW x, vpc' = Set(vpc, p, x),
         x \in {"round", "leave", "fill", "rename"}, vpc[p] \in {"open", "fill", "rename"},
         UNCHANGED <<cmd, quit, known, loaded, memory>>,
         confFile' \in Profile, tmpFile' \in Profile \cup {NoFile}, inTmp' \subseteq Voice,
         inConf' \subseteq Voice, shared' \in BOOLEAN, SaveInv', FactsInv'
  PROVE  MemInv'
<1>1. MemTypeOK /\ UNCHANGED <<limit, ring, head, count, since, fails, asked, said>>
  BY DEF MemInv, memory
<1>2. vpc' \in [Voice -> {"off", "round", "leave", "extract", "open", "fill", "rename", "gone"}]
  BY <1>1 DEF MemTypeOK, Set
<1>3. MemTypeOK'
  BY <1>1, <1>2 DEF MemTypeOK
<1>4. \A q \in Voice : WindowLength(q)' /\ WindowRounds(q)' /\ RingIsPast(q)'
  BY <1>1, KeepsWindow
<1>5. \A q \in Voice : PeriodInv(q)'
  <2>1. \A q \in Voice : said[q] \in Seq(Round)
    BY <1>1 DEF MemTypeOK
  <2>2. \A q \in Voice : Len(said'[q]) >= Len(said[q]) /\ Len(said'[q]) \in Nat
    BY <1>1, <2>1
  <2>. QED BY <1>1, <2>2, KeepsPeriod
<1>. QED BY <1>3, <1>4, <1>5 DEF MemInv

LEMMA OpenKeeps ==
  ASSUME MemInv, NEW p \in Voice, OpenTmp(p)
  PROVE  MemInv'
<1>1. /\ MemTypeOK /\ SaveInv /\ FactsInv
      /\ vpc \in [Voice -> {"off", "round", "leave", "extract", "open", "fill", "rename", "gone"}]
      /\ inTmp \subseteq Voice /\ inConf \subseteq Voice /\ shared \in BOOLEAN /\ confFile \in Profile
  BY DEF MemInv, MemTypeOK
<1>2. /\ vpc[p] = "open" /\ tmpFile' = [facts |-> {}, by |-> p, whole |-> FALSE]
      /\ inTmp' = inTmp \cup {p} /\ vpc' = Set(vpc, p, "fill")
      /\ UNCHANGED <<cmd, quit, known, loaded, memory, confFile, inConf>>
      /\ shared' = (shared \/ \E q \in Voice \ {p} : vpc[q] \in {"fill", "rename"})
  BY DEF OpenTmp
<1>3. vpc'[p] = "fill" /\ \A q \in Voice \ {p} : vpc'[q] = vpc[q]
  BY <1>1, <1>2 DEF Set
<1>4. tmpFile' \in Profile
  BY <1>2 DEF Profile
<1>5. shared' \in BOOLEAN
  BY <1>1, <1>2
<1>6. SaveInv'
  <2>1. CASE shared'
    BY <2>1 DEF SaveInv
  <2>2. CASE ~shared'
    <3>1. ~shared /\ \A q \in Voice \ {p} : vpc[q] \notin {"fill", "rename"}
      BY <1>2, <2>2
    <3>2. confFile' = confFile /\ inConf' = inConf /\ confFile.whole /\ inConf = {}
      BY <1>1, <1>2, <3>1 DEF SaveInv
    <3>3. \A q \in inTmp' : vpc'[q] = "fill"
      <4>1. \A q \in inTmp : vpc[q] = "fill"
        BY <1>1, <3>1 DEF SaveInv
      <4>. QED BY <1>1, <1>2, <1>3, <4>1
    <3>4. \A q \in Voice : vpc'[q] \in {"fill", "rename"} => q = p
      BY <1>3, <3>1
    <3>5. ~tmpFile'.whole /\ p \in inTmp' /\ vpc'[p] # "rename"
      BY <1>2, <1>3
    <3>. QED BY <3>2, <3>3, <3>4, <3>5 DEF SaveInv
  <2>. QED BY <2>1, <2>2
<1>7. FactsInv'
  <2>1. Cardinality({}) = 0 /\ 0 <= FactMax
    BY FS_EmptySet, VoiceConstants
  <2>2. Cardinality(tmpFile'.facts) <= FactMax
    <3>1. tmpFile'.facts = {}
      BY <1>2
    <3>. QED BY <2>1, <3>1
  <2>. QED BY <1>1, <1>2, <1>4, <2>2 DEF FactsInv
<1>. QED BY <1>1, <1>2, <1>4, <1>5, <1>6, <1>7, SaveKeeps

LEMMA FillKeeps ==
  ASSUME MemInv, NEW p \in Voice, FillTmp(p)
  PROVE  MemInv'
<1>1. /\ MemTypeOK /\ SaveInv /\ FactsInv
      /\ vpc \in [Voice -> {"off", "round", "leave", "extract", "open", "fill", "rename", "gone"}]
      /\ inTmp \subseteq Voice /\ inConf \subseteq Voice /\ shared \in BOOLEAN /\ confFile \in Profile
      /\ tmpFile \in Profile \cup {NoFile} /\ known[p] \in SUBSET Round /\ Cardinality(known[p]) <= FactMax
  BY DEF MemInv, MemTypeOK
<1>2. /\ vpc[p] = "fill" /\ inTmp' = inTmp \ {p} /\ inConf' = inConf \ {p}
      /\ vpc' = Set(vpc, p, "rename") /\ UNCHANGED <<cmd, quit, known, loaded, memory, shared>>
  BY DEF FillTmp
<1>3. vpc'[p] = "rename" /\ \A q \in Voice \ {p} : vpc'[q] = vpc[q]
  BY <1>1, <1>2 DEF Set
<1>4. ASSUME NEW old \in Profile, NEW f, Filled(p, old, f)
      PROVE  f \in Profile /\ f.facts = known[p] /\ f.by = p
             /\ (~old.whole => f = [facts |-> known[p], by |-> p, whole |-> TRUE])
  <2>1. PICK w \in {TRUE, old.by = p \/ ~old.whole} : f = [facts |-> known[p], by |-> p, whole |-> w]
    BY <1>4 DEF Filled
  <2>2. w \in BOOLEAN
    BY <2>1
  <2>3. ~old.whole => w = TRUE
    BY <2>1
  <2>. QED BY <1>1, <2>1, <2>2, <2>3 DEF Profile
<1>5. \/ p \in inTmp /\ tmpFile \in Profile /\ Filled(p, tmpFile, tmpFile') /\ confFile' = confFile
      \/ p \in inConf /\ Filled(p, confFile, confFile') /\ tmpFile' = tmpFile
      \/ p \notin inTmp /\ UNCHANGED <<tmpFile, confFile>>
  BY <1>1 DEF FillTmp, FactsInv
<1>6. confFile' \in Profile /\ tmpFile' \in Profile \cup {NoFile}
  BY <1>1, <1>4, <1>5
<1>7. SaveInv'
  <2>1. CASE shared'
    BY <2>1 DEF SaveInv
  <2>2. CASE ~shared'
    <3>1. /\ ~shared /\ confFile.whole /\ inConf = {} /\ p \in inTmp /\ ~tmpFile.whole
          /\ \A q \in inTmp : vpc[q] = "fill"
          /\ \A q \in Voice \ {p} : vpc[q] \notin {"fill", "rename"}
      BY <1>1, <1>2, <2>2 DEF SaveInv
    <3>2. confFile' = confFile /\ tmpFile' = [facts |-> known[p], by |-> p, whole |-> TRUE]
      BY <1>4, <1>5, <3>1
    <3>3. \A q \in inTmp' : vpc'[q] = "fill"
      BY <1>1, <1>2, <1>3, <3>1
    <3>4. \A q \in Voice : vpc'[q] \in {"fill", "rename"} => q = p
      BY <1>3, <3>1
    <3>5. inConf' = {} /\ known' = known
      BY <1>2, <3>1
    <3>. QED BY <1>3, <3>1, <3>2, <3>3, <3>4, <3>5 DEF SaveInv
  <2>. QED BY <2>1, <2>2
<1>8. FactsInv'
  <2>1. Cardinality(confFile'.facts) <= FactMax /\ (tmpFile' = NoFile \/ Cardinality(tmpFile'.facts) <= FactMax)
    BY <1>1, <1>4, <1>5 DEF FactsInv
  <2>2. inTmp' # {} => tmpFile' \in Profile
    BY <1>1, <1>2, <1>4, <1>5 DEF FactsInv
  <2>. QED BY <1>1, <1>2, <2>1, <2>2 DEF FactsInv
<1>. QED BY <1>1, <1>2, <1>6, <1>7, <1>8, SaveKeeps

LEMMA RenameKeeps ==
  ASSUME MemInv, NEW p \in Voice, RenameTmp(p)
  PROVE  MemInv'
<1>1. /\ MemTypeOK /\ SaveInv /\ FactsInv
      /\ vpc \in [Voice -> {"off", "round", "leave", "extract", "open", "fill", "rename", "gone"}]
      /\ inTmp \subseteq Voice /\ inConf \subseteq Voice /\ shared \in BOOLEAN /\ confFile \in Profile
      /\ tmpFile \in Profile \cup {NoFile}
  BY DEF MemInv, MemTypeOK
<1>2. /\ vpc[p] = "rename" /\ confFile' = (IF tmpFile = NoFile THEN confFile ELSE tmpFile)
      /\ tmpFile' = NoFile /\ inTmp' = {} /\ inConf' = (IF tmpFile = NoFile THEN inConf ELSE inTmp)
      /\ UNCHANGED <<cmd, quit, known, loaded, memory, shared>>
  BY DEF RenameTmp
<1>3. PICK x \in {"round", "leave"} : vpc' = Set(vpc, p, x)
  BY Goes DEF RenameTmp
<1>4. vpc'[p] = x /\ \A q \in Voice \ {p} : vpc'[q] = vpc[q]
  BY <1>1, <1>3 DEF Set
<1>5. confFile' \in Profile /\ tmpFile' \in Profile \cup {NoFile} /\ inConf' \subseteq Voice
  BY <1>1, <1>2
<1>6. SaveInv'
  <2>1. CASE shared'
    BY <2>1 DEF SaveInv
  <2>2. CASE ~shared'
    <3>1. /\ ~shared /\ confFile.whole /\ inConf = {}
          /\ \A q \in inTmp : vpc[q] = "fill"
          /\ tmpFile = [facts |-> known[p], by |-> p, whole |-> TRUE]
          /\ \A q \in Voice \ {p} : vpc[q] \notin {"fill", "rename"}
      BY <1>1, <1>2, <2>2 DEF SaveInv
    <3>2. tmpFile.whole /\ inTmp = {}
      BY <1>1, <1>2, <3>1
    <3>3. confFile'.whole /\ inConf' = {}
      BY <1>2, <3>1, <3>2
    <3>4. \A q \in Voice : vpc'[q] \notin {"fill", "rename"}
      BY <1>3, <1>4, <3>1
    <3>. QED BY <1>2, <3>3, <3>4 DEF SaveInv
  <2>. QED BY <2>1, <2>2
<1>7. FactsInv'
  BY <1>1, <1>2 DEF FactsInv
<1>. QED BY <1>1, <1>2, <1>3, <1>5, <1>6, <1>7, SaveKeeps

LEMMA WorldKeeps ==
  ASSUME MemInv, BoardOff \/ (\E p \in Voice : StopSignal(p)) \/ UNCHANGED memVars
  PROVE  MemInv'
<1>1. /\ MemTypeOK /\ SaveInv /\ FactsInv
      /\ vpc \in [Voice -> {"off", "round", "leave", "extract", "open", "fill", "rename", "gone"}]
      /\ quit \in [Voice -> BOOLEAN] /\ \A q \in Voice : PeriodInv(q)
  BY DEF MemInv, MemTypeOK
<1>2. /\ UNCHANGED <<cmd, known, loaded, limit, ring, head, count, since, fails, asked, said>>
      /\ UNCHANGED <<confFile, tmpFile, shared>>
  BY DEF BoardOff, StopSignal, memVars, memory, disk
<1>3. quit' \in [Voice -> BOOLEAN]
  <2>1. ASSUME NEW p \in Voice, quit' = Set(quit, p, TRUE) PROVE quit' \in [Voice -> BOOLEAN]
    BY <1>1, <2>1 DEF Set
  <2>. QED BY <1>1, <2>1 DEF BoardOff, StopSignal, memVars
<1>4. \/ /\ vpc' = [q \in Voice |-> IF vpc[q] = "off" THEN "off" ELSE "gone"]
         /\ inTmp' = {} /\ inConf' = {}
      \/ UNCHANGED <<vpc, inTmp, inConf>>
  BY DEF BoardOff, StopSignal, memVars, disk
<1>5. vpc' \in [Voice -> {"off", "round", "leave", "extract", "open", "fill", "rename", "gone"}]
  BY <1>1, <1>4
<1>6. inTmp' \subseteq inTmp /\ inConf' \subseteq inConf
  BY <1>4
<1>7. MemTypeOK'
  BY <1>1, <1>2, <1>3, <1>5, <1>6 DEF MemTypeOK
<1>8. SaveInv'
  <2>1. CASE UNCHANGED <<vpc, inTmp, inConf>>
    BY <1>1, <1>2, <2>1 DEF SaveInv
  <2>2. CASE /\ vpc' = [q \in Voice |-> IF vpc[q] = "off" THEN "off" ELSE "gone"]
             /\ inTmp' = {} /\ inConf' = {}
    <3>1. \A q \in Voice : vpc'[q] \notin {"fill", "rename"}
      BY <2>2
    <3>. QED BY <1>1, <1>2, <2>2, <3>1 DEF SaveInv
  <2>. QED BY <1>4, <2>1, <2>2
<1>9. FactsInv'
  BY <1>1, <1>2, <1>6 DEF FactsInv
<1>10. \A q \in Voice : WindowLength(q)' /\ WindowRounds(q)' /\ RingIsPast(q)'
  BY <1>2, KeepsWindow
<1>11. ASSUME NEW q \in Voice PROVE PeriodInv(q)'
  <2>1. vpc'[q] \notin {"extract", "gone"} => vpc'[q] = vpc[q]
    <3>1. CASE UNCHANGED vpc
      BY <3>1
    <3>2. CASE vpc' = [w \in Voice |-> IF vpc[w] = "off" THEN "off" ELSE "gone"]
      BY <1>1, <3>2
    <3>. QED BY <1>4, <3>1, <3>2
  <2>. QED BY <1>1, <1>2, <2>1 DEF PeriodInv
<1>. QED BY <1>7, <1>8, <1>9, <1>10, <1>11 DEF MemInv

LEMMA MemNextInv == MemInv /\ [MemNext]_memVars => MemInv'
<1> SUFFICES ASSUME MemInv, [MemNext]_memVars PROVE MemInv'
  OBVIOUS
<1>1. ASSUME NEW p \in Voice, NEW c \in {"chat", "ask", "forget"}, MemStart(p, c) PROVE MemInv'
  BY <1>1, MemStartKeeps
<1>2. ASSUME NEW p \in Voice, VoiceStep(p) PROVE MemInv'
  BY <1>2, RoundsKeep, ExtractKeeps, OpenKeeps, FillKeeps, RenameKeeps DEF VoiceStep
<1>3. CASE BoardOff \/ (\E p \in Voice : StopSignal(p)) \/ UNCHANGED memVars
  BY <1>3, WorldKeeps
<1>. QED BY <1>1, <1>2, <1>3 DEF MemNext

THEOREM MemInvariant == MemSpec => []MemInv
<1>. QED BY MemInitInv, MemNextInv, PTL DEF MemSpec

(* The slots of the window are the first ones behind the head.             *)
LEMMA WindowHolds == MemInv => WindowIsKnown
<1> SUFFICES ASSUME MemInv, NEW p \in Voice, NEW i \in 1 .. count[p]
             PROVE  LET q     == Len(said[p]) - count[p] + i
                        round == Window(p)[i]
                    IN /\ q <= limit[p] => round = said[p][q]
                       /\ q > HistMax   => round = said[p][q - (HistMax - limit[p])]
                       /\ q \in (limit[p] + 1) .. HistMax => round \notin ToSet(said[p])
  BY DEF WindowIsKnown
<1>. DEFINE s == said[p]
            c == count[p]
            L == limit[p]
            k == Len(s) - c
            x == ring[p][RingSlot(head[p] + (i - 1))]
<1>1. /\ s \in Seq(Round) /\ c \in Nat /\ Len(s) \in Nat /\ HistMax \in Nat
      /\ L \in 0 .. HistMax /\ c <= L /\ head[p] \in Nat
  <2>1. /\ s \in Seq(Round) /\ c \in Nat /\ L \in Limits /\ c <= L
        /\ head[p] \in 0 .. (HistMax - 1)
    BY DEF MemInv, MemTypeOK
  <2>2. HistMax \in Nat /\ (\A l \in Limits : l \in 0 .. HistMax)
    BY VoiceConstants
  <2>3. Len(s) \in Nat /\ L \in 0 .. HistMax /\ head[p] \in Nat
    BY <2>1, <2>2
  <2>. QED BY <2>1, <2>2, <2>3
<1>2. WindowLength(p) /\ WindowRounds(p)
  BY DEF MemInv
<1>3. k \in Nat /\ L > 0 /\ i - 1 \in 0 .. (HistMax - 1) /\ i <= c /\ i \in Nat /\ k + c = Len(s)
  BY <1>1, <1>2 DEF WindowLength
<1>4. Window(p)[i] = x
  <2>1. Window(p)[i] = ring[p][(head[p] + i - 1) % HistMax]
    BY DEF Window
  <2>2. head[p] + (i - 1) = head[p] + i - 1
    BY <1>1, <1>3
  <2>. QED BY <2>1, <2>2 DEF RingSlot
<1>5. Holds(ring[p], head[p], k, s, L)
  BY <1>2, <1>3 DEF WindowRounds
<1>. DEFINE d == i - 1
            q == k + d + 1
<1>. HIDE DEF x, s, c, L
<1>6. d \in 0 .. (HistMax - 1) /\ q = Len(s) - c + i /\ q \in Nat /\ q <= Len(s)
  <2>1. d \in 0 .. (HistMax - 1) /\ d + 1 = i
    BY <1>3
  <2>2. q = k + i
    BY <1>3
  <2>. QED BY <1>1, <1>3, <2>1, <2>2
<1>. HIDE DEF k, d, q
<1>7. /\ q <= L /\ q <= Len(s) => x = s[q]
      /\ q > HistMax => x = s[q - (HistMax - L)]
      /\ q <= HistMax /\ (q > L \/ q > Len(s)) => \A j \in DOMAIN s : x # s[j]
  <2>1. LET r == k + d + 1
            y == ring[p][RingSlot(head[p] + d)]
        IN /\ r <= L /\ r <= Len(s) => y = s[r]
           /\ r > HistMax => y = s[r - (HistMax - L)]
           /\ r <= HistMax /\ (r > L \/ r > Len(s)) => \A j \in DOMAIN s : y # s[j]
    BY <1>5, <1>6, Zenon DEF Holds
  <2>. QED BY <2>1, Zenon DEF q, x, d
<1>8. /\ q <= L => x = s[q]
      /\ q > HistMax => x = s[q - (HistMax - L)]
      /\ q \in (L + 1) .. HistMax => x \notin ToSet(s)
  <2>1. q \in (L + 1) .. HistMax => q <= HistMax /\ q > L
    BY <1>1, <1>6
  <2>. QED BY <1>6, <1>7, <2>1, Zenon DEF ToSet
<1>. QED BY <1>4, <1>6, <1>8, Zenon DEF s, c, L

(* For every size of the history, also the shipped one, which is smaller   *)
(* than the ring: which rounds the model and the extraction are shown, how *)
(* many are overwritten before an extraction is due, and that a power cut  *)
(* leaves a whole profile (llm.c, main.c, profile.c).                      *)
THEOREM MemoryKept == MemSpec => []MemoryIsKept
<1>1. MemInv => ExtractedInTime
  <2> SUFFICES ASSUME MemInv, NEW p \in Voice, limit[p] > 0
               PROVE  Overwritten(p) <= Silent(p) + Excess(p)
    BY DEF ExtractedInTime
  <2>1. /\ count[p] \in Nat /\ since[p] \in Nat /\ Len(said[p]) \in Nat /\ limit[p] \in Nat
        /\ Every \in Nat \ {0}
    <3>1. said[p] \in Seq(Round) /\ limit[p] \in Limits /\ count[p] \in Nat /\ since[p] \in Nat
      BY DEF MemInv, MemTypeOK
    <3>2. (\A l \in Limits : l \in Nat) /\ Every \in Nat \ {0}
      BY VoiceConstants
    <3>3. Len(said[p]) \in Nat
      BY <3>1
    <3>. QED BY <3>1, <3>2, <3>3
  <2>2. since[p] <= Len(said[p]) /\ since[p] <= Every
    BY DEF MemInv, PeriodInv
  <2>3. since[p] <= count[p] + Excess(p) /\ Excess(p) \in Nat
    BY <2>1, <2>2 DEF MemInv, WindowLength, Excess
  <2>. QED BY <2>1, <2>3 DEF Overwritten, Silent
<1>2. MemInv => ProfileIsWhole
  BY DEF MemInv, SaveInv, ProfileIsWhole
<1>. QED BY <1>1, <1>2, WindowHolds, MemInvariant, PTL DEF MemoryIsKept

(* No save loses a fact that its process had loaded, or that it did not    *)
(* mean to forget, unless two processes save at once (profile.c).          *)
THEOREM FactsRemain == MemSpec => FactsStay
<1>. DEFINE Kept == \A r \in confFile.facts \ confFile'.facts :
       \/ confFile'.by # NoFile /\ (cmd[confFile'.by] = "forget" \/ r \notin loaded[confFile'.by])
       \/ shared
<1>1. MemInv /\ [MemNext]_memVars => [Kept]_confFile
  <2> SUFFICES ASSUME MemInv, [MemNext]_memVars, confFile' # confFile, ~shared PROVE Kept
    OBVIOUS
  <2>1. PICK p \in Voice : FillTmp(p) \/ RenameTmp(p)
    BY DEF MemNext, VoiceStep, MemStart, RoundFails, RoundIsSilent, RoundIsSpoken, Leave,
           Extract, ExtractFails, OpenTmp, StopSignal, BoardOff, memVars, memory, disk
  <2>2. /\ inConf = {} /\ SaveInv /\ \A q \in Voice : cmd[q] # "forget" => loaded[q] \subseteq known[q]
    BY DEF MemInv, SaveInv, FactsInv
  <2>3. CASE FillTmp(p)
    <3>1. /\ \A q, w \in Voice : {vpc[q], vpc[w]} \subseteq {"fill", "rename"} => q = w
          /\ confFile' = confFile
      BY <2>2, <2>3 DEF FillTmp, SaveInv
    <3>. QED BY <3>1
  <2>4. CASE RenameTmp(p)
    <3>1. confFile' = [facts |-> known[p], by |-> p, whole |-> TRUE]
      BY <2>2, <2>4 DEF RenameTmp, SaveInv
    <3>2. confFile'.facts = known[p] /\ confFile'.by = p /\ p # NoFile
      BY <3>1, VoiceConstants
    <3>. QED BY <2>2, <3>2
  <2>. QED BY <2>1, <2>3, <2>4
<1>. QED BY <1>1, MemInvariant, PTL DEF MemSpec, FactsStay

(* The two programs next to each other keep their types.                   *)
THEOREM VoiceTyped == VoiceSpec => []VoiceTypes
<1>1. VoiceInit => TrigInit /\ MemInit
  BY DEF VoiceInit
<1>2. [VoiceNext]_voiceVars => [TrigNext]_trigVars /\ [MemNext]_memVars
  BY DEF VoiceNext, Trigger, Memory, voiceVars
<1>3. TrigInv /\ MemInv => VoiceTypes
  BY DEF TrigInv, MemInv, VoiceTypes
<1>. QED BY <1>1, <1>2, <1>3, TrigInitInv, TrigNextInv, MemInitInv, MemNextInv, PTL DEF VoiceSpec
=============================================================================
