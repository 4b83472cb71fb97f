---------------------------- MODULE VoiceMemory ----------------------------
(***************************************************************************)
(* What the voice assistant remembers.  Every `voice` process keeps its    *)
(* last rounds of questions and answers in a ring (llm.c) and every        *)
(* EXTRACT_EVERY_ROUNDS spoken rounds, or when a chat ends, has the        *)
(* language model extract facts from them (main.c), which it saves to a    *)
(* profile that processes load when they start (profile.c).  A round is    *)
(* known by its number, a fact by the round it was told in.                *)
(***************************************************************************)
EXTENDS Integers, FiniteSets, Sequences, SequencesExt

CONSTANTS
  Voice,       \* the processes
  HistMax,     \* HIST_MAX
  Limits,      \* the values of LLM_MAX_HISTORY a process may be given
  Every,       \* EXTRACT_EVERY_ROUNDS
  MaxFail,     \* MAX_FAIL: failing rounds in a row that end a chat
  FactMax,     \* PROFILE_FACT_MAX
  MaxRounds,   \* bound: rounds that the language model answers
  NoFile

ASSUME VoiceConstants ==
  /\ HistMax \in Nat \ {0} /\ Limits \subseteq 0 .. HistMax
  /\ Every \in Nat \ {0, 1} /\ MaxFail \in Nat \ {0}
  /\ FactMax \in Nat /\ MaxRounds \in Nat /\ NoFile \notin Voice

Round == 1 .. MaxRounds

(* A profile file: the facts in it, whose process wrote them, and whether  *)
(* it holds all of what that process wrote.                                *)
Profile == [facts : SUBSET Round, by : Voice \cup {NoFile}, whole : BOOLEAN]

VARIABLES
  cmd,      \* the command of each process
  vpc,      \* where it is
  limit,    \* g_max_history
  ring,     \* g_hist_user and g_hist_asst
  head,     \* g_hist_head
  count,    \* g_hist_count
  since,    \* g_rounds_since_extract
  fails,    \* consecutive_fail
  quit,     \* g_quit
  known,    \* g_profile
  confFile, \* profile.conf
  tmpFile,  \* profile.conf.tmp
  inTmp,    \* the processes whose open file is profile.conf.tmp
  inConf,   \* those whose open file was renamed to profile.conf by another
  asked,    \* the number of rounds answered so far
  said,     \* history: the rounds answered since the ring was reset
  loaded,   \* history: the facts of the profile each process loaded
  shared    \* history: two processes wrote the same file

memory == <<limit, ring, head, count, since, fails, asked, said>>
disk   == <<confFile, tmpFile, inTmp, inConf, shared>>
memVars == <<cmd, vpc, quit, known, loaded, memory, disk>>

MemInit ==
  /\ cmd   = [p \in Voice |-> "chat"] /\ vpc = [p \in Voice |-> "off"]
  /\ \E l \in Limits : limit = [p \in Voice |-> l]
  /\ ring  = [p \in Voice |-> [i \in 0 .. (HistMax - 1) |-> 0]]
  /\ head  = [p \in Voice |-> 0] /\ count = [p \in Voice |-> 0]
  /\ since = [p \in Voice |-> 0] /\ fails = [p \in Voice |-> 0]
  /\ quit  = [p \in Voice |-> FALSE]
  /\ known = [p \in Voice |-> {}] /\ loaded = [p \in Voice |-> {}]
  /\ confFile  = [facts |-> {}, by |-> NoFile, whole |-> TRUE]
  /\ tmpFile   = NoFile /\ inTmp = {} /\ inConf = {}
  /\ asked = 0 /\ said = [p \in Voice |-> <<>>] /\ shared = FALSE

Set(f, p, v) == [f EXCEPT ![p] = v]

-----------------------------------------------------------------------------
(* Mutant: the profile is not loaded.                                      *)
LoadedNot(c) == {}

(* What a command starts from: the profile, or nothing to replace it by.   *)
Loaded(c) == IF c = "forget" THEN {} ELSE confFile.facts

(* The start of a process: profile_load and the choice of the command.     *)
MemStart(p, c) ==
  /\ vpc[p] = "off"
  /\ cmd' = Set(cmd, p, c)
  /\ known'  = Set(known, p, Loaded(c))
  /\ loaded' = Set(loaded, p, confFile.facts)
  /\ vpc' = Set(vpc, p, IF c = "forget" THEN "open" ELSE "round")
  /\ UNCHANGED <<quit, memory, disk>>

(* The rounds the window of the ring shows, oldest first.                  *)
Window(p) == [i \in 1 .. count[p] |-> ring[p][(head[p] + i - 1) % HistMax]]

(* hist_add: behind the window, or over its first round if it is full.     *)
HistAdd(p, r) ==
  \/ limit[p] = 0 /\ UNCHANGED <<ring, head, count>>
  \/ /\ count[p] < limit[p]
     /\ ring'  = [ring EXCEPT ![p][(head[p] + count[p]) % HistMax] = r]
     /\ count' = Set(count, p, count[p] + 1)
     /\ UNCHANGED head
  \/ /\ limit[p] > 0 /\ count[p] = limit[p]
     /\ ring' = [ring EXCEPT ![p][head[p]] = r]
     /\ head' = Set(head, p, (head[p] + 1) % HistMax)
     /\ UNCHANGED count

(* Mutant: one more round before the extraction is due.                    *)
LateDue(n) == n > Every

Due(n) == n >= Every

(* Where a process goes after a round, an extraction or a save.            *)
GoesOn(p, q, f) == IF cmd[p] = "chat" /\ ~q /\ f < MaxFail THEN "round" ELSE "leave"

(* Mutant: failing rounds are not counted.                                 *)
RoundFailsUncounted(p) ==
  /\ vpc[p] = "round"
  /\ vpc' = Set(vpc, p, GoesOn(p, quit[p], 0))
  /\ UNCHANGED <<cmd, quit, known, loaded, memory, disk>>

(* one_round: nothing was heard or recognised, or the model did not answer.*)
RoundFails(p) ==
  /\ vpc[p] = "round"
  /\ fails' = Set(fails, p, fails[p] + 1)
  /\ vpc' = Set(vpc, p, GoesOn(p, quit[p], fails[p] + 1))
  /\ UNCHANGED <<cmd, quit, known, loaded, limit, ring, head, count, since,
                 asked, said, disk>>

(* one_round: the model answers, but the answer cannot be spoken.          *)
RoundIsSilent(p) ==
  /\ vpc[p] = "round" /\ asked < MaxRounds
  /\ HistAdd(p, asked + 1)
  /\ asked' = asked + 1 /\ said' = Set(said, p, Append(said[p], asked + 1))
  /\ fails' = Set(fails, p, fails[p] + 1)
  /\ vpc' = Set(vpc, p, GoesOn(p, quit[p], fails[p] + 1))
  /\ UNCHANGED <<cmd, quit, known, loaded, limit, since, disk>>

(* one_round: the answer is spoken and the round counts.                   *)
RoundIsSpoken(p) ==
  /\ vpc[p] = "round" /\ asked < MaxRounds
  /\ HistAdd(p, asked + 1)
  /\ asked' = asked + 1 /\ said' = Set(said, p, Append(said[p], asked + 1))
  /\ fails' = Set(fails, p, 0)
  /\ since' = Set(since, p, since[p] + 1)
  /\ vpc' = Set(vpc, p, IF Due(since[p] + 1) /\ limit[p] > 0 THEN "extract"
                        ELSE GoesOn(p, quit[p], 0))
  /\ UNCHANGED <<cmd, quit, known, loaded, limit, disk>>

(* The end of main: a chat extracts what is left; ask does so only if the  *)
(* period is over, which one round never reaches.                          *)
Leave(p) ==
  /\ vpc[p] = "leave"
  /\ vpc' = Set(vpc, p, IF cmd[p] = "chat" /\ count[p] > 0 THEN "extract"
                        ELSE "gone")
  /\ UNCHANGED <<cmd, quit, known, loaded, memory, disk>>

(* maybe_extract_profile resets the ring and the counter in any case.      *)
Forgets(p) ==
  /\ head' = Set(head, p, 0) /\ count' = Set(count, p, 0)
  /\ since' = Set(since, p, 0) /\ said' = Set(said, p, <<>>)
  /\ UNCHANGED <<limit, ring, fails, asked>>

(* Mutant: facts are added to a full list.                                 *)
ExtractUncapped(p) ==
  /\ vpc[p] = "extract"
  /\ known' = Set(known, p, known[p] \cup (ToSet(Window(p)) \cap Round))
  /\ Forgets(p)
  /\ vpc' = Set(vpc, p, "open")
  /\ UNCHANGED <<cmd, quit, loaded, disk>>

(* profile_extract: what the model found among the rounds of the window.   *)
Extract(p) ==
  /\ vpc[p] = "extract"
  /\ \E new \in SUBSET (ToSet(Window(p)) \cap Round) :
       /\ Cardinality(known[p] \cup new) <= FactMax
       /\ known' = Set(known, p, known[p] \cup new)
  /\ Forgets(p)
  /\ vpc' = Set(vpc, p, "open")
  /\ UNCHANGED <<cmd, quit, loaded, disk>>

ExtractFails(p) ==
  /\ vpc[p] = "extract"
  /\ Forgets(p)
  /\ vpc' = Set(vpc, p, GoesOn(p, quit[p], fails[p]))
  /\ UNCHANGED <<cmd, quit, known, loaded, disk>>

-----------------------------------------------------------------------------
(* profile_save: fopen of the temporary file truncates one that another    *)
(* process has open.                                                       *)
OpenTmp(p) ==
  /\ vpc[p] = "open"
  /\ tmpFile' = [facts |-> {}, by |-> p, whole |-> FALSE]
  /\ inTmp' = inTmp \cup {p}
  /\ shared' = (shared \/ \E q \in Voice \ {p} : vpc[q] \in {"fill", "rename"})
  /\ vpc' = Set(vpc, p, "fill")
  /\ UNCHANGED <<cmd, quit, known, loaded, memory, confFile, inConf>>

(* profile_save: the lines are written and flushed.  Over the lines of     *)
(* another process some of those may stay behind.                          *)
Filled(p, old, f) ==
  \E w \in {TRUE, old.by = p \/ ~old.whole} :
    f = [facts |-> known[p], by |-> p, whole |-> w]

FillTmp(p) ==
  /\ vpc[p] = "fill"
  /\ \/ p \in inTmp  /\ Filled(p, tmpFile, tmpFile')   /\ UNCHANGED confFile
     \/ p \in inConf /\ Filled(p, confFile, confFile') /\ UNCHANGED tmpFile
     \* the file was replaced in the meantime and has no name any more
     \/ p \notin inTmp \cup inConf /\ UNCHANGED <<tmpFile, confFile>>
  /\ inTmp' = inTmp \ {p} /\ inConf' = inConf \ {p}
  /\ vpc' = Set(vpc, p, "rename")
  /\ UNCHANGED <<cmd, quit, known, loaded, memory, shared>>

(* profile_save: rename; without a temporary file it fails, and the        *)
(* failure is ignored.                                                     *)
RenameTmp(p) ==
  /\ vpc[p] = "rename"
  /\ confFile' = IF tmpFile = NoFile THEN confFile ELSE tmpFile
  /\ tmpFile' = NoFile
  /\ inTmp' = {}
  /\ inConf' = IF tmpFile = NoFile THEN inConf ELSE inTmp
  /\ vpc' = Set(vpc, p, GoesOn(p, quit[p], fails[p]))
  /\ UNCHANGED <<cmd, quit, known, loaded, memory, shared>>

(* SIGINT or SIGTERM; only the loop of a chat looks at g_quit.             *)
StopSignal(p) ==
  /\ cmd[p] = "chat" /\ vpc[p] \notin {"off", "gone"} /\ ~quit[p]
  /\ quit' = Set(quit, p, TRUE)
  /\ UNCHANGED <<cmd, vpc, known, loaded, memory, disk>>

(* The power fails: a file that was written and flushed stays.             *)
BoardOff ==
  /\ \E p \in Voice : vpc[p] \notin {"off", "gone"}
  /\ vpc' = [p \in Voice |-> IF vpc[p] = "off" THEN "off" ELSE "gone"]
  /\ inTmp' = {} /\ inConf' = {}
  /\ UNCHANGED <<cmd, quit, known, loaded, memory, confFile, tmpFile, shared>>

VoiceStep(p) ==
  \/ RoundFails(p) \/ RoundIsSilent(p) \/ RoundIsSpoken(p) \/ Leave(p)
  \/ Extract(p) \/ ExtractFails(p)
  \/ OpenTmp(p) \/ FillTmp(p) \/ RenameTmp(p)

MemNext ==
  \/ \E p \in Voice, c \in {"chat", "ask", "forget"} : MemStart(p, c)
  \/ \E p \in Voice : VoiceStep(p)
  \/ \E p \in Voice : StopSignal(p)
  \/ BoardOff

MemSpec     == MemInit /\ [][MemNext]_memVars
MemFairSpec == MemSpec /\ \A p \in Voice : WF_memVars(VoiceStep(p))

-----------------------------------------------------------------------------
(* The types: the window fits the ring, and no process has more facts than *)
(* a profile has room for.                                                 *)
MemTypeOK ==
  /\ cmd \in [Voice -> {"chat", "ask", "forget"}]
  /\ vpc \in [Voice -> {"off", "round", "leave", "extract", "open", "fill",
                        "rename", "gone"}]
  /\ limit \in [Voice -> Limits]
  /\ ring \in [Voice -> [0 .. (HistMax - 1) -> 0 .. MaxRounds]]
  /\ head \in [Voice -> 0 .. (HistMax - 1)]
  /\ count \in [Voice -> Nat] /\ \A p \in Voice : count[p] <= limit[p]
  /\ since \in [Voice -> Nat] /\ fails \in [Voice -> Nat]
  /\ quit \in [Voice -> BOOLEAN] /\ shared \in BOOLEAN
  /\ known \in [Voice -> SUBSET Round]
  /\ \A p \in Voice : Cardinality(known[p]) <= FactMax
  /\ loaded \in [Voice -> SUBSET Round] /\ said \in [Voice -> Seq(Round)]
  /\ confFile \in Profile /\ tmpFile \in Profile \cup {NoFile}
  /\ inTmp \subseteq Voice /\ inConf \subseteq Voice /\ asked \in 0 .. MaxRounds

(* LLM_MAX_HISTORY is the number of rounds that are kept (llm.c:11), and   *)
(* llm_dump_dialog returns the latest ones (llm.h:51).                     *)
WindowIsLast ==
  \A p \in Voice :
    Window(p) = SubSeq(said[p], Len(said[p]) - count[p] + 1, Len(said[p]))

(* What the model and the extraction are shown where the q-th round said   *)
(* since the last extraction belongs.  Until the history is full, and      *)
(* always if it may fill the ring, it is that round.  A full history that  *)
(* is smaller than the ring is overwritten at its first round but read on  *)
(* behind its last one: it shows what is not of this conversation, slots   *)
(* that are empty or older, and once the ring is full rounds that lie      *)
(* HistMax - limit further back.                                           *)
WindowIsKnown ==
  \A p \in Voice : \A i \in 1 .. count[p] :
    LET q     == Len(said[p]) - count[p] + i
        round == Window(p)[i]
    IN /\ q <= limit[p] => round = said[p][q]
       /\ q > HistMax   => round = said[p][q - (HistMax - limit[p])]
       /\ q \in (limit[p] + 1) .. HistMax => round \notin ToSet(said[p])

(* The period of the extraction (main.c:44-48): before an extraction no    *)
(* more rounds are overwritten than were answered but not spoken, and than *)
(* those by which the period exceeds the history that the process was      *)
(* given; none of these if the period fits the history.                    *)
Overwritten(p) == Len(said[p]) - count[p]
Silent(p)      == Len(said[p]) - since[p]
Excess(p)      == IF limit[p] < Every THEN Every - limit[p] ELSE 0
ExtractedInTime ==
  \A p \in Voice : limit[p] > 0 => Overwritten(p) <= Silent(p) + Excess(p)

(* A power cut, however the steps of profile_save fall, leaves a whole     *)
(* profile (profile.h:41); unless two processes save at the same time, for *)
(* they use the same temporary file.                                       *)
ProfileIsWhole == confFile.whole \/ shared

(* A fact that is on the card leaves it only when it is forgotten, or      *)
(* under a save of a process that started before the fact was there.       *)
FactsStay ==
  [][\A r \in confFile.facts \ confFile'.facts :
       \/ confFile'.by # NoFile /\ (cmd[confFile'.by] = "forget" \/ r \notin loaded[confFile'.by])
       \/ shared]_confFile

(* A chat to which nobody talks any more ends, and saves what it has.      *)
EveryVoiceEnds == \A p \in Voice : vpc[p] # "off" ~> vpc[p] = "gone"

(* What is remembered, for every size of the history: which rounds the     *)
(* model and the extraction are shown, how many are overwritten before     *)
(* they are extracted, and a profile that survives power cuts.             *)
MemoryIsKept ==
  /\ WindowIsKnown
  /\ ExtractedInTime
  /\ ProfileIsWhole
=============================================================================
