------------------------------ MODULE MCVoice ------------------------------
(***************************************************************************)
(* The voice assistant's trigger and its memory, next to each other: a     *)
(* behaviour is one of them at work.  (The trigger starts processes of     *)
(* VoiceMemory with the command "ask", which shares nothing else with it.) *)
(***************************************************************************)
EXTENDS VoiceTrigger, VoiceMemory

CONSTANTS wake, word, eol,  \* a wake phrase of two words, and a line end
          v1, v2            \* two voice processes

MCKeyword == <<wake, word>>

VARIABLE program
voiceVars == <<trigVars, memVars, program>>

(* The memory has one of its initial states only while it is not at work.  *)
VoiceInit ==
  /\ program \in {"trigger", "memory"}
  /\ TrigInit /\ MemInit
  /\ program = "memory" \/ limit = [p \in Voice |-> HistMax]

Trigger(A) == program = "trigger" /\ A /\ UNCHANGED <<memVars, program>>
Memory(A)  == program = "memory" /\ A /\ UNCHANGED <<trigVars, program>>

VoiceNext == Trigger(TrigNext) \/ Memory(MemNext)

(* The fairness of the two modules, each for its own program.              *)
VoiceSpec ==
  /\ VoiceInit /\ [][VoiceNext]_voiceVars
  /\ WF_voiceVars(Trigger(TrigLoop))
  /\ \A c \in Talk : WF_voiceVars(Trigger(TalkEnds(c)))
  /\ \A p \in Voice : WF_voiceVars(Memory(VoiceStep(p)))

-----------------------------------------------------------------------------
(* The types of the trigger and of the memory.                             *)
VoiceTypes ==
  /\ TrigTypeOK
  /\ MemTypeOK

(* The daemon listens again after each conversation, and a chat to which   *)
(* nobody talks any more ends.                                             *)
VoiceComesToRest ==
  /\ IdleAgain
  /\ EveryVoiceEnds
=============================================================================
