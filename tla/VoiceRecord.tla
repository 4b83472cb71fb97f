---------------------------- MODULE VoiceRecord ----------------------------
(***************************************************************************)
(* One recording of the voice assistant: audio_record_vad (audio.c) reads  *)
(* frames of sound and has the voice activity detector (vad.c) decide when *)
(* speech begins and ends.  A frame is its energy; times are counted in    *)
(* milliseconds of FrameMs each.                                           *)
(***************************************************************************)
EXTENDS Integers, FiniteSets, Sequences

CONSTANTS
  Levels,      \* the energies of frames
  Fixed,       \* the start thresholds a caller may give; 0 has it measured
  FrameMs,     \* frame_ms
  SkipMs, CalibrateMs, LeadInMs, SilenceMs, MinSpeechMs, MaxSpeechMs,
  Floor,       \* the least base noise
  StartFactor, \* START_FACTOR
  EndTenths,   \* END_FACTOR
  StartCap,    \* the greatest thresholds
  EndCap,
  NoiseCap,    \* frames noise_buf holds
  MaxFrames    \* frames the caller's buffer holds

ASSUME RecordConstants ==
  /\ Levels \subseteq Nat /\ Fixed \subseteq Nat /\ FrameMs \in Nat \ {0}
  /\ {SkipMs, CalibrateMs, LeadInMs, SilenceMs, MinSpeechMs, MaxSpeechMs,
      Floor, StartFactor, EndTenths, StartCap, EndCap} \subseteq Nat \ {0}
  /\ NoiseCap \in Nat \ {0} /\ MaxFrames \in Nat \ {0}

VARIABLES
  rpc,          \* reading, or ended
  energies,     \* history: the energies of the frames read so far
  vad,          \* state of the detector: wait, speech, done
  startRms, endRms,
  skip,         \* skip_ms that are left
  calibrate,    \* calibrate_ms, 0 once the base noise is known
  noise,        \* noise_buf
  speechFrames, silenceFrames, waitFrames,
  buffered,     \* frames in the caller's buffer
  sawSpeech,    \* saw_speech
  returned      \* the frames the caller is given

thresholds == <<startRms, endRms>>
counters == <<speechFrames, silenceFrames, waitFrames>>
recVars == <<rpc, energies, vad, thresholds, skip, calibrate, noise, counters,
             buffered, sawSpeech, returned>>

(* vad_init, and the start of the recording.                               *)
RecInit ==
  /\ rpc = "read" /\ energies = <<>> /\ vad = "wait" /\ noise = <<>>
  /\ \E f \in Fixed :
       /\ startRms = f /\ endRms = (f * 6) \div 10
       /\ skip = IF f > 0 THEN 0 ELSE SkipMs
       /\ calibrate = IF f > 0 THEN 0 ELSE CalibrateMs
  /\ speechFrames = 0 /\ silenceFrames = 0 /\ waitFrames = 0
  /\ buffered = 0 /\ sawSpeech = FALSE /\ returned = 0

Least(a, b) == IF a < b THEN a ELSE b

-----------------------------------------------------------------------------
(* The first frames are the transient of the converter.                    *)
Skips ==
  /\ skip > 0
  /\ skip' = IF skip > FrameMs THEN skip - FrameMs ELSE 0
  /\ UNCHANGED <<vad, thresholds, calibrate, noise, counters>>

(* The median of the noise, which is never empty here: the element with    *)
(* index noise_n / 2 of the sorted noise_buf.                              *)
Upto(s, x) == Cardinality({i \in DOMAIN s : s[i] <= x})
Median(s) ==
  CHOOSE x \in {s[i] : i \in DOMAIN s} :
    Upto(s, x) > Len(s) \div 2 /\ \A i \in DOMAIN s : s[i] < x => Upto(s, s[i]) <= Len(s) \div 2

(* The next ones are the base noise, whose median sets the thresholds.     *)
Measures(rms) ==
  /\ skip = 0 /\ calibrate > 0
  /\ noise' = IF Len(noise) < NoiseCap THEN Append(noise, rms) ELSE noise
  /\ IF (waitFrames + 1) * FrameMs >= CalibrateMs
     THEN LET base == IF Median(noise') < Floor THEN Floor ELSE Median(noise')
          IN /\ startRms' = Least(base * StartFactor, StartCap)
             /\ endRms' = Least((base * EndTenths) \div 10, EndCap)
             /\ calibrate' = 0 /\ waitFrames' = 0
     ELSE waitFrames' = waitFrames + 1 /\ UNCHANGED <<thresholds, calibrate>>
  /\ UNCHANGED <<vad, skip, speechFrames, silenceFrames>>

(* Waiting for speech to start, but not for longer than lead_in_ms.        *)
Waits(rms) ==
  /\ skip = 0 /\ calibrate = 0 /\ vad = "wait"
  /\ waitFrames' = waitFrames + 1
  /\ IF rms >= startRms
     THEN vad' = "speech" /\ speechFrames' = 1 /\ silenceFrames' = 0
     ELSE /\ vad' = IF waitFrames' * FrameMs >= LeadInMs THEN "done" ELSE "wait"
          /\ UNCHANGED <<speechFrames, silenceFrames>>
  /\ UNCHANGED <<skip, calibrate, noise, thresholds>>

(* Speech goes on.                                                         *)
SpeaksOn(rms) ==
  /\ skip = 0 /\ calibrate = 0 /\ vad = "speech" /\ rms >= endRms
  /\ speechFrames' = speechFrames + 1 /\ silenceFrames' = 0
  /\ vad' = IF speechFrames' * FrameMs >= MaxSpeechMs THEN "done" ELSE "speech"
  /\ UNCHANGED <<skip, calibrate, noise, thresholds, waitFrames>>

(* A quiet frame: after silence_ms of them the speech has ended, or was    *)
(* too short to be speech.                                                 *)
FallsSilent(rms) ==
  /\ skip = 0 /\ calibrate = 0 /\ vad = "speech" /\ rms < endRms
  /\ LET n == speechFrames + 1
         q == silenceFrames + 1
         over  == q * FrameMs >= SilenceMs
         short == (n - q) * FrameMs < MinSpeechMs
     IN IF over /\ short
        THEN vad' = "wait" /\ speechFrames' = 0 /\ silenceFrames' = 0
        ELSE /\ vad' = IF over \/ n * FrameMs >= MaxSpeechMs THEN "done" ELSE "speech"
             /\ speechFrames' = n /\ silenceFrames' = q
  /\ UNCHANGED <<skip, calibrate, noise, thresholds, waitFrames>>

(* vad_process.                                                            *)
Process(rms) ==
  Skips \/ Measures(rms) \/ Waits(rms) \/ SpeaksOn(rms) \/ FallsSilent(rms)

(* Mutant: the silence is cut off twice.                                   *)
TrimmedTwice(n, q) ==
  LET drop == 2 * q - SilenceMs \div FrameMs IN IF drop > 0 /\ drop < n THEN n - drop ELSE n

(* The silence at the end, as far as it is longer than silence_ms (which   *)
(* the code counts in samples, here rounded down to frames).               *)
Trimmed(n, q) ==
  LET drop == q - SilenceMs \div FrameMs IN IF drop > 0 /\ drop < n THEN n - drop ELSE n

(* The end of the recording, for whichever reason.                         *)
Ends(n, saw, q) ==
  /\ rpc' = "ended" /\ buffered' = n /\ sawSpeech' = saw
  /\ returned' = IF saw THEN Trimmed(n, q) ELSE 0

(* A frame is read, judged and, unless it ends the recording, recorded.    *)
Frame(rms) ==
  /\ rpc = "read"
  /\ energies' = Append(energies, rms)
  /\ Process(rms)
  /\ LET saw == sawSpeech \/ vad' = "speech"
     IN IF vad' = "done" \/ buffered + 1 > MaxFrames
        THEN Ends(buffered, saw, silenceFrames')
        ELSE buffered' = buffered + 1 /\ sawSpeech' = saw /\ UNCHANGED <<rpc, returned>>

(* audio_stop, or an error of the sound card.                              *)
Broken ==
  /\ rpc = "read"
  /\ Ends(buffered, sawSpeech, silenceFrames)
  /\ UNCHANGED <<energies, vad, thresholds, skip, calibrate, noise, counters>>

RecNext == (\E rms \in Levels : Frame(rms)) \/ Broken
RecSpec == RecInit /\ [][RecNext]_recVars

-----------------------------------------------------------------------------
(* Type invariant.                                                         *)
RecTypeOK ==
  /\ rpc \in {"read", "ended"} /\ energies \in Seq(Levels)
  /\ vad \in {"wait", "speech", "done"} /\ sawSpeech \in BOOLEAN
  /\ {startRms, endRms, skip, calibrate, speechFrames, silenceFrames,
      waitFrames, buffered, returned} \subseteq Nat
  /\ Len(noise) <= NoiseCap /\ silenceFrames <= speechFrames
  /\ buffered <= MaxFrames /\ returned <= buffered

(* The frames that are judged: those behind the transient and the noise.   *)
Judged ==
  LET ceil(ms) == (ms + FrameMs - 1) \div FrameMs
      first == IF noise = <<>> THEN 1 ELSE ceil(SkipMs) + ceil(CalibrateMs) + 1
  IN {i \in DOMAIN energies : calibrate = 0 /\ skip = 0 /\ i >= first}

Loud == {i \in Judged : energies[i] >= startRms}

(* Silence ends a recording only behind speech: before the quiet frames    *)
(* that end it, which last silence_ms, there is a stretch of at least      *)
(* min_speech_ms that a loud frame starts and no silence interrupts.       *)
SilenceEndsSpeech ==
  rpc = "ended" /\ vad = "done" /\ speechFrames > 0 /\ speechFrames * FrameMs < MaxSpeechMs =>
    \E i \in Loud, j \in Judged :
      /\ i <= j /\ (j - i + 1) * FrameMs >= MinSpeechMs
      /\ energies[j] >= endRms \/ i = j
      /\ \A k \in (j + 1) .. Len(energies) : energies[k] < endRms
      /\ (Len(energies) - j) * FrameMs >= SilenceMs
      /\ \A k \in i .. j : \E m \in k .. j :
           energies[m] >= endRms /\ (m - k) * FrameMs < SilenceMs

(* What the caller is given starts with the first frame and ends behind    *)
(* the last one that is not quiet: no part of the speech is cut off, but   *)
(* by the end of the buffer or by max_speech_ms.                           *)
NoWordIsCut ==
  rpc = "ended" /\ Loud # {} =>
    \A i \in Judged : energies[i] >= endRms => i <= returned \/ i = Len(energies)

(* The caller is given nothing of a room that stayed quiet, and whatever   *)
(* has a stretch of min_speech_ms that a loud frame starts and no quiet    *)
(* one interrupts.  For a shorter sound nothing is said here: vad.c:20-22  *)
(* has it filtered, but saw_speech stays set behind it (audio.c:226).      *)
SpeechIsReturned ==
  rpc = "ended" =>
    /\ returned > 0 => Loud # {}
    /\ (\E i \in Loud, j \in Judged :
          /\ i <= j /\ (j - i + 1) * FrameMs >= MinSpeechMs
          /\ \A k \in i .. j : energies[k] >= endRms) => returned > 0

(* A room that stays quiet is given up after lead_in_ms, and not before.   *)
WaitsLeadIn ==
  rpc = "ended" /\ vad = "done" /\ Loud = {} =>
    LET n == Cardinality(Judged)
    IN n * FrameMs >= LeadInMs /\ (n - 1) * FrameMs < LeadInMs

(* The recording is the speech: it ends when the speaker falls silent,     *)
(* holds all that was said, is returned if that was long enough, and is    *)
(* given up in time if nothing was said.                                   *)
RecordingIsRight ==
  /\ SilenceEndsSpeech
  /\ NoWordIsCut
  /\ SpeechIsReturned
  /\ WaitsLeadIn
=============================================================================
