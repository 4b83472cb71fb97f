------------------------ MODULE MCComponents_proofs ------------------------
(***************************************************************************)
(* The voice recorder for all frames and thresholds, and the types of all  *)
(* the components next to each other.                                      *)
(***************************************************************************)
EXTENDS MCComponents, IpReasm_proofs, Components_proofs

(* Frames that take a time, and the frame the detector judges first.       *)
Ceil(ms) == (ms + FrameMs - 1) \div FrameMs
FirstJudged == IF noise = <<>> THEN 1 ELSE Ceil(SkipMs) + Ceil(CalibrateMs) + 1

(* The types; noise_buf has a greatest element.                            *)
DetTyped ==
  /\ vad \in {"wait", "speech", "done"}
  /\ noise \in Seq(Levels) /\ Len(noise) <= NoiseCap
  /\ \E b \in Nat : \A i \in DOMAIN noise : noise[i] <= b
  /\ startRms \in Nat /\ endRms \in Nat /\ skip \in Nat /\ calibrate \in Nat
  /\ speechFrames \in Nat /\ silenceFrames \in Nat /\ waitFrames \in Nat
  /\ silenceFrames <= speechFrames

RecTyped ==
  /\ rpc \in {"read", "ended"} /\ sawSpeech \in BOOLEAN /\ energies \in Seq(Levels)
  /\ buffered \in Nat /\ returned \in Nat /\ buffered <= MaxFrames /\ returned <= buffered
  /\ DetTyped

(* The recording goes as far as the frames that were read; what is         *)
(* returned is what was recorded, but for the silence at the end.          *)
Recorded ==
  /\ rpc = "read"  => buffered = Len(energies) /\ vad # "done"
  /\ rpc = "ended" =>
       /\ buffered \in {Len(energies), Len(energies) - 1}
       /\ sawSpeech => buffered > 0
       /\ returned = IF sawSpeech THEN Trimmed(buffered, silenceFrames) ELSE 0

(* The frame that starts the speech, the last that is not quiet, and no    *)
(* silence between them.                                                   *)
Utterance(i, j) ==
  /\ FirstJudged <= i /\ i <= j /\ j <= Len(energies)
  /\ energies[i] >= startRms /\ (energies[j] >= endRms \/ i = j)
  /\ \A k \in i .. j : \E m \in k .. j : energies[m] >= endRms /\ (m - k) * FrameMs < SilenceMs

Speaking ==
  /\ speechFrames > 0
  /\ Utterance(Len(energies) - speechFrames + 1, Len(energies) - silenceFrames)

(* Where the detector is in the frames that it judges: speech was seen if  *)
(* some of them was loud, and the last silenceFrames are quiet.            *)
SawTheLoud ==
  sawSpeech <=> \E i \in FirstJudged .. Len(energies) : energies[i] >= startRms

QuietTail ==
  \A i \in FirstJudged .. Len(energies) : i > Len(energies) - silenceFrames => energies[i] < endRms

SpeechGoesOn == vad = "speech" => sawSpeech /\ Speaking /\ silenceFrames * FrameMs < SilenceMs

SpeechIsOver ==
  vad = "done" /\ speechFrames > 0 /\ speechFrames * FrameMs < MaxSpeechMs =>
    /\ Speaking /\ silenceFrames * FrameMs >= SilenceMs
    /\ (speechFrames - silenceFrames) * FrameMs >= MinSpeechMs

StillQuiet ==
  ~sawSpeech =>
    /\ speechFrames = 0 /\ waitFrames = Len(energies) - FirstJudged + 1
    /\ vad = "wait" => waitFrames * FrameMs < LeadInMs
    /\ vad = "done" => waitFrames * FrameMs >= LeadInMs /\ (waitFrames - 1) * FrameMs < LeadInMs

Judging ==
  /\ Len(energies) >= FirstJudged - 1 /\ endRms <= startRms
  /\ vad = "wait" => speechFrames = 0 /\ silenceFrames = 0
  /\ SawTheLoud /\ QuietTail /\ SpeechGoesOn /\ SpeechIsOver /\ StillQuiet

Detecting ==
  /\ skip > 0 \/ calibrate > 0 =>
       /\ vad = "wait" /\ speechFrames = 0 /\ silenceFrames = 0 /\ ~sawSpeech /\ calibrate = CalibrateMs
  /\ skip > 0 => noise = <<>> /\ waitFrames = 0 /\ skip = SkipMs - Len(energies) * FrameMs
  /\ skip = 0 /\ calibrate > 0 =>
       /\ waitFrames = Len(energies) - Ceil(SkipMs) /\ waitFrames * FrameMs < CalibrateMs
  /\ skip = 0 /\ calibrate = 0 => Judging

RecInv == RecTyped /\ Recorded /\ Detecting

(* What the thresholds need: the one that ends speech is not the greater,  *)
(* and the silence that is kept at the end has a frame.                    *)
Hysteresis == EndTenths <= 10 * StartFactor /\ EndCap <= StartCap /\ FrameMs <= SilenceMs

(* A frame is put on the history.                                          *)
JoinsHistory(rms) == energies' = Append(energies, rms) /\ sawSpeech' = (sawSpeech \/ vad' = "speech")

(* More frames take no less time.                                          *)
LEMMA TimesMono ==
  ASSUME NEW a \in Int, NEW b \in Int, NEW f \in Nat, a <= b
  PROVE  a * f <= b * f
<1>1. PICK d \in Nat : b = a + d
  <2>1. b - a \in Nat
    OBVIOUS
  <2>. QED BY <2>1
<1>2. b * f = a * f + d * f
  BY <1>1
<1>3. d * f >= 0
  OBVIOUS
<1>. QED BY <1>2, <1>3

(* Frames that take at least a time are at least as many as its frames.    *)
LEMMA CeilIsLeast ==
  ASSUME NEW ms \in Nat
  PROVE  /\ Ceil(ms) \in Nat
         /\ \A s \in Int : s * FrameMs >= ms <=> s >= Ceil(ms)
<1>. DEFINE c == Ceil(ms)
            n == ms + FrameMs - 1
<1>1. FrameMs \in Nat /\ FrameMs > 0
  BY RecordConstants
<1>2. n \in Nat
  BY <1>1
<1>3. c \in Nat /\ c = n \div FrameMs
  BY <1>1, <1>2 DEF Ceil
<1>4. c * FrameMs <= n /\ n < c * FrameMs + FrameMs
  BY <1>1, <1>2, <1>3
<1>5. ASSUME NEW s \in Int PROVE s * FrameMs >= ms <=> s >= c
  <2>1. CASE s >= c
    <3>1. c * FrameMs <= s * FrameMs
      BY <1>1, <1>3, <2>1, TimesMono
    <3>. QED BY <1>1, <1>3, <1>4, <2>1, <3>1
  <2>2. CASE s <= c - 1
    <3>1. s * FrameMs <= (c - 1) * FrameMs
      BY <1>1, <1>3, <2>2, TimesMono
    <3>2. (c - 1) * FrameMs = c * FrameMs - FrameMs
      BY <1>1, <1>3
    <3>3. s * FrameMs \in Int /\ c * FrameMs \in Int
      BY <1>1, <1>3
    <3>. QED BY <1>1, <1>3, <1>4, <2>2, <3>1, <3>2, <3>3
  <2>. QED BY <1>3, <2>1, <2>2
<1>. QED BY <1>3, <1>5

(* The median of noise is one of its energies.                             *)
LEMMA MedianIsOfNoise ==
  ASSUME NEW s \in Seq(Nat), s # <<>>, NEW b \in Nat, \A i \in DOMAIN s : s[i] <= b
  PROVE  Median(s) \in Nat
<1>. DEFINE h == Len(s) \div 2
            X == {x \in Nat : Upto(s, x) > h}
<1>1. Len(s) \in Nat /\ Len(s) > 0 /\ DOMAIN s = 1 .. Len(s)
  BY EmptySeq, LenProperties
<1>2. h \in Nat /\ h < Len(s)
  BY <1>1
<1>3. b \in X
  <2>1. {i \in DOMAIN s : s[i] <= b} = 1 .. Len(s)
    BY <1>1
  <2>2. Cardinality(1 .. Len(s)) = Len(s)
    BY <1>1, FS_Interval
  <2>. QED BY <1>2, <2>1, <2>2 DEF Upto
<1>4. PICK x \in X : \A y \in X : x <= y
  BY <1>3, LeastNumber
<1>5. IsFiniteSet(DOMAIN s)
  BY <1>1, FS_Interval
<1>6. \E i \in DOMAIN s : s[i] = x
  <2>1. SUFFICES ASSUME \A i \in DOMAIN s : s[i] # x PROVE FALSE
    OBVIOUS
  <2>2. CASE x = 0
    <3>1. {i \in DOMAIN s : s[i] <= x} = {}
      <4>1. ASSUME NEW i \in DOMAIN s PROVE ~(s[i] <= x)
        <5>1. s[i] \in Nat
          BY <4>1, ElementOfSeq, <1>1
        <5>. QED BY <2>1, <2>2, <4>1, <5>1
      <4>. QED BY <4>1
    <3>2. Upto(s, x) = 0
      BY <3>1, FS_EmptySet DEF Upto
    <3>. QED BY <1>2, <1>4, <3>2
  <2>3. CASE x > 0
    <3>1. x \in Nat /\ x - 1 \in Nat
      BY <1>4, <2>3
    <3>2. {i \in DOMAIN s : s[i] <= x} = {i \in DOMAIN s : s[i] <= x - 1}
      <4>1. ASSUME NEW i \in DOMAIN s PROVE s[i] <= x <=> s[i] <= x - 1
        <5>1. s[i] \in Nat
          BY <4>1, ElementOfSeq, <1>1
        <5>. QED BY <2>1, <3>1, <4>1, <5>1
      <4>. QED BY <4>1
    <3>3. Upto(s, x) = Upto(s, x - 1)
      BY <3>2 DEF Upto
    <3>4. x - 1 \in X
      BY <1>4, <3>1, <3>3
    <3>. QED BY <1>4, <3>1, <3>4
  <2>. QED BY <1>4, <2>2, <2>3
<1>7. ASSUME NEW i \in DOMAIN s, s[i] < x PROVE Upto(s, s[i]) <= h
  <2>1. s[i] \in Nat
    BY <1>7, ElementOfSeq, <1>1
  <2>2. s[i] \notin X
    BY <1>4, <1>7, <2>1
  <2>3. Upto(s, s[i]) \in Nat
    <3>1. {j \in DOMAIN s : s[j] <= s[i]} \subseteq DOMAIN s
      OBVIOUS
    <3>2. IsFiniteSet({j \in DOMAIN s : s[j] <= s[i]})
      BY <1>5, <3>1, FS_Subset
    <3>. QED BY <3>2, FS_CardinalityType DEF Upto
  <2>. QED BY <1>2, <2>1, <2>2, <2>3
<1>8. \E m \in {s[i] : i \in DOMAIN s} :
        Upto(s, m) > Len(s) \div 2 /\ \A i \in DOMAIN s : s[i] < m => Upto(s, s[i]) <= Len(s) \div 2
  BY <1>4, <1>6, <1>7
<1>9. Median(s) \in {s[i] : i \in DOMAIN s}
  BY <1>8 DEF Median
<1>. QED BY <1>1, <1>9, ElementOfSeq

(* What is returned is of what was recorded: all of it, but for the        *)
(* silence beyond silence_ms.                                              *)
LEMMA TrimmedIsPart ==
  ASSUME NEW n \in Nat, NEW q \in Nat
  PROVE  /\ Trimmed(n, q) \in Nat /\ Trimmed(n, q) <= n
         /\ n > 0 => Trimmed(n, q) > 0
         /\ FrameMs <= SilenceMs => Trimmed(n, q) = n \/ Trimmed(n, q) >= n - q + 1
<1>. DEFINE S == SilenceMs \div FrameMs
<1>1. FrameMs \in Nat /\ FrameMs > 0 /\ SilenceMs \in Nat
  BY RecordConstants
<1>2. S \in Nat
  BY <1>1
<1>3. FrameMs <= SilenceMs => S >= 1
  BY <1>1
<1>4. Trimmed(n, q) = IF q - S > 0 /\ q - S < n THEN n - (q - S) ELSE n
  BY DEF Trimmed
<1>. HIDE DEF S
<1>. QED BY <1>2, <1>3, <1>4

(* A measured threshold is a number.                                       *)
LEMMA ThresholdTyped ==
  ASSUME NEW m \in Nat
  PROVE  LET base == IF m < Floor THEN Floor ELSE m
         IN /\ Least(base * StartFactor, StartCap) \in Nat
            /\ Least((base * EndTenths) \div 10, EndCap) \in Nat
            /\ EndTenths <= 10 * StartFactor /\ EndCap <= StartCap =>
                 Least((base * EndTenths) \div 10, EndCap) <= Least(base * StartFactor, StartCap)
<1>. DEFINE base == IF m < Floor THEN Floor ELSE m
            x == base * StartFactor
            y == (base * EndTenths) \div 10
<1>1. Floor \in Nat /\ StartFactor \in Nat /\ StartCap \in Nat /\ EndTenths \in Nat /\ EndCap \in Nat
  BY RecordConstants
<1>2. base \in Nat
  BY <1>1
<1>. HIDE DEF base
<1>3. x \in Nat /\ base * EndTenths \in Nat
  BY <1>1, <1>2
<1>4. y \in Nat
  BY <1>3
<1>5. ASSUME EndTenths <= 10 * StartFactor PROVE y <= x
  <2>1. EndTenths * base <= (10 * StartFactor) * base
    BY <1>1, <1>2, <1>5, TimesMono
  <2>2. EndTenths * base = base * EndTenths /\ (10 * StartFactor) * base = 10 * x
    BY <1>1, <1>2
  <2>. HIDE DEF x
  <2>3. base * EndTenths <= 10 * x
    BY <2>1, <2>2
  <2>. QED BY <1>3, <2>3
<1>. HIDE DEF x, y
<1>6. Least(x, StartCap) \in Nat /\ Least(y, EndCap) \in Nat
  BY <1>1, <1>3, <1>4 DEF Least
<1>7. EndTenths <= 10 * StartFactor /\ EndCap <= StartCap => Least(y, EndCap) <= Least(x, StartCap)
  BY <1>1, <1>3, <1>4, <1>5 DEF Least
<1>. QED BY <1>6, <1>7 DEF base, x, y

(* noise_buf with one more energy, if it has room.                         *)
LEMMA NoiseGrows ==
  ASSUME DetTyped, NEW rms \in Levels
  PROVE  LET n == IF Len(noise) < NoiseCap THEN Append(noise, rms) ELSE noise
         IN /\ n \in Seq(Levels) /\ Len(n) <= NoiseCap /\ n # <<>>
            /\ \E b \in Nat : \A i \in DOMAIN n : n[i] <= b
            /\ Median(n) \in Nat
<1>. DEFINE n == IF Len(noise) < NoiseCap THEN Append(noise, rms) ELSE noise
<1>1. noise \in Seq(Levels) /\ Len(noise) \in Nat /\ NoiseCap \in Nat /\ NoiseCap > 0
      /\ Len(noise) <= NoiseCap /\ Levels \subseteq Nat
  BY RecordConstants, LenProperties DEF DetTyped
<1>2. PICK b \in Nat : \A i \in DOMAIN noise : noise[i] <= b
  BY DEF DetTyped
<1>3. n \in Seq(Levels) /\ Len(n) <= NoiseCap /\ n # <<>> /\ \E c \in Nat : \A i \in DOMAIN n : n[i] <= c
  <2>1. CASE Len(noise) < NoiseCap
    <3>1. n = Append(noise, rms)
      BY <2>1
    <3>. HIDE DEF n
    <3>2. n \in Seq(Levels) /\ Len(n) = Len(noise) + 1
          /\ \A i \in 1 .. Len(noise) : n[i] = noise[i]
      BY <1>1, <3>1, AppendProperties
    <3>3. n[Len(noise) + 1] = rms
      BY <1>1, <3>1, AppendProperties
    <3>4. DOMAIN n = 1 .. Len(noise) + 1 /\ DOMAIN noise = 1 .. Len(noise)
      BY <1>1, <3>2, LenProperties
    <3>5. PICK c \in Nat : b <= c /\ rms <= c
      <4>1. b \in Nat /\ rms \in Nat
        BY <1>1
      <4>. QED BY <4>1
    <3>6. ASSUME NEW i \in DOMAIN n PROVE n[i] <= c
      <4>1. CASE i = Len(noise) + 1
        BY <3>3, <3>5, <4>1
      <4>2. CASE i \in 1 .. Len(noise)
        <5>1. n[i] = noise[i]
          BY <3>2, <4>2
        <5>2. noise[i] <= b
          BY <1>2, <3>4, <4>2
        <5>3. noise[i] \in Nat
          BY <1>1, <4>2, ElementOfSeq
        <5>. QED BY <3>5, <5>1, <5>2, <5>3
      <4>. QED BY <1>1, <3>4, <4>1, <4>2
    <3>7. n # <<>>
      BY <1>1, <3>2, EmptySeq
    <3>. QED BY <1>1, <2>1, <3>2, <3>5, <3>6, <3>7
  <2>2. CASE ~(Len(noise) < NoiseCap)
    <3>1. n = noise
      BY <2>2
    <3>2. noise # <<>>
      BY <1>1, <2>2, EmptySeq
    <3>. QED BY <1>1, <1>2, <3>1, <3>2
  <2>. QED BY <2>1, <2>2
<1>. HIDE DEF n
<1>4. n \in Seq(Nat)
  BY <1>1, <1>3, SeqMonotonic
<1>5. Median(n) \in Nat
  BY <1>3, <1>4, MedianIsOfNoise
<1>. QED BY <1>3, <1>5 DEF n

(* The start of a recording is of the types.                               *)
LEMMA RecInitTyped == RecInit => RecTyped
<1>. SUFFICES ASSUME RecInit PROVE RecTyped
  OBVIOUS
<1>1. PICK f \in Fixed :
         /\ startRms = f /\ endRms = (f * 6) \div 10
         /\ skip = IF f > 0 THEN 0 ELSE SkipMs
         /\ calibrate = IF f > 0 THEN 0 ELSE CalibrateMs
  BY DEF RecInit
<1>2. f \in Nat /\ SkipMs \in Nat /\ CalibrateMs \in Nat /\ MaxFrames \in Nat /\ NoiseCap \in Nat
  BY RecordConstants
<1>3. startRms \in Nat /\ endRms \in Nat /\ skip \in Nat /\ calibrate \in Nat
  BY <1>1, <1>2
<1>4. noise = <<>> /\ energies = <<>> /\ <<>> \in Seq(Levels) /\ Len(noise) = 0
  BY EmptySeq DEF RecInit
<1>5. \A i \in DOMAIN noise : noise[i] <= 0
  BY <1>4
<1>6. 0 \in Nat
  OBVIOUS
<1>7. \E b \in Nat : \A i \in DOMAIN noise : noise[i] <= b
  BY <1>5, <1>6
<1>8. DetTyped
  BY <1>2, <1>3, <1>4, <1>7 DEF RecInit, DetTyped
<1>9. energies \in Seq(Levels)
  BY <1>4
<1>10. rpc \in {"read", "ended"} /\ sawSpeech \in BOOLEAN
  BY DEF RecInit
<1>11. buffered \in Nat /\ returned \in Nat /\ buffered <= MaxFrames /\ returned <= buffered
  BY <1>2 DEF RecInit
<1>. QED BY <1>8, <1>9, <1>10, <1>11, Zenon DEF RecTyped

(* vad_process keeps the types of the detector.                            *)
LEMMA ProcessTyped ==
  ASSUME DetTyped, NEW rms \in Levels, Process(rms)
  PROVE  DetTyped'
<1>1. FrameMs \in Nat /\ CalibrateMs \in Nat
  BY RecordConstants
<1>2. CASE Skips
  <2>1. skip' \in Nat
    BY <1>1, <1>2 DEF Skips, DetTyped
  <2>2. /\ vad' = vad /\ startRms' = startRms /\ endRms' = endRms /\ calibrate' = calibrate
        /\ noise' = noise /\ speechFrames' = speechFrames /\ silenceFrames' = silenceFrames
        /\ waitFrames' = waitFrames
    BY <1>2 DEF Skips, thresholds, counters
  <2>. QED BY <2>1, <2>2 DEF DetTyped
<1>3. CASE Measures(rms)
  <2>. DEFINE n == IF Len(noise) < NoiseCap THEN Append(noise, rms) ELSE noise
              base == IF Median(n) < Floor THEN Floor ELSE Median(n)
  <2>1. n \in Seq(Levels) /\ Len(n) <= NoiseCap /\ Median(n) \in Nat
        /\ \E b \in Nat : \A i \in DOMAIN n : n[i] <= b
    BY NoiseGrows
  <2>2. noise' = n /\ vad' = vad /\ skip' = skip
        /\ speechFrames' = speechFrames /\ silenceFrames' = silenceFrames
    BY <1>3 DEF Measures
  <2>3. Least(base * StartFactor, StartCap) \in Nat /\ Least((base * EndTenths) \div 10, EndCap) \in Nat
    BY <2>1, ThresholdTyped
  <2>. HIDE DEF n
  <2>4. startRms' \in Nat /\ endRms' \in Nat /\ calibrate' \in Nat /\ waitFrames' \in Nat
    <3>1. CASE (waitFrames + 1) * FrameMs >= CalibrateMs
      <4>1. startRms' = Least(base * StartFactor, StartCap)
            /\ endRms' = Least((base * EndTenths) \div 10, EndCap)
            /\ calibrate' = 0 /\ waitFrames' = 0
        BY <1>3, <2>2, <3>1 DEF Measures
      <4>. QED BY <2>3, <4>1
    <3>2. CASE ~((waitFrames + 1) * FrameMs >= CalibrateMs)
      <4>1. waitFrames' = waitFrames + 1 /\ startRms' = startRms /\ endRms' = endRms
            /\ calibrate' = calibrate
        BY <1>3, <3>2 DEF Measures, thresholds
      <4>. QED BY <4>1 DEF DetTyped
    <3>. QED BY <3>1, <3>2
  <2>. QED BY <2>1, <2>2, <2>4 DEF DetTyped
<1>4. CASE Waits(rms)
  <2>1. noise' = noise /\ startRms' = startRms /\ endRms' = endRms /\ skip' = skip
        /\ calibrate' = calibrate /\ waitFrames' = waitFrames + 1
    BY <1>4 DEF Waits, thresholds
  <2>2. /\ vad' \in {"wait", "speech", "done"}
        /\ (speechFrames' = 1 /\ silenceFrames' = 0)
           \/ (speechFrames' = speechFrames /\ silenceFrames' = silenceFrames)
    BY <1>4 DEF Waits
  <2>. QED BY <2>1, <2>2 DEF DetTyped
<1>5. CASE SpeaksOn(rms)
  <2>1. noise' = noise /\ startRms' = startRms /\ endRms' = endRms /\ skip' = skip
        /\ calibrate' = calibrate /\ waitFrames' = waitFrames
        /\ speechFrames' = speechFrames + 1 /\ silenceFrames' = 0 /\ vad' \in {"speech", "done"}
    BY <1>5 DEF SpeaksOn, thresholds
  <2>. QED BY <2>1 DEF DetTyped
<1>6. CASE FallsSilent(rms)
  <2>1. noise' = noise /\ startRms' = startRms /\ endRms' = endRms /\ skip' = skip
        /\ calibrate' = calibrate /\ waitFrames' = waitFrames
    BY <1>6 DEF FallsSilent, thresholds
  <2>2. (vad' = "wait" /\ speechFrames' = 0 /\ silenceFrames' = 0)
        \/ (vad' \in {"speech", "done"} /\ speechFrames' = speechFrames + 1
             /\ silenceFrames' = silenceFrames + 1)
    BY <1>6 DEF FallsSilent
  <2>. QED BY <2>1, <2>2 DEF DetTyped
<1>. QED BY <1>2, <1>3, <1>4, <1>5, <1>6 DEF Process

(* Each step keeps the types.                                              *)
LEMMA RecNextTyped == RecTyped /\ [RecNext]_recVars => RecTyped'
<1>. SUFFICES ASSUME RecTyped, [RecNext]_recVars PROVE RecTyped'
  OBVIOUS
<1>1. DetTyped /\ MaxFrames \in Nat
  BY RecordConstants DEF RecTyped
<1>2. ASSUME NEW rms \in Levels, Frame(rms) PROVE RecTyped'
  <2>1. DetTyped'
    BY <1>1, <1>2, ProcessTyped DEF Frame
  <2>2. energies' \in Seq(Levels)
    BY <1>2, AppendProperties DEF Frame, RecTyped
  <2>3. (sawSpeech \/ vad' = "speech") \in BOOLEAN
    BY DEF RecTyped
  <2>4. CASE vad' = "done" \/ buffered + 1 > MaxFrames
    <3>1. Ends(buffered, (sawSpeech \/ vad' = "speech"), silenceFrames')
      BY <1>2, <2>4 DEF Frame
    <3>2. rpc' = "ended" /\ buffered' = buffered /\ sawSpeech' \in BOOLEAN
          /\ (returned' = Trimmed(buffered, silenceFrames') \/ returned' = 0)
      BY <2>3, <3>1 DEF Ends
    <3>3. buffered \in Nat /\ silenceFrames' \in Nat
      BY <2>1 DEF RecTyped, DetTyped
    <3>4. Trimmed(buffered, silenceFrames') \in Nat /\ Trimmed(buffered, silenceFrames') <= buffered
      BY <3>3, TrimmedIsPart
    <3>5. returned' \in Nat /\ returned' <= buffered'
      BY <3>2, <3>3, <3>4
    <3>. QED BY <2>1, <2>2, <3>2, <3>5 DEF RecTyped
  <2>5. CASE ~(vad' = "done" \/ buffered + 1 > MaxFrames)
    <3>1. buffered' = buffered + 1 /\ sawSpeech' = (sawSpeech \/ vad' = "speech")
          /\ rpc' = rpc /\ returned' = returned
      BY <1>2, <2>5 DEF Frame
    <3>2. buffered' \in Nat /\ buffered' <= MaxFrames /\ returned' \in Nat /\ returned' <= buffered'
      BY <1>1, <2>5, <3>1 DEF RecTyped
    <3>3. sawSpeech' \in BOOLEAN
      BY <2>3, <3>1
    <3>. QED BY <2>1, <2>2, <3>1, <3>2, <3>3 DEF RecTyped
  <2>. QED BY <2>4, <2>5
<1>3. CASE Broken
  <2>1. DetTyped' /\ energies' = energies
    BY <1>1, <1>3 DEF Broken, thresholds, counters, DetTyped
  <2>2. rpc' = "ended" /\ buffered' = buffered /\ sawSpeech' = sawSpeech
        /\ (returned' = Trimmed(buffered, silenceFrames) \/ returned' = 0)
    BY <1>3 DEF Broken, Ends
  <2>3. buffered \in Nat /\ silenceFrames \in Nat
    BY DEF RecTyped, DetTyped
  <2>4. Trimmed(buffered, silenceFrames) \in Nat /\ Trimmed(buffered, silenceFrames) <= buffered
    BY <2>3, TrimmedIsPart
  <2>5. returned' \in Nat /\ returned' <= buffered'
    BY <2>2, <2>3, <2>4
  <2>. QED BY <2>1, <2>2, <2>5 DEF RecTyped
<1>4. CASE UNCHANGED recVars
  BY <1>4 DEF recVars, thresholds, counters, RecTyped, DetTyped
<1>. QED BY <1>2, <1>3, <1>4 DEF RecNext

(* The recorder keeps its types: the thresholds that are measured are      *)
(* numbers, and no more is returned than the buffer holds.                 *)
THEOREM RecorderTyped == RecSpec => []RecTypeOK
<1>1. RecTyped => RecTypeOK
  BY DEF RecTyped, DetTyped, RecTypeOK
<1>. QED BY <1>1, RecInitTyped, RecNextTyped, PTL DEF RecSpec

(* The frame that is put on the history is the last, behind the others.    *)
LEMMA HeardIsLast ==
  ASSUME energies \in Seq(Levels), NEW rms \in Levels, JoinsHistory(rms)
  PROVE  /\ Len(energies) \in Nat /\ Len(energies') = Len(energies) + 1
         /\ \A i \in 1 .. Len(energies) : energies'[i] = energies[i] /\ energies[i] \in Nat
         /\ energies'[Len(energies) + 1] = rms /\ rms \in Nat
<1>1. energies' = Append(energies, rms) /\ Levels \subseteq Nat
  BY RecordConstants DEF JoinsHistory
<1>2. Len(energies) \in Nat
  BY LenProperties
<1>3. Len(energies') = Len(energies) + 1 /\ energies'[Len(energies) + 1] = rms
      /\ \A i \in 1 .. Len(energies) : energies'[i] = energies[i]
  BY <1>1, <1>2, AppendProperties
<1>4. \A i \in 1 .. Len(energies) : energies[i] \in Nat
  BY <1>1, ElementOfSeq
<1>. QED BY <1>1, <1>2, <1>3, <1>4

(* The first frame that is judged.                                         *)
LEMMA FirstJudgedTyped == FirstJudged \in Nat /\ FirstJudged >= 1
<1>1. Ceil(SkipMs) \in Nat /\ Ceil(CalibrateMs) \in Nat
  <2>1. SkipMs \in Nat /\ CalibrateMs \in Nat
    BY RecordConstants
  <2>. QED BY <2>1, CeilIsLeast
<1>. QED BY <1>1 DEF FirstJudged

(* A frame of the transient.                                               *)
LEMMA SkipsDetects ==
  ASSUME RecTyped, Detecting, NEW rms \in Levels, JoinsHistory(rms), Skips
  PROVE  Detecting'
<1>1. FrameMs \in Nat /\ FrameMs > 0 /\ SkipMs \in Nat /\ CalibrateMs \in Nat /\ CalibrateMs > 0
  BY RecordConstants
<1>2. energies \in Seq(Levels)
  BY DEF RecTyped
<1>3. Len(energies) \in Nat /\ Len(energies') = Len(energies) + 1
  BY <1>2, HeardIsLast
<1>4. /\ skip > 0 /\ skip \in Nat /\ vad = "wait" /\ speechFrames = 0 /\ silenceFrames = 0
      /\ ~sawSpeech /\ calibrate = CalibrateMs
      /\ noise = <<>> /\ waitFrames = 0 /\ skip = SkipMs - Len(energies) * FrameMs
  BY DEF Skips, Detecting, RecTyped, DetTyped
<1>5. /\ vad' = "wait" /\ speechFrames' = 0 /\ silenceFrames' = 0 /\ calibrate' = CalibrateMs
      /\ noise' = <<>> /\ waitFrames' = 0
  BY <1>4 DEF Skips, counters
<1>6. ~sawSpeech'
  BY <1>4, <1>5 DEF JoinsHistory
<1>7. (Len(energies) + 1) * FrameMs = Len(energies) * FrameMs + FrameMs
      /\ Len(energies) * FrameMs \in Nat
  BY <1>1, <1>3
<1>8. skip' = IF skip > FrameMs THEN skip - FrameMs ELSE 0
  BY DEF Skips
<1>9. skip' > 0 => skip' = SkipMs - Len(energies') * FrameMs
  <2>1. Len(energies') * FrameMs = Len(energies) * FrameMs + FrameMs
    BY <1>3, <1>7
  <2>2. PICK t \in Nat : t = Len(energies) * FrameMs
    BY <1>7
  <2>3. skip = SkipMs - t /\ Len(energies') * FrameMs = t + FrameMs
    BY <1>4, <2>1, <2>2
  <2>4. skip' > 0 => skip' = skip - FrameMs
    BY <1>8
  <2>5. skip - FrameMs = SkipMs - (t + FrameMs)
    BY <1>1, <2>2, <2>3
  <2>. QED BY <2>3, <2>4, <2>5
<1>10. ASSUME skip' = 0 PROVE waitFrames' = Len(energies') - Ceil(SkipMs)
  <2>1. Len(energies) * FrameMs < SkipMs /\ (Len(energies) + 1) * FrameMs >= SkipMs
    BY <1>1, <1>4, <1>7, <1>8, <1>10
  <2>2. Ceil(SkipMs) \in Nat /\ \A s \in Int : s * FrameMs >= SkipMs <=> s >= Ceil(SkipMs)
    BY <1>1, CeilIsLeast
  <2>3. Len(energies) + 1 >= Ceil(SkipMs) /\ ~(Len(energies) >= Ceil(SkipMs))
    BY <1>1, <1>3, <1>7, <2>1, <2>2
  <2>. QED BY <1>3, <1>5, <2>2, <2>3
<1>11. waitFrames' * FrameMs < CalibrateMs
  BY <1>1, <1>5
<1>12. skip' \in Nat
  BY <1>1, <1>4, <1>8
<1>. QED BY <1>1, <1>5, <1>6, <1>9, <1>10, <1>11, <1>12 DEF Detecting

(* A frame of the noise: the last one sets the thresholds, and the frames  *)
(* behind it are judged.                                                   *)
LEMMA MeasuresDetects ==
  ASSUME Hysteresis, RecTyped, Detecting, NEW rms \in Levels, JoinsHistory(rms), Measures(rms)
  PROVE  Detecting'
<1>1. FrameMs \in Nat /\ FrameMs > 0 /\ SkipMs \in Nat /\ CalibrateMs \in Nat /\ CalibrateMs > 0
      /\ LeadInMs \in Nat /\ LeadInMs > 0
  BY RecordConstants
<1>2. energies \in Seq(Levels) /\ DetTyped
  BY DEF RecTyped
<1>3. Len(energies) \in Nat /\ Len(energies') = Len(energies) + 1
  BY <1>2, HeardIsLast
<1>4. /\ skip = 0 /\ calibrate > 0 /\ vad = "wait" /\ speechFrames = 0 /\ silenceFrames = 0
      /\ ~sawSpeech /\ calibrate = CalibrateMs
      /\ waitFrames = Len(energies) - Ceil(SkipMs) /\ waitFrames * FrameMs < CalibrateMs
      /\ waitFrames \in Nat
  BY DEF Measures, Detecting, RecTyped, DetTyped
<1>5. vad' = "wait" /\ speechFrames' = 0 /\ silenceFrames' = 0 /\ skip' = 0
  BY <1>4 DEF Measures
<1>6. ~sawSpeech'
  BY <1>4, <1>5 DEF JoinsHistory
<1>7. Ceil(SkipMs) \in Nat /\ Ceil(CalibrateMs) \in Nat
      /\ \A s \in Int : s * FrameMs >= CalibrateMs <=> s >= Ceil(CalibrateMs)
  BY <1>1, CeilIsLeast
<1>8. CASE (waitFrames + 1) * FrameMs >= CalibrateMs
  <2>. DEFINE n == IF Len(noise) < NoiseCap THEN Append(noise, rms) ELSE noise
              base == IF Median(n) < Floor THEN Floor ELSE Median(n)
  <2>1. n # <<>> /\ Median(n) \in Nat
    BY <1>2, NoiseGrows
  <2>2. noise' = n
    BY DEF Measures
  <2>3. Hysteresis => Least((base * EndTenths) \div 10, EndCap) <= Least(base * StartFactor, StartCap)
    BY <2>1, ThresholdTyped DEF Hysteresis
  <2>. HIDE DEF n
  <2>4. startRms' = Least(base * StartFactor, StartCap)
        /\ endRms' = Least((base * EndTenths) \div 10, EndCap)
        /\ calibrate' = 0 /\ waitFrames' = 0
    BY <1>8, <2>2 DEF Measures
  <2>5. endRms' <= startRms'
    BY <2>3, <2>4
  <2>6. waitFrames + 1 = Ceil(CalibrateMs)
    <3>1. waitFrames + 1 \in Int /\ waitFrames \in Int
      BY <1>4
    <3>2. waitFrames + 1 >= Ceil(CalibrateMs)
      BY <1>7, <1>8, <3>1
    <3>3. PICK t \in Int : t = waitFrames * FrameMs
      BY <1>1, <3>1
    <3>4. ~(t >= CalibrateMs)
      BY <1>1, <1>4, <3>3
    <3>5. ~(waitFrames >= Ceil(CalibrateMs))
      BY <1>7, <3>1, <3>3, <3>4
    <3>. QED BY <1>4, <1>7, <3>2, <3>5
  <2>7. FirstJudged' = Ceil(SkipMs) + Ceil(CalibrateMs) + 1
    BY <2>1, <2>2 DEF FirstJudged, Ceil
  <2>8. FirstJudged' = Len(energies') + 1
    BY <1>3, <1>4, <1>7, <2>6, <2>7
  <2>9. FirstJudged' .. Len(energies') = {}
    BY <1>3, <2>8
  <2>10. SawTheLoud' /\ QuietTail'
    BY <1>6, <2>9 DEF SawTheLoud, QuietTail
  <2>11. SpeechGoesOn' /\ SpeechIsOver'
    BY <1>5 DEF SpeechGoesOn, SpeechIsOver
  <2>12. StillQuiet'
    BY <1>1, <1>3, <1>5, <2>4, <2>8 DEF StillQuiet
  <2>13. Judging'
    BY <1>3, <1>5, <2>5, <2>8, <2>10, <2>11, <2>12 DEF Judging
  <2>. QED BY <1>5, <2>4, <2>13 DEF Detecting
<1>9. CASE ~((waitFrames + 1) * FrameMs >= CalibrateMs)
  <2>1. waitFrames' = waitFrames + 1 /\ calibrate' = calibrate
    BY <1>9 DEF Measures
  <2>2. waitFrames' = Len(energies') - Ceil(SkipMs) /\ waitFrames' * FrameMs < CalibrateMs
    <3>1. waitFrames' = Len(energies') - Ceil(SkipMs)
      BY <1>3, <1>4, <1>7, <2>1
    <3>2. PICK t \in Nat : t = (waitFrames + 1) * FrameMs
      BY <1>1, <1>4
    <3>3. t < CalibrateMs
      BY <1>1, <1>9, <3>2
    <3>. QED BY <2>1, <3>1, <3>2, <3>3
  <2>. QED BY <1>4, <1>5, <1>6, <2>1, <2>2 DEF Detecting
<1>. QED BY <1>8, <1>9

(* A frame that is judged is one frame more behind the same first one.     *)
LEMMA JudgesOn ==
  ASSUME RecTyped, Judging, NEW rms \in Levels, JoinsHistory(rms),
         noise' = noise, startRms' = startRms, endRms' = endRms
  PROVE  /\ FirstJudged' = FirstJudged /\ Len(energies) + 1 >= FirstJudged
         /\ SawTheLoud /\ (sawSpeech' <=> sawSpeech \/ rms >= startRms) => SawTheLoud'
         /\ QuietTail /\ silenceFrames' = 0 => QuietTail'
         /\ QuietTail /\ rms < endRms /\ silenceFrames' = silenceFrames + 1 => QuietTail'
         /\ Len(energies') >= FirstJudged' - 1 /\ endRms' <= startRms'
<1>. DEFINE L == Len(energies)
<1>1. energies \in Seq(Levels) /\ startRms \in Nat /\ endRms \in Nat /\ silenceFrames \in Nat
  BY DEF RecTyped, DetTyped
<1>2. L \in Nat /\ Len(energies') = L + 1 /\ energies'[L + 1] = rms /\ rms \in Nat
  BY <1>1, HeardIsLast
<1>3. \A i \in 1 .. L : energies'[i] = energies[i] /\ energies[i] \in Nat
  BY <1>1, HeardIsLast
<1>4. FirstJudged \in Nat /\ FirstJudged >= 1
  BY FirstJudgedTyped
<1>5. FirstJudged' = FirstJudged
  BY DEF FirstJudged, Ceil
<1>6. L >= FirstJudged - 1 /\ endRms <= startRms
  BY DEF Judging
<1>. HIDE DEF L
<1>7. FirstJudged' .. Len(energies') = (FirstJudged .. L) \cup {L + 1}
  BY <1>2, <1>4, <1>5, <1>6
<1>8. FirstJudged .. L \subseteq 1 .. L
  BY <1>2, <1>4
<1>9. ASSUME SawTheLoud, sawSpeech' <=> sawSpeech \/ rms >= startRms PROVE SawTheLoud'
  <2>1. (\E i \in FirstJudged' .. Len(energies') : energies'[i] >= startRms') <=>
          (\E i \in FirstJudged .. L : energies'[i] >= startRms) \/ energies'[L + 1] >= startRms
    BY <1>7
  <2>2. (\E i \in FirstJudged .. L : energies'[i] >= startRms) <=>
          (\E i \in FirstJudged .. L : energies[i] >= startRms)
    BY <1>3, <1>8
  <2>3. sawSpeech <=> \E i \in FirstJudged .. L : energies[i] >= startRms
    BY <1>9 DEF SawTheLoud, L
  <2>4. sawSpeech' <=> \E i \in FirstJudged' .. Len(energies') : energies'[i] >= startRms'
    BY <1>2, <1>9, <2>1, <2>2, <2>3
  <2>. QED BY <2>4 DEF SawTheLoud
<1>10. ASSUME QuietTail, silenceFrames' = 0 PROVE QuietTail'
  <2>1. \A i \in FirstJudged' .. Len(energies') : ~(i > Len(energies') - silenceFrames')
    BY <1>2, <1>4, <1>5, <1>10
  <2>. QED BY <2>1 DEF QuietTail
<1>11. ASSUME QuietTail, rms < endRms, silenceFrames' = silenceFrames + 1 PROVE QuietTail'
  <2>1. \A i \in FirstJudged .. L : i > L - silenceFrames => energies[i] < endRms
    BY <1>11 DEF QuietTail, L
  <2>2. ASSUME NEW i \in FirstJudged' .. Len(energies'), i > Len(energies') - silenceFrames'
        PROVE  energies'[i] < endRms'
    <3>1. CASE i = L + 1
      BY <1>2, <1>11, <3>1
    <3>2. CASE i \in FirstJudged .. L
      <4>1. i > L - silenceFrames
        BY <1>1, <1>2, <1>4, <1>11, <2>2, <3>2
      <4>. QED BY <1>3, <1>8, <2>1, <3>2, <4>1
    <3>. QED BY <1>7, <3>1, <3>2
  <2>. QED BY <2>2 DEF QuietTail
<1>12. L + 1 >= FirstJudged /\ Len(energies') >= FirstJudged' - 1 /\ endRms' <= startRms'
  BY <1>1, <1>2, <1>4, <1>5, <1>6
<1>. QED BY <1>5, <1>9, <1>10, <1>11, <1>12 DEF L

(* A frame that is judged before speech has started.                       *)
LEMMA WaitsDetects ==
  ASSUME RecTyped, Detecting, NEW rms \in Levels, JoinsHistory(rms), Waits(rms)
  PROVE  Detecting'
<1>. DEFINE L == Len(energies)
<1>1. FrameMs \in Nat /\ FrameMs > 0 /\ LeadInMs \in Nat /\ LeadInMs > 0
      /\ SilenceMs \in Nat /\ SilenceMs > 0
  BY RecordConstants
<1>2. /\ energies \in Seq(Levels) /\ startRms \in Nat /\ endRms \in Nat /\ waitFrames \in Nat
      /\ sawSpeech \in BOOLEAN
  BY DEF RecTyped, DetTyped
<1>3. Judging /\ skip = 0 /\ calibrate = 0 /\ vad = "wait"
  BY DEF Waits, Detecting
<1>4. skip' = 0 /\ calibrate' = 0 /\ noise' = noise /\ startRms' = startRms /\ endRms' = endRms
      /\ waitFrames' = waitFrames + 1
  BY <1>3 DEF Waits, thresholds
<1>5. L \in Nat /\ Len(energies') = L + 1 /\ energies'[L + 1] = rms /\ rms \in Nat
  BY <1>2, HeardIsLast
<1>6. speechFrames = 0 /\ silenceFrames = 0 /\ SawTheLoud /\ QuietTail /\ StillQuiet
  BY <1>3 DEF Judging
<1>7. FirstJudged' = FirstJudged /\ L + 1 >= FirstJudged
  BY <1>3, <1>4, JudgesOn
<1>8. SawTheLoud /\ (sawSpeech' <=> sawSpeech \/ rms >= startRms) => SawTheLoud'
  BY <1>3, <1>4, JudgesOn
<1>9. QuietTail /\ silenceFrames' = 0 => QuietTail'
  BY <1>3, <1>4, JudgesOn
<1>10. Len(energies') >= FirstJudged' - 1 /\ endRms' <= startRms' /\ endRms <= startRms
  BY <1>3, <1>4, JudgesOn DEF Judging
<1>11. FirstJudged \in Nat
  BY FirstJudgedTyped
<1>12. CASE rms >= startRms
  <2>1. vad' = "speech" /\ speechFrames' = 1 /\ silenceFrames' = 0
    BY <1>12 DEF Waits
  <2>2. sawSpeech'
    BY <2>1 DEF JoinsHistory
  <2>3. SawTheLoud' /\ QuietTail' /\ StillQuiet' /\ SpeechIsOver'
    BY <1>6, <1>8, <1>9, <1>12, <2>1, <2>2 DEF StillQuiet, SpeechIsOver
  <2>4. PICK l \in Nat : l = L + 1
    BY <1>5
  <2>. HIDE DEF L
  <2>5. Len(energies') - speechFrames' + 1 = l /\ Len(energies') - silenceFrames' = l
    BY <1>5, <2>1, <2>4
  <2>6. energies'[l] >= startRms' /\ energies'[l] >= endRms' /\ FirstJudged' <= l /\ l <= Len(energies')
    BY <1>2, <1>4, <1>5, <1>7, <1>10, <1>11, <1>12, <2>4
  <2>7. ASSUME NEW k \in l .. l
        PROVE  \E m \in k .. l : energies'[m] >= endRms' /\ (m - k) * FrameMs < SilenceMs
    <3>1. k = l /\ l \in k .. l
      BY <2>4
    <3>2. (l - k) * FrameMs < SilenceMs
      BY <1>1, <2>4, <3>1
    <3>. QED BY <2>6, <3>1, <3>2
  <2>8. Utterance(l, l)'
    BY <2>6, <2>7 DEF Utterance
  <2>9. Speaking'
    BY <2>1, <2>5, <2>8 DEF Speaking
  <2>10. SpeechGoesOn'
    BY <1>1, <2>1, <2>2, <2>9 DEF SpeechGoesOn
  <2>11. Judging'
    BY <1>10, <2>1, <2>3, <2>10 DEF Judging
  <2>. QED BY <1>4, <2>11 DEF Detecting
<1>13. CASE ~(rms >= startRms)
  <2>1. /\ vad' = IF waitFrames' * FrameMs >= LeadInMs THEN "done" ELSE "wait"
        /\ speechFrames' = 0 /\ silenceFrames' = 0
    BY <1>6, <1>13 DEF Waits
  <2>2. sawSpeech' = sawSpeech
    <3>1. vad' # "speech"
      BY <2>1
    <3>. QED BY <1>2, <3>1 DEF JoinsHistory
  <2>3. SawTheLoud' /\ QuietTail' /\ SpeechGoesOn' /\ SpeechIsOver'
    BY <1>6, <1>8, <1>9, <1>13, <2>1, <2>2 DEF SpeechGoesOn, SpeechIsOver
  <2>4. ASSUME ~sawSpeech
        PROVE  /\ waitFrames' = Len(energies') - FirstJudged' + 1
               /\ vad' = "wait" => waitFrames' * FrameMs < LeadInMs
               /\ vad' = "done" => waitFrames' * FrameMs >= LeadInMs /\ (waitFrames' - 1) * FrameMs < LeadInMs
    <3>1. waitFrames = L - FirstJudged + 1 /\ waitFrames * FrameMs < LeadInMs
      BY <1>3, <1>6, <2>4 DEF StillQuiet
    <3>2. waitFrames' = Len(energies') - FirstJudged' + 1
      BY <1>4, <1>5, <1>7, <1>11, <3>1
    <3>3. waitFrames' \in Nat /\ waitFrames' - 1 = waitFrames /\ waitFrames' * FrameMs \in Nat
      BY <1>1, <1>2, <1>4
    <3>4. vad' = "wait" => waitFrames' * FrameMs < LeadInMs
      <4>1. PICK t \in Nat : t = waitFrames' * FrameMs
        BY <3>3
      <4>2. vad' = "wait" => ~(t >= LeadInMs)
        BY <2>1, <4>1
      <4>3. ~(t >= LeadInMs) => t < LeadInMs
        BY <1>1
      <4>. QED BY <4>1, <4>2, <4>3
    <3>5. vad' = "done" => waitFrames' * FrameMs >= LeadInMs
      BY <1>1, <2>1, <3>3
    <3>6. (waitFrames' - 1) * FrameMs < LeadInMs
      BY <3>1, <3>3
    <3>. QED BY <3>2, <3>4, <3>5, <3>6
  <2>5. StillQuiet'
    BY <2>1, <2>2, <2>4 DEF StillQuiet
  <2>6. Judging'
    BY <1>10, <2>1, <2>3, <2>5 DEF Judging
  <2>. QED BY <1>4, <2>6 DEF Detecting
<1>. QED BY <1>12, <1>13

(* A frame of speech that is not quiet.                                    *)
LEMMA SpeaksOnDetects ==
  ASSUME RecTyped, Detecting, NEW rms \in Levels, JoinsHistory(rms), SpeaksOn(rms)
  PROVE  Detecting'
<1>1. FrameMs \in Nat /\ FrameMs > 0 /\ SilenceMs \in Nat /\ SilenceMs > 0 /\ MaxSpeechMs \in Nat
  BY RecordConstants
<1>2. /\ energies \in Seq(Levels) /\ startRms \in Nat /\ endRms \in Nat
      /\ speechFrames \in Nat /\ silenceFrames \in Nat /\ silenceFrames <= speechFrames
  BY DEF RecTyped, DetTyped
<1>3. Judging /\ skip = 0 /\ calibrate = 0 /\ vad = "speech" /\ rms >= endRms
  BY DEF SpeaksOn, Detecting
<1>4. skip' = 0 /\ calibrate' = 0 /\ noise' = noise /\ startRms' = startRms /\ endRms' = endRms
      /\ speechFrames' = speechFrames + 1 /\ silenceFrames' = 0
      /\ vad' = IF speechFrames' * FrameMs >= MaxSpeechMs THEN "done" ELSE "speech"
  BY <1>3 DEF SpeaksOn, thresholds
<1>5. PICK l \in Nat : l = Len(energies)
  BY <1>2, HeardIsLast
<1>6. Len(energies') = l + 1 /\ energies'[l + 1] = rms /\ rms \in Nat
      /\ \A i \in 1 .. l : energies'[i] = energies[i]
  BY <1>2, <1>5, HeardIsLast
<1>7. sawSpeech /\ Speaking /\ silenceFrames * FrameMs < SilenceMs /\ SawTheLoud /\ QuietTail
  BY <1>3 DEF Judging, SpeechGoesOn
<1>8. FirstJudged' = FirstJudged
  BY <1>3, <1>4, JudgesOn
<1>9. SawTheLoud /\ (sawSpeech' <=> sawSpeech \/ rms >= startRms) => SawTheLoud'
  BY <1>3, <1>4, JudgesOn
<1>10. QuietTail /\ silenceFrames' = 0 => QuietTail'
  BY <1>3, <1>4, JudgesOn
<1>11. Len(energies') >= FirstJudged' - 1 /\ endRms' <= startRms'
  BY <1>3, <1>4, JudgesOn
<1>12. FirstJudged \in Nat /\ FirstJudged >= 1
  BY FirstJudgedTyped
<1>13. sawSpeech'
  BY <1>7 DEF JoinsHistory
<1>14. SawTheLoud' /\ QuietTail'
  BY <1>4, <1>7, <1>9, <1>10, <1>13
<1>15. PICK i \in Int, j \in Int : i = l - speechFrames + 1 /\ j = l - silenceFrames
  <2>1. l - speechFrames + 1 \in Int /\ l - silenceFrames \in Int
    BY <1>2
  <2>. QED BY <2>1, Zenon
<1>16. Utterance(i, j)
  BY <1>5, <1>7, <1>15 DEF Speaking
<1>17. FirstJudged <= i /\ i <= j /\ j <= l /\ energies[i] >= startRms
  BY <1>5, <1>16 DEF Utterance
<1>18. energies'[i] >= startRms'
  BY <1>4, <1>6, <1>12, <1>17
<1>19. ASSUME NEW k \in i .. (l + 1)
       PROVE  \E m \in k .. (l + 1) : energies'[m] >= endRms' /\ (m - k) * FrameMs < SilenceMs
  <2>1. energies'[l + 1] >= endRms'
    BY <1>3, <1>4, <1>6
  <2>2. CASE k <= j
    <3>1. \E m \in k .. j : energies[m] >= endRms /\ (m - k) * FrameMs < SilenceMs
      BY <1>15, <1>16, <2>2 DEF Utterance
    <3>2. PICK m \in k .. j : energies[m] >= endRms /\ (m - k) * FrameMs < SilenceMs
      BY <3>1
    <3>3. m \in 1 .. l /\ m \in k .. (l + 1)
      BY <1>12, <1>15, <1>17
    <3>4. energies'[m] >= endRms'
      BY <1>4, <1>6, <3>2, <3>3
    <3>. QED BY <3>2, <3>3, <3>4
  <2>3. CASE k > j
    <3>1. (l + 1) - k \in Int /\ (l + 1) - k <= silenceFrames /\ l + 1 \in k .. (l + 1)
      BY <1>2, <1>15, <2>3
    <3>2. ((l + 1) - k) * FrameMs <= silenceFrames * FrameMs
      BY <1>1, <1>2, <3>1, TimesMono
    <3>3. PICK s \in Int, t \in Int : s = ((l + 1) - k) * FrameMs /\ t = silenceFrames * FrameMs
      BY <1>1, <1>2, <3>1
    <3>4. s < SilenceMs
      BY <1>1, <1>7, <3>2, <3>3
    <3>. QED BY <2>1, <3>1, <3>3, <3>4
  <2>. QED BY <1>15, <2>2, <2>3
<1>20. Utterance(i, l + 1)'
  <2>1. PICK e \in Nat : e = l + 1
    OBVIOUS
  <2>2. FirstJudged' <= i /\ i <= e /\ e <= Len(energies') /\ energies'[e] >= endRms'
    BY <1>3, <1>4, <1>6, <1>8, <1>15, <1>17, <2>1
  <2>3. \A k \in i .. e : \E m \in k .. e : energies'[m] >= endRms' /\ (m - k) * FrameMs < SilenceMs
    BY <1>19, <2>1
  <2>4. Utterance(i, e)'
    BY <1>18, <2>2, <2>3 DEF Utterance
  <2>. QED BY <2>1, <2>4
<1>21. Len(energies') - speechFrames' + 1 = i /\ Len(energies') - silenceFrames' = l + 1
  BY <1>2, <1>4, <1>6, <1>15
<1>22. Speaking'
  BY <1>2, <1>4, <1>20, <1>21 DEF Speaking
<1>23. SpeechGoesOn'
  BY <1>1, <1>4, <1>13, <1>22 DEF SpeechGoesOn
<1>24. SpeechIsOver'
  <2>1. vad' = "done" => speechFrames' * FrameMs >= MaxSpeechMs
    BY <1>4
  <2>2. PICK t \in Nat : t = speechFrames' * FrameMs
    BY <1>1, <1>2, <1>4
  <2>3. vad' = "done" => ~(t < MaxSpeechMs)
    BY <1>1, <2>1, <2>2
  <2>. QED BY <2>2, <2>3 DEF SpeechIsOver
<1>25. vad' # "wait" /\ StillQuiet'
  BY <1>4, <1>13 DEF StillQuiet
<1>26. Judging'
  BY <1>11, <1>14, <1>23, <1>24, <1>25 DEF Judging
<1>. QED BY <1>4, <1>26 DEF Detecting

(* A quiet frame of speech: the speech goes on, has ended, or was none.    *)
LEMMA FallsSilentDetects ==
  ASSUME RecTyped, Detecting, NEW rms \in Levels, JoinsHistory(rms), FallsSilent(rms)
  PROVE  Detecting'
<1>1. FrameMs \in Nat /\ FrameMs > 0 /\ SilenceMs \in Nat /\ SilenceMs > 0 /\ MaxSpeechMs \in Nat
      /\ MinSpeechMs \in Nat
  BY RecordConstants
<1>2. /\ energies \in Seq(Levels) /\ startRms \in Nat /\ endRms \in Nat
      /\ speechFrames \in Nat /\ silenceFrames \in Nat /\ silenceFrames <= speechFrames
  BY DEF RecTyped, DetTyped
<1>3. Judging /\ skip = 0 /\ calibrate = 0 /\ vad = "speech" /\ rms < endRms
  BY DEF FallsSilent, Detecting
<1>4. skip' = 0 /\ calibrate' = 0 /\ noise' = noise /\ startRms' = startRms /\ endRms' = endRms
  BY <1>3 DEF FallsSilent, thresholds
<1>5. PICK l \in Nat : l = Len(energies)
  BY <1>2, HeardIsLast
<1>6. Len(energies') = l + 1 /\ rms \in Nat /\ \A i \in 1 .. l : energies'[i] = energies[i]
  BY <1>2, <1>5, HeardIsLast
<1>7. sawSpeech /\ Speaking /\ SawTheLoud /\ QuietTail /\ endRms <= startRms
  BY <1>3 DEF Judging, SpeechGoesOn
<1>8. FirstJudged' = FirstJudged
  BY <1>3, <1>4, JudgesOn
<1>9. SawTheLoud /\ (sawSpeech' <=> sawSpeech \/ rms >= startRms) => SawTheLoud'
  BY <1>3, <1>4, JudgesOn
<1>10. QuietTail /\ silenceFrames' = 0 => QuietTail'
  BY <1>3, <1>4, JudgesOn
<1>11. QuietTail /\ silenceFrames' = silenceFrames + 1 => QuietTail'
  BY <1>3, <1>4, JudgesOn
<1>12. Len(energies') >= FirstJudged' - 1 /\ endRms' <= startRms'
  BY <1>3, <1>4, JudgesOn
<1>13. FirstJudged \in Nat /\ FirstJudged >= 1
  BY FirstJudgedTyped
<1>14. sawSpeech'
  BY <1>7 DEF JoinsHistory
<1>15. SawTheLoud' /\ StillQuiet'
  BY <1>7, <1>9, <1>14 DEF StillQuiet
<1>. DEFINE n == speechFrames + 1
            q == silenceFrames + 1
            over  == q * FrameMs >= SilenceMs
            short == (n - q) * FrameMs < MinSpeechMs
<1>16. CASE over /\ short
  <2>1. vad' = "wait" /\ speechFrames' = 0 /\ silenceFrames' = 0
    BY <1>16 DEF FallsSilent
  <2>2. QuietTail' /\ SpeechGoesOn' /\ SpeechIsOver'
    BY <1>7, <1>10, <2>1 DEF SpeechGoesOn, SpeechIsOver
  <2>3. Judging'
    BY <1>12, <1>15, <2>1, <2>2 DEF Judging
  <2>. QED BY <1>4, <2>3 DEF Detecting
<1>17. CASE ~(over /\ short)
  <2>1. vad' = (IF over \/ n * FrameMs >= MaxSpeechMs THEN "done" ELSE "speech")
        /\ speechFrames' = n /\ silenceFrames' = q
    BY <1>17 DEF FallsSilent
  <2>2. QuietTail'
    BY <1>7, <1>11, <2>1
  <2>3. PICK i \in Int, j \in Int : i = l - speechFrames + 1 /\ j = l - silenceFrames
    <3>1. l - speechFrames + 1 \in Int /\ l - silenceFrames \in Int
      BY <1>2
    <3>. QED BY <3>1, Zenon
  <2>4. Utterance(i, j)
    BY <1>5, <1>7, <2>3 DEF Speaking
  <2>5. FirstJudged <= i /\ i <= j /\ j <= l
    BY <1>5, <2>4 DEF Utterance
  <2>6. ASSUME NEW m \in i .. j PROVE energies'[m] = energies[m]
    BY <1>6, <1>13, <2>3, <2>5
  <2>7. energies'[i] >= startRms' /\ (energies'[j] >= endRms' \/ i = j)
    BY <1>4, <2>3, <2>4, <2>5, <2>6 DEF Utterance
  <2>8. ASSUME NEW k \in i .. j
        PROVE  \E m \in k .. j : energies'[m] >= endRms' /\ (m - k) * FrameMs < SilenceMs
    <3>1. PICK m \in k .. j : energies[m] >= endRms /\ (m - k) * FrameMs < SilenceMs
      BY <2>4 DEF Utterance
    <3>2. m \in i .. j
      BY <2>3
    <3>. QED BY <1>4, <2>6, <3>1, <3>2
  <2>9. Utterance(i, j)'
    BY <1>5, <1>6, <1>8, <2>3, <2>5, <2>7, <2>8 DEF Utterance
  <2>10. Len(energies') - speechFrames' + 1 = i /\ Len(energies') - silenceFrames' = j
    BY <1>2, <1>6, <2>1, <2>3
  <2>11. Speaking'
    BY <1>2, <2>1, <2>9, <2>10 DEF Speaking
  <2>12. PICK t \in Nat, u \in Nat, v \in Int :
           t = silenceFrames' * FrameMs /\ u = speechFrames' * FrameMs
           /\ v = (speechFrames' - silenceFrames') * FrameMs
    BY <1>1, <1>2, <2>1
  <2>13. (over <=> t >= SilenceMs) /\ (short <=> v < MinSpeechMs)
         /\ vad' = (IF over \/ u >= MaxSpeechMs THEN "done" ELSE "speech")
    BY <2>1, <2>12
  <2>. HIDE DEF over, short
  <2>14. vad' = "speech" => t < SilenceMs
    <3>1. vad' = "speech" => ~(t >= SilenceMs)
      BY <2>13
    <3>. QED BY <1>1, <2>12, <3>1
  <2>15. vad' = "done" /\ u < MaxSpeechMs => t >= SilenceMs /\ v >= MinSpeechMs
    <3>1. ASSUME u < MaxSpeechMs, vad' = "done" PROVE over
      <4>1. ~(u >= MaxSpeechMs)
        BY <1>1, <2>12, <3>1
      <4>. QED BY <2>13, <3>1, <4>1
    <3>2. over => t >= SilenceMs /\ ~(v < MinSpeechMs)
      BY <1>17, <2>13
    <3>3. ~(v < MinSpeechMs) => v >= MinSpeechMs
      BY <1>1
    <3>. QED BY <3>1, <3>2, <3>3
  <2>16. SpeechGoesOn'
    BY <1>14, <2>11, <2>12, <2>14 DEF SpeechGoesOn
  <2>17. SpeechIsOver'
    BY <2>11, <2>12, <2>15 DEF SpeechIsOver
  <2>18. vad' # "wait"
    BY <2>13
  <2>19. Judging'
    BY <1>12, <1>15, <2>2, <2>16, <2>17, <2>18 DEF Judging
  <2>. QED BY <1>4, <2>19 DEF Detecting
<1>. QED BY <1>16, <1>17

(* vad_process keeps what is known of the detector.                        *)
LEMMA ProcessDetects ==
  ASSUME Hysteresis, RecTyped, Detecting, NEW rms \in Levels, JoinsHistory(rms), Process(rms)
  PROVE  Detecting'
<1>1. CASE Skips
  BY <1>1, SkipsDetects
<1>2. CASE Measures(rms)
  BY <1>2, MeasuresDetects
<1>3. CASE Waits(rms)
  BY <1>3, WaitsDetects
<1>4. CASE SpeaksOn(rms)
  BY <1>4, SpeaksOnDetects
<1>5. CASE FallsSilent(rms)
  BY <1>5, FallsSilentDetects
<1>. QED BY <1>1, <1>2, <1>3, <1>4, <1>5 DEF Process

(* The start: a recording whose threshold is given judges its first frame. *)
LEMMA RecInitHolds == RecInit => RecInv
<1>. SUFFICES ASSUME RecInit PROVE RecInv
  OBVIOUS
<1>1. RecTyped
  BY RecInitTyped
<1>2. PICK f \in Fixed :
         /\ startRms = f /\ endRms = (f * 6) \div 10
         /\ skip = IF f > 0 THEN 0 ELSE SkipMs
         /\ calibrate = IF f > 0 THEN 0 ELSE CalibrateMs
  BY DEF RecInit
<1>3. f \in Nat /\ SkipMs \in Nat /\ SkipMs > 0 /\ CalibrateMs \in Nat /\ FrameMs \in Nat
      /\ LeadInMs \in Nat /\ LeadInMs > 0
  BY RecordConstants
<1>4. Len(energies) = 0
  BY EmptySeq DEF RecInit
<1>5. /\ rpc = "read" /\ vad = "wait" /\ noise = <<>> /\ ~sawSpeech /\ buffered = 0
      /\ speechFrames = 0 /\ silenceFrames = 0 /\ waitFrames = 0
  BY DEF RecInit
<1>6. Recorded
  BY <1>4, <1>5 DEF Recorded
<1>7. Detecting
  <2>1. CASE f > 0
    <3>1. skip = 0 /\ calibrate = 0 /\ endRms <= startRms
      BY <1>2, <1>3, <2>1
    <3>2. FirstJudged = 1 /\ FirstJudged .. Len(energies) = {}
      BY <1>4, <1>5 DEF FirstJudged
    <3>3. SawTheLoud /\ QuietTail /\ SpeechGoesOn /\ SpeechIsOver
      BY <1>5, <3>2 DEF SawTheLoud, QuietTail, SpeechGoesOn, SpeechIsOver
    <3>4. waitFrames * FrameMs < LeadInMs
      BY <1>3, <1>5
    <3>5. StillQuiet
      BY <1>4, <1>5, <3>2, <3>4 DEF StillQuiet
    <3>6. Judging
      BY <1>4, <1>5, <3>1, <3>2, <3>3, <3>5 DEF Judging
    <3>. QED BY <3>1, <3>6 DEF Detecting
  <2>2. CASE ~(f > 0)
    <3>1. skip = SkipMs /\ calibrate = CalibrateMs /\ skip > 0
      BY <1>2, <1>3, <2>2
    <3>2. Len(energies) * FrameMs = 0
      BY <1>3, <1>4
    <3>3. skip = SkipMs - Len(energies) * FrameMs
      BY <1>3, <3>1, <3>2
    <3>. QED BY <1>5, <3>1, <3>3 DEF Detecting
  <2>. QED BY <2>1, <2>2
<1>. QED BY <1>1, <1>6, <1>7 DEF RecInv

(* Each step keeps the invariant.                                          *)
LEMMA RecNextHolds == Hysteresis /\ RecInv /\ [RecNext]_recVars => RecInv'
<1>. SUFFICES ASSUME Hysteresis, RecInv, [RecNext]_recVars PROVE RecInv'
  OBVIOUS
<1>1. RecTyped /\ Recorded /\ Detecting
  BY DEF RecInv
<1>2. RecTyped'
  BY <1>1, RecNextTyped
<1>3. energies \in Seq(Levels) /\ buffered \in Nat /\ sawSpeech \in BOOLEAN /\ MaxFrames \in Nat
      /\ MaxFrames > 0
  BY <1>1, RecordConstants DEF RecTyped
<1>4. Len(energies) \in Nat
  BY <1>3, LenProperties
<1>5. sawSpeech => Len(energies) > 0
  <2>1. SUFFICES ASSUME sawSpeech PROVE Len(energies) > 0
    OBVIOUS
  <2>2. skip = 0 /\ calibrate = 0
    BY <1>1, <2>1 DEF Detecting, RecTyped, DetTyped
  <2>3. \E i \in FirstJudged .. Len(energies) : energies[i] >= startRms
    BY <1>1, <2>1, <2>2 DEF Detecting, Judging, SawTheLoud
  <2>4. FirstJudged \in Nat /\ FirstJudged >= 1
    BY FirstJudgedTyped
  <2>. QED BY <1>4, <2>3, <2>4
<1>6. ASSUME NEW rms \in Levels, Frame(rms) PROVE RecInv'
  <2>1. rpc = "read" /\ buffered = Len(energies)
    BY <1>1, <1>6 DEF Frame, Recorded
  <2>2. JoinsHistory(rms) /\ Process(rms)
    <3>1. sawSpeech' = (sawSpeech \/ vad' = "speech")
      BY <1>6 DEF Frame, Ends
    <3>. QED BY <1>6, <3>1 DEF JoinsHistory, Frame
  <2>3. Detecting'
    BY <1>1, <2>2, ProcessDetects
  <2>4. Len(energies') = Len(energies) + 1
    BY <1>3, <2>2, HeardIsLast
  <2>5. CASE vad' = "done" \/ buffered + 1 > MaxFrames
    <3>1. rpc' = "ended" /\ buffered' = buffered
          /\ returned' = IF sawSpeech' THEN Trimmed(buffered, silenceFrames') ELSE 0
      BY <1>6, <2>5 DEF Frame, Ends
    <3>2. sawSpeech' => buffered > 0
      <4>1. CASE sawSpeech
        BY <1>5, <2>1, <4>1
      <4>2. CASE ~sawSpeech /\ sawSpeech'
        <5>1. vad' = "speech"
          BY <2>2, <4>2 DEF JoinsHistory
        <5>2. buffered + 1 > MaxFrames
          BY <2>5, <5>1
        <5>. QED BY <1>3, <5>2
      <4>. QED BY <4>1, <4>2
    <3>3. buffered' = Len(energies') - 1
      BY <1>4, <2>1, <2>4, <3>1
    <3>4. Recorded'
      BY <3>1, <3>2, <3>3 DEF Recorded
    <3>. QED BY <1>2, <2>3, <3>4 DEF RecInv
  <2>6. CASE ~(vad' = "done" \/ buffered + 1 > MaxFrames)
    <3>1. rpc' = "read" /\ buffered' = buffered + 1 /\ vad' # "done"
      BY <1>6, <2>1, <2>6 DEF Frame
    <3>2. Recorded'
      BY <2>1, <2>4, <3>1 DEF Recorded
    <3>. QED BY <1>2, <2>3, <3>2 DEF RecInv
  <2>. QED BY <2>5, <2>6
<1>7. CASE Broken
  <2>1. rpc' = "ended" /\ buffered' = buffered /\ sawSpeech' = sawSpeech
        /\ returned' = IF sawSpeech THEN Trimmed(buffered, silenceFrames) ELSE 0
    BY <1>7 DEF Broken, Ends
  <2>2. /\ energies' = energies /\ vad' = vad /\ startRms' = startRms /\ endRms' = endRms
        /\ skip' = skip /\ calibrate' = calibrate /\ noise' = noise
        /\ speechFrames' = speechFrames /\ silenceFrames' = silenceFrames /\ waitFrames' = waitFrames
    BY <1>7 DEF Broken, thresholds, counters
  <2>3. buffered = Len(energies)
    BY <1>1, <1>7 DEF Broken, Recorded
  <2>4. Recorded'
    BY <1>5, <2>1, <2>2, <2>3 DEF Recorded
  <2>5. Detecting'
    BY <1>1, <2>1, <2>2 DEF Detecting, Judging, SawTheLoud, QuietTail, SpeechGoesOn, SpeechIsOver,
       StillQuiet, Speaking, Utterance, FirstJudged, Ceil
  <2>. QED BY <1>2, <2>4, <2>5 DEF RecInv
<1>8. CASE UNCHANGED recVars
  <2>1. /\ rpc' = rpc /\ buffered' = buffered /\ sawSpeech' = sawSpeech /\ returned' = returned
        /\ energies' = energies /\ vad' = vad /\ startRms' = startRms /\ endRms' = endRms
        /\ skip' = skip /\ calibrate' = calibrate /\ noise' = noise
        /\ speechFrames' = speechFrames /\ silenceFrames' = silenceFrames /\ waitFrames' = waitFrames
    BY <1>8 DEF recVars, thresholds, counters
  <2>2. Recorded'
    BY <1>1, <2>1 DEF Recorded
  <2>3. Detecting'
    BY <1>1, <2>1 DEF Detecting, Judging, SawTheLoud, QuietTail, SpeechGoesOn, SpeechIsOver,
       StillQuiet, Speaking, Utterance, FirstJudged, Ceil
  <2>. QED BY <1>2, <2>2, <2>3 DEF RecInv
<1>. QED BY <1>6, <1>7, <1>8 DEF RecNext

(* What the invariant says of a recording.                                 *)
LEMMA RecordedRightly == Hysteresis /\ RecInv => RecordingIsRight
<1>. SUFFICES ASSUME Hysteresis, RecInv PROVE RecordingIsRight
  OBVIOUS
<1>. DEFINE on == skip = 0 /\ calibrate = 0
<1>1. RecTyped /\ Recorded /\ Detecting /\ DetTyped
  BY DEF RecInv, RecTyped
<1>2. /\ energies \in Seq(Levels) /\ sawSpeech \in BOOLEAN /\ buffered \in Nat /\ returned \in Nat
      /\ startRms \in Nat /\ endRms \in Nat /\ skip \in Nat /\ calibrate \in Nat
      /\ speechFrames \in Nat /\ silenceFrames \in Nat /\ silenceFrames <= speechFrames
      /\ waitFrames \in Nat
  BY <1>1 DEF RecTyped, DetTyped
<1>3. FrameMs \in Nat /\ FrameMs > 0 /\ LeadInMs \in Nat /\ FrameMs <= SilenceMs
  BY RecordConstants DEF Hysteresis
<1>4. PICK l \in Nat : l = Len(energies) /\ DOMAIN energies = 1 .. l
  BY <1>2, LenProperties
<1>5. FirstJudged \in Nat /\ FirstJudged >= 1
  BY FirstJudgedTyped
<1>6. \A i \in 1 .. l : energies[i] \in Nat
  <2>1. Levels \subseteq Nat
    BY RecordConstants
  <2>. QED BY <1>2, <1>4, <2>1, ElementOfSeq
<1>7. ~on => Judged = {} /\ Loud = {} /\ vad = "wait" /\ ~sawSpeech
  <2>1. ~on => Judged = {}
    BY DEF Judged
  <2>2. ~on => Loud = {}
    BY <2>1 DEF Loud
  <2>3. ~on => vad = "wait" /\ ~sawSpeech
    BY <1>1, <1>2 DEF Detecting
  <2>. QED BY <2>1, <2>2, <2>3
<1>8. on => Judged = FirstJudged .. l
  <2>1. SUFFICES ASSUME on PROVE Judged = FirstJudged .. l
    OBVIOUS
  <2>2. Judged = {i \in DOMAIN energies : i >= FirstJudged}
    BY <2>1 DEF Judged, FirstJudged, Ceil
  <2>. QED BY <1>4, <1>5, <2>2
<1>9. on => Judging
  BY <1>1 DEF Detecting
<1>10. sawSpeech <=> Loud # {}
  <2>1. CASE ~on
    BY <1>7, <2>1
  <2>2. CASE on
    <3>1. sawSpeech <=> \E i \in FirstJudged .. l : energies[i] >= startRms
      BY <1>4, <1>9, <2>2 DEF Judging, SawTheLoud
    <3>2. Loud = {i \in FirstJudged .. l : energies[i] >= startRms}
      BY <1>8, <2>2 DEF Loud
    <3>. QED BY <1>2, <3>1, <3>2
  <2>. QED BY <2>1, <2>2
<1>11. SilenceEndsSpeech
  <2>1. SUFFICES ASSUME rpc = "ended", vad = "done", speechFrames > 0,
                        speechFrames * FrameMs < MaxSpeechMs
        PROVE  \E i \in Loud, j \in Judged :
                 /\ i <= j /\ (j - i + 1) * FrameMs >= MinSpeechMs
                 /\ energies[j] >= endRms \/ i = j
                 /\ \A k \in (j + 1) .. Len(energies) : energies[k] < endRms
                 /\ (Len(energies) - j) * FrameMs >= SilenceMs
                 /\ \A k \in i .. j : \E m \in k .. j :
                      energies[m] >= endRms /\ (m - k) * FrameMs < SilenceMs
    BY DEF SilenceEndsSpeech
  <2>2. on
    BY <1>7, <2>1
  <2>3. /\ Speaking /\ silenceFrames * FrameMs >= SilenceMs /\ QuietTail
        /\ (speechFrames - silenceFrames) * FrameMs >= MinSpeechMs
    BY <1>9, <2>1, <2>2 DEF Judging, SpeechIsOver
  <2>4. PICK i \in Int, j \in Int : i = l - speechFrames + 1 /\ j = l - silenceFrames
    <3>1. l - speechFrames + 1 \in Int /\ l - silenceFrames \in Int
      BY <1>2
    <3>. QED BY <3>1, Zenon
  <2>5. Utterance(i, j)
    BY <1>4, <2>3, <2>4 DEF Speaking
  <2>6. FirstJudged <= i /\ i <= j /\ j <= l /\ energies[i] >= startRms
        /\ (energies[j] >= endRms \/ i = j)
        /\ \A k \in i .. j : \E m \in k .. j : energies[m] >= endRms /\ (m - k) * FrameMs < SilenceMs
    BY <1>4, <2>5 DEF Utterance
  <2>7. i \in Judged /\ j \in Judged
    BY <1>5, <1>8, <2>2, <2>4, <2>6
  <2>8. i \in Loud
    BY <2>6, <2>7 DEF Loud
  <2>9. j - i + 1 = speechFrames - silenceFrames /\ l - j = silenceFrames
    BY <1>2, <2>4
  <2>10. (j - i + 1) * FrameMs >= MinSpeechMs /\ (Len(energies) - j) * FrameMs >= SilenceMs
    BY <1>4, <2>3, <2>9
  <2>11. \A k \in (j + 1) .. Len(energies) : energies[k] < endRms
    <3>1. ASSUME NEW k \in (j + 1) .. l PROVE energies[k] < endRms
      <4>1. k \in FirstJudged .. l /\ k > l - silenceFrames
        BY <1>2, <1>5, <2>4, <2>6
      <4>. QED BY <1>4, <2>3, <4>1 DEF QuietTail
    <3>. QED BY <1>4, <3>1
  <2>. QED BY <2>6, <2>7, <2>8, <2>10, <2>11
<1>12. NoWordIsCut
  <2>1. SUFFICES ASSUME rpc = "ended", Loud # {}, NEW i \in Judged, energies[i] >= endRms
        PROVE  i <= returned \/ i = Len(energies)
    BY DEF NoWordIsCut
  <2>2. on
    BY <1>7
  <2>3. i \in FirstJudged .. l /\ QuietTail
    BY <1>8, <1>9, <2>2 DEF Judging
  <2>4. i <= l - silenceFrames
    <3>1. ~(energies[i] < endRms)
      <4>1. energies[i] \in Nat
        BY <1>5, <1>6, <2>3
      <4>. QED BY <1>2, <2>1, <4>1
    <3>2. ~(i > l - silenceFrames)
      BY <1>4, <2>3, <3>1 DEF QuietTail
    <3>. QED BY <1>2, <1>5, <2>3, <3>2
  <2>5. returned = Trimmed(buffered, silenceFrames) /\ buffered \in {l, l - 1}
    BY <1>1, <1>4, <1>10, <2>1 DEF Recorded
  <2>6. returned = buffered \/ returned >= buffered - silenceFrames + 1
    BY <1>2, <1>3, <2>5, TrimmedIsPart
  <2>. QED BY <1>2, <1>4, <1>5, <2>3, <2>4, <2>5, <2>6
<1>13. SpeechIsReturned
  <2>1. SUFFICES ASSUME rpc = "ended" PROVE returned > 0 <=> sawSpeech
    BY <1>10 DEF SpeechIsReturned
  <2>2. sawSpeech => buffered > 0 /\ returned = Trimmed(buffered, silenceFrames)
    BY <1>1, <2>1 DEF Recorded
  <2>3. buffered > 0 => Trimmed(buffered, silenceFrames) > 0
    BY <1>2, TrimmedIsPart
  <2>4. sawSpeech => returned > 0
    BY <2>2, <2>3
  <2>5. ~sawSpeech => returned = 0
    BY <1>1, <2>1 DEF Recorded
  <2>. QED BY <2>4, <2>5
<1>14. WaitsLeadIn
  <2>1. SUFFICES ASSUME rpc = "ended", vad = "done", Loud = {}
        PROVE  Cardinality(Judged) * FrameMs >= LeadInMs /\ (Cardinality(Judged) - 1) * FrameMs < LeadInMs
    BY DEF WaitsLeadIn
  <2>2. on /\ ~sawSpeech
    BY <1>7, <1>10, <2>1
  <2>3. /\ waitFrames = l - FirstJudged + 1
        /\ waitFrames * FrameMs >= LeadInMs /\ (waitFrames - 1) * FrameMs < LeadInMs
    BY <1>4, <1>9, <2>1, <2>2 DEF Judging, StillQuiet
  <2>4. Cardinality(FirstJudged .. l) = waitFrames
    <3>1. Cardinality(FirstJudged .. l) = IF FirstJudged > l THEN 0 ELSE l - FirstJudged + 1
      BY <1>5, FS_Interval
    <3>. QED BY <1>2, <1>4, <1>5, <2>3, <3>1
  <2>. QED BY <1>8, <2>2, <2>3, <2>4
<1>. QED BY <1>11, <1>12, <1>13, <1>14 DEF RecordingIsRight

(* For all frames that are heard, thresholds whose hysteresis does not     *)
(* invert, and a silence of at least a frame: a recording ends behind the  *)
(* speech, holds all of it, is returned if it has a stretch that is long   *)
(* enough, and is given up in time if nothing was said.                    *)
THEOREM RecordedRight == Hysteresis => (RecSpec => []RecordingIsRight)
<1>. SUFFICES ASSUME Hysteresis PROVE RecSpec => []RecordingIsRight
  OBVIOUS
<1>1. RecInv => RecordingIsRight
  BY RecordedRightly
<1>2. RecInv /\ [RecNext]_recVars => RecInv'
  BY RecNextHolds
<1>. QED BY <1>1, <1>2, RecInitHolds, PTL DEF RecSpec


-----------------------------------------------------------------------------
(***************************************************************************)
(* The components next to each other: a behaviour of all of them is a      *)
(* behaviour of each, because a step of one leaves the others alone.       *)
(***************************************************************************)
LEMMA EachBegins ==
  ComponentsInit => Init /\ DnsInit /\ VisitInit /\ ThumbInit /\ AdminInit /\ WolInit /\ RecInit
BY DEF ComponentsInit

LEMMA EachGoesOn ==
  [ComponentsNext]_componentVars =>
    /\ [Next]_vars /\ [DnsNext]_dnsVars /\ [VisitNext]_visitVars /\ [ThumbNext]_thumbVars
    /\ [AdminNext]_adminVars /\ [WolNext]_wolVars /\ [RecNext]_recVars
<1>. SUFFICES ASSUME [ComponentsNext]_componentVars
              PROVE  /\ Next \/ UNCHANGED vars
                     /\ DnsNext \/ UNCHANGED dnsVars
                     /\ VisitNext \/ UNCHANGED visitVars
                     /\ ThumbNext \/ UNCHANGED thumbVars
                     /\ AdminNext \/ UNCHANGED adminVars
                     /\ WolNext \/ UNCHANGED wolVars
                     /\ RecNext \/ UNCHANGED recVars
  OBVIOUS
<1>1. CASE UNCHANGED componentVars
  BY <1>1 DEF componentVars
<1>2. CASE ComponentsNext
  BY <1>2 DEF ComponentsNext
<1>. QED BY <1>1, <1>2

(* All the components have their types and respect their limits, for all   *)
(* values of all their constants.                                          *)
THEOREM ComponentsTyped == ComponentsSpec => []ComponentTypes
<1>1. ComponentsSpec => Spec /\ DnsSpec /\ VisitSpec /\ ThumbSpec /\ AdminSpec /\ WolSpec /\ RecSpec
  BY EachBegins, EachGoesOn, PTL
     DEF ComponentsSpec, Spec, DnsSpec, VisitSpec, ThumbSpec, AdminSpec, WolSpec, RecSpec
<1>2. AdminSpec => []AdminTypeOK
  <2>1. AdminInv => AdminTypeOK
    BY DEF AdminInv, AdminTyped
  <2>. QED BY <2>1, AdminStarts, AdminKeeps, PTL DEF AdminSpec
<1>3. WolSpec => []WolTypeOK
  <2>1. WolInv => WolTypeOK
    BY DEF WolInv, WolTyped
  <2>. QED BY <2>1, WolStarts, WolKeeps, PTL DEF WolSpec
<1>4. TypeOK /\ DnsTypeOK /\ VisitTypeOK /\ ThumbTypeOK /\ AdminTypeOK /\ WolTypeOK /\ RecTypeOK
        => ComponentTypes
  BY DEF ComponentTypes
<1>. QED BY <1>1, <1>2, <1>3, <1>4, TableTypes, DnsTyped, VisitsTyped, ThumbsTyped, RecorderTyped, PTL
=============================================================================
