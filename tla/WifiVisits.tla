----------------------------- MODULE WifiVisits -----------------------------
(***************************************************************************)
(* The visits of the WiFi probe: the capture thread observes devices       *)
(* (wp_dev_observe, device.c), the main thread ends the visits of devices  *)
(* that were not heard for session_gap seconds and stores them (device.c,  *)
(* main.c, db.c).  No lock protects the table the two share, so a step     *)
(* here is a read or a write of last_seen or of in_visit.                  *)
(***************************************************************************)
EXTENDS Integers, FiniteSets, Sequences

CONSTANTS
  Device,
  SessionGap,  \* session_gap
  Interval,    \* commit_interval
  EventMax,    \* visits that end in one round (64)
  Retention,   \* retention_days, in units of the clock
  PruneEvery,  \* time between two prunes
  MaxHeard,    \* bound: frames
  LastTime     \* bound: the clock

ASSUME VisitConstants ==
  /\ SessionGap \in Nat /\ Interval \in Nat /\ EventMax \in Nat \ {0}
  /\ Retention \in Nat /\ PruneEvery \in Nat \ {0} /\ LastTime \in Nat /\ MaxHeard \in Nat

VisitTime == 0 .. LastTime

VARIABLES
  wpNow,      \* time(NULL); it starts at a time later than any interval
  inVisit,    \* in_visit of each device
  visitStart, \* visit_start
  lastSeen,   \* last_seen
  isAp,       \* is_ap
  heardSoFar, \* the number of frames so far
  hearing,    \* the frame the capture thread works on
  main,       \* where the main thread is
  tick,       \* the time of its round
  scan,       \* the devices its scan has not looked at yet
  taking,     \* the device whose visit it is about to end
  events,     \* evs: the visits it collected
  lastCommit, lastPrune,
  devRows,    \* table devices: the visit_count of each device that has a row
  visitRows,  \* table visits
  running,    \* g_running
  seen,       \* history: observations that are complete
  ended,      \* history: the visits that were ended
  torn,       \* history: observations that met the end of their visit
  failed      \* history: a store failed

devices == <<inVisit, visitStart, lastSeen, isAp>>
rounds  == <<tick, scan, taking, events, lastCommit, lastPrune>>
wpDb    == <<devRows, visitRows>>
visitHistory == <<seen, ended, torn, failed>>
visitVars == <<wpNow, devices, hearing, heardSoFar, main, rounds, wpDb, running, visitHistory>>

Never == -1

VisitInit ==
  /\ wpNow = 0 /\ running = TRUE
  /\ inVisit = [d \in Device |-> FALSE] /\ isAp = [d \in Device |-> FALSE]
  /\ visitStart = [d \in Device |-> Never] /\ lastSeen = [d \in Device |-> Never]
  /\ heardSoFar = 0 /\ hearing = <<>>
  /\ main = "sleep" /\ tick = Never /\ scan = {} /\ taking = {}
  /\ events = <<>> /\ lastCommit = Never /\ lastPrune = Never
  /\ devRows = [d \in {} |-> 0] /\ visitRows = {}
  /\ seen = {} /\ ended = {} /\ torn = {} /\ failed = FALSE

Visit(d, s, e) == [dev |-> d, start |-> s, end |-> e]

-----------------------------------------------------------------------------
(* A frame arrives: the device is looked up or entered with its first      *)
(* visit, and what the frame says of it is noted.                          *)
Hears(d, ap) ==
  /\ hearing = <<>> /\ running /\ heardSoFar < MaxHeard
  /\ heardSoFar' = heardSoFar + 1
  /\ hearing' = <<[dev |-> d, at |-> wpNow, step |-> "seen"]>>
  /\ isAp' = [isAp EXCEPT ![d] = @ \/ ap]
  /\ IF lastSeen[d] = Never
     THEN /\ inVisit' = [inVisit EXCEPT ![d] = TRUE]
          /\ visitStart' = [visitStart EXCEPT ![d] = wpNow]
          /\ lastSeen' = [lastSeen EXCEPT ![d] = wpNow]
     ELSE UNCHANGED <<inVisit, visitStart, lastSeen>>
  /\ UNCHANGED <<wpNow, main, rounds, wpDb, running, visitHistory>>

NotesTime ==
  /\ hearing # <<>> /\ hearing[1].step = "seen"
  /\ lastSeen' = [lastSeen EXCEPT ![hearing[1].dev] = hearing[1].at]
  /\ hearing' = <<[hearing[1] EXCEPT !.step = "visit"]>>
  /\ UNCHANGED <<wpNow, inVisit, visitStart, isAp, heardSoFar, main, rounds, wpDb,
                 running, visitHistory>>

(* The end of wp_dev_observe: a device that is in no visit starts one.     *)
NotesVisit ==
  /\ hearing # <<>> /\ hearing[1].step = "visit"
  /\ LET d == hearing[1].dev
         o == [dev |-> d, at |-> hearing[1].at]
     IN /\ inVisit' = [inVisit EXCEPT ![d] = TRUE]
        /\ visitStart' = IF inVisit[d] THEN visitStart ELSE [visitStart EXCEPT ![d] = o.at]
        /\ seen' = seen \cup {o}
        /\ torn' = IF inVisit[d] /\ taking = {d} THEN torn \cup {o} ELSE torn
  /\ hearing' = <<>>
  /\ UNCHANGED <<wpNow, lastSeen, isAp, heardSoFar, main, rounds, wpDb, running, ended,
                 failed>>

-----------------------------------------------------------------------------
(* The main loop wakes up: it commits, if commit_interval has passed.      *)
Wakes ==
  /\ main = "sleep" /\ running
  /\ tick' = wpNow
  /\ IF lastCommit = Never \/ wpNow - lastCommit >= Interval
     THEN main' = "scan" /\ scan' = Device /\ events' = <<>>
     ELSE main' = "prune" /\ UNCHANGED <<scan, events>>
  /\ UNCHANGED <<wpNow, devices, hearing, heardSoFar, taking, lastCommit, lastPrune,
                 wpDb, running, visitHistory>>

(* A visit is over: the device was not heard for longer than the gap.      *)
IsOver(d) ==
  /\ inVisit[d] /\ ~isAp[d]
  /\ tick - lastSeen[d] > SessionGap /\ Len(events) < EventMax

(* wp_dev_collect_ended_visits reads the entry of a device, ...            *)
Looks(d) ==
  /\ main = "scan" /\ d \in scan /\ taking = {}
  /\ scan' = scan \ {d}
  /\ taking' = IF IsOver(d) THEN {d} ELSE {}
  /\ UNCHANGED <<wpNow, devices, hearing, heardSoFar, main, tick, events, lastCommit, lastPrune,
                 wpDb, running, visitHistory>>

(* Mutant: the visit that ended stays in the table.                          *)
TakesNot(d) ==
  /\ taking = {d}
  /\ events' = Append(events, Visit(d, visitStart[d], tick))
  /\ ended' = ended \cup {Visit(d, visitStart[d], tick)}
  /\ taking' = {} /\ inVisit' = inVisit
  /\ torn' = torn
  /\ UNCHANGED <<wpNow, visitStart, lastSeen, isAp, hearing, heardSoFar, main, tick, scan,
                 lastCommit, lastPrune, wpDb, running, seen, failed>>

(* ... copies it and takes the device out of its visit: also if it was     *)
(* heard in between.                                                       *)
Takes(d) ==
  /\ taking = {d}
  /\ events' = Append(events, Visit(d, visitStart[d], tick))
  /\ ended' = ended \cup {Visit(d, visitStart[d], tick)}
  /\ inVisit' = [inVisit EXCEPT ![d] = FALSE] /\ taking' = {}
  /\ torn' = IF hearing # <<>> /\ hearing[1].dev = d
             THEN torn \cup {[dev |-> d, at |-> hearing[1].at]} ELSE torn
  /\ UNCHANGED <<wpNow, visitStart, lastSeen, isAp, hearing, heardSoFar, main, tick, scan,
                 lastCommit, lastPrune, wpDb, running, seen, failed>>

Collected ==
  /\ main = "scan" /\ scan = {} /\ taking = {}
  /\ main' = IF events = <<>> THEN "prune" ELSE "device"
  /\ lastCommit' = tick
  /\ UNCHANGED <<wpNow, devices, hearing, heardSoFar, tick, scan, taking, events, lastPrune, wpDb,
                 running, visitHistory>>

(* wp_db_store_device: a row of its own, or a newer last_seen.  Its result *)
(* is ignored.                                                             *)
StoresDevice ==
  /\ main = "device" /\ main' = "visit"
  /\ LET d == Head(events).dev IN
       \/ /\ devRows' = IF d \in DOMAIN devRows THEN devRows
                        ELSE [x \in DOMAIN devRows \cup {d} |->
                                IF x = d THEN 0 ELSE devRows[x]]
          /\ UNCHANGED failed
       \/ failed' = TRUE /\ UNCHANGED devRows
  /\ UNCHANGED <<wpNow, devices, hearing, heardSoFar, rounds, visitRows, running, seen,
                 ended, torn>>

(* wp_db_store_visit: a row, and one more visit of the device; either      *)
(* statement may fail.                                                     *)
StoresVisit ==
  /\ main = "visit"
  /\ events' = Tail(events)
  /\ main' = IF Tail(events) = <<>> THEN "prune" ELSE "device"
  /\ \/ /\ visitRows' = visitRows \cup {Head(events)}
        /\ devRows' = [x \in DOMAIN devRows |->
                         IF x = Head(events).dev THEN devRows[x] + 1 ELSE devRows[x]]
        /\ UNCHANGED failed
     \/ failed' = TRUE /\ visitRows' \in {visitRows, visitRows \cup {Head(events)}}
        /\ UNCHANGED devRows
  /\ UNCHANGED <<wpNow, devices, hearing, heardSoFar, tick, scan, taking, lastCommit, lastPrune,
                 running, seen, ended, torn>>

KeptVisits == {v \in visitRows : v.start >= wpNow - Retention}

(* wp_db_prune keeps the devices of the visits it keeps.                   *)
PrunedDevices == {d \in DOMAIN devRows : \E v \in KeptVisits : v.dev = d}

Prunes ==
  /\ main = "prune"
  /\ IF lastPrune = Never \/ tick - lastPrune >= PruneEvery
     THEN /\ visitRows' = KeptVisits /\ lastPrune' = tick
          /\ devRows' = [d \in PrunedDevices |-> devRows[d]]
     ELSE UNCHANGED <<wpDb, lastPrune>>
  /\ main' = "sleep" /\ scan' = {} /\ tick' = Never
  /\ UNCHANGED <<wpNow, devices, hearing, heardSoFar, taking, events, lastCommit,
                 running, visitHistory>>

(* SIGTERM: the loops end, and visits that are not over are not stored.    *)
(* The flag is read only between two rounds, and between two frames.       *)
VisitsStop ==
  /\ running /\ running' = FALSE /\ main = "sleep" /\ hearing = <<>>
  /\ UNCHANGED <<wpNow, devices, hearing, heardSoFar, main, rounds, wpDb, visitHistory>>

ClockAdvances ==
  /\ running /\ wpNow < LastTime /\ wpNow' = wpNow + 1
  /\ UNCHANGED <<devices, hearing, heardSoFar, main, rounds, wpDb, running, visitHistory>>

VisitNext ==
  \/ \E d \in Device, ap \in BOOLEAN : Hears(d, ap)
  \/ NotesTime \/ NotesVisit
  \/ Wakes \/ \E d \in Device : Looks(d) \/ Takes(d)
  \/ Collected \/ StoresDevice \/ StoresVisit \/ Prunes
  \/ VisitsStop \/ ClockAdvances

VisitSpec == VisitInit /\ [][VisitNext]_visitVars

-----------------------------------------------------------------------------
(* Type invariant.                                                         *)
VisitTypeOK ==
  /\ wpNow \in VisitTime /\ inVisit \in [Device -> BOOLEAN] /\ isAp \in [Device -> BOOLEAN]
  /\ visitStart \in [Device -> VisitTime \cup {Never}]
  /\ lastSeen \in [Device -> VisitTime \cup {Never}]
  /\ main \in {"sleep", "scan", "device", "visit", "prune"} /\ scan \subseteq Device
  /\ Cardinality(taking) <= 1 /\ Len(events) <= EventMax
  /\ DOMAIN devRows \subseteq Device
  /\ \A v \in visitRows : v.dev \in Device /\ v.start <= v.end

(* Every frame of a device lies in a visit of it, in progress or ended,    *)
(* unless the main thread ended the visit between the frame's steps.       *)
FramesLieInVisits ==
  \A o \in seen \ torn :
    \/ inVisit[o.dev] /\ visitStart[o.dev] <= o.at
    \/ \E v \in ended : v.dev = o.dev /\ v.start <= o.at /\ o.at <= v.end

(* A visit ends only when its device was not heard for longer than the     *)
(* gap: no frame lies in the last `gap` seconds of it, apart from those    *)
(* that came while it was being ended.                                     *)
VisitsEndInSilence ==
  \A v \in ended : \A o \in seen \ torn :
    o.dev = v.dev /\ o.at < v.end => v.end - o.at > SessionGap

(* A device's visits do not overlap, but for a frame that came while one   *)
(* was being ended.                                                        *)
VisitsAreApart ==
  \A v, w \in ended :
    v.dev = w.dev /\ v # w =>
      v.end <= w.start \/ w.end <= v.start
        \/ \E o \in torn : o.dev = v.dev /\ o.at \in {v.start, w.start}

(* The tables agree if no store failed: a visit's device has a row, which  *)
(* counts it.                                                              *)
VisitsAreCounted ==
  ~failed /\ main \notin {"device", "visit"} =>
    \A d \in Device :
      LET n == Cardinality({v \in visitRows : v.dev = d})
      IN n > 0 => d \in DOMAIN devRows /\ devRows[d] >= n

(* The visits stored are those of the frames heard: every frame lies in    *)
(* one, none goes on through silence, those of a device are apart, and the *)
(* counts agree with the rows.                                             *)
VisitsFitTheFrames ==
  /\ FramesLieInVisits
  /\ VisitsEndInSilence
  /\ VisitsAreApart
  /\ VisitsAreCounted
=============================================================================
