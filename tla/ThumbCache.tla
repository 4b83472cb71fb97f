----------------------------- MODULE ThumbCache -----------------------------
(***************************************************************************)
(* The thumbnail cache on the phone: files in a directory and a manifest   *)
(* that says how large each is and when it was used.  Its functions run to *)
(* the end without another one in between, but the app may be killed       *)
(* between two calls of the file system, and within one.                   *)
(***************************************************************************)
EXTENDS Integers, FiniteSets, Sequences, SequencesExt

CONSTANTS
  Thumb,       \* the cached paths
  Bytes,     \* the size of each one's thumbnail
  MaxBytes, MaxFiles,   \* maxBytes, maxFiles
  MaxCalls,  \* bound: calls of get and put
  NoFileHere

(* The list of a manifest, and what a function knows while it runs.        *)
ThumbEntry == [key : Thumb, time : Nat]
ThumbCall ==
  [at : {"copy", "save", "clean"}, key : Thumb, time : Nat, m : Seq(ThumbEntry),
   evicted : BOOLEAN]
  \cup [at : {"discard"}, key : Thumb, m : Seq(ThumbEntry)]

ASSUME ThumbConstants ==
  /\ Bytes \in [Thumb -> Nat \ {0}] /\ MaxBytes \in Nat /\ MaxFiles \in Nat \ {0}
  /\ MaxCalls \in Nat /\ NoFileHere \notin Thumb \cup {"whole", "torn"} \cup ThumbCall

VARIABLES
  files,     \* the directory: of each key "whole", "torn" or no file
  manifest,  \* manifest.json: a list of [key, time] in the order of its keys
  call,      \* the function that runs, NoFileHere between calls
  given,     \* the key whose path get or put gave last
  phone,     \* Date.now() of the last call
  calls,     \* bound: the calls
  faults     \* history: what went wrong so far

thumbVars == <<files, manifest, call, given, phone, calls, faults>>

KeysOf(m)      == {m[i].key : i \in DOMAIN m}
Less(m, k)     ==     \* there is one entry of a key
  IF k \in KeysOf(m) THEN RemoveAt(m, CHOOSE i \in DOMAIN m : m[i].key = k) ELSE m
Noted(m, k, t)   ==     \* a key that is there keeps its place
  IF k \in KeysOf(m)
  THEN [i \in DOMAIN m |-> IF m[i].key = k THEN [key |-> k, time |-> t] ELSE m[i]]
  ELSE Append(m, [key |-> k, time |-> t])
Total(m) ==
  LET upto[n \in 0 .. Len(m)] == IF n = 0 THEN 0 ELSE upto[n - 1] + Bytes[m[n].key]
  IN upto[Len(m)]

(* The first entry of the sorted list: the oldest, of several the one that *)
(* comes first in the manifest.                                            *)
Victim(m) ==
  CHOOSE i \in DOMAIN m : \A j \in DOMAIN m :
    m[i].time < m[j].time \/ (m[i].time = m[j].time /\ i <= j)

(* selectEvictions stops when the rest fits; it never empties the cache.   *)
FitsIn(m) == (Len(m) <= MaxFiles /\ Total(m) <= MaxBytes) \/ Len(m) <= 1

-----------------------------------------------------------------------------
(* Date.now(): it goes on between two calls, or stands still, or is set.   *)
CalledAt(t) ==
  /\ phone' = t /\ calls < MaxCalls /\ calls' = calls + 1
  /\ faults' = IF t > phone THEN faults ELSE faults \cup {"clock"}

(* get: the entry and the file must be there; the use is noted.            *)
Gets(k, t) ==
  /\ call = NoFileHere /\ CalledAt(t)
  /\ IF k \in KeysOf(manifest) /\ files[k] # NoFileHere
     THEN manifest' = Noted(manifest, k, t) /\ given' = k
     ELSE given' = NoFileHere /\ UNCHANGED manifest
  /\ UNCHANGED <<files, call>>

(* put, after a download: get had found nothing when that began.           *)
Puts(k, t) ==
  /\ call = NoFileHere /\ CalledAt(t)
  /\ call' = [at |-> "copy", key |-> k, time |-> t, m |-> manifest, evicted |-> FALSE]
  /\ given' = NoFileHere
  /\ UNCHANGED <<files, manifest>>

CallAt(where) == call # NoFileHere /\ call.at = where

(* Mutant: the manifest is written before the file.                        *)
CopiesFileLast ==
  \/ /\ CallAt("copy")
     /\ call' = [call EXCEPT !.at = "copy2", !.m = Noted(@, call.key, call.time)]
     /\ manifest' = Noted(call.m, call.key, call.time)
     /\ UNCHANGED <<files, given, phone, calls, faults>>
  \/ /\ CallAt("copy2")
     /\ files' = [files EXCEPT ![call.key] = "whole"]
     /\ call' = [call EXCEPT !.at = "clean"]
     /\ UNCHANGED <<manifest, given, phone, calls, faults>>

CopiesFile ==
  /\ CallAt("copy")
  /\ files' = [files EXCEPT ![call.key] = "whole"]
  /\ call' = [call EXCEPT !.at = "save"]
  /\ UNCHANGED <<manifest, given, phone, calls, faults>>

Saves ==
  /\ CallAt("save")
  /\ manifest' = Noted(call.m, call.key, call.time)
  /\ call' = [call EXCEPT !.at = "clean", !.m = Noted(@, call.key, call.time)]
  /\ UNCHANGED <<files, given, phone, calls, faults>>

Unlinked(k) == [files EXCEPT ![k] = NoFileHere]

(* cleanup: one unlink, whose failure is ignored, for every entry given up. *)
Cleans ==
  /\ CallAt("clean") /\ ~FitsIn(call.m)
  /\ LET k == call.m[Victim(call.m)].key IN
     /\ \/ files' = Unlinked(k) /\ UNCHANGED faults
        \/ files[k] # NoFileHere /\ UNCHANGED files /\ faults' = faults \cup {"unlink"}
     /\ call' = [call EXCEPT !.m = Less(@, k), !.evicted = TRUE]
  /\ UNCHANGED <<manifest, given, phone, calls>>

PutReturns ==
  /\ CallAt("clean") /\ FitsIn(call.m)
  /\ manifest' = IF call.evicted THEN call.m ELSE manifest
  /\ given' = call.key /\ call' = NoFileHere
  /\ UNCHANGED <<files, phone, calls, faults>>

(* remove: the file, then the manifest; if unlink throws nothing is saved. *)
Discards(k) ==
  /\ call = NoFileHere
  /\ call' = [at |-> "discard", key |-> k, m |-> Less(manifest, k)]
  /\ files' = Unlinked(k)
  /\ given' = NoFileHere
  /\ UNCHANGED <<manifest, phone, calls, faults>>

Discarded ==
  /\ CallAt("discard")
  /\ manifest' = call.m /\ call' = NoFileHere
  /\ UNCHANGED <<files, given, phone, calls, faults>>

(* The app is killed, perhaps within a call: then a copy is torn, and a    *)
(* manifest that was being written is read as no manifest.                 *)
AppIsKilled ==
  /\ call # NoFileHere
  /\ \/ UNCHANGED <<files, manifest>> /\ faults' = faults \cup {"kill"}
     \/ /\ call.at = "copy"
        /\ faults' = faults \cup {"kill"} \cup
                     (IF call.key \in KeysOf(manifest) THEN {"overwrite"} ELSE {})
        /\ files' = [files EXCEPT ![call.key] = "torn"]
        /\ UNCHANGED manifest
     \/ /\ call.at # "copy"
        /\ manifest' = <<>> /\ faults' = faults \cup {"kill"}
        /\ UNCHANGED files
  /\ call' = NoFileHere /\ given' = NoFileHere
  /\ UNCHANGED <<phone, calls>>

ThumbInit ==
  /\ files = [k \in Thumb |-> NoFileHere] /\ manifest = <<>>
  /\ call = NoFileHere /\ given = NoFileHere
  /\ phone = 0 /\ calls = 0 /\ faults = {}

ThumbNext ==
  \/ \E k \in Thumb, t \in 1 .. MaxCalls : Gets(k, t) \/ Puts(k, t)
  \/ CopiesFile \/ Saves \/ Cleans \/ PutReturns
  \/ (\E k \in Thumb : Discards(k)) \/ Discarded
  \/ AppIsKilled

ThumbSpec == ThumbInit /\ [][ThumbNext]_thumbVars

-----------------------------------------------------------------------------
(* The types; the cache respects its limits whenever no function runs,     *)
(* unless the app was killed before it had cleaned up.                     *)
ThumbTypeOK ==
  /\ files \in [Thumb -> {"whole", "torn", NoFileHere}]
  /\ KeysOf(manifest) \subseteq Thumb /\ Cardinality(KeysOf(manifest)) = Len(manifest)
  /\ given \in Thumb \cup {NoFileHere} /\ call \in ThumbCall \cup {NoFileHere}
  /\ call = NoFileHere /\ "kill" \notin faults =>
       \/ Len(manifest) <= MaxFiles /\ Total(manifest) <= MaxBytes
       \/ Len(manifest) = 1

(* Every file in the directory is in the manifest, so that it counts and   *)
(* will be evicted, unless the app was killed or an unlink failed.         *)
NoFileIsForgotten ==
  call = NoFileHere /\ faults \cap {"kill", "unlink"} = {} =>
    {k \in Thumb : files[k] # NoFileHere} = KeysOf(manifest)

(* The path that get or put gives is that of a whole file, although the    *)
(* app is killed while it copies: the copy is in no manifest then.  The    *)
(* exceptions are a copy over a cached file and a clock that stands still  *)
(* or goes back, by which put evicts what it has just put.                 *)
GivenIsWhole ==
  given # NoFileHere /\ faults \cap {"overwrite", "clock"} = {} => files[given] = "whole"

(* Manifest and directory stay together: no file is there that the cache   *)
(* does not count, and no path is given that leads to no whole file.       *)
CacheIsSound ==
  /\ NoFileIsForgotten
  /\ GivenIsWhole
=============================================================================
