-------------------------- MODULE Services_proofs --------------------------
(***************************************************************************)
(* What the store promises, what phone and store agree on, and what the    *)
(* command server guards and tells: for every store, every list of files   *)
(* and every configuration, under the assumptions of their modules.        *)
(***************************************************************************)
EXTENDS MCServices, SequenceTheorems, FiniteSetTheorems, NaturalsInduction,
        WellFoundedInduction, TLAPS

-----------------------------------------------------------------------------
(***************************************************************************)
(* The store.                                                              *)
(***************************************************************************)
NamesFit(D) == \A u \in Upload, p \in Path : D[p] = u => p \in Names[u]
Once(D) == \A u \in Upload : \A p, q \in Path : D[p] = u /\ D[q] = u => p = q

StoreInv ==
  /\ TypeOK /\ AckedIsKept
  /\ NamesFit(store) /\ NamesFit(disk) /\ Once(store) /\ Once(disk)

LEMMA StoreInit == Init => StoreInv
BY StoreConstants
DEF Init, StoreInv, TypeOK, AckedIsKept, NamesFit, Once

LEMMA StoreNext == StoreInv /\ [Next]_storeVars => StoreInv'
<1> SUFFICES ASSUME StoreInv, [Next]_storeVars PROVE StoreInv'
  OBVIOUS
<1> USE StoreConstants DEF StoreInv, TypeOK, AckedIsKept, NamesFit, Once
<1>1. ASSUME NEW u \in Upload, NEW p \in Path, Put(u, p) PROVE StoreInv'
  BY <1>1 DEF Put, Stored
<1>2. ASSUME NEW u \in Upload, Acknowledge(u) PROVE StoreInv'
  BY <1>2 DEF Acknowledge, Stored
<1>3. ASSUME NEW u \in Upload, AcknowledgeGone(u) PROVE StoreInv'
  <2>1. UNCHANGED <<store, gone>> /\ disk' = store /\ acked' = acked \cup {u} /\ u \in gone
    BY <1>3 DEF AcknowledgeGone
  <2>. QED BY <2>1
<1>4. ASSUME NEW p \in Path, Remove(p) PROVE StoreInv'
  BY <1>4 DEF Remove
<1>5. CASE Commit
  BY <1>5 DEF Commit
<1>6. CASE PowerCut
  BY <1>6 DEF PowerCut
<1>7. CASE UNCHANGED storeVars
  BY <1>7 DEF storeVars
<1>. QED BY <1>1, <1>2, <1>3, <1>4, <1>5, <1>6, <1>7 DEF Next

(* Every reachable state satisfies StoreInv, which adds to AckedIsKept     *)
(* that files have allowed names and one name each, shown and on the card. *)
THEOREM StoreInvariant == Spec => []StoreInv
BY StoreInit, StoreNext, PTL DEF Spec

(* What a 201 of dav-bridge means to the client that got it: the file is   *)
(* shown and on the card until somebody deletes it.                        *)
THEOREM AcknowledgedIsKept == Spec => []AckedIsKept
BY StoreInvariant, PTL DEF StoreInv

(* One upload never yields two files.                                      *)
THEOREM StoredOnce == Spec => []OneName
<1>1. StoreInv => OneName
  BY DEF StoreInv, Once, OneName
<1>. QED BY <1>1, StoreInvariant, PTL

-----------------------------------------------------------------------------
(***************************************************************************)
(* The phone and the store.                                                *)
(***************************************************************************)
LEMMA AckedGrows == StoreInv /\ [Next]_storeVars => acked \subseteq acked'
BY DEF Next, Put, Acknowledge, AcknowledgeGone, Remove, Commit, PowerCut, storeVars

-----------------------------------------------------------------------------
(* The batch and the pages.                                                *)
PhoneTyped ==
  /\ page \in [File -> {"pending", "uploading", "done", "fail", "removed"}]
  /\ batch \in Batch \cup {None} /\ sent \in [File -> 0 .. MaxSent]
  /\ atBridge \subseteq Upload /\ answered \subseteq acked /\ brokenOff \in BOOLEAN

Trying(b) == b.at \in {"probe", "send", "wait"}

Before(b) == {f \in File \ b.skip : f < b.i}

(* The batch is at a file it has to send, and what it waits for is an      *)
(* upload of that file; it counts what is over.                            *)
OnItsWay(b) ==
  /\ b.at # "next" => b.i \in File /\ b.i \notin b.skip /\ b.i \notin TooLarge
  /\ b.at \in {"wait", "derived"} => b.u \in Upload /\ b.u[1] = b.i
  /\ b.at = "derived" => b.u \in answered
  /\ \A f \in b.failed : f < b.i /\ f \notin b.skip
  /\ b.done = Cardinality(Before(b))

Acknowledged(f) == \E u \in acked : u[1] = f

(* What is shown as done is acknowledged, or failed, or being sent.        *)
ShownIsDone ==
  ~brokenOff => \A f \in File : page[f] = "done" =>
    \/ Acknowledged(f)
    \/ batch # None /\ (f \in batch.failed \/ (f = batch.i /\ Trying(batch)))

PhoneInv ==
  /\ StoreInv /\ PhoneTyped /\ ShownIsDone
  /\ batch # None => OnItsWay(batch)

(* A file whose 201 the phone has is not sent again.                       *)
Heard(b, f) == f \in b.skip \/ f < b.i \/ (f = b.i /\ b.at = "derived")

HeardInv ==
  /\ OneAnswerPerFile
  /\ \A v \in answered :
       /\ batch = None => page[v[1]] \in Over
       /\ batch # None =>
            /\ v[1] \notin batch.failed /\ Heard(batch, v[1])
            /\ page[v[1]] \in Over \/ (v[1] = batch.i /\ batch.at = "derived")

(* The tries of a file: it is tried again, or given up.                    *)
Again(b, c) ==
  /\ c \in Batch /\ c.skip = b.skip
  /\ \/ c.at \in {"probe", "send"} /\ c.i = b.i /\ c.failed = b.failed /\ c.done = b.done
     \/ /\ c.at = "next" /\ c.i = b.i + 1 /\ c.done = b.done + 1
        /\ c.failed = b.failed \cup {b.i}

LEMMA GivenUpIs ==
  ASSUME NEW b \in Batch, b.i \in File
  PROVE  Again(b, GivenUp(b))
<1> DEFINE c == GivenUp(b)
<1>1. c = [b EXCEPT !.at = "next", !.i = @ + 1, !.done = @ + 1, !.failed = @ \cup {b.i}, !.u = None]
  BY DEF GivenUp
<1>2. /\ c.at = "next" /\ c.i = b.i + 1 /\ c.done = b.done + 1
      /\ c.failed = b.failed \cup {b.i} /\ c.skip = b.skip
  BY <1>1 DEF Batch
<1>3. b.i + 1 \in 1 .. (Photos + 1) /\ b.done + 1 \in Nat /\ b.failed \cup {b.i} \in SUBSET File
  BY UploadClientConstants DEF Batch, File
<1>4. c \in Batch
  BY <1>1, <1>3 DEF Batch
<1>. QED BY <1>2, <1>4 DEF Again

LEMMA RetriedIs ==
  ASSUME NEW b \in Batch, b.i \in File
  PROVE  Again(b, Retried(b))
<1>1. CASE b.attempt < Outer
  <2> DEFINE c == Retried(b)
  <2>1. c = [b EXCEPT !.at = "probe", !.attempt = @ + 1, !.try = 1, !.u = None]
    BY <1>1 DEF Retried
  <2>2. b.attempt + 1 \in 1 .. Outer /\ 1 \in 1 .. Inner
    BY <1>1, UploadClientConstants DEF Batch
  <2>3. c \in Batch
    BY <2>1, <2>2 DEF Batch
  <2>. QED BY <2>1, <2>3 DEF Again, Batch
<1>2. CASE ~(b.attempt < Outer)
  BY <1>2, GivenUpIs DEF Retried
<1>. QED BY <1>1, <1>2

LEMMA ResentIs ==
  ASSUME NEW b \in Batch, b.i \in File
  PROVE  Again(b, Resent(b))
<1>1. CASE b.try < Inner
  <2> DEFINE c == Resent(b)
  <2>1. c = [b EXCEPT !.at = "send", !.try = @ + 1, !.u = None]
    BY <1>1 DEF Resent
  <2>2. b.try + 1 \in 1 .. Inner
    BY <1>1, UploadClientConstants DEF Batch
  <2>3. c \in Batch
    BY <2>1, <2>2 DEF Batch
  <2>. QED BY <2>1, <2>3 DEF Again, Batch
<1>2. CASE ~(b.try < Inner)
  BY <1>2, RetriedIs DEF Resent
<1>. QED BY <1>1, <1>2

(* One file more is over.                                                  *)
LEMMA OneMoreBefore ==
  ASSUME NEW b \in Batch, NEW c \in Batch, c.skip = b.skip, c.i = b.i + 1,
         b.i \in File, b.i \notin b.skip
  PROVE  Cardinality(Before(c)) = Cardinality(Before(b)) + 1
<1>1. Before(c) = Before(b) \cup {b.i} /\ b.i \notin Before(b)
  BY DEF Before, Batch, File
<1>2. IsFiniteSet(Before(b))
  <2>1. Before(b) \subseteq File
    BY DEF Before
  <2>2. IsFiniteSet(File)
    BY FS_Interval, UploadClientConstants DEF File
  <2>. QED BY <2>1, <2>2, FS_Subset
<1>. QED BY <1>1, <1>2, FS_AddElement

(* No file is over before the first.                                       *)
LEMMA NoneBefore ==
  ASSUME NEW b \in Batch, b.i = 1
  PROVE  Cardinality(Before(b)) = 0
<1>1. Before(b) = {}
  BY DEF Before, File
<1>. QED BY <1>1, FS_EmptySet

LEMMA AgainIsOnItsWay ==
  ASSUME NEW b \in Batch, OnItsWay(b), Trying(b), NEW c, Again(b, c)
  PROVE  OnItsWay(c)
<1>1. b.i \in File /\ b.i \notin b.skip /\ b.i \notin TooLarge /\ b.i \in Nat
  BY DEF OnItsWay, Trying, File
<1>2. c \in Batch /\ c.skip = b.skip
  BY DEF Again
<1>3. CASE c.at \in {"probe", "send"} /\ c.i = b.i /\ c.failed = b.failed /\ c.done = b.done
  <2>1. Before(c) = Before(b)
    BY <1>2, <1>3 DEF Before
  <2>. QED BY <1>1, <1>2, <1>3, <2>1 DEF OnItsWay
<1>4. CASE /\ c.at = "next" /\ c.i = b.i + 1 /\ c.done = b.done + 1
           /\ c.failed = b.failed \cup {b.i}
  <2>1. c.done = Cardinality(Before(c))
    BY <1>1, <1>2, <1>4, OneMoreBefore DEF OnItsWay
  <2>2. ASSUME NEW f \in c.failed PROVE f < c.i /\ f \notin c.skip
    <3>1. f \in Nat
      BY <1>2 DEF Batch, File
    <3>. QED BY <3>1, <1>1, <1>2, <1>4 DEF OnItsWay
  <2>. QED BY <1>4, <2>1, <2>2 DEF OnItsWay
<1>. QED BY <1>3, <1>4 DEF Again

-----------------------------------------------------------------------------
(* Steps of one kind.                                                      *)

(* The store works, or nothing does.                                       *)
LEMMA StoreWorks ==
  ASSUME PhoneInv, [Next]_storeVars,
         UNCHANGED <<page, batch, sent, answered, brokenOff>>, atBridge' \subseteq Upload
  PROVE  PhoneInv'
<1>1. StoreInv'
  BY StoreNext DEF PhoneInv
<1>2. acked \subseteq acked'
  BY AckedGrows DEF PhoneInv
<1>3. PhoneTyped'
  BY <1>2 DEF PhoneInv, PhoneTyped
<1>4. ShownIsDone'
  BY <1>2 DEF PhoneInv, ShownIsDone, Acknowledged
<1>5. batch # None => OnItsWay(batch)'
  BY DEF PhoneInv, OnItsWay, Before
<1>. QED BY <1>1, <1>3, <1>4, <1>5 DEF PhoneInv

(* A try of the file at hand ends without an answer.                       *)
TryEnds ==
  /\ batch # None /\ Trying(batch) /\ Again(batch, batch')
  /\ \E s \in {"uploading", page[batch.i]} : page' = [page EXCEPT ![batch.i] = s]
  /\ atBridge' \subseteq Upload
  /\ UNCHANGED <<storeVars, sent, answered, brokenOff>>

LEMMA TryEndsKeeps == PhoneInv /\ TryEnds => PhoneInv'
<1> SUFFICES ASSUME PhoneInv, TryEnds PROVE PhoneInv'
  OBVIOUS
<1>1. StoreInv'
  BY StoreNext DEF PhoneInv, TryEnds
<1>2. batch \in Batch /\ OnItsWay(batch) /\ batch' \in Batch /\ batch' # None
  BY UploadClientConstants DEF PhoneInv, PhoneTyped, TryEnds, Again
<1>3. batch.i \in File
  BY <1>2 DEF TryEnds, OnItsWay, Trying
<1>4. OnItsWay(batch')
  BY <1>2, AgainIsOnItsWay DEF TryEnds
<1>4a. OnItsWay(batch)'
  BY <1>4 DEF OnItsWay, Before, TryEnds
<1>5. page' \in [File -> {"pending", "uploading", "done", "fail", "removed"}]
  BY <1>3 DEF PhoneInv, PhoneTyped, TryEnds
<1>6. PhoneTyped'
  BY <1>2, <1>5 DEF PhoneInv, PhoneTyped, TryEnds, storeVars
<1>7. ShownIsDone'
  <2> SUFFICES ASSUME ~brokenOff, NEW f \in File, page'[f] = "done"
      PROVE  \/ Acknowledged(f)'
             \/ f \in (batch').failed \/ (f = (batch').i /\ Trying(batch'))
    BY <1>2 DEF ShownIsDone, TryEnds, Trying
  <2>1. page[f] = "done"
    BY <1>3 DEF TryEnds, PhoneInv, PhoneTyped
  <2>2. \/ Acknowledged(f)
        \/ f \in batch.failed \/ (f = batch.i /\ Trying(batch))
    BY <2>1 DEF PhoneInv, ShownIsDone, TryEnds
  <2>3. Acknowledged(f) => Acknowledged(f)'
    BY DEF Acknowledged, TryEnds, storeVars
  <2>. QED BY <2>2, <2>3 DEF TryEnds, Again, Trying
<1>. QED BY <1>1, <1>4a, <1>6, <1>7 DEF PhoneInv

LEMMA TryEndsIs ==
  ASSUME PhoneInv, Probes \/ NoConnection \/ Refused \/ Killed \/ NoAnswer
  PROVE  TryEnds
<1>1. batch # None /\ batch \in Batch /\ OnItsWay(batch) /\ Trying(batch)
  BY DEF PhoneInv, PhoneTyped, Probes, NoConnection, Refused, Killed, NoAnswer, At, Trying
<1>2. batch.i \in File
  BY <1>1 DEF OnItsWay, Trying
<1>3. page \in [File -> {"pending", "uploading", "done", "fail", "removed"}]
      /\ atBridge \subseteq Upload
  BY DEF PhoneInv, PhoneTyped
<1>4. page = [page EXCEPT ![batch.i] = page[batch.i]]
  BY <1>2, <1>3
<1>5. Again(batch, GivenUp(batch)) /\ Again(batch, Retried(batch)) /\ Again(batch, Resent(batch))
  BY <1>1, <1>2, GivenUpIs, RetriedIs, ResentIs
<1>6. CASE Probes
  <2>1. Again(batch, [batch EXCEPT !.at = "send"])
    BY <1>1 DEF Again, Batch
  <2>2. Again(batch, batch')
    BY <2>1, <1>5, <1>6 DEF Probes
  <2>3. \E s \in {"uploading", page[batch.i]} : page' = [page EXCEPT ![batch.i] = s]
    BY <1>6 DEF Probes
  <2>. QED BY <1>1, <1>3, <1>6, <2>2, <2>3 DEF Probes, TryEnds
<1>7. CASE NoConnection
  BY <1>1, <1>3, <1>4, <1>5, <1>7 DEF NoConnection, TryEnds
<1>8. CASE Refused
  BY <1>1, <1>3, <1>4, <1>5, <1>8 DEF Refused, TryEnds
<1>9. CASE Killed
  BY <1>1, <1>3, <1>4, <1>5, <1>9 DEF Killed, TryEnds
<1>10. CASE NoAnswer
  BY <1>1, <1>3, <1>4, <1>5, <1>10 DEF NoAnswer, TryEnds
<1>. QED BY <1>6, <1>7, <1>8, <1>9, <1>10

-----------------------------------------------------------------------------
(* The steps of the phone that are left, one by one.                       *)
LEMMA InitIsPhoneInv == ClientInit => PhoneInv
<1> SUFFICES ASSUME ClientInit PROVE PhoneInv
  OBVIOUS
<1>1. StoreInv /\ acked = {}
  BY StoreInit DEF ClientInit, Init
<1>2. PhoneTyped
  <2>1. sent \in [File -> 0 .. MaxSent]
    <3>1. 0 \in 0 .. MaxSent
      BY UploadClientConstants
    <3>. QED BY <3>1 DEF ClientInit
  <2>2. page \in [File -> {"pending", "uploading", "done", "fail", "removed"}]
    BY DEF ClientInit
  <2>. QED BY <2>1, <2>2 DEF ClientInit, PhoneTyped
<1>3. ShownIsDone /\ batch = None
  BY DEF ClientInit, ShownIsDone
<1>. QED BY <1>1, <1>2, <1>3 DEF PhoneInv

LEMMA PressesKeeps == PhoneInv /\ Presses => PhoneInv'
<1> SUFFICES ASSUME PhoneInv, Presses PROVE PhoneInv'
  OBVIOUS
<1> DEFINE b == [at |-> "next", i |-> 1, done |-> 0, failed |-> {}, attempt |-> 1,
                 try |-> 1, skip |-> {f \in File : page[f] \in Over}, u |-> None]
<1>1. b \in Batch /\ b.i = 1 /\ batch' = b /\ b # None
  BY UploadClientConstants DEF Presses, Batch, File
<1>2. Cardinality(Before(b)) = 0
  BY <1>1, NoneBefore
<1>3. OnItsWay(b)
  BY <1>2 DEF OnItsWay
<1>3a. OnItsWay(batch)'
  BY <1>1, <1>3 DEF OnItsWay, Before
<1> HIDE DEF b
<1>4. PhoneTyped'
  BY <1>1 DEF PhoneInv, PhoneTyped, Presses, storeVars, Over
<1>5. StoreInv'
  BY StoreNext DEF PhoneInv, Presses
<1>6. ShownIsDone'
  <2>1. \A f \in File : page'[f] = "done" => page[f] = "done"
    BY DEF Presses, PhoneInv, PhoneTyped, Over
  <2>2. acked' = acked /\ brokenOff' = brokenOff /\ batch = None
    BY DEF Presses, storeVars
  <2>. QED BY <2>1, <2>2 DEF PhoneInv, ShownIsDone, Acknowledged
<1>. QED BY <1>3a, <1>4, <1>5, <1>6 DEF PhoneInv

LEMMA TakesOffKeeps == \A f \in File : PhoneInv /\ TakesOff(f) => PhoneInv'
<1> SUFFICES ASSUME NEW f \in File, PhoneInv, TakesOff(f) PROVE PhoneInv'
  OBVIOUS
<1>1. StoreInv'
  BY StoreNext DEF PhoneInv, TakesOff
<1>2. PhoneTyped'
  BY DEF PhoneInv, PhoneTyped, TakesOff, storeVars
<1>3. ShownIsDone'
  BY DEF PhoneInv, PhoneTyped, ShownIsDone, Acknowledged, TakesOff, storeVars
<1>. QED BY <1>1, <1>2, <1>3 DEF PhoneInv, TakesOff

LEMMA NextFileKeeps == PhoneInv /\ NextFile => PhoneInv'
<1> SUFFICES ASSUME PhoneInv, NextFile PROVE PhoneInv'
  OBVIOUS
<1>1. StoreInv'
  BY StoreNext DEF PhoneInv, NextFile
<1>2. batch \in Batch /\ OnItsWay(batch) /\ batch.at = "next" /\ batch # None
  BY DEF PhoneInv, PhoneTyped, NextFile, At
<1>3. batch.i \in File
  BY <1>2, UploadClientConstants DEF NextFile, Batch, File
<1>4. CASE Skips(batch)
  <2>1. batch' = [batch EXCEPT !.i = @ + 1] /\ brokenOff' = brokenOff
    BY <1>4 DEF NextFile
  <2>2. batch' \in Batch
    BY <1>2, <1>3, <2>1, UploadClientConstants DEF Batch, File
  <2>3. Before(batch') = Before(batch)
    BY <1>2, <1>3, <1>4, <2>1 DEF Before, Batch, File, Skips
  <2>4. OnItsWay(batch')
    <3>1. ASSUME NEW f \in batch.failed PROVE f < batch.i + 1
      <4>1. f \in Nat /\ batch.i \in Nat
        BY <1>2 DEF Batch, File
      <4>. QED BY <4>1, <1>2 DEF OnItsWay
    <3>. QED BY <3>1, <2>1, <2>3, <1>2 DEF OnItsWay, Batch
  <2>5. OnItsWay(batch)'
    BY <2>4 DEF OnItsWay, Before, NextFile
  <2>6. PhoneTyped'
    BY <2>1, <2>2 DEF PhoneInv, PhoneTyped, NextFile, storeVars
  <2>7. ShownIsDone'
    <3>1. batch' # None
      BY <2>2, UploadClientConstants
    <3>2. (batch').failed = batch.failed /\ ~Trying(batch)
      BY <1>2, <2>1 DEF Trying, Batch
    <3>. QED BY <3>1, <3>2, <2>1, <1>2 DEF PhoneInv, ShownIsDone, Acknowledged, NextFile, storeVars
  <2>. QED BY <1>1, <2>5, <2>6, <2>7 DEF PhoneInv
<1>5. CASE ~Skips(batch) /\ batch.i \in TooLarge
  <2>1. batch' = None /\ brokenOff' = TRUE
    BY <1>5 DEF NextFile
  <2>2. PhoneTyped'
    BY <2>1 DEF PhoneInv, PhoneTyped, NextFile, storeVars
  <2>3. ShownIsDone'
    BY <2>1 DEF ShownIsDone
  <2>. QED BY <1>1, <2>1, <2>2, <2>3 DEF PhoneInv
<1>6. CASE ~Skips(batch) /\ batch.i \notin TooLarge
  <2>1. /\ batch' = [batch EXCEPT !.at = "probe", !.attempt = 1, !.try = 1]
        /\ brokenOff' = brokenOff
    BY <1>6 DEF NextFile
  <2>2. batch' \in Batch
    <3>1. 1 \in 1 .. Outer /\ 1 \in 1 .. Inner
      BY UploadClientConstants
    <3>. QED BY <3>1, <1>2, <2>1 DEF Batch
  <2>3. Before(batch') = Before(batch)
    BY <1>2, <2>1 DEF Before, Batch
  <2>4. OnItsWay(batch')
    BY <1>2, <1>3, <1>6, <2>1, <2>3 DEF OnItsWay, Batch, Skips
  <2>5. OnItsWay(batch)'
    BY <2>4 DEF OnItsWay, Before, NextFile
  <2>6. PhoneTyped'
    BY <2>1, <2>2 DEF PhoneInv, PhoneTyped, NextFile, storeVars
  <2>7. ShownIsDone'
    <3>1. batch' # None
      BY <2>2, UploadClientConstants
    <3>2. (batch').failed = batch.failed /\ ~Trying(batch)
      BY <1>2, <2>1 DEF Trying, Batch
    <3>. QED BY <3>1, <3>2, <2>1, <1>2 DEF PhoneInv, ShownIsDone, Acknowledged, NextFile, storeVars
  <2>. QED BY <1>1, <2>5, <2>6, <2>7 DEF PhoneInv
<1>. QED BY <1>4, <1>5, <1>6

LEMMA EndsKeeps == PhoneInv /\ Ends => PhoneInv'
<1> SUFFICES ASSUME PhoneInv, Ends PROVE PhoneInv'
  OBVIOUS
<1>1. StoreInv'
  BY StoreNext DEF PhoneInv, Ends
<1>2. PhoneTyped'
  BY DEF PhoneInv, PhoneTyped, Ends, storeVars, Marked
<1>3. ShownIsDone'
  <2> SUFFICES ASSUME ~brokenOff, NEW f \in File, page'[f] = "done"
      PROVE  Acknowledged(f)'
    BY DEF ShownIsDone, Ends
  <2>1. page[f] = "done" /\ f \notin batch.failed
    BY DEF Ends, Marked
  <2>2. ~Trying(batch)
    BY DEF Ends, At, Trying
  <2>3. Acknowledged(f)
    BY <2>1, <2>2 DEF PhoneInv, ShownIsDone
  <2>. QED BY <2>3 DEF Ends, Acknowledged, storeVars
<1>. QED BY <1>1, <1>2, <1>3 DEF PhoneInv, Ends

LEMMA SendsKeeps == PhoneInv /\ Sends => PhoneInv' /\ batch' # None
<1> SUFFICES ASSUME PhoneInv, Sends PROVE PhoneInv' /\ batch' # None
  OBVIOUS
<1> DEFINE u == <<batch.i, sent[batch.i] + 1>>
<1>1. StoreInv'
  BY StoreNext DEF PhoneInv, Sends
<1>2. batch \in Batch /\ OnItsWay(batch) /\ batch.at = "send" /\ batch # None
  BY DEF PhoneInv, PhoneTyped, Sends, At
<1>3. batch.i \in File
  BY <1>2 DEF OnItsWay
<1>4. sent[batch.i] + 1 \in 1 .. MaxSent
  BY <1>3, UploadClientConstants DEF PhoneInv, PhoneTyped, Sends
<1>5. u \in Upload /\ u[1] = batch.i
  BY <1>3, <1>4, UploadClientConstants
<1>6. /\ batch' = [batch EXCEPT !.at = "wait", !.u = u] /\ atBridge' = atBridge \cup {u}
      /\ page' = [page EXCEPT ![batch.i] = "uploading"]
      /\ sent' = [sent EXCEPT ![batch.i] = @ + 1]
      /\ UNCHANGED <<storeVars, answered, brokenOff>>
  BY DEF Sends
<1> HIDE DEF u
<1>7. batch' \in Batch /\ batch' # None
  <2>1. batch' \in Batch
    BY <1>2, <1>5, <1>6 DEF Batch
  <2>2. None \notin Batch
    BY UploadClientConstants DEF Batch
  <2>. QED BY <2>1, <2>2
<1>8. Before(batch') = Before(batch)
  BY <1>2, <1>6 DEF Before, Batch
<1>9. OnItsWay(batch')
  BY <1>2, <1>5, <1>6, <1>8 DEF OnItsWay, Batch
<1>10. OnItsWay(batch)'
  BY <1>9, <1>6 DEF OnItsWay, Before
<1>11. PhoneTyped'
  <2>1. sent' \in [File -> 0 .. MaxSent]
    BY <1>3, <1>4, <1>6 DEF PhoneInv, PhoneTyped
  <2>2. page' \in [File -> {"pending", "uploading", "done", "fail", "removed"}]
    BY <1>3, <1>6 DEF PhoneInv, PhoneTyped
  <2>. QED BY <2>1, <2>2, <1>5, <1>6, <1>7 DEF PhoneInv, PhoneTyped, storeVars
<1>12. ShownIsDone'
  <2>1. (batch').failed = batch.failed /\ (batch').i = batch.i /\ Trying(batch')
    BY <1>2, <1>6 DEF Batch, Trying
  <2>2. \A f \in File : page'[f] = "done" => page[f] = "done"
    BY <1>3, <1>6 DEF PhoneInv, PhoneTyped
  <2>. QED BY <2>1, <2>2, <1>2, <1>6, <1>7
       DEF PhoneInv, ShownIsDone, Acknowledged, storeVars, Trying
<1>. QED BY <1>1, <1>7, <1>10, <1>11, <1>12 DEF PhoneInv

LEMMA BodyIsSentKeeps == PhoneInv /\ BodyIsSent => PhoneInv'
<1> SUFFICES ASSUME PhoneInv, BodyIsSent PROVE PhoneInv'
  OBVIOUS
<1>1. StoreInv'
  BY StoreNext DEF PhoneInv, BodyIsSent
<1>2. OnItsWay(batch) /\ batch.at = "wait" /\ batch # None
  BY DEF PhoneInv, BodyIsSent, At
<1>3. batch.i \in File
  BY <1>2 DEF OnItsWay
<1>4. PhoneTyped'
  BY <1>3 DEF PhoneInv, PhoneTyped, BodyIsSent, storeVars
<1>5. OnItsWay(batch)'
  BY <1>2 DEF OnItsWay, Before, BodyIsSent
<1>6. ShownIsDone'
  <2>1. \A f \in File : page'[f] = "done" => page[f] = "done" \/ f = batch.i
    BY <1>3 DEF BodyIsSent, PhoneInv, PhoneTyped
  <2>. QED BY <2>1, <1>2
       DEF BodyIsSent, PhoneInv, ShownIsDone, Acknowledged, storeVars, Trying
<1>. QED BY <1>1, <1>4, <1>5, <1>6 DEF PhoneInv

LEMMA Answer201Keeps == PhoneInv /\ Answer201 => PhoneInv'
<1> SUFFICES ASSUME PhoneInv, Answer201 PROVE PhoneInv'
  OBVIOUS
<1>1. StoreInv'
  BY StoreNext DEF PhoneInv, Answer201
<1>2. batch \in Batch /\ OnItsWay(batch) /\ batch.at = "wait" /\ batch # None
  BY DEF PhoneInv, PhoneTyped, Answer201, At
<1>3. batch' \in Batch /\ batch' # None /\ batch' = [batch EXCEPT !.at = "derived"]
  BY <1>2, UploadClientConstants DEF Answer201, Batch
<1>4. PhoneTyped'
  BY <1>3 DEF PhoneInv, PhoneTyped, Answer201, storeVars
<1>5. Before(batch') = Before(batch)
  BY <1>2, <1>3 DEF Before, Batch
<1>6. OnItsWay(batch)'
  <2>1. batch.u \in answered'
    BY DEF Answer201
  <2>2. /\ (batch').i = batch.i /\ (batch').u = batch.u /\ (batch').failed = batch.failed
        /\ (batch').skip = batch.skip /\ (batch').done = batch.done
        /\ (batch').at = "derived"
    BY <1>2, <1>3 DEF Batch
  <2>. QED BY <1>2, <1>5, <2>1, <2>2 DEF OnItsWay, Before
<1>7. ShownIsDone'
  <2>1. Acknowledged(batch.i)
    BY <1>2 DEF Answer201, Acknowledged, OnItsWay
  <2>2. (batch').failed = batch.failed
    BY <1>2, <1>3 DEF Batch
  <2>. QED BY <2>1, <2>2, <1>2, <1>3
       DEF Answer201, PhoneInv, ShownIsDone, Acknowledged, storeVars
<1>. QED BY <1>1, <1>4, <1>6, <1>7 DEF PhoneInv

LEMMA DerivesKeeps == PhoneInv /\ Derives => PhoneInv' /\ batch' # None
<1> SUFFICES ASSUME PhoneInv, Derives PROVE PhoneInv' /\ batch' # None
  OBVIOUS
<1>1. StoreInv'
  BY StoreNext DEF PhoneInv, Derives
<1>2. batch \in Batch /\ OnItsWay(batch) /\ batch.at = "derived" /\ batch # None
  BY DEF PhoneInv, PhoneTyped, Derives, At
<1>3. batch.i \in File /\ batch.i \notin batch.skip /\ batch.i \in Nat
  BY <1>2 DEF OnItsWay, File
<1>4. batch' = [batch EXCEPT !.at = "next", !.i = @ + 1, !.done = @ + 1, !.u = None]
  BY DEF Derives
<1>5. batch' \in Batch /\ batch' # None
  <2>1. batch.i + 1 \in 1 .. (Photos + 1) /\ batch.done + 1 \in Nat
    BY <1>2, <1>3, UploadClientConstants DEF Batch, File
  <2>2. batch' \in Batch
    BY <2>1, <1>2, <1>4 DEF Batch
  <2>. QED BY <2>2, UploadClientConstants
<1>6. /\ (batch').i = batch.i + 1 /\ (batch').failed = batch.failed
      /\ (batch').skip = batch.skip /\ (batch').done = batch.done + 1
      /\ (batch').at = "next"
  BY <1>2, <1>4 DEF Batch
<1>7. OnItsWay(batch')
  <2>1. (batch').done = Cardinality(Before(batch'))
    BY <1>2, <1>3, <1>5, <1>6, OneMoreBefore DEF OnItsWay
  <2>2. ASSUME NEW f \in batch.failed PROVE f < batch.i + 1 /\ f \notin batch.skip
    <3>1. f \in Nat
      BY <1>2 DEF Batch, File
    <3>. QED BY <3>1, <1>2, <1>3 DEF OnItsWay
  <2>. QED BY <2>1, <2>2, <1>6 DEF OnItsWay
<1>8. OnItsWay(batch)'
  BY <1>7 DEF OnItsWay, Before, Derives
<1>9. PhoneTyped'
  <2>1. page' \in [File -> {"pending", "uploading", "done", "fail", "removed"}]
    <3> DEFINE Q(f) == batch.i \in Video /\ Place(f) = batch.done + 1 /\ page[f] # "removed"
    <3>1. page' = [f \in File |-> IF f = batch.i THEN "done" ELSE IF Q(f) THEN "uploading"
                                  ELSE page[f]]
      BY DEF Derives
    <3> HIDE DEF Q
    <3>. QED BY <3>1 DEF PhoneInv, PhoneTyped
  <2>. QED BY <2>1, <1>5 DEF PhoneInv, PhoneTyped, Derives, storeVars
<1>10. ShownIsDone'
  <2>1. Acknowledged(batch.i)
    BY <1>2 DEF OnItsWay, Acknowledged, PhoneInv, PhoneTyped
  <2>2. \A f \in File : page'[f] = "done" => page[f] = "done" \/ f = batch.i
    <3> DEFINE Q(f) == batch.i \in Video /\ Place(f) = batch.done + 1 /\ page[f] # "removed"
    <3>1. page' = [f \in File |-> IF f = batch.i THEN "done" ELSE IF Q(f) THEN "uploading"
                                  ELSE page[f]]
      BY DEF Derives
    <3> HIDE DEF Q
    <3>. QED BY <3>1
  <2>3. acked' = acked /\ brokenOff' = brokenOff
    BY DEF Derives, storeVars
  <2>4. ~Trying(batch)
    BY <1>2 DEF Trying
  <2>. QED BY <2>1, <2>2, <2>3, <2>4, <1>5, <1>6 DEF PhoneInv, ShownIsDone, Acknowledged
<1>. QED BY <1>1, <1>5, <1>8, <1>9, <1>10 DEF PhoneInv

(* The bridge at work.                                                     *)
LEMMA BridgeKeeps ==
  ASSUME PhoneInv,
         \/ \E u \in Upload : BridgeStores(u) \/ BridgeAnswers(u)
         \/ \E p \in Path : Deletes(p)
         \/ WritesBack \/ BoardIsOff \/ UNCHANGED clientVars
  PROVE  PhoneInv'
<1>1. [Next]_storeVars
  BY DEF Next, BridgeStores, BridgeAnswers, Deletes, WritesBack, BoardIsOff, clientVars
<1>2. UNCHANGED <<page, batch, sent, answered, brokenOff>>
  BY DEF BridgeStores, BridgeAnswers, Deletes, WritesBack, BoardIsOff, clientVars, phoneVars
<1>3. atBridge' \subseteq Upload
  BY DEF PhoneInv, PhoneTyped,
         BridgeStores, BridgeAnswers, Deletes, WritesBack, BoardIsOff, clientVars, phoneVars
<1>. QED BY <1>1, <1>2, <1>3, StoreWorks

LEMMA PhoneNext == PhoneInv /\ [ClientNext]_clientVars => PhoneInv'
<1> SUFFICES ASSUME PhoneInv, [ClientNext]_clientVars PROVE PhoneInv'
  OBVIOUS
<1>. QED
  BY PressesKeeps, TakesOffKeeps, NextFileKeeps, EndsKeeps, SendsKeeps, BodyIsSentKeeps,
     Answer201Keeps, DerivesKeeps, BridgeKeeps, TryEndsIs, TryEndsKeeps
  DEF ClientNext, PhoneStep

LEMMA PhoneInvIsEnough == PhoneInv => TypeOK /\ ClientTypeOK /\ AckedIsKept /\ OneName /\ DoneIsStored
<1> SUFFICES ASSUME PhoneInv
    PROVE  TypeOK /\ ClientTypeOK /\ AckedIsKept /\ OneName /\ DoneIsStored
  OBVIOUS
<1>1. TypeOK /\ AckedIsKept /\ OneName
  BY DEF PhoneInv, StoreInv, Once, OneName
<1>2. ClientTypeOK
  BY DEF PhoneInv, PhoneTyped, ClientTypeOK, OnItsWay, Before, Batch
<1>3. DoneIsStored
  <2> SUFFICES ASSUME batch = None, ~brokenOff, NEW f \in File, page[f] = "done"
      PROVE  \E u \in acked : u[1] = f /\ (u \in gone \/ Stored(u))
    BY DEF DoneIsStored
  <2>1. PICK u \in acked : u[1] = f
    BY DEF PhoneInv, ShownIsDone, Acknowledged
  <2>2. u \in gone \/ Stored(u)
    BY <1>1, StoreConstants DEF AckedIsKept, Stored, TypeOK
  <2>. QED BY <2>1, <2>2
<1>. QED BY <1>1, <1>2, <1>3

-----------------------------------------------------------------------------
(* Nothing the phone was answered for is sent again.                       *)
LEMMA AnsweredFile == PhoneInv => \A v \in answered : v \in Upload /\ v[1] \in File /\ v[1] \in Nat
BY UploadClientConstants DEF PhoneInv, StoreInv, TypeOK, PhoneTyped, File

(* While a file is tried, no upload of it was answered.                    *)
LEMMA NotHeardYet ==
  ASSUME PhoneInv, HeardInv, batch # None, Trying(batch), NEW v \in answered
  PROVE  v[1] # batch.i /\ (v[1] \in batch.skip \/ v[1] < batch.i) /\ page[v[1]] \in Over
         /\ v[1] \notin batch.failed
<1>1. OnItsWay(batch) /\ batch.at # "derived" /\ batch.at # "next"
  BY DEF PhoneInv, Trying
<1>2. batch.i \notin batch.skip /\ batch.i \in Nat
  BY <1>1 DEF OnItsWay, File
<1>3. v[1] \in batch.skip \/ v[1] < batch.i
  BY <1>1 DEF HeardInv, Heard
<1>4. page[v[1]] \in Over /\ v[1] \notin batch.failed
  BY <1>1 DEF HeardInv
<1>. QED BY <1>2, <1>3, <1>4

LEMMA HeardTry == PhoneInv /\ HeardInv /\ TryEnds => HeardInv'
<1> SUFFICES ASSUME PhoneInv, HeardInv, TryEnds PROVE HeardInv'
  OBVIOUS
<1>1. OneAnswerPerFile' /\ answered' = answered
  BY DEF HeardInv, OneAnswerPerFile, TryEnds
<1>2. batch \in Batch /\ batch' \in Batch /\ batch' # None /\ batch.i \in File
  BY UploadClientConstants DEF PhoneInv, PhoneTyped, TryEnds, Again, OnItsWay, Trying
<1> SUFFICES ASSUME NEW v \in answered
    PROVE  v[1] \notin (batch').failed /\ Heard(batch', v[1]) /\ page'[v[1]] \in Over
  BY <1>1, <1>2 DEF HeardInv
<1>3. /\ v[1] # batch.i /\ (v[1] \in batch.skip \/ v[1] < batch.i) /\ page[v[1]] \in Over
      /\ v[1] \notin batch.failed
  BY NotHeardYet DEF TryEnds
<1>4. v[1] \in File /\ v[1] \in Nat /\ batch.i \in Nat
  BY <1>2, AnsweredFile DEF File
<1>5. page'[v[1]] = page[v[1]]
  BY <1>2, <1>3, <1>4 DEF TryEnds, PhoneInv, PhoneTyped
<1>6. v[1] \notin (batch').failed
  BY <1>3 DEF TryEnds, Again
<1>7. v[1] \in (batch').skip \/ v[1] < (batch').i
  BY <1>3, <1>4 DEF TryEnds, Again
<1>. QED BY <1>3, <1>5, <1>6, <1>7 DEF Heard

LEMMA HeardPress ==
  PhoneInv /\ HeardInv /\ (Presses \/ \E f \in File : TakesOff(f)) => HeardInv'
<1> SUFFICES ASSUME PhoneInv, HeardInv, Presses \/ \E f \in File : TakesOff(f) PROVE HeardInv'
  OBVIOUS
<1>1. answered' = answered /\ batch = None /\ OneAnswerPerFile'
  BY DEF Presses, TakesOff, HeardInv, OneAnswerPerFile
<1>2. \A v \in answered : v[1] \in File /\ page[v[1]] \in Over
  BY <1>1, AnsweredFile DEF HeardInv
<1>3. CASE Presses
  <2>1. /\ (batch').failed = {}
        /\ (batch').skip = {f \in File : page[f] \in Over}
    BY <1>3 DEF Presses
  <2>2. \A v \in answered : page'[v[1]] \in Over
    BY <1>2, <1>3 DEF Presses
  <2>. QED BY <1>1, <1>2, <2>1, <2>2 DEF HeardInv, Heard
<1>4. CASE \E f \in File : TakesOff(f)
  <2>1. \A v \in answered : page'[v[1]] \in Over
    BY <1>2, <1>4 DEF TakesOff, Over, PhoneInv, PhoneTyped
  <2>2. batch' = None
    BY <1>1, <1>4 DEF TakesOff
  <2>. QED BY <1>1, <2>1, <2>2 DEF HeardInv
<1>. QED BY <1>3, <1>4

LEMMA HeardNextFile == PhoneInv /\ HeardInv /\ NextFile => HeardInv'
<1> SUFFICES ASSUME PhoneInv, HeardInv, NextFile PROVE HeardInv'
  OBVIOUS
<1>1. /\ answered' = answered /\ page' = page /\ batch # None /\ batch.at = "next"
      /\ OneAnswerPerFile'
  BY DEF NextFile, At, HeardInv, OneAnswerPerFile
<1>2. batch \in Batch
  BY <1>1 DEF PhoneInv, PhoneTyped
<1>3. ASSUME NEW v \in answered
      PROVE  /\ v[1] \notin batch.failed /\ (v[1] \in batch.skip \/ v[1] < batch.i)
             /\ page'[v[1]] \in Over /\ v[1] \in Nat
  BY <1>1, AnsweredFile DEF HeardInv, Heard
<1>4. CASE batch' = None
  BY <1>1, <1>3, <1>4 DEF HeardInv
<1>5. CASE batch' # None
  <2>1. \/ batch' = [batch EXCEPT !.i = @ + 1]
        \/ batch' = [batch EXCEPT !.at = "probe", !.attempt = 1, !.try = 1]
    BY <1>5 DEF NextFile
  <2>2. /\ (batch').failed = batch.failed /\ (batch').skip = batch.skip
        /\ (batch').i \in {batch.i, batch.i + 1} /\ batch.i \in Nat
    <3>1. batch.i \in Nat
      BY <1>2, UploadClientConstants DEF Batch
    <3>2. CASE batch' = [batch EXCEPT !.i = @ + 1]
      BY <1>2, <3>1, <3>2 DEF Batch
    <3>3. CASE batch' = [batch EXCEPT !.at = "probe", !.attempt = 1, !.try = 1]
      BY <1>2, <3>1, <3>3 DEF Batch
    <3>. QED BY <2>1, <3>2, <3>3
  <2>3. ASSUME NEW v \in answered
        PROVE  /\ v[1] \notin (batch').failed /\ Heard(batch', v[1])
               /\ page'[v[1]] \in Over
    BY <1>3, <2>2 DEF Heard
  <2>. QED BY <1>1, <1>5, <2>3 DEF HeardInv
<1>. QED BY <1>4, <1>5

LEMMA HeardEnds == PhoneInv /\ HeardInv /\ Ends => HeardInv'
<1> SUFFICES ASSUME PhoneInv, HeardInv, Ends PROVE HeardInv'
  OBVIOUS
<1>1. answered' = answered /\ batch # None /\ batch.at = "next" /\ batch' = None
      /\ OneAnswerPerFile' /\ page' = Marked(batch.failed)
  BY DEF Ends, At, HeardInv, OneAnswerPerFile
<1>2. ASSUME NEW v \in answered PROVE page'[v[1]] \in Over
  <2>1. v[1] \notin batch.failed /\ page[v[1]] \in Over /\ v[1] \in File
    BY <1>1, AnsweredFile DEF HeardInv
  <2>. QED BY <1>1, <2>1 DEF Marked
<1>. QED BY <1>1, <1>2 DEF HeardInv

LEMMA HeardSend == PhoneInv /\ HeardInv /\ (Sends \/ BodyIsSent) => HeardInv'
<1> SUFFICES ASSUME PhoneInv, HeardInv, Sends \/ BodyIsSent PROVE HeardInv'
  OBVIOUS
<1>1. answered' = answered /\ batch # None /\ Trying(batch) /\ OneAnswerPerFile'
  BY DEF Sends, BodyIsSent, At, Trying, HeardInv, OneAnswerPerFile
<1>2. batch \in Batch /\ batch.i \in File
  BY <1>1 DEF PhoneInv, PhoneTyped, OnItsWay, Trying
<1>3. /\ (batch').failed = batch.failed /\ (batch').skip = batch.skip
      /\ (batch').i = batch.i
  BY <1>2 DEF Sends, BodyIsSent, Batch
<1>4. batch' # None
  <2>1. CASE BodyIsSent
    BY <1>1, <2>1 DEF BodyIsSent
  <2>2. CASE Sends
    BY <2>2, SendsKeeps
  <2>. QED BY <2>1, <2>2
<1>5. ASSUME NEW v \in answered
      PROVE  /\ v[1] \notin (batch').failed /\ Heard(batch', v[1])
             /\ page'[v[1]] \in Over
  <2>1. /\ v[1] # batch.i /\ (v[1] \in batch.skip \/ v[1] < batch.i)
        /\ page[v[1]] \in Over /\ v[1] \notin batch.failed
    BY <1>1, NotHeardYet
  <2>2. page'[v[1]] = page[v[1]]
    BY <1>2, <2>1, AnsweredFile DEF Sends, BodyIsSent, PhoneInv, PhoneTyped
  <2>. QED BY <1>3, <2>1, <2>2 DEF Heard
<1>. QED BY <1>1, <1>4, <1>5 DEF HeardInv

LEMMA HeardAnswer == PhoneInv /\ HeardInv /\ Answer201 => HeardInv'
<1> SUFFICES ASSUME PhoneInv, HeardInv, Answer201 PROVE HeardInv'
  OBVIOUS
<1>1. /\ answered' = answered \cup {batch.u} /\ batch # None /\ batch.at = "wait"
      /\ page' = page /\ Trying(batch)
  BY DEF Answer201, At, Trying
<1>2. batch \in Batch /\ batch.i \in File /\ OnItsWay(batch) /\ batch.u[1] = batch.i
  BY <1>1 DEF PhoneInv, PhoneTyped, OnItsWay
<1>3. batch' = [batch EXCEPT !.at = "derived"] /\ batch' # None
  <2>1. batch' = [batch EXCEPT !.at = "derived"]
    BY DEF Answer201
  <2>2. batch' \in Batch
    BY <1>2, <2>1 DEF Batch
  <2>. QED BY <2>1, <2>2, UploadClientConstants
<1>4. /\ (batch').failed = batch.failed /\ (batch').skip = batch.skip
      /\ (batch').i = batch.i /\ (batch').at = "derived"
  BY <1>2, <1>3 DEF Batch
<1>5. batch.i \notin batch.failed
  BY <1>2 DEF OnItsWay, File
<1>6. ASSUME NEW v \in answered
      PROVE  /\ v[1] # batch.i /\ v[1] \notin batch.failed /\ page[v[1]] \in Over
             /\ (v[1] \in batch.skip \/ v[1] < batch.i)
  BY <1>1, NotHeardYet
<1>7. OneAnswerPerFile'
  BY <1>1, <1>2, <1>6 DEF HeardInv, OneAnswerPerFile
<1>8. ASSUME NEW v \in answered'
      PROVE  /\ v[1] \notin (batch').failed /\ Heard(batch', v[1])
             /\ page'[v[1]] \in Over \/ (v[1] = (batch').i /\ (batch').at = "derived")
  <2>1. CASE v = batch.u
    BY <2>1, <1>2, <1>4, <1>5 DEF Heard
  <2>2. CASE v \in answered
    BY <2>2, <1>1, <1>4, <1>6 DEF Heard
  <2>. QED BY <2>1, <2>2, <1>1
<1>. QED BY <1>3, <1>7, <1>8 DEF HeardInv

(* A file whose upload is under way is on the list: no file is taken off   *)
(* it during a batch.                                                      *)
OpenIsShown ==
  batch # None /\ batch.at \in {"wait", "derived"} => page[batch.i] # "removed"

LEMMA OpenNext == PhoneInv /\ OpenIsShown /\ [ClientNext]_clientVars => OpenIsShown'
<1> SUFFICES ASSUME PhoneInv, OpenIsShown, [ClientNext]_clientVars PROVE OpenIsShown'
  OBVIOUS
<1>1. CASE batch' = None
  BY <1>1 DEF OpenIsShown
<1>2. CASE Presses
  BY <1>2 DEF Presses, OpenIsShown
<1>3. CASE TryEnds
  BY <1>3 DEF TryEnds, Again, OpenIsShown
<1>4. CASE NextFile /\ batch' # None
  <2>1. batch \in Batch /\ batch.at = "next"
    BY <1>4 DEF NextFile, At, PhoneInv, PhoneTyped
  <2>2. (batch').at \in {"next", "probe"}
    BY <1>4, <2>1 DEF NextFile, Batch
  <2>. QED BY <2>2 DEF OpenIsShown
<1>5. CASE Sends \/ BodyIsSent
  <2>1. batch \in Batch /\ batch.i \in File
    BY <1>5 DEF Sends, BodyIsSent, At, PhoneInv, PhoneTyped, OnItsWay
  <2>2. (batch').i = batch.i
    BY <1>5, <2>1 DEF Sends, BodyIsSent, Batch
  <2>3. page'[batch.i] \in {"uploading", "done"}
    BY <1>5, <2>1 DEF Sends, BodyIsSent, PhoneInv, PhoneTyped
  <2>. QED BY <2>2, <2>3 DEF OpenIsShown
<1>6. CASE Answer201
  <2>1. batch \in Batch /\ batch # None /\ batch.at = "wait"
    BY <1>6 DEF Answer201, At, PhoneInv, PhoneTyped
  <2>2. (batch').i = batch.i
    BY <1>6, <2>1 DEF Answer201, Batch
  <2>. QED BY <1>6, <2>1, <2>2 DEF Answer201, OpenIsShown
<1>7. CASE Derives
  <2>1. batch \in Batch
    BY <1>7 DEF Derives, At, PhoneInv, PhoneTyped
  <2>2. (batch').at = "next"
    BY <1>7, <2>1 DEF Derives, Batch
  <2>. QED BY <2>2 DEF OpenIsShown
<1>8. CASE UNCHANGED <<page, batch>>
  BY <1>8 DEF OpenIsShown
<1>. QED
  BY <1>1, <1>2, <1>3, <1>4, <1>5, <1>6, <1>7, <1>8, TryEndsIs
  DEF ClientNext, PhoneStep, TakesOff, Ends, BridgeStores, BridgeAnswers, Deletes, WritesBack,
      BoardIsOff, clientVars, phoneVars

(* At the first file nothing is over yet, so the place that the progress   *)
(* of a video names is its own.                                            *)
LEMMA FirstIsFirst ==
  ASSUME PhoneInv, OpenIsShown, batch # None, batch.at = "derived", batch.i = 1,
         NEW f \in File, f # 1, page[f] # "removed"
  PROVE  Place(f) # batch.done + 1
<1> DEFINE S == {g \in 1 .. f : page[g] # "removed"}
<1>1. f \in Nat /\ f > 1
  BY UploadClientConstants DEF File
<1>2. batch.done = 0
  <2>1. Before(batch) = {}
    BY DEF Before, File
  <2>2. batch.done = Cardinality(Before(batch))
    BY DEF PhoneInv, OnItsWay
  <2>. QED BY <2>1, <2>2, FS_EmptySet
<1>3. IsFiniteSet(S)
  <2>1. IsFiniteSet(1 .. f)
    BY <1>1, FS_Interval
  <2>2. S \in SUBSET (1 .. f)
    OBVIOUS
  <2>. QED BY <2>1, <2>2, FS_Subset
<1>4. 1 \in S /\ f \in S
  BY <1>1 DEF OpenIsShown
<1>5. Cardinality(S) # 1
  <2> HIDE DEF S
  <2>. QED BY <1>1, <1>3, <1>4, FS_Singleton
<1>. QED BY <1>2, <1>5 DEF Place

LEMMA HeardDerives ==
  ASSUME Video \ TooLarge \subseteq {1}
  PROVE  PhoneInv /\ OpenIsShown /\ HeardInv /\ Derives => HeardInv'
<1> SUFFICES ASSUME PhoneInv, OpenIsShown, HeardInv, Derives PROVE HeardInv'
  OBVIOUS
<1>1. /\ answered' = answered /\ batch # None /\ batch.at = "derived"
      /\ OneAnswerPerFile'
  BY DEF Derives, At, HeardInv, OneAnswerPerFile
<1>2. /\ batch \in Batch /\ batch.i \in File /\ batch.i \in Nat /\ batch.i \notin batch.failed
      /\ batch.i \in Video => batch.i = 1
  BY <1>1 DEF PhoneInv, PhoneTyped, OnItsWay, File
<1>3. \A f \in File : page'[f] = IF f = batch.i THEN "done" ELSE page[f]
  <2> SUFFICES ASSUME NEW f \in File, f # batch.i PROVE page'[f] = page[f]
    BY DEF Derives
  <2>1. ~(batch.i \in Video /\ Place(f) = batch.done + 1 /\ page[f] # "removed")
    BY <1>1, <1>2, FirstIsFirst
  <2> DEFINE Q(g) == batch.i \in Video /\ Place(g) = batch.done + 1 /\ page[g] # "removed"
  <2>2. page' = [g \in File |-> IF g = batch.i THEN "done" ELSE IF Q(g) THEN "uploading"
                                ELSE page[g]]
    BY DEF Derives
  <2>3. ~Q(f)
    BY <2>1
  <2> HIDE DEF Q
  <2>. QED BY <2>2, <2>3
<1>4. /\ (batch').failed = batch.failed /\ (batch').skip = batch.skip
      /\ (batch').i = batch.i + 1
  BY <1>2 DEF Derives, Batch
<1>5. batch' # None
  BY DerivesKeeps
<1>6. ASSUME NEW v \in answered
      PROVE  /\ v[1] \notin (batch').failed /\ Heard(batch', v[1])
             /\ page'[v[1]] \in Over
  <2>1. /\ v[1] \notin batch.failed /\ Heard(batch, v[1])
        /\ page[v[1]] \in Over \/ v[1] = batch.i
    BY <1>1 DEF HeardInv
  <2>2. v[1] \in File /\ v[1] \in Nat
    BY AnsweredFile
  <2>3. Heard(batch', v[1])
    BY <1>2, <1>4, <2>1, <2>2 DEF Heard
  <2>4. page'[v[1]] \in Over
    BY <1>3, <2>1, <2>2 DEF Over
  <2>. QED BY <1>4, <2>1, <2>3, <2>4
<1>. QED BY <1>1, <1>5, <1>6 DEF HeardInv

LEMMA HeardBridge ==
  ASSUME HeardInv,
         \/ \E u \in Upload : BridgeStores(u) \/ BridgeAnswers(u)
         \/ \E p \in Path : Deletes(p)
         \/ WritesBack \/ BoardIsOff \/ UNCHANGED clientVars
  PROVE  HeardInv'
<1>1. UNCHANGED <<page, batch, answered>>
  BY DEF BridgeStores, BridgeAnswers, Deletes, WritesBack, BoardIsOff, clientVars, phoneVars
<1>. QED BY <1>1 DEF HeardInv, OneAnswerPerFile, Heard

LEMMA HeardNext ==
  ASSUME Video \ TooLarge \subseteq {1}
  PROVE  PhoneInv /\ OpenIsShown /\ HeardInv /\ [ClientNext]_clientVars => HeardInv'
<1> SUFFICES ASSUME PhoneInv, OpenIsShown, HeardInv, [ClientNext]_clientVars PROVE HeardInv'
  OBVIOUS
<1>. QED
  BY HeardTry, HeardPress, HeardNextFile, HeardEnds, HeardSend, HeardAnswer, HeardDerives,
     HeardBridge, TryEndsIs
  DEF ClientNext, PhoneStep

(* Every reachable state of phone and store satisfies PhoneInv.            *)
THEOREM PhoneInvariant == ClientSpec => []PhoneInv
BY InitIsPhoneInv, PhoneNext, PTL DEF ClientSpec

(* What the page shows as done between two batches was acknowledged and is *)
(* on the card until it is deleted, whatever was retried, lost or killed,  *)
(* and whichever files are videos.                                         *)
THEOREM DoneFilesAreStored == ClientSpec => []DoneIsStored
BY PhoneInvariant, PhoneInvIsEnough, PTL

(* Phone and store agree.  That no upload is answered twice needs that no  *)
(* video small enough to be sent stands behind another file: its progress  *)
(* is told for the place `done`, which is its own only at the first file.  *)
(* Behind another one it sets that file back, and a file that is done is   *)
(* then sent again (the counterexample of UploadClient_index.cfg).         *)
THEOREM PhoneAgrees ==
  ASSUME Video \ TooLarge \subseteq {1}
  PROVE  ClientSpec => []PhoneAndStoreAgree
<1>1. ClientInit => HeardInv /\ OpenIsShown
  BY DEF ClientInit, HeardInv, OneAnswerPerFile, OpenIsShown
<1>2. PhoneInv /\ OpenIsShown /\ HeardInv /\ [ClientNext]_clientVars => HeardInv'
  BY HeardNext
<1>3. PhoneInv /\ HeardInv => PhoneAndStoreAgree
  BY PhoneInvIsEnough DEF HeardInv, PhoneAndStoreAgree
<1>. QED BY <1>1, <1>2, <1>3, OpenNext, PhoneInvariant, PTL DEF ClientSpec

-----------------------------------------------------------------------------
(***************************************************************************)
(* The command server: what becomes of a command.                          *)
(***************************************************************************)
(* The processes of a command and its output, in every place of the daemon. *)
RunTyped ==
  /\ spc \in {"load", "loop", "calling", "accept", "handle", "read", "wait", "reply", "stopped"}
  /\ live \subseteq {"leader", "helper"} /\ writers \subseteq live /\ away \subseteq live
  /\ written \in Nat /\ taken \in Nat /\ out \in Seq({1, 2, 6})
  /\ Len(out) <= taken /\ taken <= written /\ Len(out) <= MaxOut /\ elapsed \in 0 .. Timeout
  /\ cutOff \in BOOLEAN /\ timedOut \in BOOLEAN /\ gStop \in BOOLEAN /\ served \in Nat

(* After a timeout nothing of the group is left; what was read is kept, or *)
(* the loss is known; without a timeout all of it was read.                *)
KilledOnTime == timedOut => spc # "read" /\ live \subseteq away
LossIsKnown  == ~cutOff => Len(out) = taken
AllIsRead    == spc # "read" /\ ~timedOut => writers = {} /\ taken = written

Answered == {"loop", "calling", "accept", "stopped"}

(* The last reply is the one of the last command.                          *)
ReplyIsOfTheRun ==
  reply # Absent =>
    /\ spc \in Answered
    /\ reply.run => /\ reply.timed_out = timedOut
                    /\ reply.truncated = cutOff
                    /\ reply.len = Shown

(* A stop is seen before the next accept, but for the one entered already. *)
StopIsSeen ==
  /\ late \in {0, 1}
  /\ ~gStop => late = 0
  /\ gStop => spc # "load"
  /\ late = 1 => spc \notin {"calling", "accept"}

LEMMA SameIsShown == UNCHANGED out => UNCHANGED Shown
BY DEF Shown, Escaped

RunInv ==
  /\ RunTyped /\ KilledOnTime /\ LossIsKnown /\ AllIsRead
  /\ ReplyIsOfTheRun /\ StopIsSeen

LEMMA RunInit == ShcmdInit => RunInv
<1> SUFFICES ASSUME ShcmdInit PROVE RunInv
  OBVIOUS
<1>1. 0 <= MaxOut /\ 0 \in 0 .. Timeout
  BY ShcmdConstants
<1>2. RunTyped
  <2>1. live \subseteq {"leader", "helper"} /\ writers \subseteq live /\ away \subseteq live
    BY DEF ShcmdInit
  <2>2. /\ written \in Nat /\ taken \in Nat /\ out \in Seq({1, 2, 6})
        /\ Len(out) <= taken /\ taken <= written /\ Len(out) <= MaxOut /\ elapsed \in 0 .. Timeout
        /\ served \in Nat
    BY <1>1 DEF ShcmdInit
  <2>3. cutOff \in BOOLEAN /\ timedOut \in BOOLEAN /\ gStop \in BOOLEAN
    BY DEF ShcmdInit
  <2>4. spc = "load"
    BY DEF ShcmdInit
  <2>. QED BY <2>1, <2>2, <2>3, <2>4 DEF RunTyped
<1>3. KilledOnTime /\ LossIsKnown /\ AllIsRead /\ ReplyIsOfTheRun /\ StopIsSeen
  BY DEF ShcmdInit, KilledOnTime, LossIsKnown, AllIsRead, ReplyIsOfTheRun, StopIsSeen
<1>. QED BY <1>2, <1>3 DEF RunInv

(* Steps that leave the command and its output alone.                      *)
LEMMA DaemonKeepsRun ==
  ASSUME RunInv, LoadLine \/ Listen \/ Turn \/ Blocks \/ Signal \/ Refuse
                 \/ UNCHANGED shcmdVars \/ \E r \in Requests : Accept(r)
  PROVE  RunInv'
<1> USE DEF RunInv
<1>1. /\ UNCHANGED <<live, writers, away, written, taken, out, elapsed, cutOff, timedOut>>
      /\ served' \in {served, served + 1}
  BY DEF LoadLine, Listen, Turn, Blocks, Signal, Refuse, Accept, group, result, shcmdVars
<1>2. /\ spc' \in {"load", "loop", "calling", "accept", "handle", "read", "wait", "reply",
                   "stopped"}
      /\ spc' = "read" <=> spc = "read"
  BY DEF LoadLine, Listen, Turn, Blocks, Signal, Refuse, Accept, RunTyped, shcmdVars
<1>3. gStop' \in BOOLEAN
  BY DEF LoadLine, Listen, Turn, Blocks, Signal, Refuse, Accept, RunTyped, shcmdVars
<1>4. RunTyped'
  BY <1>1, <1>2, <1>3 DEF RunTyped
<1>5. KilledOnTime' /\ LossIsKnown' /\ AllIsRead'
  BY <1>1, <1>2 DEF KilledOnTime, LossIsKnown, AllIsRead
<1>6. ReplyIsOfTheRun'
  <2>1. CASE Refuse
    <3>1. reply'.run = FALSE /\ spc' = "loop"
      BY <2>1 DEF Refuse
    <3>. QED BY <3>1 DEF ReplyIsOfTheRun, Answered
  <2>2. CASE \E r \in Requests : Accept(r)
    BY <2>2 DEF Accept, ReplyIsOfTheRun
  <2>3. CASE LoadLine \/ Listen \/ Turn \/ Blocks \/ Signal \/ UNCHANGED shcmdVars
    <3>1. reply' = reply /\ (spc \in Answered => spc' \in Answered)
      BY <2>3 DEF LoadLine, Listen, Turn, Blocks, Signal, shcmdVars, Answered
    <3>. QED BY <3>1, <1>1, SameIsShown DEF ReplyIsOfTheRun
  <2>. QED BY <2>1, <2>2, <2>3
<1>7. StopIsSeen'
  <2>1. CASE \E r \in Requests : Accept(r)
    BY <2>1 DEF Accept, StopIsSeen, RunTyped
  <2>2. CASE Signal
    BY <2>2 DEF Signal, StopIsSeen
  <2>3. CASE Turn
    BY <2>3 DEF Turn, StopIsSeen
  <2>4. CASE LoadLine \/ Listen \/ Blocks \/ Refuse \/ UNCHANGED shcmdVars
    BY <2>4 DEF LoadLine, Listen, Blocks, Refuse, shcmdVars, StopIsSeen
  <2>. QED BY <2>1, <2>2, <2>3, <2>4
<1>. QED BY <1>4, <1>5, <1>6, <1>7

LEMMA StartKeepsRun == RunInv /\ (StartCommand \/ StartFails) => RunInv'
<1> SUFFICES ASSUME RunInv, StartCommand \/ StartFails PROVE RunInv'
  OBVIOUS
<1> USE DEF RunInv
<1>1. /\ UNCHANGED <<gStop, served, late, reply>> /\ spc = "handle"
      /\ spc' \in {"read", "reply"}
  BY DEF StartCommand, StartFails
<1>2. ReplyIsOfTheRun' /\ StopIsSeen'
  BY <1>1 DEF ReplyIsOfTheRun, StopIsSeen, Answered
<1>3. 0 <= MaxOut /\ 2 <= MaxOut /\ 0 \in 0 .. Timeout
  BY ShcmdConstants
<1>4. CASE StartCommand
  <2>1. /\ live' = {"leader"} /\ writers' = {"leader"} /\ away' = {} /\ written' = 0
        /\ taken' = 0 /\ out' = <<>> /\ elapsed' = 0 /\ cutOff' = FALSE /\ timedOut' = FALSE
        /\ spc' = "read"
    BY <1>4 DEF StartCommand
  <2>2. RunTyped'
    <3>1. /\ live' \subseteq {"leader", "helper"} /\ writers' \subseteq live'
          /\ away' \subseteq live'
      BY <2>1
    <3>2. /\ out' \in Seq({1, 2, 6}) /\ Len(out') = taken'
      BY <2>1
    <3>4. /\ written' \in Nat /\ taken' \in Nat /\ taken' <= written' /\ taken' <= MaxOut
          /\ elapsed' \in 0 .. Timeout
      BY <1>3, <2>1
    <3>3. cutOff' \in BOOLEAN /\ timedOut' \in BOOLEAN
      BY <2>1
    <3>. QED BY <1>1, <3>1, <3>2, <3>3, <3>4 DEF RunTyped
  <2>3. KilledOnTime' /\ LossIsKnown' /\ AllIsRead'
    BY <2>1 DEF KilledOnTime, LossIsKnown, AllIsRead
  <2>. QED BY <1>2, <2>2, <2>3
<1>5. CASE StartFails
  <2>1. /\ live' = {} /\ writers' = {} /\ away' = {} /\ written' = 2
        /\ taken' = 2 /\ out' = <<1, 1>> /\ elapsed' = 0 /\ cutOff' = FALSE /\ timedOut' = FALSE
        /\ spc' = "reply"
    BY <1>5 DEF StartFails
  <2>2. RunTyped'
    <3>1. /\ live' \subseteq {"leader", "helper"} /\ writers' \subseteq live'
          /\ away' \subseteq live'
      BY <2>1
    <3>2. /\ out' \in Seq({1, 2, 6}) /\ Len(out') = taken'
      BY <2>1
    <3>4. /\ written' \in Nat /\ taken' \in Nat /\ taken' <= written' /\ taken' <= MaxOut
          /\ elapsed' \in 0 .. Timeout
      BY <1>3, <2>1
    <3>3. cutOff' \in BOOLEAN /\ timedOut' \in BOOLEAN
      BY <2>1
    <3>. QED BY <1>1, <3>1, <3>2, <3>3, <3>4 DEF RunTyped
  <2>3. KilledOnTime' /\ LossIsKnown' /\ AllIsRead'
    BY <2>1 DEF KilledOnTime, LossIsKnown, AllIsRead
  <2>. QED BY <1>2, <2>2, <2>3
<1>. QED BY <1>4, <1>5

(* What the processes of the command do.                                   *)
LEMMA CommandKeepsRun ==
  ASSUME RunInv,
         \/ Forks \/ LeavesGroup \/ Second
         \/ \E p \in {"leader", "helper"} : Writes(p) \/ ClosesPipe(p) \/ Exits(p)
  PROVE  RunInv'
<1> USE DEF RunInv
<1>1. UNCHANGED <<spc, gStop, served, late, reply, taken, out, cutOff, timedOut>>
  BY DEF Forks, LeavesGroup, Second, Writes, ClosesPipe, Exits, watching, result
<1>2. spc \in {"read", "wait"}
  BY DEF Forks, LeavesGroup, Second, Writes, ClosesPipe, Exits
<1>3. ReplyIsOfTheRun' /\ StopIsSeen'
  BY <1>1, SameIsShown DEF ReplyIsOfTheRun, StopIsSeen
<1>4. LossIsKnown'
  BY <1>1 DEF LossIsKnown
<1>5. RunTyped'
  <2>1. /\ live' \subseteq {"leader", "helper"} /\ writers' \subseteq live' /\ away' \subseteq live'
    BY DEF Forks, LeavesGroup, Second, Writes, ClosesPipe, Exits, RunTyped, group
  <2>2. written' \in Nat /\ taken <= written'
    BY DEF Forks, LeavesGroup, Second, Writes, ClosesPipe, Exits, RunTyped, group
  <2>3. elapsed' \in 0 .. Timeout
    BY ShcmdConstants DEF Forks, LeavesGroup, Second, Writes, ClosesPipe, Exits, RunTyped, result
  <2>. QED BY <1>1, <2>1, <2>2, <2>3 DEF RunTyped
<1>6. KilledOnTime'
  BY <1>1 DEF Forks, LeavesGroup, Second, Writes, ClosesPipe, Exits, KilledOnTime, group
<1>7. AllIsRead'
  BY <1>1 DEF Forks, LeavesGroup, Second, Writes, ClosesPipe, Exits, AllIsRead, group
<1>. QED BY <1>3, <1>4, <1>5, <1>6, <1>7

LEMMA ReadingKeepsRun ==
  RunInv /\ (TimesOut \/ ReadsOutput \/ EndOfFile \/ Reaped \/ Reply) => RunInv'
<1> SUFFICES ASSUME RunInv, TimesOut \/ ReadsOutput \/ EndOfFile \/ Reaped \/ Reply PROVE RunInv'
  OBVIOUS
<1> USE DEF RunInv
<1>1. UNCHANGED <<gStop, served, late>> /\ spc \in {"read", "wait", "reply"}
  BY DEF TimesOut, ReadsOutput, EndOfFile, Reaped, Reply, watching, outside
<1>2. StopIsSeen'
  BY <1>1 DEF TimesOut, ReadsOutput, EndOfFile, Reaped, Reply, watching, StopIsSeen
<1>3. CASE TimesOut
  BY <1>2, <1>3 DEF TimesOut, outside, RunTyped, KilledOnTime, LossIsKnown, AllIsRead,
                    ReplyIsOfTheRun, Answered
<1>4. CASE ReadsOutput
  <2>1. /\ UNCHANGED <<spc, reply, live, writers, away, written, elapsed, timedOut>>
        /\ spc = "read" /\ taken < written /\ taken' = taken + 1
        /\ \/ Len(out) < MaxOut /\ \E w \in Widths : out' = Append(out, w)
           \/ Len(out) = MaxOut /\ UNCHANGED out
        /\ cutOff' = (cutOff \/ Len(out) + 1 >= MaxOut)
    BY <1>4 DEF ReadsOutput, watching, group
  <2>2. /\ out' \in Seq({1, 2, 6}) /\ Len(out') <= MaxOut /\ Len(out') <= Len(out) + 1
        /\ Len(out) < MaxOut => Len(out') = Len(out) + 1
    <3>1. out \in Seq({1, 2, 6}) /\ Len(out) <= MaxOut /\ Len(out) \in Nat /\ MaxOut \in Nat
      BY ShcmdConstants DEF RunTyped
    <3>2. CASE Len(out) < MaxOut
      <4>1. PICK w \in Widths : out' = Append(out, w)
        BY <2>1, <3>1, <3>2
      <4>2. w \in {1, 2, 6}
        BY ShcmdConstants
      <4>3. out' \in Seq({1, 2, 6}) /\ Len(out') = Len(out) + 1
        BY <3>1, <4>1, <4>2, AppendProperties
      <4>. QED BY <3>1, <3>2, <4>3
    <3>3. CASE ~(Len(out) < MaxOut)
      BY <2>1, <3>1, <3>3
    <3>. QED BY <3>2, <3>3
  <2>7. Len(out') <= taken' /\ taken' <= written /\ taken' \in Nat
    <3>1. Len(out) \in Nat /\ Len(out') \in Nat /\ Len(out) <= taken /\ taken \in Nat /\ written \in Nat
      BY <2>2 DEF RunTyped
    <3>. QED BY <2>1, <2>2, <3>1
  <2>3. cutOff' \in BOOLEAN
    BY <2>1
  <2>4. RunTyped'
    BY <1>1, <2>1, <2>2, <2>3, <2>7 DEF RunTyped
  <2>5. LossIsKnown'
    <3>1. ~cutOff' => ~cutOff /\ ~(Len(out) + 1 >= MaxOut)
      BY <2>1
    <3>2. Len(out) \in Nat /\ MaxOut \in Nat
      BY ShcmdConstants DEF RunTyped
    <3>3. ~(Len(out) + 1 >= MaxOut) => Len(out') = Len(out) + 1
      BY <2>2, <3>2
    <3>. QED BY <3>1, <3>3, <2>1 DEF LossIsKnown
  <2>6. KilledOnTime' /\ AllIsRead' /\ ReplyIsOfTheRun'
    BY <2>1 DEF KilledOnTime, AllIsRead, ReplyIsOfTheRun, Answered
  <2>. QED BY <1>2, <2>4, <2>5, <2>6
<1>5. CASE EndOfFile \/ Reaped
  <2>1. UNCHANGED <<reply, live, writers, away, written, taken, out, elapsed, cutOff, timedOut>>
        /\ spc' \in {"wait", "reply"}
    BY <1>5 DEF EndOfFile, Reaped, group, result
  <2>2. RunTyped' /\ KilledOnTime' /\ LossIsKnown'
    BY <1>1, <2>1 DEF RunTyped, KilledOnTime, LossIsKnown
  <2>3. AllIsRead'
    BY <1>5, <2>1 DEF EndOfFile, Reaped, AllIsRead
  <2>4. ReplyIsOfTheRun'
    BY <1>1, <2>1 DEF ReplyIsOfTheRun, Answered
  <2>. QED BY <1>2, <2>2, <2>3, <2>4
<1>6. CASE Reply
  <2>1. UNCHANGED <<live, writers, away, written, taken, out, elapsed, cutOff, timedOut>>
        /\ spc' = "loop" /\ spc = "reply"
    BY <1>6 DEF Reply, group, result
  <2>2. RunTyped' /\ KilledOnTime' /\ LossIsKnown' /\ AllIsRead'
    BY <1>1, <2>1 DEF RunTyped, KilledOnTime, LossIsKnown, AllIsRead
  <2>3. reply'.len = Shown /\ reply'.truncated = cutOff /\ reply'.timed_out = timedOut
    BY <1>6 DEF Reply
  <2>4. ReplyIsOfTheRun'
    BY <2>1, <2>3, SameIsShown DEF ReplyIsOfTheRun, Answered
  <2>. QED BY <1>2, <2>2, <2>4
<1>. QED BY <1>3, <1>4, <1>5, <1>6

LEMMA RunNext == RunInv /\ [ShcmdNext]_shcmdVars => RunInv'
BY DaemonKeepsRun, StartKeepsRun, CommandKeepsRun, ReadingKeepsRun DEF ShcmdNext, ShcmdStep

(* How long the escaped bytes are at most, and how much shorter if one of  *)
(* them is not a control character.                                        *)
LEMMA EscapedLength ==
  ASSUME NEW n \in Nat, \A i \in 1 .. n : out[i] \in {1, 2, 6}
  PROVE  /\ Escaped(n) \in Nat /\ Escaped(n) <= 6 * n
         /\ (\E i \in 1 .. n : out[i] # 6) => Escaped(n) <= 6 * n - 4
<1>. DEFINE S == 1 .. n
            A == {i \in S : out[i] = 2}
            B == {i \in S : out[i] = 6}
            C == S \ B
<1>1. IsFiniteSet(S) /\ Cardinality(S) = n
  BY FS_Interval, 1 \in Int, n \in Int, 1 <= n + 1
<1>2. /\ IsFiniteSet(C) /\ IsFiniteSet(B) /\ IsFiniteSet(A)
      /\ Cardinality(A) \in Nat /\ Cardinality(B) \in Nat /\ Cardinality(C) \in Nat
  BY <1>1, FS_Subset, FS_CardinalityType, A \subseteq S, B \subseteq S, C \subseteq S
<1>3. Cardinality(A) <= Cardinality(C)
  BY <1>2, FS_Subset, A \subseteq C
<1>4. Cardinality(B) + Cardinality(C) = n
  <2>1. Cardinality(C) = Cardinality(S) - Cardinality(S \cap B)
    BY <1>1, <1>2, FS_Difference
  <2>2. S \cap B = B
    OBVIOUS
  <2>3. Cardinality(C) = n - Cardinality(B)
    BY <1>1, <2>1, <2>2, Zenon
  <2>. HIDE DEF S, B, C
  <2>. QED BY <1>2, <2>3
<1>5. Escaped(n) = n + Cardinality(A) + 5 * Cardinality(B)
  BY DEF Escaped
<1>. HIDE DEF A, B, C
<1>6. Escaped(n) \in Nat /\ Escaped(n) <= 6 * n
  BY <1>2, <1>3, <1>4, <1>5
<1>7. ASSUME NEW j \in S, out[j] # 6 PROVE Escaped(n) <= 6 * n - 4
  <2>1. Cardinality(A) + Cardinality(B) <= n
    BY <1>2, <1>3, <1>4
  <2>2. Cardinality(C) # 0
    BY <1>2, <1>7, FS_EmptySet DEF C, B
  <2>. QED BY <1>2, <1>4, <1>5, <2>1, <2>2
<1>. QED BY <1>6, <1>7

(* All bytes are shown, or all but the last behind control characters.     *)
LEMMA AlmostAllIsShown ==
  ASSUME out \in Seq({1, 2, 6})
  PROVE  \/ Shown = Len(out)
         \/ Shown = Len(out) - 1 /\ \A i \in 1 .. (Len(out) - 1) : out[i] = 6
<1>. DEFINE l == Len(out)
            S == {n \in 0 .. (l - 1) : Escaped(n) + 8 < 6 * l + 1}
<1>1. l \in Nat /\ \A i \in 1 .. l : out[i] \in {1, 2, 6}
  OBVIOUS
<1>2. Shown = Cardinality(S)
  BY DEF Shown
<1>3. CASE l = 0
  <2>1. S = {}
    BY <1>3
  <2>. QED BY <1>2, <1>3, <2>1, FS_EmptySet
<1>4. CASE l # 0
  <2>1. l - 1 \in Nat /\ l - 2 \in Int
    BY <1>1, <1>4
  <2>2. ASSUME NEW n \in 0 .. (l - 1)
        PROVE  /\ n \in Nat /\ Escaped(n) \in Nat /\ Escaped(n) <= 6 * n
               /\ (\E i \in 1 .. n : out[i] # 6) => Escaped(n) <= 6 * n - 4
    <3>1. n \in Nat /\ \A i \in 1 .. n : out[i] \in {1, 2, 6}
      BY <1>1
    <3>. QED BY <3>1, EscapedLength
  <2>3. \A n \in 0 .. (l - 2) : n \in S
    <3>1. ASSUME NEW n \in 0 .. (l - 2) PROVE n \in S
      <4>1. n \in 0 .. (l - 1) /\ 6 * n <= 6 * l - 12 /\ n \in Nat
        BY <1>1
      <4>2. Escaped(n) \in Nat /\ Escaped(n) <= 6 * n
        BY <2>2, <4>1
      <4>. QED BY <1>1, <4>1, <4>2
    <3>. QED BY <3>1
  <2>4. CASE l - 1 \in S
    <3>1. S = 0 .. (l - 1)
      <4>1. 0 .. (l - 1) = (0 .. (l - 2)) \cup {l - 1}
        BY <1>1, <2>1
      <4>2. S \subseteq 0 .. (l - 1)
        OBVIOUS
      <4>. HIDE DEF S
      <4>. QED BY <2>3, <2>4, <4>1, <4>2, Zenon
    <3>2. Cardinality(0 .. (l - 1)) = l
      BY <1>1, <2>1, FS_Interval, 0 \in Int, l - 1 \in Int
    <3>. QED BY <1>2, <3>1, <3>2
  <2>5. CASE l - 1 \notin S
    <3>1. S = 0 .. (l - 2)
      <4>1. 0 .. (l - 1) = (0 .. (l - 2)) \cup {l - 1}
        BY <1>1, <2>1
      <4>2. S \subseteq 0 .. (l - 1)
        OBVIOUS
      <4>. HIDE DEF S
      <4>. QED BY <2>3, <2>5, <4>1, <4>2, Zenon
    <3>2. Cardinality(0 .. (l - 2)) = l - 1
      BY <1>1, <2>1, FS_Interval, 0 \in Int, l - 2 \in Int
    <3>3. \A i \in 1 .. (l - 1) : out[i] = 6
      <4>1. l - 1 \in 0 .. (l - 1) /\ Escaped(l - 1) \in Nat
        BY <2>1, <2>2
      <4>2. ~(Escaped(l - 1) <= 6 * (l - 1) - 4)
        BY <1>1, <2>5, <4>1
      <4>. QED BY <2>2, <4>1, <4>2
    <3>4. Shown = l - 1
      BY <1>2, <3>1, <3>2, Zenon
    <3>. QED BY <3>3, <3>4
  <2>. QED BY <2>4, <2>5
<1>. QED BY <1>3, <1>4

LEMMA RunInvTells == RunInv => RunsAreTold
<1> SUFFICES ASSUME RunInv PROVE RunsAreTold
  OBVIOUS
<1>1. NoneOutlivesTheTimeout
  BY DEF RunInv, NoneOutlivesTheTimeout, ReplyIsOfTheRun, KilledOnTime
<1>2. LostOutputIsTold
  <2> SUFFICES ASSUME reply # Absent, reply.run, ~reply.truncated, ~reply.timed_out
      PROVE  \/ reply.len = written
             \/ reply.len = written - 1 /\ \A i \in 1 .. (written - 1) : out[i] = 6
    BY DEF LostOutputIsTold
  <2>1. spc # "read" /\ ~timedOut /\ ~cutOff /\ reply.len = Shown
    BY DEF RunInv, ReplyIsOfTheRun, Answered
  <2>2. Len(out) = written /\ out \in Seq({1, 2, 6})
    BY <2>1 DEF RunInv, RunTyped, AllIsRead, LossIsKnown
  <2>. QED BY <2>1, <2>2, AlmostAllIsShown
<1>3. OneMoreAfterStop
  BY DEF RunInv, StopIsSeen, OneMoreAfterStop
<1>. QED BY <1>1, <1>2, <1>3 DEF RunsAreTold

-----------------------------------------------------------------------------
(***************************************************************************)
(* The command server: configuration and requests.                         *)
(***************************************************************************)
LEMMA LeastNumber ==
  ASSUME NEW S \in SUBSET Nat, S # {}
  PROVE  \E i \in S : \A j \in S : i <= j
<1>1. \E i \in S : \A j \in S : ~ (<<j, i>> \in OpToRel(<, Nat))
  BY NatLessThanWellFounded, WFMin
<1>2. PICK i \in S : \A j \in S : ~ (<<j, i>> \in OpToRel(<, Nat))
  BY <1>1
<1>3. ASSUME NEW j \in S PROVE i <= j
  <2>1. ~ (<<j, i>> \in OpToRel(<, Nat))
    BY <1>2
  <2>2. ~ (j < i)
    BY <2>1 DEF OpToRel
  <2>. QED BY <2>2
<1>. QED BY <1>3

(* The sequences of the configuration, of whatever they are.               *)
Listed(s) == s \in Seq({s[i] : i \in 1 .. Len(s)})

LEMMA EmptyList == Listed(<<>>) /\ Len(<<>>) = 0
BY EmptySeq DEF Listed

LEMMA ListedIs == ASSUME NEW S, NEW s \in Seq(S) PROVE Listed(s)
<1> DEFINE T == {s[i] : i \in 1 .. Len(s)}
<1>1. s \in [1 .. Len(s) -> T] /\ Len(s) \in Nat
  BY LenProperties
<1>2. s = [i \in 1 .. Len(s) |-> s[i]]
  BY <1>1
<1>. QED BY <1>1, <1>2 DEF Listed

LEMMA AppendTo ==
  ASSUME NEW s, Listed(s), NEW x
  PROVE  /\ Listed(Append(s, x)) /\ Len(s) \in Nat /\ Len(Append(s, x)) = Len(s) + 1
         /\ \A i \in 1 .. Len(s) : Append(s, x)[i] = s[i]
         /\ Append(s, x)[Len(s) + 1] = x
<1> DEFINE T == {s[i] : i \in 1 .. Len(s)} \cup {x}
<1>1. s \in Seq(T)
  <2>1. {s[i] : i \in 1 .. Len(s)} \subseteq T
    OBVIOUS
  <2>. QED BY <2>1, SeqMonotonic DEF Listed
<1>2. x \in T
  OBVIOUS
<1> HIDE DEF T
<1>3. /\ Append(s, x) \in Seq(T) /\ Len(s) \in Nat /\ Len(Append(s, x)) = Len(s) + 1
      /\ \A i \in 1 .. Len(s) : Append(s, x)[i] = s[i]
      /\ Append(s, x)[Len(s) + 1] = x
  BY <1>1, <1>2
<1>4. Listed(Append(s, x))
  BY <1>3, ListedIs
<1>. QED BY <1>3, <1>4

With(s, k, x) == [s EXCEPT ![k] = x]

LEMMA ChangeIn ==
  ASSUME NEW s, Listed(s), NEW k \in 1 .. Len(s), NEW x
  PROVE  /\ Listed(With(s, k, x)) /\ Len(With(s, k, x)) = Len(s)
         /\ \A i \in 1 .. Len(s) : With(s, k, x)[i] = IF i = k THEN x ELSE s[i]
<1> DEFINE T == {s[i] : i \in 1 .. Len(s)} \cup {x}
<1>1. s \in Seq(T)
  <2>1. {s[i] : i \in 1 .. Len(s)} \subseteq T
    OBVIOUS
  <2>. QED BY <2>1, SeqMonotonic DEF Listed
<1>2. x \in T
  OBVIOUS
<1> HIDE DEF T
<1>3. /\ With(s, k, x) \in Seq(T)
      /\ Len(With(s, k, x)) = Len(s)
      /\ \A i \in 1 .. Len(s) : With(s, k, x)[i] = IF i = k THEN x ELSE s[i]
  BY <1>1, <1>2, ExceptSeq DEF With
<1>4. Listed(With(s, k, x))
  BY <1>3, ListedIs
<1>. QED BY <1>3, <1>4

LEMMA TailOf ==
  ASSUME NEW s, Listed(s), s # <<>>
  PROVE  /\ Listed(Tail(s)) /\ Len(s) \in Nat \ {0} /\ Len(Tail(s)) = Len(s) - 1 /\ Head(s) = s[1]
         /\ \A i \in 1 .. Len(s) - 1 : Tail(s)[i] = s[i + 1]
<1> DEFINE T == {s[i] : i \in 1 .. Len(s)}
<1>1. s \in Seq(T)
  BY DEF Listed
<1> HIDE DEF T
<1>2. /\ Tail(s) \in Seq(T) /\ Len(Tail(s)) = Len(s) - 1 /\ Len(s) \in Nat \ {0}
      /\ \A i \in 1 .. Len(Tail(s)) : Tail(s)[i] = s[i + 1]
  BY <1>1, HeadTailProperties, EmptySeq
<1>3. Head(s) = s[1]
  BY <1>1
<1>4. Listed(Tail(s))
  BY <1>2, ListedIs
<1>. QED BY <1>2, <1>3, <1>4

-----------------------------------------------------------------------------
(* The configuration.                                                      *)
EntryIs(e) ==
  /\ e = [name |-> e.name, danger |-> e.danger, args |-> e.args, argv |-> e.argv]
  /\ e.args = [i \in 1 .. MaxArgs |-> e.args[i]]
  /\ e.argv \in Seq([hole : Nat]) /\ Len(e.argv) \in 1 .. MaxCmdArgv

ConfIs(c) ==
  /\ c = [tokens |-> c.tokens, addrs |-> c.addrs, entries |-> c.entries, max |-> c.max]
  /\ Listed(c.tokens) /\ Listed(c.addrs) /\ Listed(c.entries) /\ c.max \in 0 .. MaxArgs
  /\ Len(c.tokens) <= MaxTokens /\ Len(c.addrs) <= MaxAddrs /\ Len(c.entries) <= MaxEntries
  /\ \A i \in 1 .. Len(c.entries) : EntryIs(c.entries[i])

LineIs(l) ==
  /\ l.dir = "command" => l.argv \in Seq([hole : Nat]) /\ l.argv # <<>>
  /\ l.dir = "max_args" => l.n \in Int

(* A new entry, and one of which a line sets a part.                       *)
LEMMA NewEntryIs ==
  ASSUME NEW l, LineIs(l), l.dir = "command"
  PROVE  EntryIs(NewEntry(l)) /\ NewEntry(l).name = l.name /\ NewEntry(l).danger = Absent
         /\ \A s \in 1 .. MaxArgs : NewEntry(l).args[s] = NoSpec
<1> DEFINE n == IF Len(l.argv) < MaxCmdArgv THEN Len(l.argv) ELSE MaxCmdArgv
<1>1. Len(l.argv) \in Nat \ {0} /\ MaxCmdArgv \in Nat \ {0}
  BY ShcmdConstants, LenProperties, EmptySeq DEF LineIs
<1>2. n \in 1 .. MaxCmdArgv /\ n <= Len(l.argv) /\ n \in Int
  BY <1>1
<1>3. \A i \in 1 .. n : l.argv[i] \in [hole : Nat]
  <2>1. l.argv \in Seq([hole : Nat])
    BY DEF LineIs
  <2>2. \A i \in 1 .. n : i \in 1 .. Len(l.argv)
    BY <1>1, <1>2
  <2>. QED BY <2>1, <2>2, ElementOfSeq
<1>4. NewEntry(l) = [name |-> l.name, danger |-> Absent, args |-> [i \in 1 .. MaxArgs |-> NoSpec],
                     argv |-> SubSeq(l.argv, 1, n)]
  BY DEF NewEntry
<1> HIDE DEF n
<1>5. SubSeq(l.argv, 1, n) \in Seq([hole : Nat]) /\ Len(SubSeq(l.argv, 1, n)) = n
  BY <1>2, <1>3, SubSeqProperties
<1>. QED BY <1>2, <1>4, <1>5 DEF EntryIs

LEMMA DescribedIs ==
  ASSUME NEW e, EntryIs(e), NEW l, l.dir = "danger" \/ (l.dir = "arg" /\ l.slot \in 1 .. MaxArgs)
  PROVE  /\ EntryIs(Described(e, l)) /\ Described(e, l).name = e.name
         /\ Described(e, l).danger \in {e.danger, l.under}
         /\ \A s \in 1 .. MaxArgs : Described(e, l).args[s].under \in {e.args[s].under, l.under}
<1>1. CASE l.dir = "danger"
  <2>1. Described(e, l) = [e EXCEPT !.danger = l.under]
    BY <1>1 DEF Described
  <2>2. Described(e, l) = [name |-> e.name, danger |-> l.under, args |-> e.args, argv |-> e.argv]
    BY <2>1 DEF EntryIs
  <2>. QED BY <2>2 DEF EntryIs
<1>2. CASE l.dir # "danger" /\ l.dir = "arg" /\ l.slot \in 1 .. MaxArgs
  <2> DEFINE a == [may |-> l.may, required |-> l.required, under |-> l.under]
             as == [e.args EXCEPT ![l.slot] = a]
  <2>1. Described(e, l) = [e EXCEPT !.args[l.slot] = a]
    BY <1>2 DEF Described
  <2>2. Described(e, l) = [name |-> e.name, danger |-> e.danger, args |-> as, argv |-> e.argv]
    BY <2>1 DEF EntryIs
  <2>3. a.under = l.under
    OBVIOUS
  <2> HIDE DEF a
  <2>4. as = [i \in 1 .. MaxArgs |-> as[i]]
    BY DEF EntryIs
  <2>5. \A s \in 1 .. MaxArgs : as[s].under \in {e.args[s].under, l.under}
    BY <1>2, <2>3 DEF EntryIs
  <2> HIDE DEF as
  <2>6. /\ Described(e, l).name = e.name /\ Described(e, l).danger = e.danger
        /\ Described(e, l).args = as /\ Described(e, l).argv = e.argv
    BY <2>2
  <2>7. EntryIs(Described(e, l))
    BY <2>2, <2>4, <2>6 DEF EntryIs
  <2>. QED BY <2>5, <2>6, <2>7
<1>. QED BY <1>1, <1>2

Taken(c, l)  == l.dir = "command" /\ Len(c.entries) < MaxEntries
Tells(c, l) == /\ l.dir \in {"arg", "danger"} /\ c.entries # <<>>
               /\ l.dir = "arg" => l.slot \in 1 .. MaxArgs

(* What a line changes.                                                    *)
LEMMA LineAddsCommand ==
  ASSUME NEW c, ConfIs(c), NEW l, LineIs(l), Taken(c, l)
  PROVE  ConfIs(CfgLine(c, l)) /\ CfgLine(c, l).entries = Append(c.entries, NewEntry(l))
<1>1. CfgLine(c, l) = [c EXCEPT !.entries = Append(@, NewEntry(l))]
  BY DEF CfgLine, Taken
<1>2. CfgLine(c, l) = [tokens |-> c.tokens, addrs |-> c.addrs,
                       entries |-> Append(c.entries, NewEntry(l)), max |-> c.max]
  BY <1>1 DEF ConfIs
<1> DEFINE E == Append(c.entries, NewEntry(l))
<1>3. /\ Listed(E) /\ Len(c.entries) \in Nat /\ Len(E) = Len(c.entries) + 1
      /\ \A i \in 1 .. Len(c.entries) : E[i] = c.entries[i]
      /\ E[Len(c.entries) + 1] = NewEntry(l)
  BY AppendTo DEF ConfIs
<1>4. EntryIs(NewEntry(l))
  BY NewEntryIs DEF Taken
<1> HIDE DEF E
<1>5. \A i \in 1 .. Len(E) : EntryIs(E[i])
  <2> SUFFICES ASSUME NEW i \in 1 .. Len(E) PROVE EntryIs(E[i])
    OBVIOUS
  <2>1. i \in 1 .. Len(c.entries) \/ i = Len(c.entries) + 1
    BY <1>3
  <2>. QED BY <1>3, <1>4, <2>1 DEF ConfIs
<1>6. Len(E) <= MaxEntries
  BY <1>3, ShcmdConstants DEF Taken
<1>7. CfgLine(c, l) = [tokens |-> c.tokens, addrs |-> c.addrs, entries |-> E, max |-> c.max]
  BY <1>2 DEF E
<1>8. CfgLine(c, l).entries = Append(c.entries, NewEntry(l))
  BY <1>2
<1>. QED BY <1>3, <1>5, <1>6, <1>7, <1>8 DEF ConfIs

LEMMA LineTells ==
  ASSUME NEW c, ConfIs(c), NEW l, Tells(c, l)
  PROVE  /\ ConfIs(CfgLine(c, l)) /\ Len(c.entries) \in Nat \ {0}
         /\ CfgLine(c, l).entries =
              [c.entries EXCEPT ![Len(c.entries)] = Described(c.entries[Len(c.entries)], l)]
<1> DEFINE n == Len(c.entries)
           d == Described(c.entries[n], l)
           E == [c.entries EXCEPT ![n] = d]
<1>1. CfgLine(c, l) = [c EXCEPT !.entries[Len(c.entries)] = Described(@, l)]
  <2>1. l.dir = "danger" \/ (l.dir = "arg" /\ l.slot \in 1 .. MaxArgs)
    BY DEF Tells
  <2>. QED BY <2>1 DEF CfgLine, Tells, Attached
<1>2. n \in Nat \ {0}
  BY TailOf DEF ConfIs, Tells
<1>3. CfgLine(c, l) = [tokens |-> c.tokens, addrs |-> c.addrs, entries |-> E, max |-> c.max]
  BY <1>1 DEF ConfIs
<1>4. EntryIs(d)
  BY <1>2, DescribedIs DEF ConfIs, Tells
<1> HIDE DEF d
<1>5. /\ Listed(E) /\ Len(E) = n
      /\ \A i \in 1 .. n : E[i] = IF i = n THEN d ELSE c.entries[i]
  <2>1. n \in 1 .. Len(c.entries) /\ Listed(c.entries) /\ n = Len(c.entries)
    BY <1>2 DEF ConfIs
  <2>2. E = With(c.entries, n, d)
    BY DEF With
  <2> HIDE DEF n, E
  <2>3. /\ Listed(With(c.entries, n, d)) /\ Len(With(c.entries, n, d)) = Len(c.entries)
        /\ \A i \in 1 .. Len(c.entries) : With(c.entries, n, d)[i] = IF i = n THEN d ELSE c.entries[i]
    BY <2>1, ChangeIn
  <2>. QED BY <2>1, <2>2, <2>3
<1> HIDE DEF E
<1>6. \A i \in 1 .. Len(E) : EntryIs(E[i])
  BY <1>4, <1>5 DEF ConfIs
<1>7. ConfIs(CfgLine(c, l))
  BY <1>3, <1>5, <1>6 DEF ConfIs
<1>. QED BY <1>2, <1>3, <1>7 DEF E, d

LEMMA LineIsOther ==
  ASSUME NEW c, ConfIs(c), NEW l, LineIs(l), ~Taken(c, l), ~Tells(c, l)
  PROVE  ConfIs(CfgLine(c, l)) /\ CfgLine(c, l).entries = c.entries
<1>0. /\ ~(l.dir = "command" /\ Len(c.entries) < MaxEntries)
      /\ ~(l.dir = "danger" /\ c.entries # <<>>)
      /\ ~(l.dir = "arg" /\ c.entries # <<>> /\ l.slot \in 1 .. MaxArgs)
  BY DEF Taken, Tells
<1>1. CASE l.dir = "token" /\ Len(c.tokens) < MaxTokens
  <2> DEFINE t == Append(c.tokens, l.tok)
  <2>1. CfgLine(c, l) = [c EXCEPT !.tokens = Append(@, l.tok)]
    BY <1>1 DEF CfgLine
  <2>2. CfgLine(c, l) = [tokens |-> t, addrs |-> c.addrs, entries |-> c.entries, max |-> c.max]
    BY <2>1 DEF ConfIs
  <2>3. Listed(t) /\ Len(c.tokens) \in Nat /\ Len(t) = Len(c.tokens) + 1
    BY AppendTo DEF ConfIs
  <2> HIDE DEF t
  <2>4. Len(t) <= MaxTokens
    BY <1>1, <2>3, ShcmdConstants
  <2>. QED BY <2>2, <2>3, <2>4 DEF ConfIs
<1>2. CASE l.dir = "max_args"
  <2> DEFINE m == IF l.n < 0 THEN 0 ELSE IF l.n > MaxArgs THEN MaxArgs ELSE l.n
  <2>1. CfgLine(c, l) = [c EXCEPT !.max = m]
    BY <1>2 DEF CfgLine
  <2>2. CfgLine(c, l) = [tokens |-> c.tokens, addrs |-> c.addrs, entries |-> c.entries, max |-> m]
    BY <2>1 DEF ConfIs
  <2>3. m \in 0 .. MaxArgs
    BY <1>2, ShcmdConstants DEF LineIs
  <2> HIDE DEF m
  <2>. QED BY <2>2, <2>3 DEF ConfIs
<1>3. CASE l.dir = "allow" /\ Len(c.addrs) < MaxAddrs /\ l.bits \in 0 .. ByteBits * AddrBytes
  <2> DEFINE a == Append(c.addrs, [family |-> l.family, raw |-> l.raw, bits |-> l.bits])
  <2>1. CfgLine(c, l) = [c EXCEPT !.addrs = Append(@, [family |-> l.family, raw |-> l.raw, bits |-> l.bits])]
    BY <1>3 DEF CfgLine
  <2>2. CfgLine(c, l) = [tokens |-> c.tokens, addrs |-> a, entries |-> c.entries, max |-> c.max]
    BY <2>1 DEF ConfIs
  <2>3. Listed(a) /\ Len(c.addrs) \in Nat /\ Len(a) = Len(c.addrs) + 1
    BY AppendTo DEF ConfIs
  <2> HIDE DEF a
  <2>4. Len(a) <= MaxAddrs
    BY <1>3, <2>3, ShcmdConstants
  <2>. QED BY <2>2, <2>3, <2>4 DEF ConfIs
<1>4. CASE /\ ~(l.dir = "token" /\ Len(c.tokens) < MaxTokens) /\ l.dir # "max_args"
           /\ ~(l.dir = "allow" /\ Len(c.addrs) < MaxAddrs /\ l.bits \in 0 .. ByteBits * AddrBytes)
  <2>1. CfgLine(c, l) = c
    BY <1>0, <1>4 DEF CfgLine
  <2>. QED BY <2>1
<1>. QED BY <1>1, <1>2, <1>3, <1>4

-----------------------------------------------------------------------------
(* The arguments of a request, as the loop gathers them.                   *)
Gathers(f, r) ==
  f = [n \in 0 .. MaxArgs |-> IF n = 0 THEN <<>>
                              ELSE IF r.query.a[n] = Absent THEN f[n - 1]
                              ELSE Append(f[n - 1], r.query.a[n])]

Words(r) == {r.query.a[n] : n \in 1 .. MaxArgs}

LEMMA GatheringExists ==
  ASSUME NEW r
  PROVE  \E f \in [0 .. MaxArgs -> Seq(Words(r))] : Gathers(f, r)
<1>1. MaxArgs \in Nat \ {0}
  BY ShcmdConstants
<1> DEFINE Q == Seq(Words(r))
           a == r.query.a
           Good(k) == \E f \in [0 .. MaxArgs -> Q] :
                        \A n \in 0 .. MaxArgs : n <= k =>
                          f[n] = IF n = 0 THEN <<>> ELSE IF a[n] = Absent THEN f[n - 1]
                                 ELSE Append(f[n - 1], a[n])
           Bad == {k \in 0 .. MaxArgs : ~Good(k)}
<1>2. \A q \in Q, n \in 1 .. MaxArgs : Append(q, a[n]) \in Q
  <2>1. \A n \in 1 .. MaxArgs : a[n] \in Words(r)
    BY DEF Words
  <2>. QED BY <2>1
<1>3. <<>> \in Q
  OBVIOUS
<1> HIDE DEF a, Q
<1>4. Good(0)
  <2> DEFINE f == [n \in 0 .. MaxArgs |-> <<>>]
  <2>1. f \in [0 .. MaxArgs -> Q] /\ \A n \in 0 .. MaxArgs : f[n] = <<>>
    BY <1>3
  <2>2. \A n \in 0 .. MaxArgs : n <= 0 => n = 0
    BY <1>1
  <2> HIDE DEF f
  <2>. QED BY <2>1, <2>2
<1>5. ASSUME NEW k \in Nat, k + 1 \in 0 .. MaxArgs, Good(k) PROVE Good(k + 1)
  <2>1. PICK f \in [0 .. MaxArgs -> Q] :
          \A n \in 0 .. MaxArgs : n <= k =>
            f[n] = IF n = 0 THEN <<>> ELSE IF a[n] = Absent THEN f[n - 1]
                   ELSE Append(f[n - 1], a[n])
    BY <1>5
  <2>2. k \in 0 .. MaxArgs /\ k + 1 \in 1 .. MaxArgs
    BY <1>1, <1>5
  <2> DEFINE v == IF a[k + 1] = Absent THEN f[k] ELSE Append(f[k], a[k + 1])
  <2>3. v \in Q
    BY <1>2, <2>2
  <2>3a. v = IF a[k + 1] = Absent THEN f[k] ELSE Append(f[k], a[k + 1])
    OBVIOUS
  <2> HIDE DEF v
  <2> DEFINE g == [f EXCEPT ![k + 1] = v]
  <2>4. g \in [0 .. MaxArgs -> Q]
    BY <1>5, <2>3
  <2>5. g[k + 1] = v /\ \A n \in 0 .. MaxArgs : n # k + 1 => g[n] = f[n]
    BY <1>5
  <2> HIDE DEF g
  <2>6. ASSUME NEW n \in 0 .. MaxArgs, n <= k + 1
        PROVE  g[n] = IF n = 0 THEN <<>> ELSE IF a[n] = Absent THEN g[n - 1]
                      ELSE Append(g[n - 1], a[n])
    <3>1. n \in Nat /\ (n # 0 => n - 1 \in 0 .. MaxArgs /\ n - 1 # k + 1)
      BY <1>1, <2>6
    <3>2. CASE n = k + 1
      <4>1. n - 1 = k /\ n # 0 /\ k # k + 1
        BY <3>2
      <4>2. g[k] = f[k]
        BY <2>2, <2>5, <4>1
      <4>. QED BY <2>3a, <2>5, <3>2, <4>1, <4>2
    <3>3. CASE n # k + 1
      <4>1. n <= k
        BY <2>6, <3>1, <3>3
      <4>2. g[n] = f[n] /\ (n # 0 => g[n - 1] = f[n - 1])
        BY <2>5, <3>1, <3>3
      <4>. QED BY <2>1, <4>1, <4>2
    <3>. QED BY <3>2, <3>3
  <2>. QED BY <2>4, <2>6
<1>6. Bad = {}
  <2> SUFFICES ASSUME Bad # {} PROVE FALSE
    OBVIOUS
  <2>1. Bad \in SUBSET Nat
    BY <1>1
  <2> HIDE DEF Good
  <2>2. PICK k \in Bad : \A j \in Bad : k <= j
    BY <2>1, LeastNumber
  <2>3. k \in 0 .. MaxArgs /\ ~Good(k)
    BY <2>2
  <2>4. k # 0
    BY <1>4, <2>3
  <2>5. k - 1 \in Nat /\ k - 1 \in 0 .. MaxArgs /\ ~(k <= k - 1) /\ k - 1 + 1 = k
    BY <1>1, <2>3, <2>4
  <2>6. Good(k - 1)
    BY <2>2, <2>5
  <2>7. Good(k - 1 + 1)
    BY <1>5, <2>3, <2>5, <2>6
  <2>. QED BY <2>3, <2>5, <2>7
<1>7. MaxArgs \in 0 .. MaxArgs /\ \A n \in 0 .. MaxArgs : n <= MaxArgs
  BY <1>1
<1>8. Good(MaxArgs)
  <2> HIDE DEF Good
  <2>. QED BY <1>6, <1>7
<1>9. PICK f \in [0 .. MaxArgs -> Q] :
        \A n \in 0 .. MaxArgs : n <= MaxArgs =>
          f[n] = IF n = 0 THEN <<>> ELSE IF a[n] = Absent THEN f[n - 1] ELSE Append(f[n - 1], a[n])
  BY <1>8
<1>10. f = [n \in 0 .. MaxArgs |-> IF n = 0 THEN <<>> ELSE IF a[n] = Absent THEN f[n - 1]
                                   ELSE Append(f[n - 1], a[n])]
  BY <1>7, <1>9
<1>. QED BY <1>9, <1>10 DEF Gathers, a, Q

NoGaps(r) == \A i \in 1 .. (MaxArgs - 1) : r.query.a[i + 1] # Absent => r.query.a[i] # Absent

(* Extra has a place at most for every parameter; without gaps every value *)
(* stands at the place of its parameter.                                   *)
LEMMA ExtraIs ==
  ASSUME NEW r, conf.max \in 0 .. MaxArgs
  PROVE  /\ Extra(r) \in Seq(Words(r)) /\ Len(Extra(r)) <= MaxArgs
         /\ NoGaps(r) => \A s \in 1 .. Len(Extra(r)) : Extra(r)[s] = r.query.a[s]
<1> DEFINE f == CHOOSE g : Gathers(g, r)
           a == r.query.a
<1>1. Extra(r) = f[conf.max]
  BY DEF Extra, Gathers
<1>2. Gathers(f, r)
  <2>1. PICK g : Gathers(g, r)
    BY GatheringExists
  <2> HIDE DEF Gathers
  <2>. QED BY <2>1
<1> HIDE DEF f
<1>3. \A n \in 0 .. MaxArgs : f[n] = IF n = 0 THEN <<>> ELSE IF a[n] = Absent THEN f[n - 1]
                                     ELSE Append(f[n - 1], a[n])
  BY <1>2 DEF Gathers
<1>4. MaxArgs \in Nat \ {0}
  BY ShcmdConstants
<1>5. \A n \in 1 .. MaxArgs : a[n] \in Words(r)
  BY DEF Words
<1>6. ASSUME NoGaps(r), NEW n \in 1 .. MaxArgs, n - 1 # 0, a[n - 1] = Absent
      PROVE  a[n] = Absent
  <2>1. n - 1 \in 1 .. (MaxArgs - 1) /\ n - 1 + 1 = n
    BY <1>4, <1>6
  <2>. QED BY <1>6, <2>1 DEF NoGaps
<1> HIDE DEF a
<1> DEFINE P(n) == /\ f[n] \in Seq(Words(r)) /\ Len(f[n]) <= n
                   /\ NoGaps(r) => /\ \A s \in 1 .. Len(f[n]) : f[n][s] = a[s]
                                   /\ Len(f[n]) < n => a[n] = Absent
           Bad == {n \in 0 .. MaxArgs : ~P(n)}
<1>7. P(0)
  <2>1. f[0] = <<>>
    BY <1>3, <1>4
  <2>. QED BY <2>1
<1>8. ASSUME NEW n \in 1 .. MaxArgs, P(n - 1) PROVE P(n)
  <2> DEFINE q == f[n - 1]
  <2>1. n \in Nat \ {0} /\ n \in 0 .. MaxArgs /\ n # 0 /\ n - 1 \in Nat
    BY <1>4
  <2>2. f[n] = IF a[n] = Absent THEN q ELSE Append(q, a[n])
    BY <1>3, <2>1
  <2>3. q \in Seq(Words(r)) /\ Len(q) \in Nat /\ Len(q) <= n - 1
    BY <1>8, LenProperties
  <2>4. NoGaps(r) => /\ \A s \in 1 .. Len(q) : q[s] = a[s]
                     /\ Len(q) < n - 1 => a[n - 1] = Absent
    BY <1>8
  <2> HIDE DEF q
  <2>5. CASE a[n] = Absent
    <3>1. f[n] = q
      BY <2>2, <2>5
    <3>2. Len(q) <= n
      BY <2>1, <2>3
    <3>. QED BY <2>3, <2>4, <2>5, <3>1, <3>2
  <2>6. CASE a[n] # Absent
    <3>1. f[n] = Append(q, a[n])
      BY <2>2, <2>6
    <3>2. /\ f[n] \in Seq(Words(r)) /\ Len(f[n]) = Len(q) + 1
          /\ \A s \in 1 .. Len(q) : f[n][s] = q[s]
          /\ f[n][Len(q) + 1] = a[n]
      BY <1>5, <2>3, <3>1
    <3>3. Len(f[n]) <= n
      BY <2>1, <2>3, <3>2
    <3>4. ASSUME NoGaps(r)
          PROVE  (\A s \in 1 .. Len(f[n]) : f[n][s] = a[s]) /\ (Len(f[n]) < n => a[n] = Absent)
      <4>1. Len(q) = n - 1
        <5>1. CASE n - 1 = 0
          BY <2>3, <5>1
        <5>2. CASE n - 1 # 0
          <6>1. ~(a[n - 1] = Absent)
            BY <1>6, <2>6, <3>4, <5>2
          <6>2. ~(Len(q) < n - 1)
            BY <2>4, <3>4, <6>1
          <6>. QED BY <2>1, <2>3, <6>2
        <5>. QED BY <5>1, <5>2
      <4>2. Len(f[n]) = n
        BY <2>1, <3>2, <4>1
      <4>3. ASSUME NEW s \in 1 .. Len(f[n]) PROVE f[n][s] = a[s]
        <5>1. s \in 1 .. Len(q) \/ (s = Len(q) + 1 /\ s = n)
          BY <2>1, <4>1, <4>2
        <5>. QED BY <2>4, <3>2, <3>4, <5>1
      <4>. QED BY <2>1, <4>2, <4>3
    <3>. QED BY <3>2, <3>3, <3>4
  <2>. QED BY <2>5, <2>6
<1>9. Bad = {}
  <2> SUFFICES ASSUME Bad # {} PROVE FALSE
    OBVIOUS
  <2>1. Bad \in SUBSET Nat
    BY <1>4
  <2> HIDE DEF P
  <2>2. PICK k \in Bad : \A j \in Bad : k <= j
    BY <2>1, LeastNumber
  <2>3. k \in 0 .. MaxArgs /\ ~P(k)
    BY <2>2
  <2>4. k # 0
    BY <1>7, <2>3
  <2>5. k \in 1 .. MaxArgs /\ k - 1 \in 0 .. MaxArgs /\ ~(k <= k - 1)
    BY <1>4, <2>3, <2>4
  <2>6. P(k - 1)
    BY <2>2, <2>5
  <2>. QED BY <1>8, <2>3, <2>5, <2>6
<1>10. P(conf.max)
  <2> HIDE DEF P
  <2>. QED BY <1>9
<1>11. Len(f[conf.max]) <= MaxArgs
  <2>1. Len(f[conf.max]) \in Nat
    BY <1>10, LenProperties
  <2>. QED BY <1>4, <1>10, <2>1
<1>. QED BY <1>1, <1>10, <1>11 DEF a

-----------------------------------------------------------------------------
(* The verdict: the first reply that applies, if one does.                 *)
LEMMA VerdictIs ==
  ASSUME NEW r
  PROVE  /\ Applies(r) \subseteq 1 .. 12
         /\ Verdict(r) = 0 => Applies(r) = {}
         /\ Verdict(r) # 0 => /\ Verdict(r) \in Applies(r)
                              /\ \A k \in Applies(r) : Verdict(r) <= k
<1>1. Applies(r) \subseteq 1 .. 12
  <2>1. DOMAIN Verdicts(r) = 1 .. 12
    BY DEF Verdicts
  <2>. QED BY <2>1 DEF Applies
<1>2. CASE Applies(r) # {}
  <2>1. Applies(r) \in SUBSET Nat
    BY <1>1
  <2>2. \E i \in Applies(r) : \A j \in Applies(r) : i <= j
    BY <1>2, <2>1, LeastNumber
  <2>3. Verdict(r) = Min(Applies(r))
    BY <1>2 DEF Verdict
  <2>4. Verdict(r) \in Applies(r) /\ \A k \in Applies(r) : Verdict(r) <= k
    BY <2>2, <2>3 DEF Min
  <2>. QED BY <1>1, <2>4
<1>3. CASE Applies(r) = {}
  BY <1>1, <1>3 DEF Verdict
<1>. QED BY <1>2, <1>3

(* A request that makes a command run has passed all of them.              *)
LEMMA VerdictIsNone ==
  ASSUME NEW r, Verdict(r) = 0
  PROVE  /\ TokenOk(TokenOf(r))
         /\ \A e \in Found(r) : Fits(e, r) /\ \A h \in Holes(e) : ~(h > Len(Extra(r)))
<1>1. Applies(r) = {}
  BY VerdictIs
<1>2. 6 \in DOMAIN Verdicts(r) /\ 11 \in DOMAIN Verdicts(r) /\ 12 \in DOMAIN Verdicts(r)
  BY DEF Verdicts
<1>3. ~Verdicts(r)[6][1] /\ ~Verdicts(r)[11][1] /\ ~Verdicts(r)[12][1]
  BY <1>1, <1>2 DEF Applies
<1>4. TokenOk(TokenOf(r))
  BY <1>3 DEF Verdicts
<1>5. \A e \in Found(r) : Fits(e, r)
  BY <1>3 DEF Verdicts
<1>6. \A e \in Found(r) : \A h \in Holes(e) : ~(h > Len(Extra(r)))
  BY <1>3 DEF Verdicts
<1>. QED BY <1>4, <1>5, <1>6

(* The replies of a verdict that tell something need a token.              *)
LEMMA VerdictTells ==
  ASSUME NEW r, Verdict(r) # 0, Verdicts(r)[Verdict(r)][2] \in {200, 404}
  PROVE  TokenOk(TokenOf(r))
<1>1. Verdict(r) \in 1 .. 12 /\ \A k \in Applies(r) : Verdict(r) <= k
  BY VerdictIs
<1>2. Verdict(r) \in {7, 8, 10}
  <2>1. /\ Verdicts(r)[1][2] = 403 /\ Verdicts(r)[2][2] = 413 /\ Verdicts(r)[3][2] = 400
        /\ Verdicts(r)[4][2] = 405 /\ Verdicts(r)[5][2] = 413 /\ Verdicts(r)[6][2] = 401
        /\ Verdicts(r)[9][2] = 400 /\ Verdicts(r)[11][2] = 400 /\ Verdicts(r)[12][2] = 400
    BY DEF Verdicts
  <2>2. Verdict(r) \in {1, 2, 3, 4, 5, 6, 7, 8, 9, 10, 11, 12}
    BY <1>1
  <2>. QED BY <2>1, <2>2
<1>3. 6 \notin Applies(r)
  BY <1>1, <1>2
<1>4. 6 \in DOMAIN Verdicts(r)
  BY DEF Verdicts
<1>5. ~Verdicts(r)[6][1]
  BY <1>3, <1>4 DEF Applies
<1>. QED BY <1>5 DEF Verdicts

-----------------------------------------------------------------------------
(* The requests and their replies.                                         *)
RequestInv ==
  /\ spc \in {"load", "loop", "calling", "accept", "handle", "read", "wait", "reply", "stopped"}
  /\ spc \in {"load", "handle"} => ran = Absent /\ reply = Absent
  /\ spc \in {"read", "wait", "reply"} => Verdict(req) = 0
  /\ ran # Absent => /\ Verdict(req) = 0
                     /\ \E e \in Found(req) :
                          ran = [entry |-> e, extra |-> Extra(req), argv |-> Argv(e, Extra(req))]
  /\ reply # Absent /\ reply.code \in {200, 404} => TokenOk(TokenOf(req))

LEMMA RequestInit == ShcmdInit => RequestInv
BY DEF ShcmdInit, RequestInv

(* While configuration and request stay, so do the verdict and the rest.   *)
LEMMA VerdictStays ==
  ASSUME conf' = conf, NEW r
  PROVE  Verdict(r)' = Verdict(r)
BY DEF Verdict, Applies, Verdicts, Found, Fits, Extra, TokenOk, TokenOf, AddrAllowed, InNet,
       NameOf, Holes

LEMMA FindingsStay ==
  ASSUME conf' = conf, NEW r
  PROVE  Found(r)' = Found(r) /\ Extra(r)' = Extra(r) /\ (TokenOk(TokenOf(r))' <=> TokenOk(TokenOf(r)))
<1>1. Found(r)' = Found(r)
  BY DEF Found, NameOf
<1>2. Extra(r)' = Extra(r)
  BY DEF Extra
<1>3. TokenOk(TokenOf(r))' <=> TokenOk(TokenOf(r))
  BY DEF TokenOk, TokenOf
<1>. QED BY <1>1, <1>2, <1>3

LEMMA RequestNext == RequestInv /\ [ShcmdNext]_shcmdVars => RequestInv'
<1> SUFFICES ASSUME RequestInv, [ShcmdNext]_shcmdVars PROVE RequestInv'
  OBVIOUS
<1>1. CASE LoadLine
  <2>1. spc = "load" /\ spc' = "load" /\ ran' = ran /\ reply' = reply
    BY <1>1 DEF LoadLine
  <2>. QED BY <2>1 DEF RequestInv
<1>2. ASSUME NEW r \in Requests, Accept(r) PROVE RequestInv'
  <2>1. spc' = "handle" /\ ran' = Absent /\ reply' = Absent
    BY <1>2 DEF Accept
  <2>. QED BY <2>1 DEF RequestInv
<1>3. CASE Refuse
  <2>1. /\ conf' = conf /\ req' = req /\ ran' = ran /\ spc = "handle" /\ spc' = "loop"
        /\ Verdict(req) # 0 /\ reply'.code = Verdicts(req)[Verdict(req)][2]
    BY <1>3 DEF Refuse
  <2>2. ran' = Absent
    BY <2>1 DEF RequestInv
  <2>3. reply'.code \in {200, 404} => TokenOk(TokenOf(req))
    BY <2>1, VerdictTells
  <2>4. TokenOk(TokenOf(req))' <=> TokenOk(TokenOf(req))
    BY <2>1 DEF TokenOk, TokenOf
  <2>. QED BY <2>1, <2>2, <2>3, <2>4 DEF RequestInv
<1>4. CASE StartCommand \/ StartFails
  <2>1. /\ conf' = conf /\ req' = req /\ reply' = reply /\ spc = "handle" /\ Verdict(req) = 0
        /\ spc' \in {"read", "reply"}
    BY <1>4 DEF StartCommand, StartFails
  <2>2. PICK e \in Found(req) :
          ran' = [entry |-> e, extra |-> Extra(req), argv |-> Argv(e, Extra(req))]
    BY <1>4 DEF StartCommand, StartFails
  <2>3. Verdict(req)' = 0
    BY <2>1, VerdictStays
  <2>4. Found(req)' = Found(req) /\ Extra(req)' = Extra(req)
    BY <2>1, FindingsStay
  <2>5. ran' = [entry |-> e, extra |-> Extra(req)', argv |-> Argv(e, Extra(req)')]
    BY <2>2, <2>4
  <2>6. (\E x \in Found(req) :
           ran = [entry |-> x, extra |-> Extra(req), argv |-> Argv(x, Extra(req))])'
    BY <2>2, <2>4, <2>5 DEF Argv, Holes
  <2>7. reply' = Absent
    BY <2>1 DEF RequestInv
  <2>. QED BY <2>1, <2>3, <2>6, <2>7 DEF RequestInv
<1>5. CASE Reply
  <2>1. /\ conf' = conf /\ req' = req /\ ran' = ran /\ spc = "reply" /\ spc' = "loop"
    BY <1>5 DEF Reply, outside
  <2>2. Verdict(req) = 0
    BY <2>1 DEF RequestInv
  <2>3. TokenOk(TokenOf(req))'
    BY <2>1, <2>2, VerdictIsNone DEF TokenOk, TokenOf
  <2>4. Verdict(req)' = 0
    BY <2>1, <2>2, VerdictStays
  <2>5. Found(req)' = Found(req) /\ Extra(req)' = Extra(req)
    BY <2>1, FindingsStay
  <2>6. ran # Absent => (\E x \in Found(req) :
           ran = [entry |-> x, extra |-> Extra(req), argv |-> Argv(x, Extra(req))])'
    BY <2>1, <2>5 DEF RequestInv, Argv, Holes
  <2>. QED BY <2>1, <2>3, <2>4, <2>6 DEF RequestInv
<1>6. CASE \/ Listen \/ Turn \/ Blocks \/ TimesOut \/ ReadsOutput \/ EndOfFile \/ Reaped
           \/ Signal \/ Forks \/ LeavesGroup \/ Second \/ UNCHANGED shcmdVars
           \/ \E p \in {"leader", "helper"} : Writes(p) \/ ClosesPipe(p) \/ Exits(p)
  <2>1. conf' = conf /\ req' = req /\ ran' = ran /\ reply' = reply
    BY <1>6 DEF Listen, Turn, Blocks, TimesOut, ReadsOutput, EndOfFile, Reaped, Signal, Forks,
                LeavesGroup, Second, Writes, ClosesPipe, Exits, watching, outside, shcmdVars
  <2>2. /\ spc' \in {"load", "loop", "calling", "accept", "handle", "read", "wait", "reply",
                     "stopped"}
        /\ spc' \in {"load", "handle"} => spc = spc'
        /\ spc' \in {"read", "wait", "reply"} => spc \in {"read", "wait", "reply"}
    BY <1>6 DEF Listen, Turn, Blocks, TimesOut, ReadsOutput, EndOfFile, Reaped, Signal, Forks,
                LeavesGroup, Second, Writes, ClosesPipe, Exits, watching, outside, shcmdVars,
                RequestInv
  <2>3. Verdict(req)' = Verdict(req)
    BY <2>1, VerdictStays
  <2>4. Found(req)' = Found(req) /\ Extra(req)' = Extra(req)
        /\ (TokenOk(TokenOf(req))' <=> TokenOk(TokenOf(req)))
    BY <2>1, FindingsStay
  <2>5. ran # Absent => (\E x \in Found(req) :
           ran = [entry |-> x, extra |-> Extra(req), argv |-> Argv(x, Extra(req))])'
    BY <2>1, <2>4 DEF RequestInv, Argv, Holes
  <2>. QED BY <2>1, <2>2, <2>3, <2>4, <2>5 DEF RequestInv
<1>. QED BY <1>1, <1>2, <1>3, <1>4, <1>5, <1>6 DEF ShcmdNext, ShcmdStep

-----------------------------------------------------------------------------
(* The file and what of it is loaded.                                      *)
Commands(n) == {i \in 1 .. n : file[i].dir = "command"}

Whole == /\ \A i \in 1 .. Len(file) : file[i].dir # "lost"
         /\ Cardinality(Commands(Len(file))) <= MaxEntries

OwnLines(e) == /\ e.danger \in {Absent, e.name}
               /\ \A s \in 1 .. MaxArgs : e.args[s].under \in {Absent, e.name}

(* After n lines of a whole file: every command is an entry, the last one  *)
(* is the one the next lines describe.                                     *)
LinesKept(n) ==
  /\ Len(conf.entries) = Cardinality(Commands(n))
  /\ conf.entries # <<>> =>
       \E j \in 1 .. n : /\ file[j].dir = "command"
                         /\ \A k \in (j + 1) .. n : file[k].dir # "command"
                         /\ conf.entries[Len(conf.entries)].name = file[j].name
  /\ \A i \in 1 .. Len(conf.entries) : OwnLines(conf.entries[i])

LoadTyped ==
  /\ spc \in {"load", "loop", "calling", "accept", "handle", "read", "wait", "reply", "stopped"}
  /\ file \in Files /\ Listed(todo) /\ Len(todo) \in 0 .. Len(file) /\ Len(file) \in Nat
  /\ \A i \in 1 .. Len(todo) : todo[i] = file[Len(file) - Len(todo) + i]
  /\ ConfIs(conf) /\ req \in Requests \cup {Absent}

LoadInv == LoadTyped /\ (Whole => LinesKept(Len(file) - Len(todo)))

LEMMA FileIs ==
  ASSUME NEW f \in Files
  PROVE  Listed(f) /\ Len(f) \in Nat /\ DOMAIN f = 1 .. Len(f) /\ \A i \in 1 .. Len(f) : LineIs(f[i])
<1>1. f \in Seq({f[i] : i \in DOMAIN f})
  BY FilesAreRead
<1>2. Listed(f) /\ Len(f) \in Nat /\ DOMAIN f = 1 .. Len(f)
  BY <1>1, ListedIs, LenProperties
<1>3. \A i \in 1 .. Len(f) : LineIs(f[i])
  BY <1>2, FilesAreRead DEF LineIs
<1>. QED BY <1>2, <1>3

LEMMA UnderIs ==
  ASSUME NEW f \in Files, NEW i \in DOMAIN f, f[i].dir \in {"arg", "danger"},
         NEW j \in 1 .. (i - 1), f[j].dir = "command",
         \A k \in (j + 1) .. (i - 1) : f[k].dir \notin {"command", "lost"}
  PROVE  f[i].under = f[j].name
<1>1. \A m \in 1 .. (i - 1) :
        f[m].dir = "command" /\ (\A k \in (m + 1) .. (i - 1) : f[k].dir \notin {"command", "lost"})
        => f[i].under = f[m].name
  BY FilesAreRead
<1>. QED BY <1>1

LEMMA CommandsAreFinite ==
  ASSUME NEW n \in Nat
  PROVE  IsFiniteSet(Commands(n)) /\ Cardinality(Commands(n)) \in Nat
<1>1. IsFiniteSet(1 .. n)
  BY FS_Interval
<1>2. IsFiniteSet(Commands(n))
  BY <1>1, FS_Subset DEF Commands
<1>. QED BY <1>2, FS_CardinalityType

LEMMA OneCommandMore ==
  ASSUME NEW n \in Nat
  PROVE  Cardinality(Commands(n + 1)) = IF file[n + 1].dir = "command" THEN Cardinality(Commands(n)) + 1
                                        ELSE Cardinality(Commands(n))
<1>1. CASE file[n + 1].dir = "command"
  <2>1. Commands(n + 1) = Commands(n) \cup {n + 1} /\ n + 1 \notin Commands(n)
    BY <1>1 DEF Commands
  <2>. QED BY <1>1, <2>1, CommandsAreFinite, FS_AddElement
<1>2. CASE file[n + 1].dir # "command"
  <2>1. Commands(n + 1) = Commands(n)
    BY <1>2 DEF Commands
  <2>. QED BY <1>2, <2>1
<1>. QED BY <1>1, <1>2

LEMMA LoadInit == ShcmdInit => LoadInv
<1> SUFFICES ASSUME ShcmdInit PROVE LoadInv
  OBVIOUS
<1>1. file \in Files /\ todo = file /\ conf = Defaults /\ spc = "load" /\ req = Absent
  BY DEF ShcmdInit
<1>2. Listed(file) /\ Len(file) \in Nat
  BY <1>1, FileIs
<1>3. ConfIs(Defaults) /\ Defaults.entries = <<>>
  <2>1. Listed(<<>>) /\ Len(<<>>) = 0
    BY EmptyList
  <2>2. 0 <= MaxTokens /\ 0 <= MaxAddrs /\ 0 <= MaxEntries /\ DefaultArgs \in 0 .. MaxArgs
    BY ShcmdConstants
  <2>. QED BY <2>1, <2>2 DEF Defaults, ConfIs
<1>4. LoadTyped
  <2>1. Len(todo) \in 0 .. Len(file) /\ \A i \in 1 .. Len(todo) : todo[i] = file[Len(file) - Len(todo) + i]
    BY <1>1, <1>2
  <2>. QED BY <1>1, <1>2, <1>3, <2>1 DEF LoadTyped
<1>5. LinesKept(Len(file) - Len(todo))
  <2>1. Len(file) - Len(todo) = 0
    BY <1>1, <1>2
  <2>2. Commands(0) = {}
    BY DEF Commands
  <2>3. Cardinality(Commands(0)) = 0
    BY <2>2, FS_EmptySet
  <2>4. conf.entries = <<>> /\ Len(conf.entries) = 0
    BY <1>1, <1>3, EmptyList
  <2>. QED BY <2>1, <2>3, <2>4 DEF LinesKept
<1>. QED BY <1>4, <1>5 DEF LoadInv

(* One line more.                                                          *)
LEMMA LoadLineKeeps == LoadInv /\ LoadLine => LoadInv'
<1> SUFFICES ASSUME LoadInv, LoadLine PROVE LoadInv'
  OBVIOUS
<1>1. /\ spc = "load" /\ todo # <<>> /\ conf' = CfgLine(conf, Head(todo)) /\ todo' = Tail(todo)
      /\ UNCHANGED <<file, spc, req>>
  BY DEF LoadLine
<1>2. /\ Listed(Tail(todo)) /\ Len(todo) \in Nat \ {0} /\ Len(Tail(todo)) = Len(todo) - 1
      /\ Head(todo) = todo[1]
      /\ \A i \in 1 .. Len(todo) - 1 : Tail(todo)[i] = todo[i + 1]
  BY <1>1, TailOf DEF LoadInv, LoadTyped
<1>3. PICK n \in Nat : n = Len(file) - Len(todo) /\ n + 1 \in 1 .. Len(file) /\ Len(file) \in Nat
  BY <1>2 DEF LoadInv, LoadTyped
<1> DEFINE l == file[n + 1]
<1>4. Head(todo) = l
  BY <1>2, <1>3 DEF LoadInv, LoadTyped
<1>5. LineIs(l)
  BY <1>3, FileIs DEF LoadInv, LoadTyped
<1>6. Len(file') - Len(todo') = n + 1
  BY <1>1, <1>2, <1>3
<1>7. ConfIs(conf)
  BY DEF LoadInv, LoadTyped
<1> HIDE DEF l
<1>8. conf' = CfgLine(conf, l)
  BY <1>1, <1>4
<1>9. ConfIs(conf')
  BY <1>5, <1>7, <1>8, LineAddsCommand, LineTells, LineIsOther
<1>10. LoadTyped'
  <2>1. \A i \in 1 .. Len(todo') : todo'[i] = file'[Len(file') - Len(todo') + i]
    <3> SUFFICES ASSUME NEW i \in 1 .. Len(todo') PROVE todo'[i] = file'[Len(file') - Len(todo') + i]
      OBVIOUS
    <3>1. todo'[i] = todo[i + 1]
      BY <1>1, <1>2
    <3>2. todo[i + 1] = file[Len(file) - Len(todo) + (i + 1)]
      BY <1>1, <1>2 DEF LoadInv, LoadTyped
    <3>3. Len(file) - Len(todo) + (i + 1) = Len(file') - Len(todo') + i
      BY <1>1, <1>2, <1>3
    <3>. QED BY <1>1, <3>1, <3>2, <3>3
  <2>2. Listed(todo') /\ Len(todo') \in 0 .. Len(file')
    BY <1>1, <1>2 DEF LoadInv, LoadTyped
  <2>3. ConfIs(conf)'
    BY <1>9 DEF ConfIs, EntryIs, Listed
  <2>4. Listed(todo)'
    BY <2>2 DEF Listed
  <2>. QED BY <1>1, <2>1, <2>2, <2>3, <2>4 DEF LoadInv, LoadTyped
<1>11. Whole' => Whole
  BY <1>1 DEF Whole, Commands
<1>12. ASSUME Whole PROVE LinesKept(n + 1)'
  <2>1. /\ Len(conf.entries) = Cardinality(Commands(n)) /\ n + 1 \in Nat
        /\ conf.entries # <<>> =>
             \E j \in 1 .. n : /\ file[j].dir = "command"
                               /\ \A k \in (j + 1) .. n : file[k].dir # "command"
                               /\ conf.entries[Len(conf.entries)].name = file[j].name
        /\ \A i \in 1 .. Len(conf.entries) : OwnLines(conf.entries[i])
    BY <1>3, <1>12 DEF LoadInv, LinesKept
  <2>2. Cardinality(Commands(n + 1)) = IF l.dir = "command" THEN Cardinality(Commands(n)) + 1
                                       ELSE Cardinality(Commands(n))
    BY <1>3, OneCommandMore DEF l
  <2>3. Cardinality(Commands(n)) \in Nat /\ Cardinality(Commands(n + 1)) <= MaxEntries
    <3>1. Commands(n + 1) \subseteq Commands(Len(file))
      BY <1>3 DEF Commands
    <3>2. Cardinality(Commands(n + 1)) <= Cardinality(Commands(Len(file)))
      BY <1>3, <3>1, CommandsAreFinite, FS_Subset
    <3>3. Cardinality(Commands(Len(file))) <= MaxEntries
      BY <1>12 DEF Whole
    <3>4. /\ Cardinality(Commands(n)) \in Nat /\ Cardinality(Commands(Len(file))) \in Nat
          /\ Cardinality(Commands(n + 1)) \in Nat
      BY <1>3, <2>1, CommandsAreFinite
    <3>. QED BY <3>2, <3>3, <3>4, ShcmdConstants
  <2> SUFFICES /\ Len(conf'.entries) = Cardinality(Commands(n + 1))
               /\ conf'.entries # <<>> =>
                    \E j \in 1 .. (n + 1) :
                      /\ file[j].dir = "command"
                      /\ \A k \in (j + 1) .. (n + 1) : file[k].dir # "command"
                      /\ conf'.entries[Len(conf'.entries)].name = file[j].name
               /\ \A i \in 1 .. Len(conf'.entries) : OwnLines(conf'.entries[i])
    BY <1>1 DEF LinesKept, Commands, OwnLines
  <2>5. CASE Taken(conf, l)
    <3> DEFINE m == Len(conf.entries)
               e == NewEntry(l)
    <3>1. conf'.entries = Append(conf.entries, e)
      BY <1>5, <1>7, <1>8, <2>5, LineAddsCommand
    <3>2. /\ m \in Nat /\ Len(conf'.entries) = m + 1
          /\ \A i \in 1 .. m : conf'.entries[i] = conf.entries[i]
          /\ conf'.entries[m + 1] = e
      BY <1>7, <3>1, AppendTo DEF ConfIs
    <3>3. l.dir = "command"
      BY <2>5 DEF Taken
    <3>4. e.name = l.name /\ OwnLines(e)
      <4>1. /\ e.name = l.name /\ e.danger = Absent
            /\ \A s \in 1 .. MaxArgs : e.args[s] = NoSpec
        BY <1>5, <3>3, NewEntryIs
      <4>2. NoSpec.under = Absent
        BY DEF NoSpec
      <4> HIDE DEF e
      <4>. QED BY <4>1, <4>2 DEF OwnLines
    <3> HIDE DEF e
    <3>5. \A i \in 1 .. Len(conf'.entries) : OwnLines(conf'.entries[i])
      <4> SUFFICES ASSUME NEW i \in 1 .. Len(conf'.entries) PROVE OwnLines(conf'.entries[i])
        OBVIOUS
      <4>1. i \in 1 .. m \/ i = m + 1
        BY <3>2
      <4>. QED BY <2>1, <3>2, <3>4, <4>1
    <3>6. /\ n + 1 \in 1 .. (n + 1) /\ file[n + 1].dir = "command"
          /\ \A k \in (n + 1 + 1) .. (n + 1) : file[k].dir # "command"
          /\ conf'.entries[Len(conf'.entries)].name = file[n + 1].name
      BY <1>3, <3>2, <3>3, <3>4 DEF l
    <3>. QED BY <2>1, <2>2, <3>2, <3>3, <3>5, <3>6
  <2>6. CASE Tells(conf, l)
    <3> DEFINE m == Len(conf.entries)
               e == conf.entries[m]
               d == Described(e, l)
    <3>1. m \in Nat \ {0} /\ conf'.entries = With(conf.entries, m, d)
      BY <1>7, <1>8, <2>6, LineTells DEF With
    <3>2. m \in 1 .. m /\ Listed(conf.entries)
      BY <1>7, <3>1 DEF ConfIs
    <3>2a. EntryIs(e)
      BY <1>7, <3>2 DEF ConfIs
    <3>3. PICK j \in 1 .. n : /\ file[j].dir = "command"
                              /\ \A k \in (j + 1) .. n : file[k].dir # "command"
                              /\ e.name = file[j].name
      BY <2>1, <2>6 DEF Tells
    <3>4. l.under = file[j].name /\ l.dir # "command"
      <4>1. file \in Files /\ DOMAIN file = 1 .. Len(file)
        BY FileIs DEF LoadInv, LoadTyped
      <4>2. l.dir \in {"arg", "danger"}
        BY <2>6 DEF Tells
      <4>3. j \in 1 .. (n + 1 - 1) /\ n + 1 - 1 = n
        BY <1>3
      <4>4. \A k \in (j + 1) .. (n + 1 - 1) : file[k].dir \notin {"command", "lost"}
        <5> SUFFICES ASSUME NEW k \in (j + 1) .. n PROVE file[k].dir \notin {"command", "lost"}
          BY <4>3
        <5>1. k \in 1 .. Len(file)
          BY <1>3
        <5>. QED BY <1>12, <3>3, <5>1 DEF Whole
      <4>5. n + 1 \in DOMAIN file
        BY <1>3, <4>1
      <4>6. file[n + 1].dir \in {"arg", "danger"}
        BY <4>2 DEF l
      <4>7. file[n + 1].under = file[j].name
        BY <3>3, <4>1, <4>3, <4>4, <4>5, <4>6, UnderIs
      <4>. QED BY <4>2, <4>7 DEF l
    <3>5. /\ d.name = e.name /\ d.danger \in {e.danger, l.under}
          /\ \A s \in 1 .. MaxArgs : d.args[s].under \in {e.args[s].under, l.under}
      BY <2>6, <3>2a, DescribedIs DEF Tells
    <3>6. OwnLines(d)
      <4>1. OwnLines(e)
        BY <2>1, <3>2
      <4> HIDE DEF d, e
      <4>. QED BY <3>3, <3>4, <3>5, <4>1 DEF OwnLines
    <3> HIDE DEF d
    <3>7. /\ Len(conf'.entries) = m
          /\ \A i \in 1 .. m : conf'.entries[i] = IF i = m THEN d ELSE conf.entries[i]
      BY <3>1, <3>2, ChangeIn
    <3>8. \A i \in 1 .. Len(conf'.entries) : OwnLines(conf'.entries[i])
      BY <2>1, <3>6, <3>7
    <3>9. /\ j \in 1 .. (n + 1) /\ file[j].dir = "command"
          /\ \A k \in (j + 1) .. (n + 1) : file[k].dir # "command"
          /\ conf'.entries[Len(conf'.entries)].name = file[j].name
      <4>1. \A k \in (j + 1) .. (n + 1) : k \in (j + 1) .. n \/ k = n + 1
        BY <1>3
      <4>2. conf'.entries[m] = d
        BY <3>2, <3>7
      <4>3. j \in 1 .. (n + 1)
        BY <1>3
      <4>. QED BY <3>3, <3>4, <3>5, <3>7, <4>1, <4>2, <4>3 DEF l
    <3>. QED BY <2>1, <2>2, <3>4, <3>7, <3>8, <3>9
  <2>7. CASE ~Taken(conf, l) /\ ~Tells(conf, l)
    <3>1. conf'.entries = conf.entries
      BY <1>5, <1>7, <1>8, <2>7, LineIsOther
    <3>2. l.dir # "command"
      <4> SUFFICES ASSUME l.dir = "command" PROVE FALSE
        OBVIOUS
      <4>1. ~(Len(conf.entries) < MaxEntries)
        BY <2>7 DEF Taken
      <4>. QED BY <2>1, <2>2, <2>3, <4>1, ShcmdConstants
    <3>3. \A j \in 1 .. n : j \in 1 .. (n + 1) /\ \A k \in (j + 1) .. (n + 1) : k \in (j + 1) .. n \/ k = n + 1
      BY <1>3
    <3>4. conf'.entries # <<>> =>
            \E j \in 1 .. (n + 1) :
              /\ file[j].dir = "command"
              /\ \A k \in (j + 1) .. (n + 1) : file[k].dir # "command"
              /\ conf'.entries[Len(conf'.entries)].name = file[j].name
      BY <2>1, <3>1, <3>2, <3>3 DEF l
    <3>. QED BY <2>1, <2>2, <3>1, <3>2, <3>4
  <2>. QED BY <2>5, <2>6, <2>7
<1>13. Whole' => LinesKept(Len(file) - Len(todo))'
  BY <1>6, <1>11, <1>12
<1>. QED BY <1>10, <1>13 DEF LoadInv

LEMMA LoadNext == LoadInv /\ [ShcmdNext]_shcmdVars => LoadInv'
<1> SUFFICES ASSUME LoadInv, [ShcmdNext]_shcmdVars PROVE LoadInv'
  OBVIOUS
<1>1. CASE LoadLine
  BY <1>1, LoadLineKeeps
<1>2. CASE ~LoadLine
  <2>1. UNCHANGED <<file, todo, conf>>
    BY <1>2 DEF ShcmdNext, ShcmdStep, Listen, Turn, Blocks, TimesOut, ReadsOutput, EndOfFile,
           Reaped, Signal, Forks, LeavesGroup, Second, Writes, ClosesPipe, Exits, Accept, Refuse,
           StartCommand, StartFails, Reply, watching, outside, shcmdVars
  <2>2. req' \in Requests \cup {Absent}
    BY <1>2 DEF ShcmdNext, ShcmdStep, Listen, Turn, Blocks, TimesOut, ReadsOutput, EndOfFile,
           Reaped, Signal, Forks, LeavesGroup, Second, Writes, ClosesPipe, Exits, Accept, Refuse,
           StartCommand, StartFails, Reply, watching, outside, shcmdVars, LoadInv, LoadTyped
  <2>3. spc' \in {"load", "loop", "calling", "accept", "handle", "read", "wait", "reply", "stopped"}
    BY <1>2 DEF ShcmdNext, ShcmdStep, Listen, Turn, Blocks, TimesOut, ReadsOutput, EndOfFile,
           Reaped, Signal, Forks, LeavesGroup, Second, Writes, ClosesPipe, Exits, Accept, Refuse,
           StartCommand, StartFails, Reply, watching, outside, shcmdVars, LoadInv, LoadTyped
  <2>4. LoadTyped'
    <3>1. ConfIs(conf)' /\ Listed(todo)'
      BY <2>1 DEF LoadInv, LoadTyped, ConfIs, EntryIs, Listed
    <3>. QED BY <2>1, <2>2, <2>3, <3>1 DEF LoadInv, LoadTyped
  <2>5. Whole' => Whole
    BY <2>1 DEF Whole, Commands
  <2>6. LinesKept(Len(file) - Len(todo)) => LinesKept(Len(file) - Len(todo))'
    BY <2>1 DEF LinesKept, Commands, OwnLines
  <2>. QED BY <2>4, <2>5, <2>6 DEF LoadInv
<1>. QED BY <1>1, <1>2

-----------------------------------------------------------------------------
LEMMA EntriesAreListed == LoadInv => /\ DOMAIN conf.entries = 1 .. Len(conf.entries)
                                     /\ conf.max \in 0 .. MaxArgs
BY LenProperties DEF LoadInv, LoadTyped, ConfIs, Listed

LEMMA LinesStay == LoadInv => LinesStayWithTheirCommand
<1> SUFFICES ASSUME LoadInv, \A i \in DOMAIN file : file[i].dir # "lost",
                    Cardinality({i \in DOMAIN file : file[i].dir = "command"}) <= MaxEntries,
                    NEW i \in DOMAIN conf.entries
    PROVE  OwnLines(conf.entries[i])
  BY DEF LinesStayWithTheirCommand, OwnLines
<1>1. DOMAIN file = 1 .. Len(file)
  BY FileIs DEF LoadInv, LoadTyped
<1>2. Whole
  BY <1>1 DEF Whole, Commands
<1>. QED BY <1>2, EntriesAreListed DEF LoadInv, LinesKept

LEMMA OnlyTokens == RequestInv => OnlyTokensAreTold
BY VerdictIsNone DEF RequestInv, OnlyTokensAreTold

LEMMA ArgumentsMeet == LoadInv /\ RequestInv => ArgumentsMeetTheirSpec
<1> SUFFICES ASSUME LoadInv, RequestInv, ran # Absent PROVE ArgumentsMeetTheirSpec
  BY DEF ArgumentsMeetTheirSpec
<1> DEFINE x == Extra(req)
<1>1. PICK e \in Found(req) : ran = [entry |-> e, extra |-> Extra(req), argv |-> Argv(e, Extra(req))]
  BY DEF RequestInv
<1>2. EntryIs(e)
  BY EntriesAreListed DEF Found, LoadInv, LoadTyped, ConfIs
<1>3. Fits(e, req) /\ \A h \in Holes(e) : ~(h > Len(x))
  BY VerdictIsNone DEF RequestInv
<1>4. x \in Seq(Words(req)) /\ Len(x) <= MaxArgs /\ Len(x) \in Nat
  BY ExtraIs, EntriesAreListed, LenProperties
<1>5. \A i \in 1 .. MaxArgs : IF i <= Len(x) THEN x[i] \in e.args[i].may ELSE ~e.args[i].required
  BY <1>3 DEF Fits
<1>6. ran.entry = e /\ ran.extra = x /\ ran.argv = Argv(e, x)
  BY <1>1
<1>7. /\ Len(e.argv) \in Nat /\ DOMAIN e.argv = 1 .. Len(e.argv) /\ MaxArgs \in Nat
      /\ \A i \in 1 .. Len(e.argv) : e.argv[i].hole \in Nat
  <2>1. e.argv \in Seq([hole : Nat])
    BY <1>2 DEF EntryIs
  <2>2. \A i \in 1 .. Len(e.argv) : e.argv[i] \in [hole : Nat]
    BY <2>1, ElementOfSeq
  <2>. QED BY <2>1, <2>2, LenProperties, ShcmdConstants
<1> HIDE DEF x
<1>8. ASSUME NEW s \in 1 .. MaxArgs, e.args[s].required PROVE s <= Len(x)
  BY <1>5, <1>8
<1>9. ASSUME NEW i \in DOMAIN Argv(e, x), Argv(e, x)[i] # Absent
      PROVE  Argv(e, x)[i] \in e.args[IF Holes(e) = {} THEN i - Len(e.argv) ELSE e.argv[i].hole].may
  <2>1. CASE Holes(e) = {}
    <3>1. Argv(e, x) = [k \in 1 .. Len(e.argv) + Len(x) |->
                          IF k <= Len(e.argv) THEN Absent ELSE x[k - Len(e.argv)]]
      BY <2>1 DEF Argv
    <3>2. i \in 1 .. Len(e.argv) + Len(x) /\ ~(i <= Len(e.argv)) /\ Argv(e, x)[i] = x[i - Len(e.argv)]
      BY <1>9, <3>1
    <3>3. i - Len(e.argv) \in 1 .. MaxArgs /\ i - Len(e.argv) <= Len(x)
      BY <1>4, <1>7, <3>2
    <3>. QED BY <1>5, <2>1, <3>2, <3>3
  <2>2. CASE Holes(e) # {}
    <3>1. Argv(e, x) = [k \in DOMAIN e.argv |-> IF e.argv[k].hole = 0 THEN Absent
                                                ELSE x[e.argv[k].hole]]
      BY <2>2 DEF Argv
    <3>2. i \in DOMAIN e.argv /\ e.argv[i].hole # 0 /\ Argv(e, x)[i] = x[e.argv[i].hole]
      BY <1>9, <3>1
    <3>3. e.argv[i].hole \in Holes(e) /\ e.argv[i].hole \in Nat
      BY <1>7, <3>2 DEF Holes
    <3>4. ~(e.argv[i].hole > Len(x))
      BY <1>3, <3>3 DEF x
    <3>5. e.argv[i].hole \in 1 .. MaxArgs /\ e.argv[i].hole <= Len(x)
      BY <1>4, <1>7, <3>2, <3>3, <3>4
    <3>. QED BY <1>5, <2>2, <3>2, <3>5
  <2>. QED BY <2>1, <2>2
<1>. QED BY <1>6, <1>8, <1>9 DEF ArgumentsMeetTheirSpec

LEMMA SlotsAre == LoadInv /\ RequestInv => SlotsAreParameters
<1> SUFFICES ASSUME LoadInv, RequestInv, ran # Absent, NoGaps(req),
                    NEW s \in 1 .. MaxArgs, ran.extra # <<>>, s <= Len(ran.extra)
    PROVE  ran.extra[s] = req.query.a[s]
  BY DEF SlotsAreParameters, NoGaps
<1>1. ran.extra = Extra(req)
  BY DEF RequestInv
<1>2. conf.max \in 0 .. MaxArgs
  BY EntriesAreListed
<1>3. Len(Extra(req)) \in Nat
  BY <1>2, ExtraIs, LenProperties
<1>4. s \in 1 .. Len(Extra(req))
  BY <1>1, <1>3, ShcmdConstants
<1>. QED BY <1>1, <1>2, <1>4, ExtraIs

-----------------------------------------------------------------------------
(* The address rules.                                                      *)
(* A byte, shifted to the right one bit at a time.                         *)
LEMMA Shifts ==
  ASSUME NEW B \in 1 .. 8, NEW x \in 0 .. (2 ^ B - 1)
  PROVE  /\ x \div 2 ^ B = 0 /\ x \div 2 ^ 0 = x
         /\ \A k \in 0 .. B : x \div 2 ^ k \in Int
         /\ \A k \in 0 .. (B - 1) : x \div 2 ^ k = 2 * (x \div 2 ^ (k + 1)) + ((x \div 2 ^ k) % 2)
<1>0. x \in 0 .. 255
  <2>1. CASE B = 1 BY <2>1
  <2>2. CASE B = 2 BY <2>2
  <2>3. CASE B = 3 BY <2>3
  <2>4. CASE B = 4 BY <2>4
  <2>5. CASE B = 5 BY <2>5
  <2>6. CASE B = 6 BY <2>6
  <2>7. CASE B = 7 BY <2>7
  <2>8. CASE B = 8 BY <2>8
  <2>. QED BY <2>1, <2>2, <2>3, <2>4, <2>5, <2>6, <2>7, <2>8
<1>1. x \div 2 ^ B = 0
  <2>1. CASE B = 1 BY <2>1
  <2>2. CASE B = 2 BY <2>2
  <2>3. CASE B = 3 BY <2>3
  <2>4. CASE B = 4 BY <2>4
  <2>5. CASE B = 5 BY <2>5
  <2>6. CASE B = 6 BY <2>6
  <2>7. CASE B = 7 BY <2>7
  <2>8. CASE B = 8 BY <2>8
  <2>. QED BY <2>1, <2>2, <2>3, <2>4, <2>5, <2>6, <2>7, <2>8
<1>2. x \div 2 ^ 0 = x
  BY <1>0
<1>3. \A k \in 0 .. B : x \div 2 ^ k \in Int
  <2> SUFFICES ASSUME NEW k \in 0 .. B PROVE x \div 2 ^ k \in Int
    OBVIOUS
  <2>0. CASE k = 0 BY <1>0, <2>0
  <2>1. CASE k = 1 BY <1>0, <2>1
  <2>2. CASE k = 2 BY <1>0, <2>2
  <2>3. CASE k = 3 BY <1>0, <2>3
  <2>4. CASE k = 4 BY <1>0, <2>4
  <2>5. CASE k = 5 BY <1>0, <2>5
  <2>6. CASE k = 6 BY <1>0, <2>6
  <2>7. CASE k = 7 BY <1>0, <2>7
  <2>8. CASE k = 8 BY <1>0, <2>8
  <2>. QED BY <2>0, <2>1, <2>2, <2>3, <2>4, <2>5, <2>6, <2>7, <2>8
<1>4. \A k \in 0 .. 7 : x \div 2 ^ k = 2 * (x \div 2 ^ (k + 1)) + ((x \div 2 ^ k) % 2)
  <2> SUFFICES ASSUME NEW k \in 0 .. 7
               PROVE  x \div 2 ^ k = 2 * (x \div 2 ^ (k + 1)) + ((x \div 2 ^ k) % 2)
    OBVIOUS
  <2>0. CASE k = 0
    <3>1. x \div 1 = 2 * (x \div 2) + ((x \div 1) % 2)
      BY <1>0
    <3>2. 2 ^ k = 1 /\ 2 ^ (k + 1) = 2
      BY <2>0
    <3>. QED BY ONLY <3>1, <3>2
  <2>1. CASE k = 1
    <3>1. x \div 2 = 2 * (x \div 4) + ((x \div 2) % 2)
      BY <1>0
    <3>2. 2 ^ k = 2 /\ 2 ^ (k + 1) = 4
      BY <2>1
    <3>. QED BY ONLY <3>1, <3>2
  <2>2. CASE k = 2
    <3>1. x \div 4 = 2 * (x \div 8) + ((x \div 4) % 2)
      BY <1>0
    <3>2. 2 ^ k = 4 /\ 2 ^ (k + 1) = 8
      BY <2>2
    <3>. QED BY ONLY <3>1, <3>2
  <2>3. CASE k = 3
    <3>1. x \div 8 = 2 * (x \div 16) + ((x \div 8) % 2)
      BY <1>0
    <3>2. 2 ^ k = 8 /\ 2 ^ (k + 1) = 16
      BY <2>3
    <3>. QED BY ONLY <3>1, <3>2
  <2>4. CASE k = 4
    <3>1. x \div 16 = 2 * (x \div 32) + ((x \div 16) % 2)
      BY <1>0
    <3>2. 2 ^ k = 16 /\ 2 ^ (k + 1) = 32
      BY <2>4
    <3>. QED BY ONLY <3>1, <3>2
  <2>5. CASE k = 5
    <3>1. x \div 32 = 2 * (x \div 64) + ((x \div 32) % 2)
      BY <1>0
    <3>2. 2 ^ k = 32 /\ 2 ^ (k + 1) = 64
      BY <2>5
    <3>. QED BY ONLY <3>1, <3>2
  <2>6. CASE k = 6
    <3>1. x \div 64 = 2 * (x \div 128) + ((x \div 64) % 2)
      BY <1>0
    <3>2. 2 ^ k = 64 /\ 2 ^ (k + 1) = 128
      BY <2>6
    <3>. QED BY ONLY <3>1, <3>2
  <2>7. CASE k = 7
    <3>1. x \div 128 = 2 * (x \div 256) + ((x \div 128) % 2)
      BY <1>0
    <3>2. 2 ^ k = 128 /\ 2 ^ (k + 1) = 256
      BY <2>7
    <3>. QED BY ONLY <3>1, <3>2
  <2>. QED BY <2>0, <2>1, <2>2, <2>3, <2>4, <2>5, <2>6, <2>7
<1>5. \A k \in 0 .. (B - 1) : k \in 0 .. 7
  OBVIOUS
<1>. QED BY <1>1, <1>2, <1>3, <1>4, <1>5

(* A number that is halved again and again.                                *)
Halved(B, u) ==
  /\ \A k \in 0 .. B : u[k] \in Int
  /\ \A k \in 0 .. (B - 1) : u[k] = 2 * u[k + 1] + (u[k] % 2)

Agree(B, u, v) ==
  \A n \in 0 .. B : u[B - n] = v[B - n]
    <=> \A k \in 0 .. (n - 1) : u[B - 1 - k] % 2 = v[B - 1 - k] % 2

(* Two numbers agree after n halvings from the top if their n first bits   *)
(* do.                                                                     *)
LEMMA FirstBits ==
  ASSUME NEW B \in 1 .. 8, NEW u, NEW v, u[B] = v[B], Halved(B, u), Halved(B, v)
  PROVE  Agree(B, u, v)
<1> DEFINE Same(k) == u[B - 1 - k] % 2 = v[B - 1 - k] % 2
           Good(n) == u[B - n] = v[B - n] <=> \A k \in 0 .. (n - 1) : Same(k)
           Bad == {n \in 0 .. B : ~Good(n)}
<1>1. Good(0)
  <2>1. B - 0 = B /\ 0 .. (0 - 1) = {}
    OBVIOUS
  <2>. QED BY <2>1
<1>2. ASSUME NEW n \in 0 .. (B - 1), Good(n) PROVE Good(n + 1)
  <2>1. B - (n + 1) = B - 1 - n /\ B - 1 - n + 1 = B - n /\ B - 1 - n \in 0 .. (B - 1)
        /\ B - n \in 0 .. B /\ B - 1 - n \in 0 .. B
    OBVIOUS
  <2> DEFINE j == B - 1 - n
  <2>2. /\ u[j] = 2 * u[B - n] + (u[j] % 2) /\ v[j] = 2 * v[B - n] + (v[j] % 2)
        /\ u[j] \in Int /\ v[j] \in Int /\ u[B - n] \in Int /\ v[B - n] \in Int
    BY <2>1 DEF Halved
  <2>3. \A a, b, c, d \in Int : a = 2 * c + (a % 2) /\ b = 2 * d + (b % 2)
          => (a = b <=> c = d /\ a % 2 = b % 2)
    OBVIOUS
  <2>4. u[j] = v[j] <=> u[B - n] = v[B - n] /\ u[j] % 2 = v[j] % 2
    BY ONLY <2>2, <2>3
  <2>5. (\A k \in 0 .. (n + 1 - 1) : Same(k)) <=> (\A k \in 0 .. (n - 1) : Same(k)) /\ Same(n)
    <3>1. \A k : k \in 0 .. (n + 1 - 1) <=> k \in 0 .. (n - 1) \/ k = n
      OBVIOUS
    <3> HIDE DEF Same
    <3>. QED BY ONLY <3>1
  <2>6. Same(n) <=> u[j] % 2 = v[j] % 2
    OBVIOUS
  <2>7. u[B - (n + 1)] = u[j] /\ v[B - (n + 1)] = v[j]
    BY <2>1
  <2> HIDE DEF j, Same
  <2>. QED BY <1>2, <2>4, <2>5, <2>6, <2>7
<1>3. Bad = {}
  <2> SUFFICES ASSUME Bad # {} PROVE FALSE
    OBVIOUS
  <2>1. Bad \in SUBSET Nat
    OBVIOUS
  <2> HIDE DEF Good
  <2>2. PICK n \in Bad : \A j \in Bad : n <= j
    BY <2>1, LeastNumber
  <2>3. n \in 0 .. B /\ ~Good(n) /\ n # 0
    BY <1>1, <2>2
  <2>4. n - 1 \in 0 .. (B - 1) /\ n - 1 \in 0 .. B /\ ~(n <= n - 1) /\ n - 1 + 1 = n
    BY <2>3
  <2>5. Good(n - 1)
    BY <2>2, <2>4
  <2>6. Good(n - 1 + 1)
    BY <1>2, <2>4, <2>5
  <2>. QED BY <2>3, <2>4, <2>6
<1>. QED BY <1>3 DEF Agree

(* Two bytes agree above a mask if their first bits do.                    *)
LEMMA BytePrefix ==
  ASSUME NEW B \in 1 .. 8, NEW x \in 0 .. (2 ^ B - 1), NEW y \in 0 .. (2 ^ B - 1)
  PROVE  \A n \in 0 .. B : x \div 2 ^ (B - n) = y \div 2 ^ (B - n)
           <=> \A k \in 0 .. (n - 1) :
                 (x \div 2 ^ (B - 1 - k)) % 2 = (y \div 2 ^ (B - 1 - k)) % 2
<1> DEFINE u == [k \in 0 .. B |-> x \div 2 ^ k]
           v == [k \in 0 .. B |-> y \div 2 ^ k]
<1>1. \A k \in 0 .. B : u[k] = x \div 2 ^ k /\ v[k] = y \div 2 ^ k
  OBVIOUS
<1>2. \A k \in 0 .. (B - 1) : k \in 0 .. B /\ k + 1 \in 0 .. B
  OBVIOUS
<1>3. B \in 0 .. B
  OBVIOUS
<1>4. \A n \in 0 .. B : B - n \in 0 .. B /\ \A k \in 0 .. (n - 1) : B - 1 - k \in 0 .. B
  OBVIOUS
<1> HIDE DEF u, v
<1>5. u[B] = v[B]
  BY <1>1, <1>3, Shifts
<1>6. Halved(B, u)
  <2>1. ASSUME NEW k \in 0 .. (B - 1) PROVE u[k] = 2 * u[k + 1] + (u[k] % 2)
    <3>1. u[k] = x \div 2 ^ k /\ u[k + 1] = x \div 2 ^ (k + 1)
      BY <1>1, <1>2
    <3>2. x \div 2 ^ k = 2 * (x \div 2 ^ (k + 1)) + ((x \div 2 ^ k) % 2)
      BY Shifts
    <3>. QED BY ONLY <3>1, <3>2
  <2>2. \A k \in 0 .. B : u[k] \in Int
    BY <1>1, Shifts
  <2>. QED BY <2>1, <2>2 DEF Halved
<1>7. Halved(B, v)
  <2>1. ASSUME NEW k \in 0 .. (B - 1) PROVE v[k] = 2 * v[k + 1] + (v[k] % 2)
    <3>1. v[k] = y \div 2 ^ k /\ v[k + 1] = y \div 2 ^ (k + 1)
      BY <1>1, <1>2
    <3>2. y \div 2 ^ k = 2 * (y \div 2 ^ (k + 1)) + ((y \div 2 ^ k) % 2)
      BY Shifts
    <3>. QED BY ONLY <3>1, <3>2
  <2>2. \A k \in 0 .. B : v[k] \in Int
    BY <1>1, Shifts
  <2>. QED BY <2>1, <2>2 DEF Halved
<1>8. Agree(B, u, v)
  BY <1>5, <1>6, <1>7, FirstBits
<1>9. \A n \in 0 .. B : u[B - n] = x \div 2 ^ (B - n) /\ v[B - n] = y \div 2 ^ (B - n)
  BY <1>1, <1>4
<1>10. \A n \in 0 .. B : \A k \in 0 .. (n - 1) :
        u[B - 1 - k] = x \div 2 ^ (B - 1 - k) /\ v[B - 1 - k] = y \div 2 ^ (B - 1 - k)
  BY <1>1, <1>4
<1>. QED BY <1>8, <1>9, <1>10 DEF Agree

(* The n-th bit of an address is one of a byte.                            *)
LEMMA BitIn ==
  ASSUME NEW B \in 1 .. 8, NEW n \in Nat
  PROVE  n \div B \in Nat /\ n % B \in 0 .. (B - 1) /\ n = B * (n \div B) + (n % B)
<1>1. CASE B = 1 BY <1>1
<1>2. CASE B = 2 BY <1>2
<1>3. CASE B = 3 BY <1>3
<1>4. CASE B = 4 BY <1>4
<1>5. CASE B = 5 BY <1>5
<1>6. CASE B = 6 BY <1>6
<1>7. CASE B = 7 BY <1>7
<1>8. CASE B = 8 BY <1>8
<1>. QED BY <1>1, <1>2, <1>3, <1>4, <1>5, <1>6, <1>7, <1>8

(* The bits before the n-th are those of whole bytes and the first of the  *)
(* next byte.                                                              *)
LEMMA BitOf ==
  ASSUME NEW B \in 1 .. 8, NEW w \in Nat, NEW k \in 0 .. (B - 1)
  PROVE  /\ (B * w + k) \div B = w /\ (B * w + k) % B = k /\ B * w + k \in Nat
         /\ \A n \in Nat : B * w + k < n <=> w < n \div B \/ (w = n \div B /\ k < n % B)
<1>1. CASE B = 1 BY <1>1
<1>2. CASE B = 2 BY <1>2
<1>3. CASE B = 3 BY <1>3
<1>4. CASE B = 4 BY <1>4
<1>5. CASE B = 5 BY <1>5
<1>6. CASE B = 6 BY <1>6
<1>7. CASE B = 7 BY <1>7
<1>8. CASE B = 8 BY <1>8
<1>. QED BY <1>1, <1>2, <1>3, <1>4, <1>5, <1>6, <1>7, <1>8

(* How far an address of A bytes reaches.                                  *)
LEMMA BitsOfBytes ==
  ASSUME NEW B \in 1 .. 8, NEW A \in Nat
  PROVE  /\ \A n \in 0 .. B * A : n \div B <= A /\ (n % B # 0 => n \div B < A)
         /\ \A w \in 0 .. (A - 1), k \in 0 .. (B - 1) : B * w + k < B * A
         /\ B * A \in Nat
<1>1. CASE B = 1 BY <1>1
<1>2. CASE B = 2 BY <1>2
<1>3. CASE B = 3 BY <1>3
<1>4. CASE B = 4 BY <1>4
<1>5. CASE B = 5 BY <1>5
<1>6. CASE B = 6 BY <1>6
<1>7. CASE B = 7 BY <1>7
<1>8. CASE B = 8 BY <1>8
<1>. QED BY <1>1, <1>2, <1>3, <1>4, <1>5, <1>6, <1>7, <1>8

(* Bit k of byte w.                                                        *)
BitAt(a, w, k) == (a[w + 1] \div 2 ^ (ByteBits - 1 - k)) % 2

LEMMA BitsAre ==
  ASSUME NEW a
  PROVE  \A i \in 1 .. ByteBits * AddrBytes :
           Bits(a)[i] = BitAt(a, (i - 1) \div ByteBits, (i - 1) % ByteBits)
BY DEF Bits, BitAt

(* The first n bits of two addresses are the same: one by one.             *)
LEMMA SamePrefix ==
  ASSUME NEW a, NEW b, NEW n \in 0 .. ByteBits * AddrBytes
  PROVE  SubSeq(Bits(a), 1, n) = SubSeq(Bits(b), 1, n)
           <=> \A i \in 1 .. n : Bits(a)[i] = Bits(b)[i]
<1> DEFINE N == ByteBits * AddrBytes
           S == {Bits(a)[i] : i \in 1 .. N} \cup {Bits(b)[i] : i \in 1 .. N}
<1>1. ByteBits \in 1 .. 8 /\ AddrBytes \in Nat
  BY ShcmdConstants
<1>2. N \in Nat
  BY <1>1, BitsOfBytes
<1>3. Bits(a) = [i \in 1 .. N |-> Bits(a)[i]] /\ Bits(b) = [i \in 1 .. N |-> Bits(b)[i]]
  BY DEF Bits
<1>4. \A i \in 1 .. N : Bits(a)[i] \in S /\ Bits(b)[i] \in S
  OBVIOUS
<1>5. n \in 0 .. N
  OBVIOUS
<1> HIDE DEF N, S
<1>6. Bits(a) \in Seq(S) /\ Bits(b) \in Seq(S)
  BY <1>2, <1>3, <1>4
<1>7. \A i \in 1 .. n : Bits(a)[i] \in S /\ Bits(b)[i] \in S
  BY <1>2, <1>4, <1>5
<1>8. n \in Int
  BY <1>2, <1>5
<1> DEFINE sa == SubSeq(Bits(a), 1, n)
           sb == SubSeq(Bits(b), 1, n)
<1>9. /\ sa \in Seq(S) /\ Len(sa) = n /\ \A i \in 1 .. n : sa[i] = Bits(a)[i]
      /\ sb \in Seq(S) /\ Len(sb) = n /\ \A i \in 1 .. n : sb[i] = Bits(b)[i]
  BY <1>2, <1>5, <1>6, <1>7, <1>8, SubSeqProperties
<1> HIDE DEF sa, sb
<1>10. sa = sb <=> \A i \in 1 .. n : sa[i] = sb[i]
  BY <1>9, SeqEqual
<1>. QED BY <1>9, <1>10 DEF sa, sb

(* A rule of the file is a prefix: bytes that are compared whole, and the  *)
(* masked rest of the next one.                                            *)
LEMMA RuleIsPrefix ==
  ASSUME NEW r, r.bits \in 0 .. ByteBits * AddrBytes, r.raw \in Address,
         NEW p, p.raw \in Address
  PROVE  InNet(r, p) <=>
           /\ r.family = p.family
           /\ SubSeq(Bits(r.raw), 1, r.bits) = SubSeq(Bits(p.raw), 1, r.bits)
<1> DEFINE B == ByteBits
           n == r.bits
           whole == n \div B
           rem == n % B
           x == r.raw
           y == p.raw
           Eq(w, k) == BitAt(x, w, k) = BitAt(y, w, k)
<1>1. B \in 1 .. 8 /\ AddrBytes \in Nat /\ n \in 0 .. B * AddrBytes /\ B * AddrBytes \in Nat /\ n \in Nat
  <2>1. ByteBits \in 1 .. 8 /\ AddrBytes \in Nat
    BY ShcmdConstants
  <2>2. ByteBits * AddrBytes \in Nat
    BY <2>1, BitsOfBytes
  <2>. QED BY <2>1, <2>2
<1>2. whole \in 0 .. AddrBytes /\ rem \in 0 .. (B - 1) /\ (rem # 0 => whole < AddrBytes)
  BY <1>1, BitIn, BitsOfBytes
<1>3. \A w \in 0 .. (AddrBytes - 1) : /\ x[w + 1] \in 0 .. (2 ^ B - 1)
                                       /\ y[w + 1] \in 0 .. (2 ^ B - 1)
  <2>1. \A w \in 0 .. (AddrBytes - 1) : w + 1 \in 1 .. AddrBytes
    BY <1>1
  <2>. QED BY <2>1 DEF Address
<1>4. \A i \in 1 .. n : Bits(x)[i] = BitAt(x, (i - 1) \div B, (i - 1) % B)
                     /\ Bits(y)[i] = BitAt(y, (i - 1) \div B, (i - 1) % B)
  <2>1. \A i \in 1 .. n : i \in 1 .. ByteBits * AddrBytes
    BY <1>1
  <2>. QED BY <2>1, BitsAre
<1> HIDE DEF B, n, x, y
<1>5. (\A i \in 1 .. n : Bits(x)[i] = Bits(y)[i])
        <=> \A w \in Nat : \A k \in 0 .. (B - 1) : B * w + k < n => Eq(w, k)
  <2>1. ASSUME \A i \in 1 .. n : Bits(x)[i] = Bits(y)[i], NEW w \in Nat, NEW k \in 0 .. (B - 1),
               B * w + k < n
        PROVE  Eq(w, k)
    <3> DEFINE j == B * w + k
    <3>1. j \in Nat /\ j \div B = w /\ j % B = k /\ j < n
      BY <1>1, <2>1, BitOf
    <3> HIDE DEF j
    <3>2. j + 1 \in 1 .. n /\ j + 1 - 1 = j
      BY <1>1, <3>1
    <3>3. Bits(x)[j + 1] = BitAt(x, w, k) /\ Bits(y)[j + 1] = BitAt(y, w, k)
      BY <1>4, <3>1, <3>2
    <3>. QED BY <2>1, <3>2, <3>3
  <2>2. ASSUME \A w \in Nat : \A k \in 0 .. (B - 1) : B * w + k < n => Eq(w, k), NEW i \in 1 .. n
        PROVE  Bits(x)[i] = Bits(y)[i]
    <3> DEFINE w == (i - 1) \div B
               k == (i - 1) % B
    <3>1. i - 1 \in Nat /\ i - 1 < n
      BY <1>1
    <3>2. w \in Nat /\ k \in 0 .. (B - 1) /\ i - 1 = B * w + k
      BY <1>1, <3>1, BitIn
    <3>3. Bits(x)[i] = BitAt(x, w, k) /\ Bits(y)[i] = BitAt(y, w, k)
      BY <1>4
    <3> HIDE DEF w, k
    <3>4. B * w + k < n
      BY <3>1, <3>2
    <3>5. Eq(w, k)
      BY <2>2, <3>2, <3>4
    <3>. QED BY <3>3, <3>5
  <2>. QED BY <2>1, <2>2
<1>6. (\A w \in Nat : \A k \in 0 .. (B - 1) : B * w + k < n => Eq(w, k))
        <=> /\ \A w \in 0 .. (whole - 1) : \A k \in 0 .. (B - 1) : Eq(w, k)
            /\ \A k \in 0 .. (rem - 1) : Eq(whole, k)
  <2>1. \A w \in Nat : \A k \in 0 .. (B - 1) : B * w + k < n <=> w < whole \/ (w = whole /\ k < rem)
    BY <1>1, BitOf
  <2>2. \A w : w \in 0 .. (whole - 1) <=> w \in Nat /\ w < whole
    BY <1>1, <1>2
  <2>3. \A k : k \in 0 .. (rem - 1) <=> k \in 0 .. (B - 1) /\ k < rem
    BY <1>1, <1>2
  <2>4. whole \in Nat
    BY <1>2
  <2> HIDE DEF whole, rem, Eq
  <2>. QED BY <2>1, <2>2, <2>3, <2>4
<1>7. ASSUME NEW w \in 0 .. (whole - 1)
      PROVE  x[w + 1] = y[w + 1] <=> \A k \in 0 .. (B - 1) : Eq(w, k)
  <2>1. w \in 0 .. (AddrBytes - 1)
    BY <1>1, <1>2
  <2>2. x[w + 1] \in 0 .. (2 ^ B - 1) /\ y[w + 1] \in 0 .. (2 ^ B - 1)
    BY <1>3, <2>1
  <2>3. B \in 0 .. B /\ B - B = 0
    BY <1>1
  <2>4. \A m \in 0 .. B : x[w + 1] \div 2 ^ (B - m) = y[w + 1] \div 2 ^ (B - m)
          <=> \A k \in 0 .. (m - 1) :
                (x[w + 1] \div 2 ^ (B - 1 - k)) % 2 = (y[w + 1] \div 2 ^ (B - 1 - k)) % 2
    BY <1>1, <2>2, BytePrefix
  <2>5. x[w + 1] \div 2 ^ 0 = x[w + 1] /\ y[w + 1] \div 2 ^ 0 = y[w + 1]
    BY <1>1, <2>2, Shifts
  <2>. QED BY <2>3, <2>4, <2>5 DEF BitAt, B
<1>8. ASSUME rem # 0
      PROVE  x[whole + 1] \div 2 ^ (B - rem) = y[whole + 1] \div 2 ^ (B - rem)
               <=> \A k \in 0 .. (rem - 1) : Eq(whole, k)
  <2>1. whole \in 0 .. (AddrBytes - 1) /\ rem \in 0 .. B
    BY <1>1, <1>2, <1>8
  <2>2. x[whole + 1] \in 0 .. (2 ^ B - 1) /\ y[whole + 1] \in 0 .. (2 ^ B - 1)
    BY <1>3, <2>1
  <2> HIDE DEF whole, rem
  <2>4. x[whole + 1] \div 2 ^ (B - rem) = y[whole + 1] \div 2 ^ (B - rem)
          <=> \A k \in 0 .. (rem - 1) :
                (x[whole + 1] \div 2 ^ (B - 1 - k)) % 2 = (y[whole + 1] \div 2 ^ (B - 1 - k)) % 2
    BY <1>1, <2>1, <2>2, BytePrefix
  <2>. QED BY <2>4 DEF BitAt, B
<1>9. rem = 0 => 0 .. (rem - 1) = {}
  BY <1>2
<1>10. SubSeq(Bits(x), 1, n) = SubSeq(Bits(y), 1, n) <=> \A i \in 1 .. n : Bits(x)[i] = Bits(y)[i]
  BY <1>1, SamePrefix DEF B
<1>11. InNet(r, p) <=>
         /\ r.family = p.family
         /\ \A w \in 0 .. (whole - 1) : y[w + 1] = x[w + 1]
         /\ rem # 0 => y[whole + 1] \div 2 ^ (B - rem) = x[whole + 1] \div 2 ^ (B - rem)
  <2>1. (\A i \in 1 .. whole : y[i] = x[i]) <=> \A w \in 0 .. (whole - 1) : y[w + 1] = x[w + 1]
    <3>1. \A w \in 0 .. (whole - 1) : w + 1 \in 1 .. whole
      BY <1>2
    <3>2. \A i \in 1 .. whole : i - 1 \in 0 .. (whole - 1) /\ i - 1 + 1 = i
      BY <1>2
    <3> HIDE DEF whole
    <3>. QED BY <3>1, <3>2
  <2>. QED BY <2>1 DEF InNet, B, n, x, y
<1> HIDE DEF whole, rem, Eq
<1>12. SubSeq(Bits(x), 1, n) = SubSeq(Bits(y), 1, n)
         <=> /\ \A w \in 0 .. (whole - 1) : x[w + 1] = y[w + 1]
             /\ rem # 0 => x[whole + 1] \div 2 ^ (B - rem) = y[whole + 1] \div 2 ^ (B - rem)
  BY <1>5, <1>6, <1>7, <1>8, <1>9, <1>10
<1>. QED BY <1>11, <1>12 DEF n, x, y

(* The rules of a configuration: what the lines of the file say.           *)
RulesAre(c) ==
  \A i \in 1 .. Len(c.addrs) : /\ c.addrs[i].bits \in 0 .. ByteBits * AddrBytes
                              /\ c.addrs[i].raw \in Address

LEMMA LineKeepsRules ==
  ASSUME NEW c, ConfIs(c), RulesAre(c), NEW l, LineIs(l), l.dir = "allow" => l.raw \in Address
  PROVE  RulesAre(CfgLine(c, l))
<1>1. CASE l.dir = "allow" /\ Len(c.addrs) < MaxAddrs /\ l.bits \in 0 .. ByteBits * AddrBytes
  <2> DEFINE x == [family |-> l.family, raw |-> l.raw, bits |-> l.bits]
             a == Append(c.addrs, x)
  <2>1. CfgLine(c, l) = [c EXCEPT !.addrs = a]
    BY <1>1 DEF CfgLine
  <2>2. CfgLine(c, l).addrs = a
    BY <2>1 DEF ConfIs
  <2>3. x.bits \in 0 .. ByteBits * AddrBytes /\ x.raw \in Address
    BY <1>1
  <2> HIDE DEF x
  <2>4. /\ Len(c.addrs) \in Nat /\ Len(a) = Len(c.addrs) + 1 /\ a[Len(c.addrs) + 1] = x
        /\ \A i \in 1 .. Len(c.addrs) : a[i] = c.addrs[i]
    BY AppendTo DEF ConfIs
  <2> HIDE DEF a
  <2>5. \A i \in 1 .. Len(a) : i \in 1 .. Len(c.addrs) \/ i = Len(c.addrs) + 1
    BY <2>4
  <2>. QED BY <2>2, <2>3, <2>4, <2>5 DEF RulesAre
<1>2. CASE ~(l.dir = "allow" /\ Len(c.addrs) < MaxAddrs /\ l.bits \in 0 .. ByteBits * AddrBytes)
  <2>1. CfgLine(c, l).addrs = c.addrs
    BY <1>2 DEF CfgLine, ConfIs, Attached
  <2>. QED BY <2>1 DEF RulesAre
<1>. QED BY <1>1, <1>2

LEMMA RulesInit == ShcmdInit => RulesAre(conf)
<1>1. ShcmdInit => conf.addrs = <<>>
  BY DEF ShcmdInit, Defaults
<1>. QED BY <1>1, EmptyList DEF RulesAre

LEMMA RulesNext == LoadInv /\ RulesAre(conf) /\ [ShcmdNext]_shcmdVars => RulesAre(conf)'
<1> SUFFICES ASSUME LoadInv, RulesAre(conf), [ShcmdNext]_shcmdVars PROVE RulesAre(conf')
  BY DEF RulesAre
<1>1. CASE LoadLine
  <2>1. conf' = CfgLine(conf, Head(todo)) /\ todo # <<>>
    BY <1>1 DEF LoadLine
  <2>2. PICK i \in 1 .. Len(file) : Head(todo) = file[i]
    <3>1. Head(todo) = todo[1] /\ Len(todo) \in Nat \ {0}
      BY <2>1, TailOf DEF LoadInv, LoadTyped
    <3>2. 1 \in 1 .. Len(todo) /\ Len(file) - Len(todo) + 1 \in 1 .. Len(file)
      BY <3>1 DEF LoadInv, LoadTyped
    <3>. QED BY <3>1, <3>2 DEF LoadInv, LoadTyped
  <2>3. file \in Files /\ i \in DOMAIN file /\ LineIs(file[i]) /\ ConfIs(conf)
    BY <2>2, FileIs DEF LoadInv, LoadTyped
  <2>4. file[i].dir = "allow" => file[i].raw \in Address
    BY <2>3, AddressesAreRead
  <2>. QED BY <2>1, <2>2, <2>3, <2>4, LineKeepsRules
<1>2. CASE ~LoadLine
  <2>1. conf' = conf
    BY <1>2 DEF ShcmdNext, ShcmdStep, Listen, Turn, Blocks, TimesOut, ReadsOutput, EndOfFile,
           Reaped, Signal, Forks, LeavesGroup, Second, Writes, ClosesPipe, Exits, Accept, Refuse,
           StartCommand, StartFails, Reply, watching, outside, shcmdVars
  <2>. QED BY <2>1
<1>. QED BY <1>1, <1>2

LEMMA RulesArePrefixesOf == LoadInv /\ RulesAre(conf) => RulesArePrefixes
<1> SUFFICES ASSUME LoadInv, RulesAre(conf), NEW i \in DOMAIN conf.addrs, NEW r \in Requests
             PROVE  InNet(conf.addrs[i], r.peer) <=>
                      /\ conf.addrs[i].family = r.peer.family
                      /\ SubSeq(Bits(conf.addrs[i].raw), 1, conf.addrs[i].bits)
                           = SubSeq(Bits(r.peer.raw), 1, conf.addrs[i].bits)
  BY DEF RulesArePrefixes
<1>1. i \in 1 .. Len(conf.addrs)
  BY LenProperties DEF LoadInv, LoadTyped, ConfIs, Listed
<1>2. conf.addrs[i].bits \in 0 .. ByteBits * AddrBytes /\ conf.addrs[i].raw \in Address
  BY <1>1 DEF RulesAre
<1>3. r.peer.raw \in Address
  BY AddressesAreRead
<1>. QED BY <1>2, <1>3, RuleIsPrefix

-----------------------------------------------------------------------------
(* What a request makes run is what the file allows: for every file and    *)
(* every request, whatever the bounds of the arrays.                       *)
THEOREM RequestsChecked == ShcmdSpec => []RequestsAreChecked
<1>1. LoadInv /\ RequestInv /\ RulesAre(conf) => RequestsAreChecked
  BY LinesStay, OnlyTokens, ArgumentsMeet, SlotsAre, RulesArePrefixesOf DEF RequestsAreChecked
<1>. QED BY <1>1, LoadInit, LoadNext, RequestInit, RequestNext, RulesInit, RulesNext, PTL
         DEF ShcmdSpec

(* A reply tells what became of the command: nothing of its group runs on  *)
(* after a timeout, lost output is admitted, and after a stop signal one   *)
(* more connection is served at most.                                      *)
THEOREM RunsTold == ShcmdSpec => []RunsAreTold
<1>1. ShcmdInit => RunInv
  BY RunInit
<1>. QED BY <1>1, RunNext, RunInvTells, PTL DEF ShcmdSpec

(* The daemon is where it should be, and the bounds of its arrays hold.    *)
LEMMA ShcmdTypes == LoadInv /\ RunInv => ShcmdTypeOK
<1> SUFFICES ASSUME LoadInv, RunInv PROVE ShcmdTypeOK
  OBVIOUS
<1>1. /\ Len(conf.entries) <= MaxEntries /\ Len(conf.addrs) <= MaxAddrs
      /\ Len(conf.tokens) <= MaxTokens /\ conf.max \in 0 .. MaxArgs
  BY DEF LoadInv, LoadTyped, ConfIs
<1>2. \A i \in DOMAIN conf.entries : Len(conf.entries[i].argv) \in 1 .. MaxCmdArgv
  BY EntriesAreListed DEF LoadInv, LoadTyped, ConfIs, EntryIs
<1>3. Sensible /\ file \in Files /\ req \in Requests \cup {Absent}
  BY DEF LoadInv, LoadTyped, Sensible
<1>. QED BY <1>1, <1>2, <1>3 DEF RunInv, RunTyped, ShcmdTypeOK

(* A behaviour of the services is one of the phone and one of the server.  *)
LEMMA ServicesAreBoth == ServicesSpec => ClientSpec /\ ShcmdSpec
<1>1. ServicesInit => ClientInit /\ ShcmdInit
  BY DEF ServicesInit
<1>2. [ServicesNext]_servicesVars => [ClientNext]_clientVars /\ [ShcmdNext]_shcmdVars
  BY DEF ServicesNext, Phone, Server, servicesVars
<1>. QED BY <1>1, <1>2, PTL DEF ServicesSpec, ClientSpec, ShcmdSpec

(* The types of the store, of the phone and of the command server, at      *)
(* whichever of them is at work: no file is tried more often than the two  *)
(* retry loops allow, no array of the daemon is overrun.                   *)
THEOREM ServicesTyped == ServicesSpec => []ServiceTypes
<1>1. PhoneInv /\ LoadInv /\ RunInv => ServiceTypes
  BY PhoneInvIsEnough, ShcmdTypes DEF ServiceTypes
<1>2. ShcmdInit => RunInv /\ LoadInv
  BY RunInit, LoadInit
<1>. QED BY <1>1, <1>2, ServicesAreBoth, PhoneInvariant, LoadNext, RunNext, PTL
         DEF ShcmdSpec
=============================================================================
