---------------------------- MODULE UploadClient ----------------------------
(***************************************************************************)
(* The upload queue of the mini program, together with the store that      *)
(* dav-bridge promises.  Each try of a file is an upload <<file, n>> of    *)
(* its own to the store.  The connection may fail before the body is sent, *)
(* or after it: then the bridge may store the file although the phone does *)
(* not learn of it.  The list on the page says which files are done; a     *)
(* press of the button uploads the others, one after the other.            *)
(***************************************************************************)
EXTENDS UploadStore, Integers, FiniteSets

CONSTANTS
  Photos,      \* how many files were picked; a file is its place in the list
  Video,       \* the files that are videos
  TooLarge,    \* the videos above MAX_VIDEO_BYTES
  Outer,       \* UPLOAD_RETRIES
  Inner,       \* the tries of wxUploadFile
  MaxSent,     \* bound: uploads of one file that reach the bridge
  MaxPresses   \* bound: presses of the button

File == 1 .. Photos

(* A batch: where it stands, at which file, how many are over and which of *)
(* them failed, the tries of this file, what is skipped and what was sent. *)
Batch == [at : {"next", "probe", "send", "wait", "derived"}, i : 1 .. (Photos + 1),
          done : Nat, failed : SUBSET File, attempt : 1 .. Outer, try : 1 .. Inner,
          skip : SUBSET File, u : Upload \cup {None}]

ASSUME UploadClientConstants ==
  /\ Photos \in Nat \ {0} /\ TooLarge \subseteq Video /\ Video \subseteq File
  /\ Outer \in Nat \ {0} /\ Inner \in Nat \ {0} /\ MaxSent \in Nat
  /\ Upload = File \X (1 .. MaxSent) /\ None \notin Batch

VARIABLES
  page,      \* the status of each file on the page
  batch,     \* uploadFiles, None outside of it
  sent,      \* how many uploads of each file reached the bridge
  atBridge,  \* the uploads the bridge works on
  left,      \* whether the page was left, as it is after a full success
  presses,   \* bound: how often the button was pressed
  answered,  \* history: the uploads whose 201 reached the phone
  brokenOff  \* history: whether a batch was broken off by a large video

phoneVars  == <<page, batch, sent, atBridge, left, presses, answered, brokenOff>>
clientVars == <<storeVars, phoneVars>>

-----------------------------------------------------------------------------
(* startUpload: what is not done is sent; done files are told by the list  *)
(* as it was.                                                              *)
Over == {"done", "removed"}

Presses ==
  /\ batch = None /\ ~left /\ presses < MaxPresses
  /\ \E f \in File : page[f] \notin Over
  /\ presses' = presses + 1
  /\ page' = [f \in File |-> IF page[f] \in Over THEN page[f] ELSE "pending"]
  /\ batch' = [at |-> "next", i |-> 1, done |-> 0, failed |-> {}, attempt |-> 1, try |-> 1,
               skip |-> {f \in File : page[f] \in Over}, u |-> None]
  /\ UNCHANGED <<storeVars, sent, atBridge, left, answered, brokenOff>>

(* removeFile: a file is taken off the list, but not during a batch.       *)
TakesOff(f) ==
  /\ batch = None /\ ~left /\ page[f] # "removed"
  /\ page' = [page EXCEPT ![f] = "removed"]
  /\ UNCHANGED <<storeVars, batch, sent, atBridge, left, presses, answered, brokenOff>>

At(where) == batch # None /\ batch.at = where

Skips(b) == b.i \in b.skip

(* Mutant: the files that failed keep the status the progress gave them.   *)
EndPage(failed) == page

(* At the end the files that failed are marked.                            *)
Marked(failed) == [f \in File |-> IF f \in failed THEN "fail" ELSE page[f]]

(* The loop of uploadFiles: a file that is done is skipped, a video that   *)
(* is too large throws, and then nothing is marked.                        *)
NextFile ==
  /\ At("next") /\ batch.i <= Photos
  /\ IF Skips(batch)
     THEN batch' = [batch EXCEPT !.i = @ + 1] /\ UNCHANGED brokenOff
     ELSE IF batch.i \in TooLarge
     THEN batch' = None /\ brokenOff' = TRUE
     ELSE /\ batch' = [batch EXCEPT !.at = "probe", !.attempt = 1, !.try = 1]
          /\ UNCHANGED brokenOff
  /\ UNCHANGED <<storeVars, page, sent, atBridge, left, presses, answered>>

(* The batch is over; when nothing failed the page is left.                *)
Ends ==
  /\ At("next") /\ batch.i > Photos
  /\ batch' = None
  /\ page' = Marked(batch.failed)
  /\ left' = (batch.failed = {})
  /\ UNCHANGED <<storeVars, sent, atBridge, presses, answered, brokenOff>>

GivenUp(b) == [b EXCEPT !.at = "next", !.i = @ + 1, !.done = @ + 1,
                        !.failed = @ \cup {b.i}, !.u = None]

(* Mutant: one attempt more than there should be.                          *)
RetriedOnceMore(b) ==
  IF b.attempt <= Outer
  THEN [b EXCEPT !.at = "probe", !.attempt = @ + 1, !.try = 1, !.u = None] ELSE GivenUp(b)

(* withUploadRetry: mkcol, the free name and the upload once more.         *)
Retried(b) ==
  IF b.attempt < Outer
  THEN [b EXCEPT !.at = "probe", !.attempt = @ + 1, !.try = 1, !.u = None] ELSE GivenUp(b)

(* wxUploadFile repeats a request whose error reads like a connection's.   *)
Resent(b) ==
  IF b.try < Inner THEN [b EXCEPT !.at = "send", !.try = @ + 1, !.u = None] ELSE Retried(b)

(* mkcol, uniquePath and getFileInfo work, or fail for good or for now.    *)
Probes ==
  /\ At("probe")
  /\ \/ batch' = [batch EXCEPT !.at = "send"]
     \/ batch' = Retried(batch)
     \/ batch' = GivenUp(batch)
  /\ page' = [page EXCEPT ![batch.i] = IF batch.attempt > 1 THEN "uploading" ELSE @]
  /\ UNCHANGED <<storeVars, sent, atBridge, left, presses, answered, brokenOff>>

(* The request goes out; when the bound is reached no connection is made.  *)
Sends ==
  /\ At("send") /\ sent[batch.i] < MaxSent
  /\ LET u == <<batch.i, sent[batch.i] + 1>> IN
     /\ atBridge' = atBridge \cup {u}
     /\ batch' = [batch EXCEPT !.at = "wait", !.u = u]
  /\ sent' = [sent EXCEPT ![batch.i] = @ + 1]
  /\ page' = [page EXCEPT ![batch.i] = "uploading"]
  /\ UNCHANGED <<storeVars, left, presses, answered, brokenOff>>

NoConnection ==
  /\ At("send")
  /\ batch' = Resent(batch)
  /\ UNCHANGED <<storeVars, page, sent, atBridge, left, presses, answered, brokenOff>>

(* onProgressUpdate says 100: the body is sent, the page shows it as done. *)
BodyIsSent ==
  /\ At("wait") /\ page[batch.i] # "done"
  /\ page' = [page EXCEPT ![batch.i] = "done"]
  /\ UNCHANGED <<storeVars, batch, sent, atBridge, left, presses, answered, brokenOff>>

(* The 201 arrives.                                                        *)
Answer201 ==
  /\ At("wait") /\ batch.u \in acked
  /\ answered' = answered \cup {batch.u}
  /\ batch' = [batch EXCEPT !.at = "derived"]
  /\ UNCHANGED <<storeVars, page, sent, atBridge, left, presses, brokenOff>>

(* The bridge refuses the upload (400, 413: given up; 500: sent again).    *)
Refused ==
  /\ At("wait") /\ batch.u \in atBridge /\ ~Stored(batch.u)
  /\ batch' \in {GivenUp(batch), Retried(batch)}
  /\ atBridge' = atBridge \ {batch.u}
  /\ UNCHANGED <<storeVars, page, sent, left, presses, answered, brokenOff>>

(* The bridge is killed, whatever it did by then: lighttpd answers 500.    *)
Killed ==
  /\ At("wait") /\ batch.u \in atBridge
  /\ batch' = Retried(batch)
  /\ atBridge' = atBridge \ {batch.u}
  /\ UNCHANGED <<storeVars, page, sent, left, presses, answered, brokenOff>>

(* No answer: a lost connection is tried again, a timeout is not.          *)
NoAnswer ==
  /\ At("wait")
  /\ batch' \in {Resent(batch), GivenUp(batch)}
  /\ UNCHANGED <<storeVars, page, sent, atBridge, left, presses, answered, brokenOff>>

Place(f) == Cardinality({g \in 1 .. f : page[g] # "removed"})

(* Thumbnail and preview follow, their failures are ignored.  For a video  *)
(* the progress of the file at place "done" is set back to 0.              *)
Derives ==
  /\ At("derived")
  /\ page' = [f \in File |-> IF f = batch.i THEN "done"
                             ELSE IF batch.i \in Video /\ Place(f) = batch.done + 1 /\ page[f] # "removed"
                             THEN "uploading"
                             ELSE page[f]]
  /\ batch' = [batch EXCEPT !.at = "next", !.i = @ + 1, !.done = @ + 1, !.u = None]
  /\ UNCHANGED <<storeVars, sent, atBridge, left, presses, answered, brokenOff>>

(* The bridge at work, as its specification has it.                        *)
BridgeStores(u) ==
  /\ u \in atBridge /\ \E p \in Path : Put(u, p)
  /\ UNCHANGED phoneVars

BridgeAnswers(u) ==
  /\ u \in atBridge /\ (Acknowledge(u) \/ AcknowledgeGone(u))
  /\ atBridge' = atBridge \ {u}
  /\ UNCHANGED <<page, batch, sent, left, presses, answered, brokenOff>>

Deletes(p)  == Remove(p) /\ UNCHANGED phoneVars
WritesBack  == Commit /\ UNCHANGED phoneVars
BoardIsOff  ==
  /\ PowerCut
  /\ atBridge' = {}
  /\ UNCHANGED <<page, batch, sent, left, presses, answered, brokenOff>>

ClientInit ==
  /\ Init
  /\ page = [f \in File |-> "pending"] /\ batch = None
  /\ sent = [f \in File |-> 0] /\ atBridge = {} /\ left = FALSE /\ presses = 0
  /\ answered = {} /\ brokenOff = FALSE

PhoneStep ==
  \/ NextFile \/ Ends \/ Probes \/ Sends \/ NoConnection
  \/ Answer201 \/ Refused \/ Killed \/ NoAnswer \/ Derives

ClientNext ==
  \/ Presses \/ (\E f \in File : TakesOff(f)) \/ PhoneStep \/ BodyIsSent
  \/ \E u \in Upload : BridgeStores(u) \/ BridgeAnswers(u)
  \/ \E p \in Path : Deletes(p)
  \/ WritesBack \/ BoardIsOff

ClientSpec     == ClientInit /\ [][ClientNext]_clientVars
ClientFairSpec == ClientSpec /\ WF_clientVars(PhoneStep)

-----------------------------------------------------------------------------
(* The types; no file is tried more often than the two loops allow, and    *)
(* done counts the files of the batch that are over.                       *)
ClientTypeOK ==
  /\ page \in [File -> {"pending", "uploading", "done", "fail", "removed"}]
  /\ batch # None =>
       /\ batch \in Batch
       /\ batch.done = Cardinality({f \in File \ batch.skip : f < batch.i})
       /\ batch.at = "wait" => batch.u \in Upload
  /\ sent \in [File -> 0 .. MaxSent] /\ atBridge \subseteq Upload /\ answered \subseteq acked

(* What the page shows as done when no batch runs was acknowledged, so it  *)
(* is on the card until it is deleted: a press of the button may skip it.  *)
(* The progress alone had marked it done, and a file that failed after     *)
(* that must be marked again.  Only a batch that a large video broke off   *)
(* leaves such a file done.                                                *)
DoneIsStored ==
  batch = None /\ ~brokenOff =>
    \A f \in File : page[f] = "done" =>
      \E u \in acked : u[1] = f /\ (u \in gone \/ Stored(u))

(* No file is acknowledged to the phone twice, so a second copy of it on   *)
(* the card always is one whose answer was lost: "a file that is done is   *)
(* skipped, pressing again sends nothing twice", with all the retries.     *)
OneAnswerPerFile ==
  \A u, v \in answered : u[1] = v[1] => u = v

(* Every batch comes to its end, however the network and the bridge fail.  *)
EveryBatchEnds == batch # None ~> batch = None

(* Phone and store agree over lost requests, lost answers and retries: a   *)
(* file on the card has one name, what is shown as done is stored, and     *)
(* what was acknowledged to the phone is not sent again.                   *)
PhoneAndStoreAgree ==
  /\ OneName
  /\ DoneIsStored
  /\ OneAnswerPerFile
=============================================================================
