----------------------------- MODULE DavBridge -----------------------------
(***************************************************************************)
(* The upload and delete operations of the dav-bridge CGI.  lighttpd runs  *)
(* one process per request, so every system call of op_upload and          *)
(* op_delete interleaves with those of the other requests on the shared    *)
(* SD card.  The file system is modelled with what a power cut tells       *)
(* apart: dir is the directory as the running kernel sees it and ddir the  *)
(* one on the card; cached[u] and durable[u] count the chunks of the inode *)
(* created by upload u in the page cache and on the card; buf[u] counts    *)
(* the chunks still in the stdio buffer of u's own process.  An inode is   *)
(* named by the upload that created it.                                    *)
(***************************************************************************)
EXTENDS DavNames

CONSTANTS
  Upload,         \* upload requests
  Delete,         \* delete requests
  Path,           \* the file names that exist in this instance
  Target,         \* the path each request asks for
  Size,           \* the length of each upload's body, in chunks
  MaxSize,        \* MAX_UPLOAD_BYTES, in chunks
  Checked,        \* the uploads that send size= and md5=
  MaxTries,       \* MAX_NAME_TRIES
  BufCap,         \* what the stdio buffer of the FILE can hold, in chunks
  NoReplace,      \* whether kernel and file system know RENAME_NOREPLACE
  DirSyncMayFail, \* whether the unchecked fsync of the directory may fail
  Killable,       \* the uploads whose CGI process may be killed
  Ageable,        \* the uploads whose inode may stay unwritten for an hour
  MaxCuts,        \* bound on the number of power cuts
  None            \* no inode, no temporary name, no response yet

Request == Upload \cup Delete

(* The n-th candidate name of upload u, and the ".part" name it reserves.  *)
Candidate(u, n) == BuildCandidate(Target[u], n)
TempName(u, n)  == PartName(Candidate(u, n))

ASSUME ConstantsOK ==
  /\ Upload \cap Delete = {}
  /\ None \notin Request /\ None \notin Path /\ None # 201
  /\ MaxTries \in Nat \ {0} /\ BufCap \in Nat /\ MaxCuts \in Nat
  /\ MaxSize \in Nat /\ Size \in [Upload -> Nat]
  /\ Checked \subseteq Upload
  /\ NoReplace \in BOOLEAN /\ DirSyncMayFail \in BOOLEAN
  /\ Killable \subseteq Upload /\ Ageable \subseteq Upload

ASSUME PathsOK ==
  /\ Path \subseteq FileName
  /\ Target \in [Request -> Path]
  /\ \A u \in Upload : \A k \in 0 .. (MaxTries - 1) :
       Candidate(u, k) \in Path /\ TempName(u, k) \in Path

VARIABLES
  pc,       \* where each request's process is
  n,        \* its loop counter: candidate number, or derived file number
  tmp,      \* the ".part" name an upload has reserved
  buf,      \* chunks in the stdio buffer
  bad,      \* whether the bytes received differ from the client's file
  resp,     \* the HTTP status answered
  dir, ddir, cached, durable,
  old,      \* whether the inode was last written over an hour ago
  removed,  \* history: the inodes unlinked by op_delete
  cuts      \* power cuts so far

files == <<dir, ddir, cached, durable, old>>
vars  == <<pc, n, tmp, buf, bad, resp, dir, ddir, cached, durable, old,
           removed, cuts>>

UploadPC == {"start", "open", "stat", "unlink", "reopen", "copy", "fsync",
             "close", "publish", "dirsync", "done", "dead"}
DeletePC == {"start", "remove", "derived", "dirsync", "done", "dead"}

(* While its pc is here an upload has a ".part" of its own.                *)
Holding == {"copy", "fsync", "close", "publish"}
Running(r) == pc[r] \notin {"start", "done", "dead"}

TypeOK ==
  /\ pc \in [Request -> UploadPC \cup DeletePC]
  /\ n \in [Request -> Nat]
  /\ \A u \in Upload : pc[u] \notin {"done", "dead"} => n[u] < MaxTries
  /\ tmp \in [Upload -> Path \cup {None}]
  /\ \A u \in Upload : pc[u] \in Holding => tmp[u] \in Path
  /\ buf \in [Upload -> Nat] /\ bad \in [Upload -> BOOLEAN]
  /\ resp \in [Request -> {None, 201, 204, 400, 404, 409, 413, 500}]
  /\ dir \in [Path -> Upload \cup {None}]
  /\ ddir \in [Path -> Upload \cup {None}]
  /\ cached \in [Upload -> Nat] /\ durable \in [Upload -> Nat]
  /\ old \in [Upload -> BOOLEAN]
  /\ removed \subseteq Upload
  /\ cuts \in 0 .. MaxCuts

Init ==
  /\ pc = [r \in Request |-> "start"]
  /\ n = [r \in Request |-> 0]
  /\ tmp = [u \in Upload |-> None]
  /\ buf = [u \in Upload |-> 0]
  /\ bad = [u \in Upload |-> FALSE]
  /\ resp = [r \in Request |-> None]
  /\ dir = [p \in Path |-> None]
  /\ ddir = [p \in Path |-> None]
  /\ cached = [u \in Upload |-> 0]
  /\ durable = [u \in Upload |-> 0]
  /\ old = [u \in Upload |-> FALSE]
  /\ removed = {}
  /\ cuts = 0

-----------------------------------------------------------------------------
(* Steps of a request's process.                                           *)

Goto(r, l) == pc' = [pc EXCEPT ![r] = l]

Answer(r, status) ==
  /\ Goto(r, "done")
  /\ resp' = [resp EXCEPT ![r] = status]

Unlinked(p) == [dir EXCEPT ![p] = None]

(* Every early return of an upload that owns a temporary file: fclose,     *)
(* unlink by NAME, error answer.                                           *)
Discard(u, status) ==
  /\ dir' = Unlinked(tmp[u])
  /\ buf' = [buf EXCEPT ![u] = 0]
  /\ Answer(u, status)
  /\ UNCHANGED <<n, tmp, bad, ddir, cached, durable, old, removed, cuts>>

(* The request is rejected before it touches the card (path, md5 and size  *)
(* arguments, Content-Length, boundary, part headers).                     *)
Reject(u) ==
  /\ pc[u] = "start"
  /\ \E status \in {400, 413} : Answer(u, status)
  /\ UNCHANGED <<n, tmp, buf, bad, files, removed, cuts>>

Accept(u) ==
  /\ pc[u] = "start"
  /\ Goto(u, "open")
  /\ UNCHANGED <<n, tmp, buf, bad, resp, files, removed, cuts>>

(* Mutant: the loop forgets n++.                                           *)
NextNameStuck(u) ==
  /\ Goto(u, "open")
  /\ UNCHANGED <<n, tmp, buf, bad, resp, files, removed, cuts>>

(* The reservation loop's n++ and its bound.                               *)
NextName(u) ==
  /\ n' = [n EXCEPT ![u] = @ + 1]
  /\ IF n[u] + 1 < MaxTries THEN Goto(u, "open") /\ UNCHANGED resp
                            ELSE Answer(u, 409)
  /\ UNCHANGED <<tmp, buf, bad, files, removed, cuts>>

(* Mutant: O_TRUNC in place of O_EXCL.                                     *)
CreateNotExclusive(u) ==
  LET p == TempName(u, n[u]) IN
  /\ dir' = [dir EXCEPT ![p] = u]
  /\ tmp' = [tmp EXCEPT ![u] = p]
  /\ Goto(u, "copy")
  /\ UNCHANGED <<n, buf, bad, resp, ddir, cached, durable, old, removed,
                 cuts>>

(* Mutant: the name that was reserved is not kept.                         *)
CreateUnnamed(u) ==
  LET p == TempName(u, n[u]) IN
  /\ dir[p] = None
  /\ dir' = [dir EXCEPT ![p] = u]
  /\ Goto(u, "copy")
  /\ UNCHANGED <<n, tmp, buf, bad, resp, ddir, cached, durable, old,
                 removed, cuts>>

(* open(O_CREAT | O_EXCL) found the name free: the part is u's inode.      *)
Create(u) ==
  LET p == TempName(u, n[u]) IN
  /\ dir[p] = None
  /\ dir' = [dir EXCEPT ![p] = u]
  /\ tmp' = [tmp EXCEPT ![u] = p]
  /\ Goto(u, "copy")
  /\ UNCHANGED <<n, buf, bad, resp, ddir, cached, durable, old, removed,
                 cuts>>

(* The first open of an iteration; EEXIST leads to remove_stale_part, any  *)
(* other error (also a name too long for build_candidate) to a 500.        *)
OpenExcl(u) ==
  /\ pc[u] = "open"
  /\ \/ Create(u)
     \/ /\ dir[TempName(u, n[u])] # None
        /\ Goto(u, "stat")
        /\ UNCHANGED <<n, tmp, buf, bad, resp, files, removed, cuts>>
     \/ /\ Answer(u, 500)
        /\ UNCHANGED <<n, tmp, buf, bad, files, removed, cuts>>

(* remove_stale_part, first half: stat the name and look at its age.       *)
StatStale(u) ==
  LET i == dir[TempName(u, n[u])] IN
  /\ pc[u] = "stat"
  /\ IF i # None /\ old[i]
     THEN /\ Goto(u, "unlink")
          /\ UNCHANGED <<n, tmp, buf, bad, resp, files, removed, cuts>>
     ELSE NextName(u)

(* remove_stale_part, second half: unlink whatever has the name now.       *)
UnlinkStale(u) ==
  LET p == TempName(u, n[u]) IN
  /\ pc[u] = "unlink"
  /\ IF dir[p] = None
     THEN NextName(u)
     ELSE /\ dir' = Unlinked(p)
          /\ Goto(u, "reopen")
          /\ UNCHANGED <<n, tmp, buf, bad, resp, ddir, cached, durable, old,
                         removed, cuts>>

(* The second open of the iteration; here every failure goes on with the   *)
(* next name.                                                              *)
Reopen(u) ==
  /\ pc[u] = "reopen"
  /\ Create(u) \/ NextName(u)

Received(u) == cached[u] + buf[u]

(* sr_copy_until_boundary: one more fwrite.  The bytes may be damaged; k   *)
(* chunks stay in the stdio buffer and the ones before them are written.   *)
CopyChunk(u) ==
  /\ pc[u] = "copy" /\ Received(u) < Size[u] /\ Received(u) <= MaxSize
  /\ \E damage \in BOOLEAN : bad' = [bad EXCEPT ![u] = @ \/ damage]
  /\ \E k \in 0 .. BufCap :
       /\ k <= buf[u] + 1
       /\ buf' = [buf EXCEPT ![u] = k]
       /\ cached' = [cached EXCEPT ![u] = Received(u) + 1 - k]
  /\ UNCHANGED <<pc, n, tmp, resp, dir, ddir, durable, old, removed, cuts>>

TooLarge(u) ==
  /\ pc[u] = "copy" /\ Received(u) > MaxSize
  /\ Discard(u, 413)

(* The body ends before the boundary: the client went away.                *)
Malformed(u) ==
  /\ pc[u] = "copy"
  /\ Discard(u, 400)

(* Mutant: publishes without comparing size and md5.                       *)
BodyEndsUnchecked(u) ==
  /\ pc[u] = "copy" /\ Received(u) = Size[u]
  /\ Goto(u, "fsync")
  /\ UNCHANGED <<n, tmp, buf, bad, resp, files, removed, cuts>>

(* The terminating boundary is found: size and md5 are compared.           *)
BodyEnds(u) ==
  /\ pc[u] = "copy" /\ Received(u) = Size[u] /\ Received(u) <= MaxSize
  /\ IF u \in Checked /\ bad[u]
     THEN Discard(u, 400)
     ELSE /\ Goto(u, "fsync")
          /\ UNCHANGED <<n, tmp, buf, bad, resp, files, removed, cuts>>

(* Mutant: the data is not flushed before it is published.                 *)
FsyncSkipped(u) ==
  /\ pc[u] = "fsync"
  /\ Goto(u, "close")
  /\ UNCHANGED <<n, tmp, buf, bad, resp, files, removed, cuts>>

(* fsync(fd): what the page cache holds reaches the card; what is still in *)
(* the stdio buffer does not.                                              *)
Fsync(u) ==
  /\ pc[u] = "fsync"
  /\ durable' = [durable EXCEPT ![u] = cached[u]]
  /\ Goto(u, "close")
  /\ UNCHANGED <<n, tmp, buf, bad, resp, dir, ddir, cached, old, removed,
                 cuts>>

(* fclose(outf): the stdio buffer reaches the page cache.                  *)
Close(u) ==
  /\ pc[u] = "close"
  /\ cached' = [cached EXCEPT ![u] = Received(u)]
  /\ buf' = [buf EXCEPT ![u] = 0]
  /\ Goto(u, "publish")
  /\ UNCHANGED <<n, tmp, bad, resp, dir, ddir, durable, old, removed, cuts>>

(* fdopen, fwrite, fsync, fclose or the renaming of publish_part fails, or *)
(* the next candidate name is too long.                                    *)
IOError(u) ==
  /\ pc[u] \in Holding
  /\ Discard(u, 500)

(* Mutant: plain rename() also where RENAME_NOREPLACE works.               *)
PublishBlindly(u) ==
  LET final == Candidate(u, n[u]) IN
  /\ pc[u] = "publish"
  /\ dir[tmp[u]] # None
  /\ dir' = [dir EXCEPT ![tmp[u]] = None, ![final] = dir[tmp[u]]]
  /\ Goto(u, "dirsync")
  /\ UNCHANGED <<n, tmp, buf, bad, resp, ddir, cached, durable, old,
                 removed, cuts>>

(* publish_part: rename the reserved name to the candidate.  A missing     *)
(* source is an error; an existing target is -2, the next suffix, unless   *)
(* the fallback rename() replaces it.                                      *)
Publish(u) ==
  LET final == Candidate(u, n[u]) IN
  /\ pc[u] = "publish"
  /\ dir[tmp[u]] # None
  /\ NoReplace => dir[final] = None
  /\ dir' = [dir EXCEPT ![tmp[u]] = None, ![final] = dir[tmp[u]]]
  /\ Goto(u, "dirsync")
  /\ UNCHANGED <<n, tmp, buf, bad, resp, ddir, cached, durable, old,
                 removed, cuts>>

PublishLosesPart(u) ==
  /\ pc[u] = "publish"
  /\ dir[tmp[u]] = None
  /\ Discard(u, 500)

PublishTaken(u) ==
  /\ pc[u] = "publish" /\ NoReplace
  /\ dir[tmp[u]] # None /\ dir[Candidate(u, n[u])] # None
  /\ IF n[u] + 1 < MaxTries
     THEN /\ n' = [n EXCEPT ![u] = @ + 1]
          /\ UNCHANGED <<pc, tmp, buf, bad, resp, files, removed, cuts>>
     ELSE Discard(u, 409)

(* Mutant: the answer is sent without waiting for the directory.           *)
SyncDirSkipped(r, status) ==
  /\ pc[r] = "dirsync"
  /\ Answer(r, status)
  /\ UNCHANGED <<n, tmp, buf, bad, files, removed, cuts>>

(* fsync_parent_dir, then the answer; its result is not looked at.         *)
SyncDir(r, status) ==
  /\ pc[r] = "dirsync"
  /\ \/ ddir' = dir
     \/ DirSyncMayFail /\ ddir' = ddir
  /\ Answer(r, status)
  /\ UNCHANGED <<n, tmp, buf, bad, dir, cached, durable, old, removed, cuts>>

UploadStep(u) ==
  \/ OpenExcl(u) \/ StatStale(u) \/ UnlinkStale(u) \/ Reopen(u)
  \/ CopyChunk(u) \/ TooLarge(u) \/ Malformed(u) \/ BodyEnds(u)
  \/ Fsync(u) \/ Close(u) \/ IOError(u)
  \/ Publish(u) \/ PublishLosesPart(u) \/ PublishTaken(u)
  \/ SyncDir(u, 201)

(* unlink(p) by op_delete.                                                 *)
Remove(p) ==
  /\ dir' = IF p \in Path THEN Unlinked(p) ELSE dir
  /\ removed' = removed \cup {u \in Upload : p \in Path /\ dir[p] = u}

(* op_delete up to its lstat.                                              *)
StartDelete(d) ==
  /\ pc[d] = "start"
  /\ \/ \E status \in {400, 500} : Answer(d, status)
     \/ dir[Target[d]] = None /\ Answer(d, 404)
     \/ dir[Target[d]] # None /\ Goto(d, "remove") /\ UNCHANGED resp
  /\ UNCHANGED <<n, tmp, buf, bad, files, removed, cuts>>

(* The unlink of the file itself; it may have gone since the lstat.        *)
RemoveTarget(d) ==
  LET p == Target[d] IN
  /\ pc[d] = "remove"
  /\ \/ /\ dir[p] = None
        /\ Answer(d, 500)
        /\ UNCHANGED <<dir, removed>>
     \/ /\ dir[p] # None
        /\ Remove(p)
        /\ Goto(d, IF IsDerivedName(p) \/ IsPartName(p) THEN "dirsync"
                                                        ELSE "derived")
        /\ UNCHANGED resp
  /\ UNCHANGED <<n, tmp, buf, bad, ddir, cached, durable, old, cuts>>

(* One iteration of the loop over the derived siblings.                    *)
RemoveDerived(d) ==
  /\ pc[d] = "derived"
  /\ Remove(DerivedPath(Target[d], DerivedSuffixes[n[d] + 1]))
  /\ n' = [n EXCEPT ![d] = @ + 1]
  /\ Goto(d, IF n[d] + 1 < Len(DerivedSuffixes) THEN "derived" ELSE "dirsync")
  /\ UNCHANGED <<tmp, buf, bad, resp, ddir, cached, durable, old, cuts>>

DeleteStep(d) == RemoveTarget(d) \/ RemoveDerived(d) \/ SyncDir(d, 204)

-----------------------------------------------------------------------------
(* The environment: processes are killed, the kernel writes back, an hour  *)
(* passes, the power goes.                                                 *)

Kill(u) ==
  /\ u \in Killable /\ Running(u)
  /\ Goto(u, "dead")
  /\ buf' = [buf EXCEPT ![u] = 0]
  /\ UNCHANGED <<n, tmp, bad, resp, files, removed, cuts>>

(* An inode nobody writes to any more reaches STALE_PART_SECS.             *)
HourPasses(u) ==
  /\ u \in Ageable /\ pc[u] \in {"done", "dead"} /\ ~old[u]
  /\ old' = [old EXCEPT ![u] = TRUE]
  /\ UNCHANGED <<pc, n, tmp, buf, bad, resp, dir, ddir, cached, durable,
                 removed, cuts>>

WritebackData(u) ==
  /\ durable[u] < cached[u]
  /\ durable' = [durable EXCEPT ![u] = cached[u]]
  /\ UNCHANGED <<pc, n, tmp, buf, bad, resp, dir, ddir, cached, old, removed,
                 cuts>>

CommitDir ==
  /\ ddir # dir
  /\ ddir' = dir
  /\ UNCHANGED <<pc, n, tmp, buf, bad, resp, dir, cached, durable, old,
                 removed, cuts>>

PowerCut ==
  /\ cuts < MaxCuts
  /\ cuts' = cuts + 1
  /\ pc' = [r \in Request |-> IF Running(r) THEN "dead" ELSE pc[r]]
  /\ dir' = ddir
  /\ cached' = durable
  /\ buf' = [u \in Upload |-> 0]
  /\ UNCHANGED <<n, tmp, bad, resp, ddir, durable, old, removed>>

Next ==
  \/ \E u \in Upload : Reject(u) \/ Accept(u) \/ UploadStep(u)
  \/ \E d \in Delete : StartDelete(d) \/ DeleteStep(d)
  \/ \E u \in Upload : Kill(u) \/ HourPasses(u) \/ WritebackData(u)
  \/ CommitDir
  \/ PowerCut

Spec == Init /\ [][Next]_vars

(* The scheduler runs a process that can run, and the client sends its     *)
(* body to the end or goes away.                                           *)
Fairness ==
  /\ \A u \in Upload : WF_vars(UploadStep(u))
  /\ \A d \in Delete : WF_vars(DeleteStep(d))
FairSpec == Spec /\ Fairness

-----------------------------------------------------------------------------
(* Properties.                                                             *)

(* The published files: names that are not those of unfinished uploads.    *)
Final(u) == Candidate(u, n[u])
Published(u) == \E p \in Path : ~IsPartName(p) /\ dir[p] = u

(* An upload that still writes owns the ".part" name it reserved: nobody   *)
(* unlinked it, renamed it or put another file there.  This is what the    *)
(* O_EXCL reservation is for.                                              *)
PartIsOwned ==
  \A u \in Upload : pc[u] \in Holding => dir[tmp[u]] = u

(* A 201 answer is true and stays true: the name it gave holds the file of *)
(* that upload, in the running system and, unless the directory's fsync    *)
(* failed unnoticed, on the card, until op_delete removes the file.        *)
AckedFileStays ==
  \A u \in Upload : resp[u] = 201 /\ u \notin removed =>
    /\ dir[Final(u)] = u
    /\ DirSyncMayFail \/ ddir[Final(u)] = u

(* What is published was verified, and the card lacks at most what the     *)
(* stdio buffer held when op_upload called fsync, before its fclose.       *)
PublishedIsVerified ==
  \A u \in Upload : Published(u) =>
    /\ u \in Checked => ~bad[u]
    /\ Size[u] <= MaxSize
    /\ durable[u] + BufCap >= Size[u]
    /\ cuts = 0 => cached[u] = Size[u]

(* publish_part never replaces a file: while the system runs a name goes   *)
(* from one file to another only through being free.                       *)
NoOverwrite ==
  [][cuts' = cuts =>
       \A p \in Path : dir[p] # None => dir'[p] \in {dir[p], None}]_vars

(* No published file is shorter than the upload it came from, also after a *)
(* power cut (the claim of op_upload's comment).                           *)
NoTruncatedFile ==
  \A u \in Upload : Published(u) => cached[u] = Size[u]

(* The bridge implements the store of whole files: rename is the step in   *)
(* which a file appears, and everything else about its reservation, its    *)
(* copying and its flushing is invisible under the published names.        *)
FinalPath == {p \in Path : ~IsPartName(p)}

Store == INSTANCE UploadStore WITH
  Path  <- FinalPath,
  Names <- [u \in Upload |-> {Candidate(u, k) : k \in 0 .. (MaxTries - 1)}],
  store <- [p \in FinalPath |-> dir[p]],
  disk  <- [p \in FinalPath |-> ddir[p]],
  acked <- {u \in Upload : resp[u] = 201},
  gone  <- removed

ImplementsStore == Store!Spec

(* The conditions under which the store's promise is proved: no ".part"    *)
(* gets an hour old, no target is itself named ".part", renames do not     *)
(* replace and the directory's fsync works.  Kills and power cuts are not  *)
(* restricted.                                                             *)
Calm ==
  /\ Ageable = {} /\ NoReplace /\ ~DirSyncMayFail
  /\ \A r \in Request : ~IsPartName(Target[r])

(* The inductive invariant behind PartIsOwned, AckedFileStays and          *)
(* PublishedIsVerified, part by part.                                      *)
Unborn == {"start", "open", "stat"}

Counters ==
  /\ \A u \in Upload : pc[u] \in Unborn \cup Holding \cup
                                   {"dirsync", "done", "dead"}
  /\ \A d \in Delete : pc[d] \in DeletePC
  /\ \A d \in Delete : pc[d] \in {"start", "remove"} => n[d] = 0
  /\ \A d \in Delete : pc[d] = "derived" => n[d] \in 0 .. 2
  /\ \A u \in Upload : resp[u] = 201 => pc[u] = "done" /\ n[u] < MaxTries
  /\ \A u \in Upload : ~old[u]

TempNames ==
  \A u \in Upload : pc[u] \in Holding => IsPartName(tmp[u])

(* An inode has at most one name, and none before it is created.           *)
OneName(D) ==
  /\ \A p, q \in Path : D[p] = D[q] /\ D[p] # None => p = q
  /\ \A u \in Upload : pc[u] \in Unborn => \A p \in Path : D[p] # u

Verified(u) == (u \in Checked => ~bad[u]) /\ Size[u] <= MaxSize

Whole(u) ==
  /\ Verified(u)
  /\ durable[u] + BufCap >= Size[u]
  /\ cuts = 0 => cached[u] = Size[u]

FinalsAreWhole(D) ==
  \A p \in Path : ~IsPartName(p) /\ D[p] # None =>
    pc[D[p]] \in {"dirsync", "done", "dead"} /\ Whole(D[p])

Copying ==
  \A u \in Upload :
    /\ buf[u] <= BufCap
    /\ pc[u] \in {"fsync", "close", "publish"} =>
         Verified(u) /\ Received(u) = Size[u]
    /\ pc[u] \in {"close", "publish"} => durable[u] + BufCap >= Size[u]
    /\ pc[u] = "publish" => buf[u] = 0

PublishedOrRemoved ==
  \A u \in Upload : pc[u] = "dirsync" /\ u \notin removed => dir[Final(u)] = u

CalmInv ==
  /\ TypeOK /\ Counters /\ TempNames /\ PartIsOwned /\ Copying
  /\ OneName(dir) /\ OneName(ddir)
  /\ FinalsAreWhole(dir) /\ FinalsAreWhole(ddir)
  /\ PublishedOrRemoved /\ AckedFileStays

(* Every request that starts is answered, or its process is killed.        *)
Answered ==
  \A r \in Request : Running(r) ~> pc[r] \in {"done", "dead"}
=============================================================================
