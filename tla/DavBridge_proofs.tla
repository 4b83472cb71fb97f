-------------------------- MODULE DavBridge_proofs --------------------------
(***************************************************************************)
(* Theorems about the upload and delete operations of dav-bridge, for any  *)
(* number of requests, any bodies, names and numbers of kills and power    *)
(* cuts.  There are two inductive invariants.  CalmInv: under Calm no      *)
(* ".part" is ever taken for debris, so a part stays with the upload that  *)
(* reserved it until that upload renames it, and the renaming fills a name *)
(* that is free.  SafeInv says what remains of it where names are replaced *)
(* and parts taken away.                                                   *)
(***************************************************************************)
EXTENDS DavBridge, TLAPS

(* Candidates of a plain target are plain, and derived names are plain:    *)
(* the ".part" names are disjoint from all others.                         *)
LEMMA CandidateNotPart ==
  ASSUME Calm, NEW u \in Upload, NEW k \in 0 .. (MaxTries - 1)
  PROVE  /\ Candidate(u, k) \in Path /\ ~IsPartName(Candidate(u, k))
         /\ TempName(u, k) \in Path /\ IsPartName(TempName(u, k))
<1>1. Candidate(u, k) \in Path /\ TempName(u, k) \in Path
  BY PathsOK
<1>2. Target[u] \in FileName
  BY PathsOK DEF Request
<1>3. ~IsPartName(Candidate(u, k))
  BY <1>2 DEF Calm, Candidate, BuildCandidate, IsPartName, FileName, Request
<1>4. IsPartName(TempName(u, k))
  BY DEF TempName, PartName, IsPartName
<1>. QED BY <1>1, <1>3, <1>4

LEMMA DerivedNotPart ==
  ASSUME NEW p, NEW i \in 0 .. 2
  PROVE  ~IsPartName(DerivedPath(p, DerivedSuffixes[i + 1]))
BY DEF DerivedPath, DerivedSuffixes, IsPartName

LEMMA InitType == Init => TypeOK
<1> SUFFICES ASSUME Init PROVE TypeOK
  OBVIOUS
<1>0. /\ \A r \in Request : pc[r] = "start" /\ n[r] = 0 /\ resp[r] = None
      /\ \A u \in Upload : u \in Request
      /\ \A d \in Delete : d \in Request
  BY DEF Init, Request
<1>1. pc \in [Request -> UploadPC \cup DeletePC]
  BY DEF Init, UploadPC
<1>2. n \in [Request -> Nat] /\ \A u \in Upload : n[u] < MaxTries
  BY ConstantsOK DEF Init, Request
<1>3. resp \in [Request -> {None, 201, 204, 400, 404, 409, 413, 500}]
  BY DEF Init
<1>4. /\ tmp \in [Upload -> Path \cup {None}]
      /\ buf \in [Upload -> Nat] /\ bad \in [Upload -> BOOLEAN]
      /\ dir \in [Path -> Upload \cup {None}]
      /\ ddir \in [Path -> Upload \cup {None}]
      /\ cached \in [Upload -> Nat] /\ durable \in [Upload -> Nat]
      /\ old \in [Upload -> BOOLEAN]
      /\ removed \subseteq Upload
      /\ cuts \in 0 .. MaxCuts
  BY ConstantsOK DEF Init
<1>5. \A u \in Upload : pc[u] \in Holding => tmp[u] \in Path
  BY <1>0 DEF Holding
<1>. QED BY <1>1, <1>2, <1>3, <1>4, <1>5 DEF TypeOK

LEMMA InitCalm == Calm /\ Init => CalmInv
<1> SUFFICES ASSUME Calm, Init PROVE CalmInv
  OBVIOUS
<1>0. /\ \A r \in Request : pc[r] = "start" /\ n[r] = 0 /\ resp[r] = None
      /\ \A u \in Upload : u \in Request
      /\ \A d \in Delete : d \in Request
  BY DEF Init, Request
<1>1. TypeOK
  BY InitType
<1>2. TempNames /\ PartIsOwned /\ PublishedOrRemoved
  BY <1>0 DEF TempNames, PartIsOwned, PublishedOrRemoved, Holding
<1>6. Counters
  BY <1>0, ConstantsOK DEF Init, Counters, Unborn, DeletePC
<1>7. AckedFileStays
  BY <1>0, ConstantsOK DEF AckedFileStays
<1>3. Copying
  BY ConstantsOK DEF Init, Copying, Request
<1>4. OneName(dir) /\ OneName(ddir)
  BY ConstantsOK DEF Init, OneName, Request
<1>5. FinalsAreWhole(dir) /\ FinalsAreWhole(ddir)
  BY DEF Init, FinalsAreWhole
<1>. QED BY <1>1, <1>2, <1>3, <1>4, <1>5, <1>6, <1>7 DEF CalmInv

(* The names an upload uses are names of the instance.                     *)
LEMMA NamesInPath ==
  ASSUME TypeOK, NEW u \in Upload, pc[u] \notin {"done", "dead"}
  PROVE  Candidate(u, n[u]) \in Path /\ TempName(u, n[u]) \in Path
<1>1. n[u] \in 0 .. (MaxTries - 1)
  BY ConstantsOK DEF TypeOK, Request
<1>. QED BY <1>1, PathsOK

LEMMA NextType ==
  ASSUME TypeOK, [Next]_vars
  PROVE  TypeOK'
<1>0. /\ pc \in [Request -> UploadPC \cup DeletePC] /\ n \in [Request -> Nat]
      /\ Upload \subseteq Request /\ Delete \subseteq Request
      /\ \A u \in Upload, d \in Delete : u # d
      /\ MaxTries \in Nat /\ BufCap \in Nat /\ Size \in [Upload -> Nat]
  BY ConstantsOK DEF TypeOK, Request
<1>1. ASSUME NEW u \in Upload, Reject(u) PROVE TypeOK'
  BY <1>0, <1>1, NamesInPath
  DEF Reject, Goto, Answer, files, TypeOK, UploadPC, Holding
<1>2. ASSUME NEW u \in Upload, Accept(u) PROVE TypeOK'
  BY <1>0, <1>2, NamesInPath
  DEF Accept, Goto, Answer, files, TypeOK, UploadPC, Holding
<1>3. ASSUME NEW u \in Upload, OpenExcl(u) PROVE TypeOK'
  BY <1>0, <1>3, NamesInPath
  DEF OpenExcl, Create, Goto, Answer, files, TypeOK, UploadPC, Holding
<1>4. ASSUME NEW u \in Upload, StatStale(u) PROVE TypeOK'
  BY <1>0, <1>4, NamesInPath
  DEF StatStale, NextName, Goto, Answer, files, TypeOK, UploadPC, Holding
<1>5. ASSUME NEW u \in Upload, UnlinkStale(u) PROVE TypeOK'
  BY <1>0, <1>5, NamesInPath
  DEF UnlinkStale, NextName, Unlinked, Goto, Answer, files, TypeOK, UploadPC, Holding
<1>6. ASSUME NEW u \in Upload, Reopen(u) PROVE TypeOK'
  BY <1>0, <1>6, NamesInPath
  DEF Reopen, NextName, Create, Goto, Answer, files, TypeOK, UploadPC, Holding
<1>7. ASSUME NEW u \in Upload, CopyChunk(u) PROVE TypeOK'
  BY <1>0, <1>7, NamesInPath
  DEF CopyChunk, Received, Goto, Answer, files, TypeOK, UploadPC, Holding
<1>8. ASSUME NEW u \in Upload, TooLarge(u) PROVE TypeOK'
  BY <1>0, <1>8, NamesInPath
  DEF TooLarge, Discard, Unlinked, Goto, Answer, files, TypeOK, UploadPC, Holding
<1>9. ASSUME NEW u \in Upload, Malformed(u) PROVE TypeOK'
  BY <1>0, <1>9, NamesInPath
  DEF Malformed, Discard, Unlinked, Goto, Answer, files, TypeOK, UploadPC, Holding
<1>10. ASSUME NEW u \in Upload, BodyEnds(u) PROVE TypeOK'
  BY <1>0, <1>10, NamesInPath
  DEF BodyEnds, Discard, Unlinked, Goto, Answer, files, TypeOK, UploadPC, Holding
<1>11. ASSUME NEW u \in Upload, Fsync(u) PROVE TypeOK'
  BY <1>0, <1>11, NamesInPath
  DEF Fsync, Goto, Answer, files, TypeOK, UploadPC, Holding
<1>12. ASSUME NEW u \in Upload, Close(u) PROVE TypeOK'
  BY <1>0, <1>12, NamesInPath
  DEF Close, Received, Goto, Answer, files, TypeOK, UploadPC, Holding
<1>13. ASSUME NEW u \in Upload, IOError(u) PROVE TypeOK'
  BY <1>0, <1>13, NamesInPath
  DEF IOError, Discard, Unlinked, Goto, Answer, files, TypeOK, UploadPC, Holding
<1>14. ASSUME NEW u \in Upload, Publish(u) PROVE TypeOK'
  BY <1>0, <1>14, NamesInPath
  DEF Publish, Goto, Answer, files, TypeOK, UploadPC, Holding
<1>15. ASSUME NEW u \in Upload, PublishLosesPart(u) PROVE TypeOK'
  BY <1>0, <1>15, NamesInPath
  DEF PublishLosesPart, Discard, Unlinked, Goto, Answer, files, TypeOK, UploadPC, Holding
<1>16. ASSUME NEW u \in Upload, PublishTaken(u) PROVE TypeOK'
  BY <1>0, <1>16, NamesInPath
  DEF PublishTaken, Discard, Unlinked, Goto, Answer, files, TypeOK, UploadPC, Holding
<1>17. ASSUME NEW u \in Upload, Kill(u) PROVE TypeOK'
  BY <1>0, <1>17, NamesInPath
  DEF Kill, Goto, Answer, files, TypeOK, UploadPC, Holding
<1>18. ASSUME NEW u \in Upload, HourPasses(u) PROVE TypeOK'
  BY <1>0, <1>18, NamesInPath
  DEF HourPasses, Goto, Answer, files, TypeOK, UploadPC, Holding
<1>19. ASSUME NEW u \in Upload, WritebackData(u) PROVE TypeOK'
  BY <1>0, <1>19, NamesInPath
  DEF WritebackData, Goto, Answer, files, TypeOK, UploadPC, Holding
<1>20. ASSUME NEW r \in Request, NEW s \in {201, 204}, SyncDir(r, s) PROVE TypeOK'
  BY <1>0, <1>20
  DEF SyncDir, Goto, Answer, files, TypeOK, UploadPC, Holding
<1>21. ASSUME NEW d \in Delete, StartDelete(d) PROVE TypeOK'
  BY <1>0, <1>21
  DEF StartDelete, Goto, Answer, files, TypeOK, DeletePC, Holding
<1>22. ASSUME NEW d \in Delete, RemoveTarget(d) PROVE TypeOK'
  BY <1>0, <1>22
  DEF RemoveTarget, Remove, Unlinked, Goto, Answer, files, TypeOK, DeletePC, Holding
<1>23. ASSUME NEW d \in Delete, RemoveDerived(d) PROVE TypeOK'
  BY <1>0, <1>23
  DEF RemoveDerived, Remove, Unlinked, Goto, Answer, files, TypeOK, DeletePC, Holding
<1>24. ASSUME CommitDir PROVE TypeOK'
  BY <1>0, <1>24 DEF CommitDir, TypeOK
<1>25. ASSUME PowerCut PROVE TypeOK'
  BY <1>0, <1>25, ConstantsOK DEF PowerCut, Running, TypeOK, UploadPC, Holding
<1>26. CASE UNCHANGED vars
  BY <1>26 DEF vars, TypeOK
<1>. QED
  BY <1>0, <1>1, <1>2, <1>3, <1>4, <1>5, <1>6, <1>7, <1>8, <1>9, <1>10, <1>11, <1>12, <1>13, <1>14, <1>15, <1>16, <1>17, <1>18, <1>19, <1>20, <1>21, <1>22, <1>23, <1>24, <1>25, <1>26
  DEF Next, UploadStep, DeleteStep

LEMMA FinalNotPart ==
  ASSUME Calm, TypeOK, ConstantsOK, NEW u \in Upload, n[u] < MaxTries
  PROVE  Final(u) \in Path /\ ~IsPartName(Final(u))
<1>1. n[u] \in 0 .. (MaxTries - 1)
  BY DEF TypeOK, ConstantsOK, Request
<1>. QED BY <1>1, CandidateNotPart DEF Final

(* Steps of an upload that leave the files alone and either stay before    *)
(* the reservation or end the process without success.                     *)
LEMMA QuietStep ==
  ASSUME Calm, CalmInv, TypeOK', NEW u \in Upload, pc[u] # "done",
         UNCHANGED <<tmp, bad, files, removed, cuts>>,
         \A r \in Request : r # u =>
           pc'[r] = pc[r] /\ n'[r] = n[r] /\ resp'[r] = resp[r],
         \A v \in Upload : v # u => buf'[v] = buf[v],
         \/ pc[u] \in Unborn /\ pc'[u] \in {"open", "stat"}
         \/ pc'[u] \in {"done", "dead"},
         resp'[u] # 201, buf'[u] <= buf[u]
  PROVE  CalmInv'
<1>0. /\ TypeOK /\ Counters /\ TempNames /\ PartIsOwned /\ Copying
      /\ OneName(dir) /\ OneName(ddir)
      /\ FinalsAreWhole(dir) /\ FinalsAreWhole(ddir)
      /\ PublishedOrRemoved /\ AckedFileStays
  BY DEF CalmInv
<1>a. u \in Request /\ \A d \in Delete : d # u
  BY ConstantsOK DEF Request
<1>b. UNCHANGED <<tmp, bad, dir, ddir, cached, durable, old, removed, cuts>>
  BY DEF files
<1>f. \A v \in Upload : n[v] < MaxTries => Final(v) \in Path /\ ~IsPartName(Final(v))
  BY <1>0, ConstantsOK, FinalNotPart
<1>g. \A v \in Upload : v # u => Final(v)' = Final(v)
  BY <1>0, <1>b DEF Final, TypeOK, Request
<1>1. Counters' /\ TempNames' /\ PartIsOwned'
  BY <1>0, <1>a, <1>b, ConstantsOK
  DEF TypeOK, Counters, Unborn, Holding, DeletePC, Request, TempNames, PartIsOwned
<1>2. Copying'
  BY <1>0, <1>a, <1>b, ConstantsOK
  DEF TypeOK, Copying, Received, Verified, Request
<1>3. OneName(dir)' /\ OneName(ddir)'
  BY <1>0, <1>a, <1>b, ConstantsOK
  DEF TypeOK, OneName, Unborn, Holding, Request
<1>4. FinalsAreWhole(dir)' /\ FinalsAreWhole(ddir)'
  BY <1>0, <1>a, <1>b, ConstantsOK
  DEF TypeOK, FinalsAreWhole, Whole, Verified, Unborn, Request
<1>5. PublishedOrRemoved' /\ AckedFileStays'
  BY <1>0, <1>a, <1>b, <1>f, <1>g, ConstantsOK
  DEF TypeOK, PublishedOrRemoved, Counters, Request, AckedFileStays
<1>. QED BY <1>1, <1>2, <1>3, <1>4, <1>5 DEF CalmInv

LEMMA CreateStep ==
  ASSUME Calm, CalmInv, TypeOK', NEW u \in Upload, pc[u] = "open", Create(u)
  PROVE  CalmInv'
<1>0. /\ TypeOK /\ Counters /\ TempNames /\ PartIsOwned /\ Copying
      /\ OneName(dir) /\ OneName(ddir)
      /\ FinalsAreWhole(dir) /\ FinalsAreWhole(ddir)
      /\ PublishedOrRemoved /\ AckedFileStays
  BY DEF CalmInv
<1>a. u \in Request /\ \A d \in Delete : d # u
  BY ConstantsOK DEF Request
<1> DEFINE p == TempName(u, n[u])
<1>b. p \in Path /\ IsPartName(p)
  <2>1. n[u] \in 0 .. (MaxTries - 1)
    BY <1>0, <1>a, ConstantsOK DEF TypeOK
  <2>. QED BY <2>1, CandidateNotPart
<1>c. /\ dir[p] = None
      /\ dir' = [dir EXCEPT ![p] = u]
      /\ tmp' = [tmp EXCEPT ![u] = p]
      /\ pc' = [pc EXCEPT ![u] = "copy"]
      /\ UNCHANGED <<n, buf, bad, resp, ddir, cached, durable, old, removed, cuts>>
  BY DEF Create, Goto
<1> HIDE DEF p
<1>f. \A v \in Upload : n[v] < MaxTries => Final(v) \in Path /\ ~IsPartName(Final(v))
  BY <1>0, ConstantsOK, FinalNotPart
<1>g. \A v \in Upload : Final(v)' = Final(v)
  BY <1>c DEF Final
<1>1. Counters' /\ TempNames' /\ PartIsOwned'
  BY <1>0, <1>a, <1>c, <1>b, ConstantsOK
  DEF TypeOK, Counters, Unborn, Holding, DeletePC, Request, TempNames, PartIsOwned
<1>2. Copying'
  BY <1>0, <1>a, <1>c, <1>b, ConstantsOK
  DEF TypeOK, Copying, Received, Verified, Request
<1>3. OneName(dir)' /\ OneName(ddir)'
  BY <1>0, <1>a, <1>c, <1>b, ConstantsOK
  DEF TypeOK, OneName, Unborn, Holding, Request
<1>4. FinalsAreWhole(dir)' /\ FinalsAreWhole(ddir)'
  BY <1>0, <1>a, <1>c, <1>b, ConstantsOK
  DEF TypeOK, FinalsAreWhole, Whole, Verified, Unborn, Request
<1>5. PublishedOrRemoved' /\ AckedFileStays'
  BY <1>0, <1>a, <1>c, <1>b, <1>f, <1>g, ConstantsOK
  DEF TypeOK, PublishedOrRemoved, Counters, Request, AckedFileStays
<1>. QED BY <1>1, <1>2, <1>3, <1>4, <1>5 DEF CalmInv

LEMMA DiscardStep ==
  ASSUME Calm, CalmInv, TypeOK', NEW u \in Upload, pc[u] \in Holding,
         NEW status \in {400, 409, 413, 500}, Discard(u, status)
  PROVE  CalmInv'
<1>0. /\ TypeOK /\ Counters /\ TempNames /\ PartIsOwned /\ Copying
      /\ OneName(dir) /\ OneName(ddir)
      /\ FinalsAreWhole(dir) /\ FinalsAreWhole(ddir)
      /\ PublishedOrRemoved /\ AckedFileStays
  BY DEF CalmInv
<1>a. u \in Request /\ \A d \in Delete : d # u
  BY ConstantsOK DEF Request
<1>b. /\ dir' = [dir EXCEPT ![tmp[u]] = None] /\ buf' = [buf EXCEPT ![u] = 0]
      /\ pc' = [pc EXCEPT ![u] = "done"] /\ resp' = [resp EXCEPT ![u] = status]
      /\ UNCHANGED <<n, tmp, bad, ddir, cached, durable, old, removed, cuts>>
  BY DEF Discard, Answer, Goto, Unlinked
<1>c. tmp[u] \in Path /\ IsPartName(tmp[u]) /\ dir[tmp[u]] = u
  BY <1>0 DEF TypeOK, TempNames, PartIsOwned
<1>f. \A v \in Upload : n[v] < MaxTries => Final(v) \in Path /\ ~IsPartName(Final(v))
  BY <1>0, ConstantsOK, FinalNotPart
<1>g. \A v \in Upload : Final(v)' = Final(v)
  BY <1>b DEF Final
<1>1. Counters' /\ TempNames' /\ PartIsOwned'
  BY <1>0, <1>a, <1>b, <1>c, ConstantsOK
  DEF TypeOK, Counters, Unborn, Holding, DeletePC, Request, TempNames, PartIsOwned
<1>2. Copying'
  BY <1>0, <1>a, <1>b, <1>c, ConstantsOK
  DEF TypeOK, Copying, Received, Verified, Request
<1>3. OneName(dir)' /\ OneName(ddir)'
  BY <1>0, <1>a, <1>b, <1>c, ConstantsOK
  DEF TypeOK, OneName, Unborn, Holding, Request
<1>4. FinalsAreWhole(dir)' /\ FinalsAreWhole(ddir)'
  BY <1>0, <1>a, <1>b, <1>c, ConstantsOK
  DEF TypeOK, FinalsAreWhole, Whole, Verified, Unborn, Request
<1>5. PublishedOrRemoved' /\ AckedFileStays'
  BY <1>0, <1>a, <1>b, <1>c, <1>f, <1>g, ConstantsOK
  DEF TypeOK, PublishedOrRemoved, Counters, Request, AckedFileStays
<1>. QED BY <1>1, <1>2, <1>3, <1>4, <1>5 DEF CalmInv

LEMMA CopyChunkStep ==
  ASSUME Calm, CalmInv, TypeOK', NEW u \in Upload, CopyChunk(u)
  PROVE  CalmInv'
<1>0. /\ TypeOK /\ Counters /\ TempNames /\ PartIsOwned /\ Copying
      /\ OneName(dir) /\ OneName(ddir)
      /\ FinalsAreWhole(dir) /\ FinalsAreWhole(ddir)
      /\ PublishedOrRemoved /\ AckedFileStays
  BY DEF CalmInv
<1>a. u \in Request /\ \A d \in Delete : d # u
  BY ConstantsOK DEF Request
<1>b. /\ pc[u] = "copy"
      /\ UNCHANGED <<pc, n, tmp, resp, dir, ddir, durable, old, removed, cuts>>
      /\ \A v \in Upload : v # u => buf'[v] = buf[v] /\ cached'[v] = cached[v] /\ bad'[v] = bad[v]
      /\ bad' \in [Upload -> BOOLEAN]
      /\ buf' \in [Upload -> Nat] /\ buf'[u] <= BufCap
      /\ cached' \in [Upload -> Nat]
  <2>1. PICK k \in 0 .. BufCap : /\ k <= buf[u] + 1
                                 /\ buf' = [buf EXCEPT ![u] = k]
                                 /\ cached' = [cached EXCEPT ![u] = Received(u) + 1 - k]
    BY DEF CopyChunk
  <2>2. PICK damage \in BOOLEAN : bad' = [bad EXCEPT ![u] = @ \/ damage]
    BY DEF CopyChunk
  <2>3. k \in Nat /\ Received(u) + 1 - k \in Nat
    BY <1>0, <2>1, ConstantsOK DEF TypeOK, Received
  <2>4. bad' \in [Upload -> BOOLEAN]
    BY <1>0, <2>2 DEF TypeOK
  <2>. QED BY <1>0, <2>1, <2>2, <2>3, <2>4 DEF TypeOK, CopyChunk
<1>f. \A v \in Upload : n[v] < MaxTries => Final(v) \in Path /\ ~IsPartName(Final(v))
  BY <1>0, ConstantsOK, FinalNotPart
<1>g. \A v \in Upload : Final(v)' = Final(v)
  BY <1>b DEF Final
<1>1. Counters' /\ TempNames' /\ PartIsOwned'
  BY <1>0, <1>a, <1>b, ConstantsOK
  DEF TypeOK, Counters, Unborn, Holding, DeletePC, Request, TempNames, PartIsOwned
<1>2. Copying'
  BY <1>0, <1>a, <1>b, ConstantsOK
  DEF TypeOK, Copying, Received, Verified, Request
<1>3. OneName(dir)' /\ OneName(ddir)'
  BY <1>0, <1>a, <1>b, ConstantsOK
  DEF TypeOK, OneName, Unborn, Holding, Request
<1>4. FinalsAreWhole(dir)' /\ FinalsAreWhole(ddir)'
  BY <1>0, <1>a, <1>b, ConstantsOK
  DEF TypeOK, FinalsAreWhole, Whole, Verified, Unborn, Request
<1>5. PublishedOrRemoved' /\ AckedFileStays'
  BY <1>0, <1>a, <1>b, <1>f, <1>g, ConstantsOK
  DEF TypeOK, PublishedOrRemoved, Counters, Request, AckedFileStays
<1>. QED BY <1>1, <1>2, <1>3, <1>4, <1>5 DEF CalmInv

(* BodyEnds when size and md5 agree.                                       *)
LEMMA VerifiedStep ==
  ASSUME Calm, CalmInv, TypeOK', NEW u \in Upload, pc[u] = "copy",
         Received(u) = Size[u], Received(u) <= MaxSize,
         ~(u \in Checked /\ bad[u]), Goto(u, "fsync"),
         UNCHANGED <<n, tmp, buf, bad, resp, files, removed, cuts>>
  PROVE  CalmInv'
<1>0. /\ TypeOK /\ Counters /\ TempNames /\ PartIsOwned /\ Copying
      /\ OneName(dir) /\ OneName(ddir)
      /\ FinalsAreWhole(dir) /\ FinalsAreWhole(ddir)
      /\ PublishedOrRemoved /\ AckedFileStays
  BY DEF CalmInv
<1>a. u \in Request /\ \A d \in Delete : d # u
  BY ConstantsOK DEF Request
<1>b. /\ pc' = [pc EXCEPT ![u] = "fsync"]
      /\ UNCHANGED <<n, tmp, buf, bad, resp, dir, ddir, cached, durable, old, removed, cuts>>
  BY DEF files, Goto
<1>c. pc[u] = "copy" /\ Received(u) = Size[u] /\ Verified(u)
  BY DEF Verified
<1>f. \A v \in Upload : n[v] < MaxTries => Final(v) \in Path /\ ~IsPartName(Final(v))
  BY <1>0, ConstantsOK, FinalNotPart
<1>g. \A v \in Upload : Final(v)' = Final(v)
  BY <1>b DEF Final
<1>1. Counters' /\ TempNames' /\ PartIsOwned'
  BY <1>0, <1>a, <1>b, <1>c, ConstantsOK
  DEF TypeOK, Counters, Unborn, Holding, DeletePC, Request, TempNames, PartIsOwned
<1>2. Copying'
  BY <1>0, <1>a, <1>b, <1>c, ConstantsOK
  DEF TypeOK, Copying, Received, Verified, Request
<1>3. OneName(dir)' /\ OneName(ddir)'
  BY <1>0, <1>a, <1>b, <1>c, ConstantsOK
  DEF TypeOK, OneName, Unborn, Holding, Request
<1>4. FinalsAreWhole(dir)' /\ FinalsAreWhole(ddir)'
  BY <1>0, <1>a, <1>b, <1>c, ConstantsOK
  DEF TypeOK, FinalsAreWhole, Whole, Verified, Unborn, Request
<1>5. PublishedOrRemoved' /\ AckedFileStays'
  BY <1>0, <1>a, <1>b, <1>c, <1>f, <1>g, ConstantsOK
  DEF TypeOK, PublishedOrRemoved, Counters, Request, AckedFileStays
<1>. QED BY <1>1, <1>2, <1>3, <1>4, <1>5 DEF CalmInv

LEMMA FsyncStep ==
  ASSUME Calm, CalmInv, TypeOK', NEW u \in Upload, Fsync(u)
  PROVE  CalmInv'
<1>0. /\ TypeOK /\ Counters /\ TempNames /\ PartIsOwned /\ Copying
      /\ OneName(dir) /\ OneName(ddir)
      /\ FinalsAreWhole(dir) /\ FinalsAreWhole(ddir)
      /\ PublishedOrRemoved /\ AckedFileStays
  BY DEF CalmInv
<1>a. u \in Request /\ \A d \in Delete : d # u
  BY ConstantsOK DEF Request
<1>b. /\ pc' = [pc EXCEPT ![u] = "close"]
      /\ durable' = [durable EXCEPT ![u] = cached[u]]
      /\ UNCHANGED <<n, tmp, buf, bad, resp, dir, ddir, cached, old, removed, cuts>>
  BY DEF Fsync, Goto
<1>c. pc[u] = "fsync"
  BY DEF Fsync
<1>f. \A v \in Upload : n[v] < MaxTries => Final(v) \in Path /\ ~IsPartName(Final(v))
  BY <1>0, ConstantsOK, FinalNotPart
<1>g. \A v \in Upload : Final(v)' = Final(v)
  BY <1>b DEF Final
<1>1. Counters' /\ TempNames' /\ PartIsOwned'
  BY <1>0, <1>a, <1>b, <1>c, ConstantsOK
  DEF TypeOK, Counters, Unborn, Holding, DeletePC, Request, TempNames, PartIsOwned
<1>2. Copying'
  BY <1>0, <1>a, <1>b, <1>c, ConstantsOK
  DEF TypeOK, Copying, Received, Verified, Request
<1>3. OneName(dir)' /\ OneName(ddir)'
  BY <1>0, <1>a, <1>b, <1>c, ConstantsOK
  DEF TypeOK, OneName, Unborn, Holding, Request
<1>4. FinalsAreWhole(dir)' /\ FinalsAreWhole(ddir)'
  BY <1>0, <1>a, <1>b, <1>c, ConstantsOK
  DEF TypeOK, FinalsAreWhole, Whole, Verified, Unborn, Request
<1>5. PublishedOrRemoved' /\ AckedFileStays'
  BY <1>0, <1>a, <1>b, <1>c, <1>f, <1>g, ConstantsOK
  DEF TypeOK, PublishedOrRemoved, Counters, Request, AckedFileStays
<1>. QED BY <1>1, <1>2, <1>3, <1>4, <1>5 DEF CalmInv

LEMMA CloseStep ==
  ASSUME Calm, CalmInv, TypeOK', NEW u \in Upload, Close(u)
  PROVE  CalmInv'
<1>0. /\ TypeOK /\ Counters /\ TempNames /\ PartIsOwned /\ Copying
      /\ OneName(dir) /\ OneName(ddir)
      /\ FinalsAreWhole(dir) /\ FinalsAreWhole(ddir)
      /\ PublishedOrRemoved /\ AckedFileStays
  BY DEF CalmInv
<1>a. u \in Request /\ \A d \in Delete : d # u
  BY ConstantsOK DEF Request
<1>b. /\ pc' = [pc EXCEPT ![u] = "publish"] /\ buf' = [buf EXCEPT ![u] = 0]
      /\ cached' = [cached EXCEPT ![u] = cached[u] + buf[u]]
      /\ UNCHANGED <<n, tmp, bad, resp, dir, ddir, durable, old, removed, cuts>>
  BY DEF Close, Goto, Received
<1>c. pc[u] = "close" /\ cached[u] + buf[u] \in Nat
  BY <1>0 DEF Close, TypeOK
<1>f. \A v \in Upload : n[v] < MaxTries => Final(v) \in Path /\ ~IsPartName(Final(v))
  BY <1>0, ConstantsOK, FinalNotPart
<1>g. \A v \in Upload : Final(v)' = Final(v)
  BY <1>b DEF Final
<1>1. Counters' /\ TempNames' /\ PartIsOwned'
  BY <1>0, <1>a, <1>b, <1>c, ConstantsOK
  DEF TypeOK, Counters, Unborn, Holding, DeletePC, Request, TempNames, PartIsOwned
<1>2. Copying'
  BY <1>0, <1>a, <1>b, <1>c, ConstantsOK
  DEF TypeOK, Copying, Received, Verified, Request
<1>3. OneName(dir)' /\ OneName(ddir)'
  BY <1>0, <1>a, <1>b, <1>c, ConstantsOK
  DEF TypeOK, OneName, Unborn, Holding, Request
<1>4. FinalsAreWhole(dir)' /\ FinalsAreWhole(ddir)'
  BY <1>0, <1>a, <1>b, <1>c, ConstantsOK
  DEF TypeOK, FinalsAreWhole, Whole, Verified, Unborn, Request
<1>5. PublishedOrRemoved' /\ AckedFileStays'
  BY <1>0, <1>a, <1>b, <1>c, <1>f, <1>g, ConstantsOK
  DEF TypeOK, PublishedOrRemoved, Counters, Request, AckedFileStays
<1>. QED BY <1>1, <1>2, <1>3, <1>4, <1>5 DEF CalmInv

LEMMA PublishStep ==
  ASSUME Calm, CalmInv, TypeOK', NEW u \in Upload, Publish(u)
  PROVE  CalmInv'
<1>0. /\ TypeOK /\ Counters /\ TempNames /\ PartIsOwned /\ Copying
      /\ OneName(dir) /\ OneName(ddir)
      /\ FinalsAreWhole(dir) /\ FinalsAreWhole(ddir)
      /\ PublishedOrRemoved /\ AckedFileStays
  BY DEF CalmInv
<1>a. u \in Request /\ \A d \in Delete : d # u
  BY ConstantsOK DEF Request
<1> DEFINE final == Final(u)
<1>b. /\ pc' = [pc EXCEPT ![u] = "dirsync"]
      /\ dir' = [dir EXCEPT ![tmp[u]] = None, ![final] = u]
      /\ UNCHANGED <<n, tmp, buf, bad, resp, ddir, cached, durable, old, removed, cuts>>
  BY <1>0 DEF Publish, Goto, Final, PartIsOwned, Holding
<1>c. /\ pc[u] = "publish" /\ dir[final] = None
      /\ tmp[u] \in Path /\ IsPartName(tmp[u]) /\ dir[tmp[u]] = u
  BY <1>0 DEF Publish, Calm, Final, TypeOK, TempNames, PartIsOwned, Holding
<1>d. final \in Path /\ ~IsPartName(final) /\ final # tmp[u]
  BY <1>0, <1>c, FinalNotPart, ConstantsOK DEF TypeOK
<1>e. /\ Verified(u) /\ durable[u] + BufCap >= Size[u] /\ cached[u] = Size[u]
  BY <1>0, <1>c DEF Copying, Received, TypeOK
<1>h. /\ dir'[tmp[u]] = None /\ dir'[final] = u
      /\ \A q \in Path : q # tmp[u] /\ q # final => dir'[q] = dir[q]
  BY <1>0, <1>b, <1>c, <1>d DEF TypeOK
<1>f. \A v \in Upload : n[v] < MaxTries => Final(v) \in Path /\ ~IsPartName(Final(v))
  BY <1>0, ConstantsOK, FinalNotPart
<1>g. \A v \in Upload : Final(v)' = Final(v)
  BY <1>b DEF Final
<1>i. final = Final(u)
  OBVIOUS
<1> HIDE DEF final
<1>1. Counters' /\ TempNames' /\ PartIsOwned'
  BY <1>0, <1>a, <1>b, <1>c, <1>d, <1>e, <1>h, ConstantsOK
  DEF TypeOK, Counters, Unborn, Holding, DeletePC, Request, TempNames, PartIsOwned
<1>2. Copying'
  BY <1>0, <1>a, <1>b, <1>c, <1>d, <1>e, <1>h, ConstantsOK
  DEF TypeOK, Copying, Received, Verified, Request
<1>3. OneName(dir)' /\ OneName(ddir)'
  BY <1>0, <1>a, <1>b, <1>c, <1>d, <1>e, <1>h, ConstantsOK
  DEF TypeOK, OneName, Unborn, Holding, Request
<1>4. FinalsAreWhole(dir)' /\ FinalsAreWhole(ddir)'
  BY <1>0, <1>a, <1>b, <1>c, <1>d, <1>e, <1>h, ConstantsOK
  DEF TypeOK, FinalsAreWhole, Whole, Verified, Unborn, Request
<1>5. PublishedOrRemoved' /\ AckedFileStays'
  BY <1>0, <1>a, <1>b, <1>c, <1>d, <1>e, <1>h, <1>f, <1>g, ConstantsOK, <1>i
  DEF TypeOK, PublishedOrRemoved, Counters, Request, AckedFileStays
<1>. QED BY <1>1, <1>2, <1>3, <1>4, <1>5 DEF CalmInv

(* PublishTaken when there is a next suffix.                               *)
LEMMA NextSuffixStep ==
  ASSUME Calm, CalmInv, TypeOK', NEW u \in Upload, pc[u] = "publish",
         n[u] + 1 < MaxTries, n' = [n EXCEPT ![u] = @ + 1],
         UNCHANGED <<pc, tmp, buf, bad, resp, files, removed, cuts>>
  PROVE  CalmInv'
<1>0. /\ TypeOK /\ Counters /\ TempNames /\ PartIsOwned /\ Copying
      /\ OneName(dir) /\ OneName(ddir)
      /\ FinalsAreWhole(dir) /\ FinalsAreWhole(ddir)
      /\ PublishedOrRemoved /\ AckedFileStays
  BY DEF CalmInv
<1>a. u \in Request /\ \A d \in Delete : d # u
  BY ConstantsOK DEF Request
<1>b. /\ n' = [n EXCEPT ![u] = n[u] + 1] /\ n[u] + 1 \in Nat
      /\ UNCHANGED <<pc, tmp, buf, bad, resp, dir, ddir, cached, durable, old, removed, cuts>>
  BY <1>0, <1>a DEF files, TypeOK
<1>c. pc[u] = "publish" /\ n[u] + 1 < MaxTries
  OBVIOUS
<1>f. \A v \in Upload : n[v] < MaxTries => Final(v) \in Path /\ ~IsPartName(Final(v))
  BY <1>0, ConstantsOK, FinalNotPart
<1>g. \A v \in Upload : v # u => Final(v)' = Final(v)
  BY <1>0, <1>b DEF Final, TypeOK, Request
<1>1. Counters' /\ TempNames' /\ PartIsOwned'
  BY <1>0, <1>a, <1>b, <1>c, ConstantsOK
  DEF TypeOK, Counters, Unborn, Holding, DeletePC, Request, TempNames, PartIsOwned
<1>2. Copying'
  BY <1>0, <1>a, <1>b, <1>c, ConstantsOK
  DEF TypeOK, Copying, Received, Verified, Request
<1>3. OneName(dir)' /\ OneName(ddir)'
  BY <1>0, <1>a, <1>b, <1>c, ConstantsOK
  DEF TypeOK, OneName, Unborn, Holding, Request
<1>4. FinalsAreWhole(dir)' /\ FinalsAreWhole(ddir)'
  BY <1>0, <1>a, <1>b, <1>c, ConstantsOK
  DEF TypeOK, FinalsAreWhole, Whole, Verified, Unborn, Request
<1>5. PublishedOrRemoved' /\ AckedFileStays'
  BY <1>0, <1>a, <1>b, <1>c, <1>f, <1>g, ConstantsOK
  DEF TypeOK, PublishedOrRemoved, Counters, Request, AckedFileStays
<1>. QED BY <1>1, <1>2, <1>3, <1>4, <1>5 DEF CalmInv

(* fsync of the directory and answer, by an upload or by a delete.         *)
LEMMA SyncDirStep ==
  ASSUME Calm, CalmInv, TypeOK', NEW r \in Request, NEW status, SyncDir(r, status),
         \/ r \in Upload /\ status = 201
         \/ r \in Delete /\ status = 204
  PROVE  CalmInv'
<1>0. /\ TypeOK /\ Counters /\ TempNames /\ PartIsOwned /\ Copying
      /\ OneName(dir) /\ OneName(ddir)
      /\ FinalsAreWhole(dir) /\ FinalsAreWhole(ddir)
      /\ PublishedOrRemoved /\ AckedFileStays
  BY DEF CalmInv
<1>a. \A q \in Upload \cup Delete : q \in Request
  BY DEF Request
<1>b. /\ pc' = [pc EXCEPT ![r] = "done"] /\ resp' = [resp EXCEPT ![r] = status]
      /\ ddir' = dir
      /\ UNCHANGED <<n, tmp, buf, bad, dir, cached, durable, old, removed, cuts>>
  BY DEF SyncDir, Answer, Goto, Calm
<1>c. /\ pc[r] = "dirsync" /\ status \in {201, 204}
      /\ r \in Upload => status = 201 /\ n[r] < MaxTries
      /\ r \notin Upload => r \in Delete /\ \A u \in Upload : u # r
  BY <1>0, ConstantsOK DEF SyncDir, TypeOK, Request
<1>f. \A v \in Upload : n[v] < MaxTries => Final(v) \in Path /\ ~IsPartName(Final(v))
  BY <1>0, ConstantsOK, FinalNotPart
<1>g. \A v \in Upload : Final(v)' = Final(v)
  BY <1>b DEF Final
<1>1. Counters' /\ TempNames' /\ PartIsOwned'
  BY <1>0, <1>a, <1>b, <1>c, ConstantsOK
  DEF TypeOK, Counters, Unborn, Holding, DeletePC, Request, TempNames, PartIsOwned
<1>2. Copying'
  BY <1>0, <1>a, <1>b, <1>c, ConstantsOK
  DEF TypeOK, Copying, Received, Verified, Request
<1>3. OneName(dir)' /\ OneName(ddir)'
  BY <1>0, <1>a, <1>b, <1>c, ConstantsOK
  DEF TypeOK, OneName, Unborn, Holding, Request
<1>4. FinalsAreWhole(dir)' /\ FinalsAreWhole(ddir)'
  BY <1>0, <1>a, <1>b, <1>c, ConstantsOK
  DEF TypeOK, FinalsAreWhole, Whole, Verified, Unborn, Request
<1>5. PublishedOrRemoved' /\ AckedFileStays'
  BY <1>0, <1>a, <1>b, <1>c, <1>f, <1>g, ConstantsOK
  DEF TypeOK, PublishedOrRemoved, Counters, Request, AckedFileStays, PublishedOrRemoved
<1>. QED BY <1>1, <1>2, <1>3, <1>4, <1>5 DEF CalmInv

(* op_delete unlinks a plain name, or one that is not there.               *)
LEMMA UnlinkStep ==
  ASSUME Calm, CalmInv, TypeOK', NEW d \in Delete, NEW p, ~IsPartName(p), Remove(p),
         \A r \in Request : r # d => pc'[r] = pc[r] /\ n'[r] = n[r],
         \/ pc'[d] = "derived" /\ n'[d] \in 0 .. 2
         \/ pc'[d] = "dirsync",
         UNCHANGED <<tmp, buf, bad, resp, ddir, cached, durable, old, cuts>>
  PROVE  CalmInv'
<1>0. /\ TypeOK /\ Counters /\ TempNames /\ PartIsOwned /\ Copying
      /\ OneName(dir) /\ OneName(ddir)
      /\ FinalsAreWhole(dir) /\ FinalsAreWhole(ddir)
      /\ PublishedOrRemoved /\ AckedFileStays
  BY DEF CalmInv
<1>a. d \in Request /\ \A u \in Upload : d # u /\ u \in Request
  BY ConstantsOK DEF Request
<1>b. /\ \A r \in Request : r # d => pc'[r] = pc[r] /\ n'[r] = n[r]
      /\ \/ pc'[d] = "derived" /\ n'[d] \in 0 .. 2
         \/ pc'[d] = "dirsync"
      /\ UNCHANGED <<tmp, buf, bad, resp, ddir, cached, durable, old, cuts>>
  OBVIOUS
<1>c. /\ \A q \in Path : dir'[q] = dir[q] \/ (q = p /\ dir'[q] = None)
      /\ \A u \in Upload : dir[p] = u /\ p \in Path => u \in removed'
      /\ removed \subseteq removed' /\ removed' \subseteq Upload
      /\ dir' \in [Path -> Upload \cup {None}]
  BY <1>0 DEF TypeOK, Remove, Unlinked
<1>f. \A v \in Upload : n[v] < MaxTries => Final(v) \in Path /\ ~IsPartName(Final(v))
  BY <1>0, ConstantsOK, FinalNotPart
<1>g. \A v \in Upload : Final(v)' = Final(v)
  BY <1>0, <1>a, <1>b DEF Final, TypeOK
<1>1. Counters' /\ TempNames' /\ PartIsOwned'
  BY <1>0, <1>a, <1>b, <1>c, ConstantsOK
  DEF TypeOK, Counters, Unborn, Holding, DeletePC, Request, TempNames, PartIsOwned
<1>2. Copying'
  BY <1>0, <1>a, <1>b, <1>c, ConstantsOK
  DEF TypeOK, Copying, Received, Verified, Request
<1>3. OneName(dir)' /\ OneName(ddir)'
  BY <1>0, <1>a, <1>b, <1>c, ConstantsOK
  DEF TypeOK, OneName, Unborn, Holding, Request
<1>4. FinalsAreWhole(dir)' /\ FinalsAreWhole(ddir)'
  BY <1>0, <1>a, <1>b, <1>c, ConstantsOK
  DEF TypeOK, FinalsAreWhole, Whole, Verified, Unborn, Request
<1>5. PublishedOrRemoved' /\ AckedFileStays'
  BY <1>0, <1>a, <1>b, <1>c, <1>f, <1>g, ConstantsOK
  DEF TypeOK, PublishedOrRemoved, Counters, Request, AckedFileStays
<1>. QED BY <1>1, <1>2, <1>3, <1>4, <1>5 DEF CalmInv

(* op_delete steps that leave the files alone.                             *)
LEMMA DeleteAnswerStep ==
  ASSUME Calm, CalmInv, TypeOK', NEW d \in Delete,
         \A r \in Request : r # d => pc'[r] = pc[r] /\ resp'[r] = resp[r],
         pc[d] \in {"start", "remove"}, pc'[d] \in {"remove", "done"},
         UNCHANGED <<n, tmp, buf, bad, files, removed, cuts>>
  PROVE  CalmInv'
<1>0. /\ TypeOK /\ Counters /\ TempNames /\ PartIsOwned /\ Copying
      /\ OneName(dir) /\ OneName(ddir)
      /\ FinalsAreWhole(dir) /\ FinalsAreWhole(ddir)
      /\ PublishedOrRemoved /\ AckedFileStays
  BY DEF CalmInv
<1>a. d \in Request /\ \A u \in Upload : d # u /\ u \in Request
  BY ConstantsOK DEF Request
<1>b. /\ \A r \in Request : r # d => pc'[r] = pc[r] /\ resp'[r] = resp[r]
      /\ pc'[d] \in {"remove", "done"}
      /\ UNCHANGED <<n, tmp, buf, bad, dir, ddir, cached, durable, old, removed, cuts>>
  BY DEF files
<1>c. pc[d] \in {"start", "remove"}
  OBVIOUS
<1>f. \A v \in Upload : n[v] < MaxTries => Final(v) \in Path /\ ~IsPartName(Final(v))
  BY <1>0, ConstantsOK, FinalNotPart
<1>g. \A v \in Upload : Final(v)' = Final(v)
  BY <1>b DEF Final
<1>1. Counters' /\ TempNames' /\ PartIsOwned'
  BY <1>0, <1>a, <1>b, <1>c, ConstantsOK
  DEF TypeOK, Counters, Unborn, Holding, DeletePC, Request, TempNames, PartIsOwned
<1>2. Copying'
  BY <1>0, <1>a, <1>b, <1>c, ConstantsOK
  DEF TypeOK, Copying, Received, Verified, Request
<1>3. OneName(dir)' /\ OneName(ddir)'
  BY <1>0, <1>a, <1>b, <1>c, ConstantsOK
  DEF TypeOK, OneName, Unborn, Holding, Request
<1>4. FinalsAreWhole(dir)' /\ FinalsAreWhole(ddir)'
  BY <1>0, <1>a, <1>b, <1>c, ConstantsOK
  DEF TypeOK, FinalsAreWhole, Whole, Verified, Unborn, Request
<1>5. PublishedOrRemoved' /\ AckedFileStays'
  BY <1>0, <1>a, <1>b, <1>c, <1>f, <1>g, ConstantsOK
  DEF TypeOK, PublishedOrRemoved, Counters, Request, AckedFileStays
<1>. QED BY <1>1, <1>2, <1>3, <1>4, <1>5 DEF CalmInv

LEMMA WritebackStep ==
  ASSUME Calm, CalmInv, TypeOK', NEW u \in Upload, WritebackData(u)
  PROVE  CalmInv'
<1>0. /\ TypeOK /\ Counters /\ TempNames /\ PartIsOwned /\ Copying
      /\ OneName(dir) /\ OneName(ddir)
      /\ FinalsAreWhole(dir) /\ FinalsAreWhole(ddir)
      /\ PublishedOrRemoved /\ AckedFileStays
  BY DEF CalmInv
<1>a. u \in Request /\ \A d \in Delete : d # u
  BY ConstantsOK DEF Request
<1>b. UNCHANGED <<pc, n, tmp, buf, bad, resp, dir, ddir, cached, old, removed, cuts>>
  BY DEF WritebackData
<1>c. durable[u] < cached[u] /\ durable' = [durable EXCEPT ![u] = cached[u]]
  BY DEF WritebackData
<1>d. /\ \A v \in Upload : durable'[v] >= durable[v] /\ durable'[v] \in Nat
      /\ \A v \in Upload : durable[v] \in Nat /\ Size[v] \in Nat
      /\ BufCap \in Nat
  <2>1. \A v \in Upload : durable[v] \in Nat /\ cached[v] \in Nat /\ Size[v] \in Nat
    BY <1>0, ConstantsOK DEF TypeOK
  <2>2. \A v \in Upload : durable'[v] = IF v = u THEN cached[u] ELSE durable[v]
    BY <1>0, <1>c DEF TypeOK
  <2>. QED BY <1>c, <2>1, <2>2, ConstantsOK
<1>e. \A v \in Upload : Whole(v) => Whole(v)'
  BY <1>b, <1>d DEF Whole, Verified
<1>f. \A v \in Upload : n[v] < MaxTries => Final(v) \in Path /\ ~IsPartName(Final(v))
  BY <1>0, ConstantsOK, FinalNotPart
<1>g. \A v \in Upload : Final(v)' = Final(v)
  BY <1>b DEF Final
<1>1. Counters' /\ TempNames' /\ PartIsOwned'
  BY <1>0, <1>a, <1>b, <1>c, <1>d, ConstantsOK
  DEF TypeOK, Counters, Unborn, Holding, DeletePC, Request, TempNames, PartIsOwned
<1>2. Copying'
  BY <1>0, <1>a, <1>b, <1>c, <1>d, ConstantsOK
  DEF TypeOK, Copying, Received, Verified, Request
<1>3. OneName(dir)' /\ OneName(ddir)'
  BY <1>0, <1>a, <1>b, <1>c, <1>d, ConstantsOK
  DEF TypeOK, OneName, Unborn, Holding, Request
<1>4. FinalsAreWhole(dir)' /\ FinalsAreWhole(ddir)'
  BY <1>0, <1>a, <1>b, <1>c, <1>d, ConstantsOK, <1>e
  DEF TypeOK, FinalsAreWhole, Whole, Verified, Unborn, Request
<1>5. PublishedOrRemoved' /\ AckedFileStays'
  BY <1>0, <1>a, <1>b, <1>c, <1>d, <1>f, <1>g, ConstantsOK
  DEF TypeOK, PublishedOrRemoved, Counters, Request, AckedFileStays
<1>. QED BY <1>1, <1>2, <1>3, <1>4, <1>5 DEF CalmInv

LEMMA CommitDirStep ==
  ASSUME Calm, CalmInv, TypeOK', CommitDir
  PROVE  CalmInv'
<1>0. /\ TypeOK /\ Counters /\ TempNames /\ PartIsOwned /\ Copying
      /\ OneName(dir) /\ OneName(ddir)
      /\ FinalsAreWhole(dir) /\ FinalsAreWhole(ddir)
      /\ PublishedOrRemoved /\ AckedFileStays
  BY DEF CalmInv
<1>a. \A r \in Upload \cup Delete : r \in Request
  BY DEF Request
<1>b. ddir' = dir /\ UNCHANGED <<pc, n, tmp, buf, bad, resp, dir, cached, durable, old, removed, cuts>>
  BY DEF CommitDir
<1>f. \A v \in Upload : n[v] < MaxTries => Final(v) \in Path /\ ~IsPartName(Final(v))
  BY <1>0, ConstantsOK, FinalNotPart
<1>g. \A v \in Upload : Final(v)' = Final(v)
  BY <1>b DEF Final
<1>1. Counters' /\ TempNames' /\ PartIsOwned'
  BY <1>0, <1>a, <1>b, ConstantsOK
  DEF TypeOK, Counters, Unborn, Holding, DeletePC, Request, TempNames, PartIsOwned
<1>2. Copying'
  BY <1>0, <1>a, <1>b, ConstantsOK
  DEF TypeOK, Copying, Received, Verified, Request
<1>3. OneName(dir)' /\ OneName(ddir)'
  BY <1>0, <1>a, <1>b, ConstantsOK
  DEF TypeOK, OneName, Unborn, Holding, Request
<1>4. FinalsAreWhole(dir)' /\ FinalsAreWhole(ddir)'
  BY <1>0, <1>a, <1>b, ConstantsOK
  DEF TypeOK, FinalsAreWhole, Whole, Verified, Unborn, Request
<1>5. PublishedOrRemoved' /\ AckedFileStays'
  BY <1>0, <1>a, <1>b, <1>f, <1>g, ConstantsOK
  DEF TypeOK, PublishedOrRemoved, Counters, Request, AckedFileStays
<1>. QED BY <1>1, <1>2, <1>3, <1>4, <1>5 DEF CalmInv

LEMMA PowerCutStep ==
  ASSUME Calm, CalmInv, TypeOK', PowerCut
  PROVE  CalmInv'
<1>0. /\ TypeOK /\ Counters /\ TempNames /\ PartIsOwned /\ Copying
      /\ OneName(dir) /\ OneName(ddir)
      /\ FinalsAreWhole(dir) /\ FinalsAreWhole(ddir)
      /\ PublishedOrRemoved /\ AckedFileStays
  BY DEF CalmInv
<1>a. \A r \in Upload \cup Delete : r \in Request
  BY DEF Request
<1>b. /\ dir' = ddir /\ cached' = durable /\ cuts' = cuts + 1 /\ cuts' \in 0 .. MaxCuts
      /\ buf' = [u \in Upload |-> 0]
      /\ UNCHANGED <<n, tmp, bad, resp, ddir, durable, old, removed>>
  BY <1>0, ConstantsOK DEF PowerCut, TypeOK
<1>d. pc' = [r \in Request |-> IF Running(r) THEN "dead" ELSE pc[r]]
  BY DEF PowerCut
<1>c. /\ pc' \in [Request -> UploadPC \cup DeletePC]
      /\ \A r \in Request :
            \/ pc'[r] = "dead" /\ pc[r] \notin {"start", "done"}
            \/ pc'[r] = pc[r] /\ pc[r] \in {"start", "done", "dead"}
  <2>1. "dead" \in UploadPC
    BY DEF UploadPC
  <2>2. \A r \in Request : pc[r] \in UploadPC \cup DeletePC
    BY <1>0 DEF TypeOK
  <2>3. pc' \in [Request -> UploadPC \cup DeletePC]
    BY <1>d, <2>1, <2>2
  <2>4. \A r \in Request : pc'[r] = IF Running(r) THEN "dead" ELSE pc[r]
    BY <1>d
  <2>. QED BY <2>3, <2>4 DEF Running
<1>f. \A v \in Upload : n[v] < MaxTries => Final(v) \in Path /\ ~IsPartName(Final(v))
  BY <1>0, ConstantsOK, FinalNotPart
<1>g. \A v \in Upload : Final(v)' = Final(v)
  BY <1>b DEF Final
<1>1. Counters' /\ TempNames' /\ PartIsOwned'
  BY <1>0, <1>a, <1>b, <1>c, ConstantsOK
  DEF TypeOK, Counters, Unborn, Holding, DeletePC, Request, TempNames, PartIsOwned
<1>2. Copying'
  BY <1>0, <1>a, <1>b, <1>c, ConstantsOK
  DEF TypeOK, Copying, Received, Verified, Request
<1>3. OneName(dir)' /\ OneName(ddir)'
  BY <1>0, <1>a, <1>b, <1>c, ConstantsOK
  DEF TypeOK, OneName, Unborn, Holding, Request
<1>4. FinalsAreWhole(dir)' /\ FinalsAreWhole(ddir)'
  BY <1>0, <1>a, <1>b, <1>c, ConstantsOK
  DEF TypeOK, FinalsAreWhole, Whole, Verified, Unborn, Request
<1>5. PublishedOrRemoved' /\ AckedFileStays'
  BY <1>0, <1>a, <1>b, <1>c, <1>f, <1>g, ConstantsOK
  DEF TypeOK, PublishedOrRemoved, Counters, Request, AckedFileStays, Calm
<1>. QED BY <1>1, <1>2, <1>3, <1>4, <1>5 DEF CalmInv

LEMMA NextNameStep ==
  ASSUME Calm, CalmInv, TypeOK', NEW u \in Upload, pc[u] \in Unborn, NextName(u)
  PROVE  CalmInv'
<1>0. TypeOK /\ Counters /\ u \in Request /\ Upload \subseteq Request
  BY DEF CalmInv, Request
<1>1. pc[u] # "done" /\ UNCHANGED <<tmp, bad, files, removed, cuts, buf>>
  BY DEF Unborn, NextName
<1>2. /\ \A r \in Request : r # u => pc'[r] = pc[r] /\ n'[r] = n[r] /\ resp'[r] = resp[r]
      /\ pc'[u] \in {"open", "done"} /\ resp'[u] # 201
  BY <1>0, <1>1 DEF NextName, Goto, Answer, TypeOK, Counters
<1>3. \A v \in Upload : buf'[v] <= buf[v]
  BY <1>0, <1>1 DEF TypeOK
<1>. QED BY <1>0, <1>1, <1>2, <1>3, QuietStep

(* The steps of an upload that leave the files alone.                      *)
LEMMA QuietSteps ==
  ASSUME Calm, CalmInv, TypeOK', NEW u \in Upload,
         \/ Reject(u) \/ Accept(u) \/ Kill(u)
         \/ OpenExcl(u) /\ ~Create(u)
  PROVE  CalmInv'
<1>0. TypeOK /\ Counters /\ u \in Request /\ Upload \subseteq Request
  BY DEF CalmInv, Request
<1>1. pc[u] # "done" /\ UNCHANGED <<tmp, bad, files, removed, cuts>>
  BY <1>0 DEF Reject, Accept, Kill, OpenExcl, Running
<1>2. /\ \A r \in Request : r # u => pc'[r] = pc[r] /\ n'[r] = n[r] /\ resp'[r] = resp[r]
      /\ resp'[u] # 201
      /\ \/ pc[u] \in Unborn /\ pc'[u] \in {"open", "stat"}
         \/ pc'[u] \in {"done", "dead"}
  BY <1>0, <1>1
  DEF Reject, Accept, Kill, OpenExcl, Goto, Answer, TypeOK, Counters, Unborn
<1>3. \A v \in Upload : buf'[v] <= buf[v] /\ (v # u => buf'[v] = buf[v])
  BY <1>0 DEF Reject, Accept, Kill, OpenExcl, TypeOK
<1>. QED BY <1>0, <1>1, <1>2, <1>3, QuietStep

LEMMA DiscardSteps ==
  ASSUME Calm, CalmInv, TypeOK', NEW u \in Upload,
         \/ TooLarge(u) \/ Malformed(u) \/ IOError(u) \/ PublishLosesPart(u)
  PROVE  CalmInv'
<1>1. /\ pc[u] \in Holding
      /\ Discard(u, 413) \/ Discard(u, 400) \/ Discard(u, 500)
  BY DEF TooLarge, Malformed, IOError, PublishLosesPart, Holding
<1>. QED BY <1>1, DiscardStep

(* Under Calm remove_stale_part never finds anything to remove.            *)
LEMMA StaleSteps ==
  ASSUME Calm, CalmInv, TypeOK', NEW u \in Upload,
         StatStale(u) \/ UnlinkStale(u) \/ Reopen(u)
  PROVE  CalmInv'
<1>0. TypeOK /\ Counters
  BY DEF CalmInv
<1>1. StatStale(u)
  BY <1>0 DEF Counters, UnlinkStale, Reopen, Unborn, Holding
<1>2. TempName(u, n[u]) \in Path
  BY <1>0, <1>1, NamesInPath DEF StatStale
<1>3. NextName(u) /\ pc[u] \in Unborn
  BY <1>0, <1>1, <1>2 DEF StatStale, TypeOK, Counters, Unborn
<1>. QED BY <1>3, NextNameStep

LEMMA DeleteSteps ==
  ASSUME Calm, CalmInv, TypeOK', NEW d \in Delete,
         StartDelete(d) \/ RemoveTarget(d) \/ RemoveDerived(d)
  PROVE  CalmInv'
<1>0. TypeOK /\ Counters /\ d \in Request /\ Target[d] \in Path /\ ~IsPartName(Target[d])
  BY PathsOK DEF CalmInv, Request, Calm
<1>1. CASE StartDelete(d)
  <2>1. /\ \A r \in Request : r # d => pc'[r] = pc[r] /\ resp'[r] = resp[r]
        /\ pc'[d] \in {"remove", "done"}
    BY <1>0, <1>1 DEF StartDelete, Answer, Goto, TypeOK
  <2>. QED BY <1>1, <2>1, DeleteAnswerStep DEF StartDelete
<1>2. CASE RemoveTarget(d) /\ dir[Target[d]] = None
  <2>1. /\ \A r \in Request : r # d => pc'[r] = pc[r] /\ resp'[r] = resp[r]
        /\ pc'[d] = "done"
    BY <1>0, <1>2 DEF RemoveTarget, Answer, Goto, TypeOK
  <2>. QED BY <1>2, <2>1, DeleteAnswerStep DEF RemoveTarget, files
<1>3. CASE RemoveTarget(d) /\ dir[Target[d]] # None
  <2>1. n[d] = 0 /\ UNCHANGED n
    BY <1>0, <1>3 DEF RemoveTarget, Counters
  <2>2. /\ \A r \in Request : r # d => pc'[r] = pc[r] /\ n'[r] = n[r]
        /\ pc'[d] \in {"derived", "dirsync"} /\ n'[d] \in 0 .. 2
    BY <1>0, <1>3, <2>1 DEF RemoveTarget, Goto, TypeOK
  <2>. QED BY <1>0, <1>3, <2>2, UnlinkStep DEF RemoveTarget
<1>4. CASE RemoveDerived(d)
  <2>1. n[d] \in 0 .. 2
    BY <1>0, <1>4 DEF RemoveDerived, Counters
  <2>2. Len(DerivedSuffixes) = 3
    BY DEF DerivedSuffixes
  <2>3. /\ \A r \in Request : r # d => pc'[r] = pc[r] /\ n'[r] = n[r]
        /\ n'[d] = n[d] + 1
        /\ pc'[d] = IF n[d] + 1 < 3 THEN "derived" ELSE "dirsync"
    BY <1>0, <1>4, <2>2 DEF RemoveDerived, Goto, TypeOK
  <2>4. \/ pc'[d] = "derived" /\ n'[d] \in 0 .. 2
        \/ pc'[d] = "dirsync"
    BY <2>1, <2>3
  <2>5. ~IsPartName(DerivedPath(Target[d], DerivedSuffixes[n[d] + 1]))
    BY <2>1, DerivedNotPart
  <2>. QED BY <1>4, <2>3, <2>4, <2>5, UnlinkStep DEF RemoveDerived
<1>. QED BY <1>1, <1>2, <1>3, <1>4

LEMMA NextCalm ==
  ASSUME Calm, CalmInv, [Next]_vars
  PROVE  CalmInv'
<1>0. TypeOK' /\ Counters /\ TypeOK
  BY NextType DEF CalmInv
<1>1. ASSUME NEW u \in Upload, Reject(u) \/ Accept(u) \/ Kill(u) \/ OpenExcl(u)
      PROVE  CalmInv'
  <2>1. CASE Create(u) /\ pc[u] = "open"
    BY <1>0, <2>1, CreateStep
  <2>. QED BY <1>0, <1>1, <2>1, QuietSteps DEF OpenExcl
<1>2. ASSUME NEW u \in Upload, StatStale(u) \/ UnlinkStale(u) \/ Reopen(u)
      PROVE  CalmInv'
  BY <1>0, <1>2, StaleSteps
<1>3. ASSUME NEW u \in Upload,
             TooLarge(u) \/ Malformed(u) \/ IOError(u) \/ PublishLosesPart(u)
      PROVE  CalmInv'
  BY <1>0, <1>3, DiscardSteps
<1>4. ASSUME NEW u \in Upload, CopyChunk(u) \/ Fsync(u) \/ Close(u) \/ Publish(u)
                               \/ WritebackData(u)
      PROVE  CalmInv'
  BY <1>0, <1>4, CopyChunkStep, FsyncStep, CloseStep, PublishStep, WritebackStep
<1>5. ASSUME NEW u \in Upload, BodyEnds(u) PROVE CalmInv'
  <2>1. CASE u \in Checked /\ bad[u]
    BY <1>0, <1>5, <2>1, DiscardStep DEF BodyEnds, Holding
  <2>2. CASE ~(u \in Checked /\ bad[u])
    BY <1>0, <1>5, <2>2, VerifiedStep DEF BodyEnds
  <2>. QED BY <2>1, <2>2
<1>6. ASSUME NEW u \in Upload, PublishTaken(u) PROVE CalmInv'
  <2>1. CASE n[u] + 1 < MaxTries
    BY <1>0, <1>6, <2>1, NextSuffixStep DEF PublishTaken
  <2>2. CASE ~(n[u] + 1 < MaxTries)
    BY <1>0, <1>6, <2>2, DiscardStep DEF PublishTaken, Holding
  <2>. QED BY <2>1, <2>2
<1>7. /\ \A u \in Upload : SyncDir(u, 201) => CalmInv'
      /\ \A d \in Delete : SyncDir(d, 204) => CalmInv'
  <2>1. ASSUME NEW u \in Upload, SyncDir(u, 201) PROVE CalmInv'
    <3>1. u \in Request
      BY DEF Request
    <3>. QED BY <1>0, <2>1, <3>1, SyncDirStep
  <2>2. ASSUME NEW d \in Delete, SyncDir(d, 204) PROVE CalmInv'
    <3>1. d \in Request
      BY DEF Request
    <3>. QED BY <1>0, <2>2, <3>1, SyncDirStep
  <2>. QED BY <2>1, <2>2
<1>8. ASSUME NEW d \in Delete, StartDelete(d) \/ RemoveTarget(d) \/ RemoveDerived(d)
      PROVE  CalmInv'
  BY <1>0, <1>8, DeleteSteps
<1>9. ASSUME CommitDir \/ PowerCut PROVE CalmInv'
  BY <1>0, <1>9, CommitDirStep, PowerCutStep
<1>10. ASSUME NEW u \in Upload, HourPasses(u) PROVE FALSE
  BY <1>10 DEF HourPasses, Calm
<1>11. CASE UNCHANGED vars
  BY <1>11 DEF vars, CalmInv, TypeOK, Counters, TempNames, PartIsOwned, Copying,
       OneName, FinalsAreWhole, PublishedOrRemoved, AckedFileStays, Verified,
       Whole, Received, Final
<1>12. ASSUME NEW u \in Upload, UploadStep(u) PROVE CalmInv'
  BY <1>1, <1>2, <1>3, <1>4, <1>5, <1>6, <1>7, <1>12 DEF UploadStep
<1>13. ASSUME NEW d \in Delete, DeleteStep(d) PROVE CalmInv'
  BY <1>7, <1>8, <1>13 DEF DeleteStep
<1>. QED BY <1>1, <1>4, <1>8, <1>9, <1>10, <1>11, <1>12, <1>13 DEF Next

-----------------------------------------------------------------------------
(***************************************************************************)
(* What remains without Calm.  Published files are verified also where     *)
(* renames replace files, the directory's fsync fails or a ".part" gets    *)
(* old, in two situations.  In one nothing takes a part away from the      *)
(* upload that reserved it; in the other no two uploads use a name for a   *)
(* part, so that a part that is taken away (by a delete that asks for it,  *)
(* or as debris) cannot be another upload's when it is renamed.            *)
(***************************************************************************)
Undisturbed ==
  /\ Ageable = {}
  /\ \A d \in Delete : ~IsPartName(Target[d])
  /\ NoReplace \/ \A u \in Upload : ~IsPartName(Target[u])

PartsOf(u) == {TempName(u, k) : k \in 0 .. (MaxTries - 1)}
NamesFor(u) == {Candidate(u, k) : k \in 0 .. (MaxTries - 1)} \cup PartsOf(u)
Apart == \A u, v \in Upload : u # v => PartsOf(u) \cap NamesFor(v) = {}

(* The invariant: an upload renames one of its part names, its data are as *)
(* far as CalmInv says, what has a final name is whole; and, in the one    *)
(* situation, a part is its upload's, in the other, every file has a name  *)
(* of its upload.                                                          *)
Reserved == \A u \in Upload : pc[u] \in Holding => tmp[u] \in PartsOf(u)
Siblings ==
  \A d \in Delete : /\ pc[d] \in {"start", "remove"} => n[d] = 0
                    /\ pc[d] = "derived" => n[d] \in 0 .. 2
NoDebris ==
  \A u \in Upload : ~old[u] /\ pc[u] \in Unborn \cup Holding \cup {"dirsync", "done", "dead"}
OwnNames(D) == \A p \in Path : D[p] # None => p \in NamesFor(D[p])

SafeInv ==
  /\ TypeOK /\ Copying /\ Reserved /\ Siblings
  /\ FinalsAreWhole(dir) /\ FinalsAreWhole(ddir)
  /\ Undisturbed => NoDebris /\ PartIsOwned
  /\ Apart => OwnNames(dir) /\ OwnNames(ddir)

(* A part name is reserved for the upload that renames it.                 *)
LEMMA ReservedKeeps ==
  ASSUME TypeOK, Reserved, [Next]_vars PROVE Reserved'
<1>0. /\ pc \in [Request -> UploadPC \cup DeletePC] /\ tmp \in [Upload -> Path \cup {None}]
      /\ Upload \subseteq Request /\ Delete \subseteq Request
      /\ \A u \in Upload, d \in Delete : u # d
  BY ConstantsOK DEF TypeOK, Request
<1>1. ASSUME NEW u \in Upload, Create(u), pc[u] \in {"open", "reopen"} PROVE Reserved'
  <2>1. n[u] \in 0 .. (MaxTries - 1)
    BY <1>0, <1>1, ConstantsOK DEF TypeOK
  <2>2. TempName(u, n[u]) \in PartsOf(u)
    BY <2>1 DEF PartsOf
  <2>3. pc' = [pc EXCEPT ![u] = "copy"] /\ tmp' = [tmp EXCEPT ![u] = TempName(u, n[u])]
    BY <1>1 DEF Create, Goto
  <2>. QED BY <1>0, <2>2, <2>3 DEF Reserved, PartsOf
<1>2. ASSUME UNCHANGED tmp, \A u \in Upload : pc'[u] \in Holding => pc[u] \in Holding
      PROVE  Reserved'
  BY <1>2 DEF Reserved, PartsOf
<1>3. ASSUME NEW u \in Upload, UploadStep(u), ~(Create(u) /\ pc[u] \in {"open", "reopen"})
      PROVE  UNCHANGED tmp /\ \A v \in Upload : pc'[v] \in Holding => pc[v] \in Holding
  BY <1>0, <1>3
  DEF UploadStep, OpenExcl, StatStale, NextName, UnlinkStale, Goto, Answer, files, Holding,
      Reopen, CopyChunk, TooLarge, Malformed, BodyEnds, Fsync, Close, IOError,
      Publish, PublishLosesPart, PublishTaken, SyncDir, Discard, Unlinked
<1>4. ASSUME NEW d \in Delete, StartDelete(d) \/ DeleteStep(d)
      PROVE  UNCHANGED tmp /\ \A v \in Upload : pc'[v] \in Holding => pc[v] \in Holding
  BY <1>0, <1>4
  DEF StartDelete, DeleteStep, RemoveTarget, RemoveDerived, Remove, SyncDir, Goto, Answer, files, Holding
<1>5. ASSUME NEW u \in Upload, Reject(u) \/ Accept(u) \/ Kill(u) \/ HourPasses(u) \/ WritebackData(u)
      PROVE  UNCHANGED tmp /\ \A v \in Upload : pc'[v] \in Holding => pc[v] \in Holding
  BY <1>0, <1>5 DEF Reject, Accept, Kill, HourPasses, WritebackData, Goto, Answer, files, Holding
<1>6. ASSUME CommitDir \/ PowerCut \/ UNCHANGED vars
      PROVE  UNCHANGED tmp /\ \A v \in Upload : pc'[v] \in Holding => pc[v] \in Holding
  BY <1>0, <1>6 DEF CommitDir, PowerCut, vars, Holding
<1>. QED BY <1>1, <1>2, <1>3, <1>4, <1>5, <1>6 DEF Next

(* How far the data of each upload have come.                              *)
LEMMA CopyingKeeps ==
  ASSUME TypeOK, TypeOK', Copying, [Next]_vars PROVE Copying'
<1>0. /\ pc \in [Request -> UploadPC \cup DeletePC]
      /\ Upload \subseteq Request /\ Delete \subseteq Request
      /\ \A u \in Upload, d \in Delete : u # d
      /\ buf \in [Upload -> Nat] /\ cached \in [Upload -> Nat] /\ durable \in [Upload -> Nat]
      /\ bad \in [Upload -> BOOLEAN]
      /\ BufCap \in Nat /\ MaxSize \in Nat /\ Size \in [Upload -> Nat]
      /\ \A u \in Upload : buf[u] <= BufCap
  BY ConstantsOK DEF TypeOK, Request, Copying
<1>. DEFINE Data == {"fsync", "close", "publish"}
<1>1. ASSUME UNCHANGED <<cached, durable, bad>>, \A u \in Upload : buf'[u] \in {buf[u], 0},
             \A u \in Upload : pc'[u] \in Data => pc'[u] = pc[u] /\ buf'[u] = buf[u]
      PROVE  Copying'
  BY <1>0, <1>1 DEF Copying, Received, Verified
<1>2. ASSUME NEW u \in Upload,
             OpenExcl(u) \/ StatStale(u) \/ UnlinkStale(u) \/ Reopen(u) \/ SyncDir(u, 201)
      PROVE  Copying'
  <2>1. UNCHANGED <<cached, durable, bad, buf>>
    BY <1>2 DEF OpenExcl, Create, StatStale, NextName, UnlinkStale, Reopen, SyncDir, files
  <2>2. \A v \in Upload : pc'[v] \in Data => pc'[v] = pc[v]
    BY <1>0, <1>2 DEF OpenExcl, Create, StatStale, NextName, UnlinkStale, Reopen, SyncDir, Goto, Answer
  <2>. QED BY <1>1, <2>1, <2>2
<1>3. ASSUME NEW u \in Upload, NEW s, Discard(u, s) PROVE Copying'
  BY <1>0, <1>1, <1>3 DEF Discard, Answer, Goto
<1>4. ASSUME NEW u \in Upload, CopyChunk(u) PROVE Copying'
  <2>1. PICK k \in 0 .. BufCap : /\ k <= buf[u] + 1
                                 /\ buf' = [buf EXCEPT ![u] = k]
                                 /\ cached' = [cached EXCEPT ![u] = Received(u) + 1 - k]
    BY <1>4 DEF CopyChunk
  <2>2. pc[u] = "copy" /\ UNCHANGED <<pc, durable>>
    BY <1>4 DEF CopyChunk
  <2>3. \A v \in Upload : v # u => bad'[v] = bad[v] /\ buf'[v] = buf[v] /\ cached'[v] = cached[v]
    BY <1>0, <1>4, <2>1 DEF CopyChunk
  <2>4. buf'[u] <= BufCap
    BY <1>0, <2>1
  <2>5. ASSUME NEW v \in Upload, v # u
        PROVE  /\ buf'[v] <= BufCap
               /\ pc'[v] \in Data => Verified(v)' /\ Received(v)' = Size[v]
               /\ pc'[v] \in {"close", "publish"} => durable'[v] + BufCap >= Size[v]
               /\ pc'[v] = "publish" => buf'[v] = 0
    BY <2>2, <2>3, <2>5 DEF Copying, Received, Verified
  <2>. QED BY <2>2, <2>4, <2>5 DEF Copying
<1>5. ASSUME NEW u \in Upload, BodyEnds(u) PROVE Copying'
  <2>1. CASE u \in Checked /\ bad[u]
    BY <1>3, <1>5, <2>1 DEF BodyEnds
  <2>2. CASE ~(u \in Checked /\ bad[u])
    <3>1. /\ pc' = [pc EXCEPT ![u] = "fsync"] /\ UNCHANGED <<buf, bad, cached, durable>>
          /\ Received(u) = Size[u] /\ Size[u] <= MaxSize
      BY <1>5, <2>2 DEF BodyEnds, Goto, files
    <3>. QED BY <1>0, <2>2, <3>1 DEF Copying, Received, Verified
  <2>. QED BY <2>1, <2>2
<1>6. ASSUME NEW u \in Upload, Fsync(u) PROVE Copying'
  <2>1. /\ pc[u] = "fsync" /\ pc' = [pc EXCEPT ![u] = "close"] /\ UNCHANGED <<buf, bad, cached>>
        /\ durable' = [durable EXCEPT ![u] = cached[u]]
    BY <1>6 DEF Fsync, Goto
  <2>. QED BY <1>0, <2>1 DEF Copying, Received, Verified
<1>7. ASSUME NEW u \in Upload, Close(u) PROVE Copying'
  <2>1. /\ pc[u] = "close" /\ pc' = [pc EXCEPT ![u] = "publish"] /\ UNCHANGED <<bad, durable>>
        /\ cached' = [cached EXCEPT ![u] = Received(u)] /\ buf' = [buf EXCEPT ![u] = 0]
    BY <1>7 DEF Close, Goto
  <2>. QED BY <1>0, <2>1 DEF Copying, Received, Verified
<1>8. ASSUME NEW u \in Upload, Publish(u) \/ PublishTaken(u) PROVE Copying'
  <2>1. CASE \E s : Discard(u, s)
    BY <1>3, <2>1
  <2>2. CASE ~\E s : Discard(u, s)
    <3>1. UNCHANGED <<cached, durable, bad, buf>>
      BY <1>8, <2>2 DEF Publish, PublishTaken, files
    <3>2. \A v \in Upload : pc'[v] \in Data => pc'[v] = pc[v]
      BY <1>0, <1>8, <2>2 DEF Publish, PublishTaken, Goto
    <3>. QED BY <1>1, <3>1, <3>2
  <2>. QED BY <2>1, <2>2
<1>9. ASSUME NEW u \in Upload, TooLarge(u) \/ Malformed(u) \/ IOError(u) \/ PublishLosesPart(u)
      PROVE  Copying'
  BY <1>3, <1>9 DEF TooLarge, Malformed, IOError, PublishLosesPart
<1>10. ASSUME NEW d \in Delete, StartDelete(d) \/ DeleteStep(d) PROVE Copying'
  <2>1. UNCHANGED <<cached, durable, bad, buf>>
    BY <1>10 DEF StartDelete, DeleteStep, RemoveTarget, RemoveDerived, SyncDir, files
  <2>2. \A v \in Upload : pc'[v] = pc[v]
    BY <1>0, <1>10 DEF StartDelete, DeleteStep, RemoveTarget, RemoveDerived, SyncDir, Goto, Answer
  <2>. QED BY <1>1, <2>1, <2>2
<1>11. ASSUME NEW u \in Upload, Reject(u) \/ Accept(u) \/ HourPasses(u) PROVE Copying'
  <2>1. UNCHANGED <<cached, durable, bad, buf>>
    BY <1>11 DEF Reject, Accept, HourPasses, files
  <2>2. \A v \in Upload : pc'[v] \in Data => pc'[v] = pc[v]
    BY <1>0, <1>11 DEF Reject, Accept, HourPasses, Goto, Answer
  <2>. QED BY <1>1, <2>1, <2>2
<1>12. ASSUME NEW u \in Upload, Kill(u) PROVE Copying'
  BY <1>0, <1>1, <1>12 DEF Kill, Goto, files
<1>13. ASSUME NEW u \in Upload, WritebackData(u) PROVE Copying'
  <2>1. /\ durable[u] < cached[u] /\ durable' = [durable EXCEPT ![u] = cached[u]]
        /\ UNCHANGED <<pc, buf, bad, cached>>
    BY <1>13 DEF WritebackData
  <2>. QED BY <1>0, <2>1 DEF Copying, Received, Verified
<1>14. ASSUME CommitDir \/ UNCHANGED vars PROVE Copying'
  BY <1>1, <1>14 DEF CommitDir, vars
<1>15. ASSUME PowerCut PROVE Copying'
  <2>1. \A u \in Upload : pc'[u] \in {"start", "done", "dead"} /\ buf'[u] = 0
    BY <1>0, <1>15 DEF PowerCut, Running
  <2>. QED BY <1>0, <2>1 DEF Copying
<1>16. ASSUME NEW u \in Upload, UploadStep(u) PROVE Copying'
  BY <1>2, <1>4, <1>5, <1>6, <1>7, <1>8, <1>9, <1>16 DEF UploadStep
<1>. QED BY <1>10, <1>11, <1>12, <1>13, <1>14, <1>15, <1>16 DEF Next

(* A whole file of an upload that is over stays whole.                     *)
Over == {"dirsync", "done", "dead"}
LEMMA WholeStays ==
  ASSUME TypeOK, TypeOK', [Next]_vars, NEW v \in Upload, pc[v] \in Over, Whole(v)
  PROVE  pc'[v] \in Over /\ Whole(v)'
<1>0. /\ pc \in [Request -> UploadPC \cup DeletePC]
      /\ Upload \subseteq Request /\ Delete \subseteq Request
      /\ \A u \in Upload, d \in Delete : u # d
      /\ buf \in [Upload -> Nat] /\ cached \in [Upload -> Nat] /\ durable \in [Upload -> Nat]
      /\ bad \in [Upload -> BOOLEAN] /\ cuts \in 0 .. MaxCuts /\ cuts \in Nat
      /\ BufCap \in Nat /\ MaxSize \in Nat /\ Size \in [Upload -> Nat] /\ v \in Request
  BY ConstantsOK DEF TypeOK, Request
<1>1. pc'[v] \in Over
  <2>1. ASSUME NEW u \in Upload, UploadStep(u) PROVE pc'[v] \in Over
    BY <1>0, <2>1
    DEF UploadStep, OpenExcl, Create, StatStale, NextName, UnlinkStale, Goto, Answer, files, Holding,
        Reopen, CopyChunk, TooLarge, Malformed, BodyEnds, Fsync, Close, IOError,
        Publish, PublishLosesPart, PublishTaken, SyncDir, Discard, Unlinked, Over
  <2>2. ASSUME NEW d \in Delete, StartDelete(d) \/ DeleteStep(d) PROVE pc'[v] \in Over
    BY <1>0, <2>2
    DEF StartDelete, DeleteStep, RemoveTarget, RemoveDerived, Remove, SyncDir, Goto, Answer, files, Over
  <2>3. ASSUME NEW u \in Upload, Reject(u) \/ Accept(u) \/ Kill(u) \/ HourPasses(u) \/ WritebackData(u)
        PROVE  pc'[v] \in Over
    BY <1>0, <2>3 DEF Reject, Accept, Kill, HourPasses, WritebackData, Goto, Answer, files, Over
  <2>4. ASSUME CommitDir \/ PowerCut \/ UNCHANGED vars PROVE pc'[v] \in Over
    BY <1>0, <2>4 DEF CommitDir, PowerCut, vars, Over
  <2>. QED BY <2>1, <2>2, <2>3, <2>4 DEF Next
<1>2. ASSUME bad'[v] = bad[v], cached'[v] = cached[v], durable'[v] >= durable[v], cuts' = cuts
      PROVE  Whole(v)'
  BY <1>0, <1>2 DEF Whole, Verified, TypeOK
<1>3. ASSUME NEW u \in Upload, UploadStep(u), ~Fsync(u), ~Close(u), ~CopyChunk(u)
      PROVE  UNCHANGED <<bad, cached, durable, cuts>>
  BY <1>3
  DEF UploadStep, OpenExcl, Create, StatStale, NextName, UnlinkStale, files,
      Reopen, TooLarge, Malformed, BodyEnds, IOError,
      Publish, PublishLosesPart, PublishTaken, SyncDir, Discard
<1>4. ASSUME NEW u \in Upload, Fsync(u) \/ Close(u) \/ CopyChunk(u)
      PROVE  bad'[v] = bad[v] /\ cached'[v] = cached[v] /\ durable'[v] = durable[v] /\ cuts' = cuts
  <2>1. u # v
    BY <1>4 DEF Over, Fsync, Close, CopyChunk
  <2>. QED BY <1>0, <1>4, <2>1 DEF Fsync, Close, CopyChunk
<1>5. ASSUME NEW d \in Delete, StartDelete(d) \/ DeleteStep(d)
      PROVE  UNCHANGED <<bad, cached, durable, cuts>>
  BY <1>5 DEF StartDelete, DeleteStep, RemoveTarget, RemoveDerived, SyncDir, files
<1>6. ASSUME NEW u \in Upload, Reject(u) \/ Accept(u) \/ Kill(u) \/ HourPasses(u)
      PROVE  UNCHANGED <<bad, cached, durable, cuts>>
  BY <1>6 DEF Reject, Accept, Kill, HourPasses, files
<1>7. ASSUME NEW u \in Upload, WritebackData(u)
      PROVE  bad' = bad /\ cached' = cached /\ durable'[v] >= durable[v] /\ cuts' = cuts
  BY <1>0, <1>7 DEF WritebackData
<1>8. ASSUME CommitDir \/ UNCHANGED vars PROVE UNCHANGED <<bad, cached, durable, cuts>>
  BY <1>8 DEF CommitDir, vars
<1>9. ASSUME PowerCut PROVE Whole(v)'
  <2>1. cuts' = cuts + 1 /\ UNCHANGED <<bad, durable>>
    BY <1>9 DEF PowerCut
  <2>. QED BY <1>0, <2>1 DEF Whole, Verified
<1>10. durable[v] >= durable[v]
  BY <1>0
<1>11. ASSUME UNCHANGED <<bad, cached, durable, cuts>> PROVE Whole(v)'
  BY <1>2, <1>10, <1>11
<1>12. Whole(v)'
  BY <1>2, <1>3, <1>4, <1>5, <1>6, <1>7, <1>8, <1>9, <1>10, <1>11 DEF Next
<1>. QED BY <1>1, <1>12

(* Every name keeps its file or loses it, but for the one that is created, *)
(* the one that is published, and those that come back with a power cut.   *)
LEMMA NameStep ==
  ASSUME TypeOK, [Next]_vars, NEW p \in Path, dir'[p] # None
  PROVE  \/ dir'[p] = dir[p]
         \/ PowerCut /\ dir'[p] = ddir[p]
         \/ \E u \in Upload : /\ Create(u) /\ pc[u] \in {"open", "reopen"}
                              /\ p = TempName(u, n[u]) /\ dir'[p] = u
         \/ \E u \in Upload : Publish(u) /\ p = Final(u) /\ dir'[p] = dir[tmp[u]]
<1>0. dir \in [Path -> Upload \cup {None}]
  BY DEF TypeOK
<1>1. ASSUME NEW u \in Upload, Create(u), pc[u] \in {"open", "reopen"}
      PROVE  dir'[p] = dir[p] \/ (p = TempName(u, n[u]) /\ dir'[p] = u)
  BY <1>0, <1>1 DEF Create
<1>2. ASSUME NEW u \in Upload, Publish(u)
      PROVE  dir'[p] \in {dir[p], None} \/ (p = Final(u) /\ dir'[p] = dir[tmp[u]])
  BY <1>0, <1>2 DEF Publish, Final
<1>3. ASSUME NEW u \in Upload, UploadStep(u), ~(Create(u) /\ pc[u] \in {"open", "reopen"}), ~Publish(u)
      PROVE  dir'[p] \in {dir[p], None}
  BY <1>0, <1>3
  DEF UploadStep, OpenExcl, StatStale, NextName, UnlinkStale, files,
      Reopen, CopyChunk, TooLarge, Malformed, BodyEnds, Fsync, Close, IOError,
      PublishLosesPart, PublishTaken, SyncDir, Discard, Unlinked
<1>4. ASSUME NEW d \in Delete, StartDelete(d) \/ DeleteStep(d) PROVE dir'[p] \in {dir[p], None}
  BY <1>0, <1>4
  DEF StartDelete, DeleteStep, RemoveTarget, RemoveDerived, Remove, Unlinked, SyncDir, files
<1>5. ASSUME NEW u \in Upload, Reject(u) \/ Accept(u) \/ Kill(u) \/ HourPasses(u) \/ WritebackData(u)
      PROVE  dir'[p] = dir[p]
  BY <1>5 DEF Reject, Accept, Kill, HourPasses, WritebackData, files
<1>6. ASSUME CommitDir \/ UNCHANGED vars PROVE dir'[p] = dir[p]
  BY <1>6 DEF CommitDir, vars
<1>7. ASSUME PowerCut PROVE dir'[p] = ddir[p]
  BY <1>7 DEF PowerCut
<1>. QED BY <1>1, <1>2, <1>3, <1>4, <1>5, <1>6, <1>7 DEF Next

(* The card has the directory as it is or as it was.                       *)
LEMMA DiskStep ==
  ASSUME [Next]_vars PROVE ddir' \in {dir', ddir}
<1>1. ASSUME NEW u \in Upload, UploadStep(u) PROVE ddir' \in {dir', ddir}
  BY <1>1
  DEF UploadStep, OpenExcl, Create, StatStale, NextName, UnlinkStale, files,
      Reopen, CopyChunk, TooLarge, Malformed, BodyEnds, Fsync, Close, IOError,
      Publish, PublishLosesPart, PublishTaken, SyncDir, Discard
<1>2. ASSUME NEW d \in Delete, StartDelete(d) \/ DeleteStep(d) PROVE ddir' \in {dir', ddir}
  BY <1>2 DEF StartDelete, DeleteStep, RemoveTarget, RemoveDerived, SyncDir, files
<1>3. ASSUME NEW u \in Upload, Reject(u) \/ Accept(u) \/ Kill(u) \/ HourPasses(u) \/ WritebackData(u)
      PROVE  ddir' = ddir
  BY <1>3 DEF Reject, Accept, Kill, HourPasses, WritebackData, files
<1>4. ASSUME CommitDir \/ PowerCut \/ UNCHANGED vars PROVE ddir' \in {dir', ddir}
  BY <1>4 DEF CommitDir, PowerCut, vars
<1>. QED BY <1>1, <1>2, <1>3, <1>4 DEF Next

(* The name that u publishes is that of its own part.                      *)
PublishesOwn == \A u \in Upload : pc[u] = "publish" => dir[tmp[u]] \in {u, None}

(* What has a final name is whole.                                         *)
LEMMA FinalsKeep ==
  ASSUME TypeOK, TypeOK', Copying, PublishesOwn, FinalsAreWhole(dir), FinalsAreWhole(ddir), [Next]_vars
  PROVE  FinalsAreWhole(dir)' /\ FinalsAreWhole(ddir)'
<1>0. dir \in [Path -> Upload \cup {None}] /\ ddir \in [Path -> Upload \cup {None}]
  BY DEF TypeOK
<1>1. \A v \in Upload : pc[v] \in Over /\ Whole(v) => pc'[v] \in Over /\ Whole(v)'
  BY WholeStays
<1>2. \A p \in Path, v \in Upload : ~IsPartName(p) /\ v \in {dir[p], ddir[p]} => pc[v] \in Over /\ Whole(v)
  BY <1>0, ConstantsOK DEF FinalsAreWhole, Over, Request
<1>3. ASSUME NEW p \in Path, NEW v \in Upload, ~IsPartName(p), v = dir'[p]
      PROVE  pc'[v] \in Over /\ Whole(v)'
  <2>1. CASE v \in {dir[p], ddir[p]}
    BY <1>1, <1>2, <1>3, <2>1
  <2>2. CASE v \notin {dir[p], ddir[p]}
    <3>1. v # None
      BY ConstantsOK DEF Request
    <3>2. ~ \E u \in Upload : p = TempName(u, n[u])
      BY <1>3 DEF TempName, PartName, IsPartName
    <3>3. PICK u \in Upload : Publish(u) /\ v = dir[tmp[u]]
      BY <1>3, <2>2, <3>1, <3>2, NameStep
    <3>4. v = u /\ pc[u] = "publish"
      BY <3>3 DEF PublishesOwn, Publish
    <3>5. u \in Request /\ pc \in [Request -> UploadPC \cup DeletePC]
      BY DEF Request, TypeOK
    <3>6. /\ pc' = [pc EXCEPT ![u] = "dirsync"]
          /\ UNCHANGED <<buf, bad, cached, durable, cuts>>
      BY <3>3 DEF Publish, Goto
    <3>7. pc'[u] = "dirsync"
      BY <3>5, <3>6
    <3>8. Verified(u) /\ Received(u) = Size[u] /\ durable[u] + BufCap >= Size[u] /\ buf[u] = 0
      BY <3>4 DEF Copying
    <3>9. cached[u] \in Nat
      BY DEF TypeOK
    <3>10. cached[u] = Size[u]
      BY <3>8, <3>9 DEF Received
    <3>11. Whole(u)'
      BY <3>6, <3>8, <3>10 DEF Whole, Verified
    <3>. QED BY <3>4, <3>7, <3>11 DEF Over
  <2>. QED BY <2>1, <2>2
<1>4. ASSUME NEW p \in Path, NEW v \in Upload, ~IsPartName(p), v = ddir'[p]
      PROVE  pc'[v] \in Over /\ Whole(v)'
  <2>1. CASE ddir' = dir'
    BY <1>3, <1>4, <2>1
  <2>2. CASE ddir' = ddir
    BY <1>1, <1>2, <1>4, <2>2
  <2>. QED BY <2>1, <2>2, DiskStep
<1>5. dir' \in [Path -> Upload \cup {None}] /\ ddir' \in [Path -> Upload \cup {None}]
  BY DEF TypeOK
<1>6. FinalsAreWhole(dir)'
  BY <1>3, <1>5 DEF FinalsAreWhole, Over, Whole, Verified
<1>7. FinalsAreWhole(ddir)'
  BY <1>4, <1>5 DEF FinalsAreWhole, Over, Whole, Verified
<1>. QED BY <1>6, <1>7

(* Undisturbed: a part keeps its name.                                     *)
LEMMA NoDebrisKeeps ==
  ASSUME TypeOK, Undisturbed, NoDebris, [Next]_vars PROVE NoDebris'
<1>0. /\ pc \in [Request -> UploadPC \cup DeletePC] /\ old \in [Upload -> BOOLEAN]
      /\ dir \in [Path -> Upload \cup {None}]
      /\ Upload \subseteq Request /\ Delete \subseteq Request
      /\ \A u \in Upload, d \in Delete : u # d
      /\ Ageable = {} /\ None \notin Upload
      /\ \A u \in Upload : ~old[u] /\ pc[u] \notin {"unlink", "reopen"} /\ pc[u] \in UploadPC
  BY ConstantsOK DEF TypeOK, Request, Undisturbed, NoDebris, Unborn, Holding, UploadPC
<1>1. old' = old
  <2>1. ASSUME NEW u \in Upload, UploadStep(u) PROVE old' = old
    BY <2>1
    DEF UploadStep, OpenExcl, Create, StatStale, NextName, UnlinkStale, files,
        Reopen, CopyChunk, TooLarge, Malformed, BodyEnds, Fsync, Close, IOError,
        Publish, PublishLosesPart, PublishTaken, SyncDir, Discard
  <2>2. ASSUME NEW d \in Delete, StartDelete(d) \/ DeleteStep(d) PROVE old' = old
    BY <2>2 DEF StartDelete, DeleteStep, RemoveTarget, RemoveDerived, SyncDir, files
  <2>3. ASSUME NEW u \in Upload, Reject(u) \/ Accept(u) \/ Kill(u) \/ HourPasses(u) \/ WritebackData(u)
        PROVE  old' = old
    BY <1>0, <2>3 DEF Reject, Accept, Kill, HourPasses, WritebackData, files
  <2>4. ASSUME CommitDir \/ PowerCut \/ UNCHANGED vars PROVE old' = old
    BY <2>4 DEF CommitDir, PowerCut, vars
  <2>. QED BY <2>1, <2>2, <2>3, <2>4 DEF Next
<1>. DEFINE Fine(l) == l \in Unborn \cup Holding \cup {"dirsync", "done", "dead"}
<1>2. ASSUME NEW u \in Upload, UploadStep(u), NEW v \in Upload PROVE Fine(pc'[v])
  <2>1. CASE StatStale(u)
    <3>1. TempName(u, n[u]) \in Path
      BY <2>1, NamesInPath DEF StatStale
    <3>2. NextName(u)
      BY <1>0, <2>1, <3>1 DEF StatStale
    <3>. QED BY <1>0, <3>2 DEF NextName, Goto, Answer, Unborn, Holding, UploadPC
  <2>2. CASE ~StatStale(u)
    BY <1>0, <1>2, <2>2
    DEF UploadStep, OpenExcl, Create, UnlinkStale, Goto, Answer, Holding, Unborn, UploadPC,
        Reopen, CopyChunk, TooLarge, Malformed, BodyEnds, Fsync, Close, IOError,
        Publish, PublishLosesPart, PublishTaken, SyncDir, Discard
  <2>. QED BY <2>1, <2>2
<1>3. ASSUME NEW d \in Delete, StartDelete(d) \/ DeleteStep(d), NEW v \in Upload PROVE Fine(pc'[v])
  BY <1>0, <1>3
  DEF StartDelete, DeleteStep, RemoveTarget, RemoveDerived, SyncDir, Goto, Answer, Unborn, Holding, UploadPC
<1>4. ASSUME NEW u \in Upload, Reject(u) \/ Accept(u) \/ Kill(u) \/ HourPasses(u) \/ WritebackData(u),
             NEW v \in Upload
      PROVE  Fine(pc'[v])
  BY <1>0, <1>4 DEF Reject, Accept, Kill, HourPasses, WritebackData, Goto, Answer, Unborn, Holding, UploadPC
<1>5. ASSUME CommitDir \/ PowerCut \/ UNCHANGED vars, NEW v \in Upload PROVE Fine(pc'[v])
  BY <1>0, <1>5 DEF CommitDir, PowerCut, vars, Unborn, Holding, UploadPC
<1>6. \A v \in Upload : Fine(pc'[v])
  BY <1>2, <1>3, <1>4, <1>5 DEF Next
<1>. QED BY <1>0, <1>1, <1>6 DEF NoDebris

(* A delete counts its derived siblings.                                   *)
LEMMA SiblingsKeep ==
  ASSUME TypeOK, Siblings, [Next]_vars PROVE Siblings'
<1>0. /\ pc \in [Request -> UploadPC \cup DeletePC] /\ n \in [Request -> Nat]
      /\ Upload \subseteq Request /\ Delete \subseteq Request
      /\ \A u \in Upload, d \in Delete : u # d
      /\ Len(DerivedSuffixes) = 3
  BY ConstantsOK DEF TypeOK, Request, DerivedSuffixes
<1>1. ASSUME \A d \in Delete : n'[d] = n[d] /\ (pc'[d] = pc[d] \/ pc'[d] \in {"done", "dead"})
      PROVE  Siblings'
  BY <1>1 DEF Siblings
<1>2. ASSUME NEW u \in Upload, UploadStep(u), NEW d \in Delete PROVE n'[d] = n[d] /\ pc'[d] = pc[d]
  BY <1>0, <1>2
  DEF UploadStep, OpenExcl, Create, StatStale, NextName, UnlinkStale, Goto, Answer, files,
      Reopen, CopyChunk, TooLarge, Malformed, BodyEnds, Fsync, Close, IOError,
      Publish, PublishLosesPart, PublishTaken, SyncDir, Discard
<1>3. ASSUME NEW u \in Upload, Reject(u) \/ Accept(u) \/ Kill(u) \/ HourPasses(u) \/ WritebackData(u),
             NEW d \in Delete
      PROVE  n'[d] = n[d] /\ pc'[d] = pc[d]
  BY <1>0, <1>3 DEF Reject, Accept, Kill, HourPasses, WritebackData, Goto, Answer
<1>4. ASSUME CommitDir \/ PowerCut \/ UNCHANGED vars PROVE Siblings'
  BY <1>0, <1>1, <1>4 DEF CommitDir, PowerCut, vars
<1>5. ASSUME NEW d \in Delete, StartDelete(d) \/ RemoveTarget(d) \/ SyncDir(d, 204) PROVE Siblings'
  BY <1>0, <1>5 DEF StartDelete, RemoveTarget, SyncDir, Goto, Answer, Siblings
<1>6. ASSUME NEW d \in Delete, RemoveDerived(d) PROVE Siblings'
  <2>1. /\ pc[d] = "derived" /\ n' = [n EXCEPT ![d] = @ + 1]
        /\ pc' = [pc EXCEPT ![d] = IF n[d] + 1 < 3 THEN "derived" ELSE "dirsync"]
    BY <1>0, <1>6 DEF RemoveDerived, Goto
  <2>. QED BY <1>0, <2>1 DEF Siblings
<1>. QED BY <1>1, <1>2, <1>3, <1>4, <1>5, <1>6 DEF Next, DeleteStep

LEMMA OwnedKeeps ==
  ASSUME TypeOK, Undisturbed, NoDebris, Reserved, Siblings, PartIsOwned, [Next]_vars
  PROVE  PartIsOwned'
<1>0. /\ pc \in [Request -> UploadPC \cup DeletePC] /\ tmp \in [Upload -> Path \cup {None}]
      /\ dir \in [Path -> Upload \cup {None}]
      /\ Upload \subseteq Request /\ Delete \subseteq Request
      /\ \A u \in Upload, d \in Delete : u # d
      /\ None \notin Upload
  BY ConstantsOK DEF TypeOK, Request
<1>1. \A v \in Upload : pc[v] \in Holding =>
        tmp[v] \in Path /\ IsPartName(tmp[v]) /\ dir[tmp[v]] = v
  <2>1. \A v \in Upload : pc[v] \in Holding => IsPartName(tmp[v])
    BY DEF Reserved, PartsOf, TempName, PartName, IsPartName
  <2>. QED BY <2>1 DEF TypeOK, PartIsOwned
<1>2. ASSUME UNCHANGED <<dir, tmp>>, \A v \in Upload : pc'[v] \in Holding => pc[v] \in Holding
      PROVE  PartIsOwned'
  BY <1>1, <1>2 DEF PartIsOwned
<1>3. ASSUME NEW u \in Upload, pc[u] \in Holding, NEW s, Discard(u, s) PROVE PartIsOwned'
  <2>1. /\ dir' = [dir EXCEPT ![tmp[u]] = None] /\ pc' = [pc EXCEPT ![u] = "done"] /\ tmp' = tmp
    BY <1>3 DEF Discard, Unlinked, Answer, Goto
  <2>. QED BY <1>0, <1>1, <1>3, <2>1 DEF PartIsOwned, Holding
<1>4. ASSUME NEW u \in Upload, Create(u), pc[u] \in {"open", "reopen"} PROVE PartIsOwned'
  <2>. DEFINE p == TempName(u, n[u])
  <2>1. p \in Path
    BY <1>4, NamesInPath
  <2>2. /\ dir[p] = None /\ dir' = [dir EXCEPT ![p] = u] /\ tmp' = [tmp EXCEPT ![u] = p]
        /\ pc' = [pc EXCEPT ![u] = "copy"]
    BY <1>4 DEF Create, Goto
  <2>. HIDE DEF p
  <2>. QED BY <1>0, <1>1, <2>1, <2>2 DEF PartIsOwned
<1>5. ASSUME NEW u \in Upload, Publish(u) PROVE PartIsOwned'
  <2>. DEFINE p == Final(u)
  <2>1. pc[u] = "publish" /\ pc[u] \in Holding
    BY <1>5 DEF Publish, Holding
  <2>2. /\ NoReplace => dir[p] = None
        /\ dir' = [dir EXCEPT ![tmp[u]] = None, ![p] = dir[tmp[u]]]
        /\ pc' = [pc EXCEPT ![u] = "dirsync"] /\ tmp' = tmp
    BY <1>5 DEF Publish, Goto, Final
  <2>3. p \in Path /\ (NoReplace \/ ~IsPartName(p))
    <3>1. n[u] \in 0 .. (MaxTries - 1)
      BY <1>0, <2>1, ConstantsOK DEF TypeOK, Holding
    <3>2. p \in Path /\ Target[u] \in FileName
      BY <1>0, <3>1, PathsOK DEF Final
    <3>3. ~IsPartName(Target[u]) => ~IsPartName(p)
      BY <3>2 DEF Final, Candidate, BuildCandidate, IsPartName, FileName
    <3>. QED BY <3>2, <3>3 DEF Undisturbed
  <2>. HIDE DEF p
  <2>4. ASSUME NEW v \in Upload, pc'[v] \in Holding PROVE dir'[tmp'[v]] = v
    <3>1. v # u /\ pc[v] \in Holding
      BY <1>0, <2>2, <2>4 DEF Holding
    <3>2. tmp[v] \in Path /\ IsPartName(tmp[v]) /\ dir[tmp[v]] = v /\ dir[tmp[u]] = u
      BY <1>1, <2>1, <3>1
    <3>3. tmp[v] # tmp[u] /\ tmp[v] # p
      BY <1>0, <2>2, <2>3, <3>1, <3>2
    <3>. QED BY <1>0, <2>2, <3>2, <3>3
  <2>. QED BY <2>4 DEF PartIsOwned
<1>6. ASSUME NEW u \in Upload, UploadStep(u), ~Publish(u), ~(Create(u) /\ pc[u] \in {"open", "reopen"}),
             ~ \E s : pc[u] \in Holding /\ Discard(u, s)
      PROVE  PartIsOwned'
  <2>1. ~UnlinkStale(u)
    BY DEF NoDebris, UnlinkStale, Unborn, Holding
  <2>2. UNCHANGED <<dir, tmp>>
    BY <1>6, <2>1
    DEF UploadStep, OpenExcl, StatStale, NextName, files, Holding,
        Reopen, CopyChunk, TooLarge, Malformed, BodyEnds, Fsync, Close, IOError,
        PublishLosesPart, PublishTaken, SyncDir
  <2>3. \A v \in Upload : pc'[v] \in Holding => pc[v] \in Holding
    BY <1>0, <1>6, <2>1
    DEF UploadStep, OpenExcl, StatStale, NextName, files, Holding, Goto, Answer,
        Reopen, CopyChunk, TooLarge, Malformed, BodyEnds, Fsync, Close, IOError,
        PublishLosesPart, PublishTaken, SyncDir
  <2>. QED BY <1>2, <2>2, <2>3
<1>7. ASSUME NEW d \in Delete, StartDelete(d) \/ DeleteStep(d) PROVE PartIsOwned'
  <2>1. tmp' = tmp /\ \A v \in Upload : pc'[v] = pc[v]
    BY <1>0, <1>7 DEF StartDelete, DeleteStep, RemoveTarget, RemoveDerived, SyncDir, Goto, Answer
  <2>2. \A q \in Path : IsPartName(q) => dir'[q] = dir[q]
    <3>1. ASSUME NEW r, ~IsPartName(r), Remove(r), NEW q \in Path, IsPartName(q) PROVE dir'[q] = dir[q]
      BY <1>0, <3>1 DEF Remove, Unlinked
    <3>2. CASE RemoveDerived(d)
      <4>1. ~IsPartName(DerivedPath(Target[d], DerivedSuffixes[n[d] + 1]))
        BY <3>2, DerivedNotPart DEF RemoveDerived, Siblings
      <4>. QED BY <3>1, <3>2, <4>1 DEF RemoveDerived
    <3>3. CASE RemoveTarget(d)
      BY <3>1, <3>3 DEF RemoveTarget, Undisturbed
    <3>. QED BY <1>7, <3>2, <3>3 DEF StartDelete, DeleteStep, SyncDir, files
  <2>. QED BY <1>1, <2>1, <2>2 DEF PartIsOwned
<1>8. ASSUME NEW u \in Upload, Reject(u) \/ Accept(u) \/ Kill(u) \/ HourPasses(u) \/ WritebackData(u)
      PROVE  PartIsOwned'
  <2>1. UNCHANGED <<dir, tmp>>
    BY <1>8 DEF Reject, Accept, Kill, HourPasses, WritebackData, files
  <2>2. \A v \in Upload : pc'[v] \in Holding => pc[v] \in Holding
    BY <1>0, <1>8 DEF Reject, Accept, Kill, HourPasses, WritebackData, Goto, Answer, Holding
  <2>. QED BY <1>2, <2>1, <2>2
<1>9. ASSUME CommitDir \/ UNCHANGED vars PROVE PartIsOwned'
  BY <1>2, <1>9 DEF CommitDir, vars
<1>10. ASSUME PowerCut PROVE PartIsOwned'
  BY <1>0, <1>10 DEF PowerCut, Running, PartIsOwned, Holding
<1>. QED BY <1>3, <1>4, <1>5, <1>6, <1>7, <1>8, <1>9, <1>10 DEF Next

(* Apart: every name has only files of the upload whose name it is.        *)
LEMMA OwnNamesKeep ==
  ASSUME TypeOK, TypeOK', Apart, Reserved, OwnNames(dir), OwnNames(ddir), [Next]_vars
  PROVE  OwnNames(dir)' /\ OwnNames(ddir)'
<1>0. dir \in [Path -> Upload \cup {None}] /\ ddir \in [Path -> Upload \cup {None}]
  BY DEF TypeOK
<1>1. ASSUME NEW p \in Path, dir'[p] # None PROVE p \in NamesFor(dir'[p])
  <2>1. CASE dir'[p] = dir[p] \/ dir'[p] = ddir[p]
    BY <1>1, <2>1 DEF OwnNames
  <2>2. ASSUME NEW u \in Upload, Create(u), pc[u] \in {"open", "reopen"}, p = TempName(u, n[u]), dir'[p] = u
        PROVE  p \in NamesFor(dir'[p])
    <3>1. n[u] \in 0 .. (MaxTries - 1)
      BY <2>2, ConstantsOK DEF TypeOK, Request
    <3>. QED BY <2>2, <3>1 DEF NamesFor, PartsOf
  <2>3. ASSUME NEW u \in Upload, Publish(u), p = Final(u), dir'[p] = dir[tmp[u]]
        PROVE  p \in NamesFor(dir'[p])
    <3>1. pc[u] \in Holding /\ n[u] \in 0 .. (MaxTries - 1)
      BY <2>3, ConstantsOK DEF TypeOK, Request, Publish, Holding
    <3>2. tmp[u] \in PartsOf(u) /\ tmp[u] \in Path
      BY <3>1 DEF Reserved, TypeOK
    <3>3. PICK v \in Upload : v = dir[tmp[u]]
      BY <1>0, <1>1, <2>3, <3>2
    <3>4. tmp[u] \in NamesFor(v)
      BY <1>1, <2>3, <3>2, <3>3 DEF OwnNames
    <3>5. v = u
      BY <3>2, <3>4 DEF Apart
    <3>. QED BY <2>3, <3>1, <3>3, <3>5 DEF NamesFor, Final
  <2>. QED BY <1>1, <2>1, <2>2, <2>3, NameStep
<1>2. OwnNames(dir)'
  BY <1>1 DEF OwnNames, NamesFor, PartsOf
<1>3. OwnNames(ddir)'
  BY <1>2, DiskStep DEF OwnNames, NamesFor, PartsOf
<1>. QED BY <1>2, <1>3

LEMMA SafeInit == Init => SafeInv
<1> SUFFICES ASSUME Init PROVE SafeInv
  OBVIOUS
<1>1. \A u \in Upload : pc[u] = "start" /\ ~old[u]
  BY DEF Init, Request
<1>4. Siblings
  BY DEF Init, Request, Siblings
<1>2. Copying
  BY ConstantsOK DEF Init, Copying, Request
<1>3. \A p \in Path : dir[p] = None /\ ddir[p] = None
  BY DEF Init
<1>. QED BY <1>1, <1>2, <1>3, <1>4, InitType
  DEF SafeInv, Reserved, FinalsAreWhole, NoDebris, PartIsOwned, OwnNames, Unborn, Holding

LEMMA SafeNext == ASSUME Undisturbed \/ Apart, SafeInv, [Next]_vars PROVE SafeInv'
<1>1. TypeOK /\ TypeOK'
  BY NextType DEF SafeInv
<1>2. PublishesOwn
  <2> SUFFICES ASSUME NEW u \in Upload, pc[u] = "publish", dir[tmp[u]] # None PROVE dir[tmp[u]] = u
    BY DEF PublishesOwn
  <2>1. pc[u] \in Holding /\ tmp[u] \in Path /\ tmp[u] \in PartsOf(u)
    BY <1>1 DEF Holding, SafeInv, TypeOK, Reserved
  <2>2. dir[tmp[u]] \in Upload
    BY <1>1, <2>1 DEF TypeOK
  <2>3. CASE Undisturbed
    BY <2>1, <2>3 DEF SafeInv, PartIsOwned
  <2>4. CASE Apart
    BY <2>1, <2>2, <2>4 DEF SafeInv, OwnNames, Apart
  <2>. QED BY <2>3, <2>4
<1>3. Reserved' /\ Copying' /\ Siblings'
  BY <1>1, ReservedKeeps, CopyingKeeps, SiblingsKeep DEF SafeInv
<1>4. FinalsAreWhole(dir)' /\ FinalsAreWhole(ddir)'
  BY <1>1, <1>2, FinalsKeep DEF SafeInv
<1>5. Undisturbed => NoDebris' /\ PartIsOwned'
  BY <1>1, NoDebrisKeeps, OwnedKeeps DEF SafeInv
<1>6. Apart => OwnNames(dir)' /\ OwnNames(ddir)'
  BY <1>1, OwnNamesKeep DEF SafeInv
<1>. QED BY <1>1, <1>3, <1>4, <1>5, <1>6 DEF SafeInv, Undisturbed, Apart, NamesFor, PartsOf

-----------------------------------------------------------------------------
(* The state always has the types TypeOK gives it: loop counters stay      *)
(* below MAX_NAME_TRIES while the process runs, and an upload that writes  *)
(* has a reserved name.  For every configuration.                          *)
THEOREM BridgeTypes == Spec => []TypeOK
<1>1. Init => TypeOK
  BY InitType
<1>2. TypeOK /\ [Next]_vars => TypeOK'
  BY NextType
<1>. QED BY <1>1, <1>2, PTL DEF Spec

(* With RENAME_NOREPLACE no file of the card is ever replaced by another,  *)
(* whatever races, kills and stale parts do (publish_part and O_EXCL).     *)
THEOREM NeverOverwrites == ASSUME NoReplace PROVE Spec => NoOverwrite
<1>1. TypeOK /\ [Next]_vars => [cuts' = cuts =>
        \A p \in Path : dir[p] # None => dir'[p] \in {dir[p], None}]_vars
  <2> SUFFICES ASSUME TypeOK, Next, cuts' = cuts, NEW p \in Path, dir[p] # None
               PROVE  dir'[p] \in {dir[p], None}
    OBVIOUS
  <2>1. ~PowerCut
    BY DEF PowerCut, TypeOK
  <2>2. ASSUME NEW u \in Upload, UploadStep(u) PROVE dir'[p] \in {dir[p], None}
    BY <2>2
    DEF TypeOK, UploadStep, OpenExcl, Create, StatStale, NextName, UnlinkStale,
        Reopen, CopyChunk, TooLarge, Malformed, BodyEnds, Fsync, Close, IOError,
        Publish, PublishLosesPart, PublishTaken, SyncDir, Discard, Unlinked, files
  <2>3. ASSUME NEW d \in Delete, StartDelete(d) \/ DeleteStep(d)
        PROVE  dir'[p] \in {dir[p], None}
    BY <2>3 DEF TypeOK, StartDelete, DeleteStep, RemoveTarget, RemoveDerived,
                Remove, Unlinked, SyncDir, files
  <2>. QED
    BY <2>1, <2>2, <2>3
    DEF Next, Reject, Accept, Kill, HourPasses, WritebackData, CommitDir, files
<1>. QED BY <1>1, BridgeTypes, PTL DEF Spec, NoOverwrite

(* What holds without Calm: every reachable state satisfies SafeInv.       *)
THEOREM SafeInvariant == ASSUME Undisturbed \/ Apart PROVE Spec => []SafeInv
<1>1. SafeInv /\ [Next]_vars => SafeInv'
  BY SafeNext
<1>. QED BY <1>1, SafeInit, PTL DEF Spec

(* While no ".part" reaches an hour of age, no delete asks for one and no  *)
(* renaming can replace one, an upload keeps the part it reserved, through *)
(* any races, kills, failed fsyncs and power cuts.                         *)
THEOREM PartsAreOwned == ASSUME Undisturbed PROVE Spec => []PartIsOwned
<1>1. SafeInv => PartIsOwned
  BY DEF SafeInv
<1>. QED BY <1>1, SafeInvariant, PTL

(* Under the same condition, and also if parts get old or are asked for    *)
(* but no two uploads use one name, every published file passed the size   *)
(* and md5 comparison, and at most one stdio buffer of it is not on the    *)
(* card.                                                                   *)
THEOREM PublishedAreVerified ==
  ASSUME Undisturbed \/ Apart PROVE Spec => []PublishedIsVerified
<1>1. SafeInv => PublishedIsVerified
  <2> SUFFICES ASSUME SafeInv, NEW u \in Upload,
                      NEW p \in Path, ~IsPartName(p), dir[p] = u
               PROVE  Whole(u)
    BY DEF Whole, Verified, PublishedIsVerified, Published
  <2>1. u # None
    BY ConstantsOK DEF Request
  <2>. QED BY <2>1 DEF SafeInv, FinalsAreWhole
<1>. QED BY <1>1, SafeInvariant, PTL

(* The strengthening of AckedFilesStay: under Calm every reachable state   *)
(* satisfies CalmInv, which says of each inode which names it can have and *)
(* how much of it is where at each step of op_upload.                      *)
THEOREM CalmInvariant == ASSUME Calm PROVE Spec => []CalmInv
<1>1. Init => CalmInv
  BY InitCalm
<1>2. CalmInv /\ [Next]_vars => CalmInv'
  BY NextCalm
<1>. QED BY <1>1, <1>2, PTL DEF Spec

(* Under Calm a 201 is true and stays true: in the running system and on   *)
(* the card the name holds that upload's file until op_delete takes it.    *)
THEOREM AckedFilesStay == ASSUME Calm PROVE Spec => []AckedFileStays
BY CalmInvariant, PTL DEF CalmInv

-----------------------------------------------------------------------------
(***************************************************************************)
(* The bridge implements UploadStore: proofs that each step of an upload,  *)
(* of a delete or of the environment is a step of the store or leaves the  *)
(* published files, the card and the answers as they are.                  *)
(***************************************************************************)
(* A step that leaves the published names, on the card and in the running  *)
(* system, and the 201 answers alone is invisible to the store.            *)
LEMMA StutterSeen ==
  ASSUME \A p \in FinalPath : dir'[p] = dir[p] /\ ddir'[p] = ddir[p],
         \A u \in Upload : resp'[u] = 201 <=> resp[u] = 201,
         removed' = removed
  PROVE  UNCHANGED Store!storeVars
BY DEF Store!storeVars

(* The steps of a request that change nothing the store sees.              *)
LEMMA HiddenStep ==
  ASSUME Calm, CalmInv, TypeOK',
         \/ \E u \in Upload : \/ Reject(u) \/ Accept(u) \/ OpenExcl(u)
                              \/ StatStale(u) \/ UnlinkStale(u) \/ Reopen(u)
                              \/ CopyChunk(u) \/ TooLarge(u) \/ Malformed(u)
                              \/ BodyEnds(u) \/ Fsync(u) \/ Close(u)
                              \/ IOError(u) \/ PublishLosesPart(u)
                              \/ PublishTaken(u) \/ Kill(u)
                              \/ HourPasses(u) \/ WritebackData(u)
         \/ \E d \in Delete : StartDelete(d)
         \/ \E d \in Delete : RemoveTarget(d) /\ dir[Target[d]] = None
         \/ UNCHANGED vars
  PROVE  UNCHANGED Store!storeVars
<1>0. /\ TypeOK /\ Counters /\ TempNames
      /\ \A u \in Upload : u \in Request
      /\ \A d \in Delete : d \in Request /\ Target[d] \in Path
  BY PathsOK DEF CalmInv, Request
<1>1. ddir' = ddir /\ removed' = removed
  BY DEF Reject, Accept, OpenExcl, StatStale, UnlinkStale, Reopen, CopyChunk,
         TooLarge, Malformed, BodyEnds, Fsync, Close, IOError, PublishLosesPart,
         PublishTaken, Kill, HourPasses, WritebackData, StartDelete, RemoveTarget,
         Create, NextName, Discard, files, vars
<1>2. \A u \in Upload : resp'[u] = 201 <=> resp[u] = 201
  <2>1. ASSUME NEW u \in Upload, NEW r \in Request, NEW s \in {400, 404, 409, 413, 500},
               resp' = [resp EXCEPT ![r] = s], pc[r] # "done"
        PROVE  resp'[u] = 201 <=> resp[u] = 201
    BY <1>0, <2>1 DEF TypeOK, Counters
  <2>2. \/ resp' = resp
        \/ \E r \in Request, s \in {400, 404, 409, 413, 500} :
             resp' = [resp EXCEPT ![r] = s] /\ pc[r] # "done"
    BY <1>0
    DEF Reject, Accept, OpenExcl, StatStale, UnlinkStale, Reopen, CopyChunk,
         TooLarge, Malformed, BodyEnds, Fsync, Close, IOError, PublishLosesPart,
         PublishTaken, Kill, HourPasses, WritebackData, StartDelete, RemoveTarget,
         Create, NextName, Discard, Answer, files, vars, Holding
  <2>. QED BY <2>1, <2>2
<1>3. \A u \in Upload : pc[u] \in {"open", "stat", "unlink", "reopen"} =>
        TempName(u, n[u]) \in Path /\ IsPartName(TempName(u, n[u]))
  BY <1>0, NamesInPath DEF TempName, PartName, IsPartName, TypeOK
<1>4. \A p \in FinalPath : dir'[p] = dir[p]
  BY <1>0, <1>3
  DEF Reject, Accept, OpenExcl, StatStale, UnlinkStale, Reopen, CopyChunk,
      TooLarge, Malformed, BodyEnds, Fsync, Close, IOError, PublishLosesPart,
      PublishTaken, Kill, HourPasses, WritebackData, StartDelete, RemoveTarget,
      Create, NextName, Discard, Unlinked, files, vars, TypeOK, TempNames,
      Holding, FinalPath
<1>. QED BY <1>1, <1>2, <1>4, StutterSeen

(* publish_part's rename is the step in which the store shows the file.    *)
LEMMA PublishIsPut ==
  ASSUME Calm, CalmInv, NEW u \in Upload, Publish(u)
  PROVE  Store!Put(u, Final(u))
<1> DEFINE p == Final(u)
<1>0. /\ TypeOK /\ TempNames /\ PartIsOwned /\ OneName(dir) /\ Counters
      /\ u # None /\ pc[u] = "publish" /\ u \in Request
  BY ConstantsOK DEF CalmInv, Publish, Request
<1>1. p \in FinalPath /\ p \in {Candidate(u, k) : k \in 0 .. (MaxTries - 1)}
  <2>1. n[u] \in Nat /\ n[u] < MaxTries
    BY <1>0 DEF TypeOK
  <2>2. n[u] \in 0 .. (MaxTries - 1)
    BY <2>1, ConstantsOK
  <2>3. p \in FinalPath
    BY <1>0, <2>1, FinalNotPart, ConstantsOK DEF FinalPath
  <2>. QED BY <2>2, <2>3 DEF Final
<1>2. tmp[u] \in Path /\ IsPartName(tmp[u]) /\ dir[tmp[u]] = u
  BY <1>0 DEF TypeOK, TempNames, PartIsOwned, Holding
<1>3. dir[p] = None /\ dir' = [dir EXCEPT ![tmp[u]] = None, ![p] = u]
      /\ UNCHANGED <<ddir, resp, removed>>
  BY <1>2 DEF Publish, Calm, Final
<1>4. ~Store!Stored(u)
  BY <1>0, <1>2 DEF Store!Stored, OneName, FinalPath
<1>5. resp[u] # 201
  BY <1>0 DEF Counters
<1>6. [q \in FinalPath |-> dir'[q]] = [[q \in FinalPath |-> dir[q]] EXCEPT ![p] = u]
  <2>1. \A q \in FinalPath : dir'[q] = IF q = p THEN u ELSE dir[q]
    BY <1>0, <1>1, <1>2, <1>3 DEF TypeOK, FinalPath
  <2>. QED BY <2>1
<1>. QED BY <1>1, <1>3, <1>4, <1>5, <1>6 DEF Store!Put

(* fsync_parent_dir and the 201 acknowledge a file that is on the card, or *)
(* one that op_delete has already taken away.                              *)
LEMMA AnswerIsAcknowledge ==
  ASSUME Calm, CalmInv, NEW u \in Upload, SyncDir(u, 201)
  PROVE  Store!Acknowledge(u) \/ Store!AcknowledgeGone(u)
<1>0. TypeOK /\ Counters /\ PublishedOrRemoved /\ u \in Request
  BY DEF CalmInv, Request
<1>1. ddir' = dir /\ resp' = [resp EXCEPT ![u] = 201] /\ UNCHANGED <<dir, removed>>
  BY DEF SyncDir, Calm, Answer
<1>2. {v \in Upload : resp'[v] = 201} = {v \in Upload : resp[v] = 201} \cup {u}
  BY <1>0, <1>1 DEF TypeOK, Request
<1>3. u \notin removed => Store!Stored(u)
  <2>1. pc[u] = "dirsync" /\ n[u] \in Nat /\ n[u] < MaxTries
    BY <1>0 DEF SyncDir, TypeOK
  <2>2. Final(u) \in FinalPath
    BY <1>0, <2>1, FinalNotPart, ConstantsOK DEF FinalPath
  <2>. QED BY <1>0, <2>1, <2>2 DEF PublishedOrRemoved, Store!Stored
<1>. QED BY <1>1, <1>2, <1>3 DEF Store!Acknowledge, Store!AcknowledgeGone

(* unlink by op_delete, of the file or of a derived sibling.               *)
LEMMA UnlinkIsRemove ==
  ASSUME TypeOK, NEW p, ~IsPartName(p), Remove(p), UNCHANGED <<ddir, resp>>
  PROVE  \/ \E q \in FinalPath : Store!Remove(q)
         \/ UNCHANGED Store!storeVars
<1>1. CASE p \in Path /\ dir[p] # None
  <2>1. p \in FinalPath /\ dir[p] \in Upload
    BY <1>1 DEF FinalPath, TypeOK
  <2>2. removed' = removed \cup {dir[p]}
    BY <1>1, <2>1 DEF Remove
  <2>3. [q \in FinalPath |-> dir'[q]] = [[q \in FinalPath |-> dir[q]] EXCEPT ![p] = None]
    <3>1. \A q \in FinalPath : dir'[q] = IF q = p THEN None ELSE dir[q]
      BY <1>1 DEF Remove, Unlinked, TypeOK, FinalPath
    <3>. QED BY <3>1
  <2>4. Store!Remove(p)
    BY <1>1, <2>1, <2>2, <2>3 DEF Store!Remove
  <2>. QED BY <2>1, <2>4
<1>2. CASE ~(p \in Path /\ dir[p] # None)
  <2>1. removed' = removed /\ \A q \in FinalPath : dir'[q] = dir[q]
    BY <1>2, ConstantsOK DEF Remove, Unlinked, TypeOK, FinalPath, Request
  <2>. QED BY <2>1, StutterSeen
<1>. QED BY <1>1, <1>2

LEMMA StepRefines ==
  ASSUME Calm, CalmInv, [Next]_vars
  PROVE  [Store!Next]_(Store!storeVars)
<1>0. TypeOK /\ TypeOK' /\ Counters
  BY NextType DEF CalmInv
<1>1. ASSUME NEW u \in Upload, Publish(u) PROVE Store!Next
  <2>1. Final(u) \in FinalPath
    <3>1. n[u] < MaxTries
      BY <1>0, <1>1 DEF TypeOK, Publish
    <3>. QED BY <1>0, <3>1, ConstantsOK, FinalNotPart DEF FinalPath
  <2>2. Store!Put(u, Final(u))
    BY <1>1, PublishIsPut
  <2>3. \E v \in Upload : \E p \in FinalPath : Store!Put(v, p)
    BY <2>1, <2>2 DEF Store!Put
  <2>. QED BY <2>3 DEF Store!Next
<1>2. ASSUME NEW u \in Upload, SyncDir(u, 201) PROVE Store!Next
  BY <1>2, AnswerIsAcknowledge DEF Store!Next
<1>3. ASSUME NEW d \in Delete, SyncDir(d, 204) PROVE Store!Next
  <2>1. \A u \in Upload : resp'[u] = 201 <=> resp[u] = 201
    BY <1>0, <1>3, ConstantsOK DEF SyncDir, Answer, TypeOK, Request
  <2>. QED BY <1>3, <2>1 DEF SyncDir, Calm, Store!Next, Store!Commit
<1>4. ASSUME NEW d \in Delete, RemoveTarget(d) /\ dir[Target[d]] # None
      PROVE  [Store!Next]_(Store!storeVars)
  <2>1. ~IsPartName(Target[d]) /\ Remove(Target[d]) /\ UNCHANGED <<ddir, resp>>
    BY <1>4 DEF RemoveTarget, Calm, Request
  <2>. QED BY <1>0, <2>1, UnlinkIsRemove DEF Store!Next
<1>5. ASSUME NEW d \in Delete, RemoveDerived(d)
      PROVE  [Store!Next]_(Store!storeVars)
  <2> DEFINE p == DerivedPath(Target[d], DerivedSuffixes[n[d] + 1])
  <2>1. Remove(p) /\ UNCHANGED <<ddir, resp>>
    BY <1>5 DEF RemoveDerived
  <2>2. ~IsPartName(p)
    BY <1>0, <1>5, DerivedNotPart DEF RemoveDerived, Counters
  <2>. QED BY <1>0, <2>1, <2>2, UnlinkIsRemove DEF Store!Next
<1>6. CASE CommitDir
  BY <1>6 DEF CommitDir, Store!Next, Store!Commit
<1>7. CASE PowerCut
  BY <1>7 DEF PowerCut, Store!Next, Store!PowerCut
<1>. QED BY <1>0, <1>1, <1>2, <1>3, <1>4, <1>5, <1>6, <1>7, HiddenStep
     DEF Next, UploadStep, DeleteStep

(* The bridge implements the store of whole files: published files appear  *)
(* under free names in one step, only op_delete takes them away, and a 201 *)
(* means the file is on the card (op_upload and op_delete, under Calm).    *)
THEOREM ImplementsUploadStore == ASSUME Calm PROVE Spec => ImplementsStore
<1>1. Init => Store!Init
  <2> SUFFICES ASSUME Init PROVE Store!Init
    OBVIOUS
  <2>1. [p \in FinalPath |-> dir[p]] = [p \in FinalPath |-> None]
    BY DEF Init, FinalPath
  <2>2. [p \in FinalPath |-> ddir[p]] = [p \in FinalPath |-> None]
    BY DEF Init, FinalPath
  <2>3. {u \in Upload : resp[u] = 201} = {}
    BY ConstantsOK DEF Init, Request
  <2>. QED BY <2>1, <2>2, <2>3 DEF Init, Store!Init
<1>2. CalmInv /\ [Next]_vars => [Store!Next]_(Store!storeVars)
  BY StepRefines
<1>. QED BY <1>1, <1>2, CalmInvariant, PTL DEF Spec, ImplementsStore, Store!Spec
=============================================================================
