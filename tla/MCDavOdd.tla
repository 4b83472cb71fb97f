------------------------------ MODULE MCDavOdd ------------------------------
(***************************************************************************)
(* An instance of DavBridge with everything unusual at once, on variables  *)
(* of its own: renames replace files, the directory's fsync may fail, one  *)
(* body is too large, and a delete asks for the ".part" of an upload.      *)
(***************************************************************************)
LOCAL INSTANCE Integers
Dav == INSTANCE DavNames

CONSTANTS ua, ub, da, noInode

VARIABLES
  oddPc, oddN, oddTmp, oddBuf, oddBad, oddResp, oddDir, oddDdir, oddCached,
  oddDurable, oddOld, oddRemoved, oddCuts

oddVars == <<oddPc, oddN, oddTmp, oddBuf, oddBad, oddResp, oddDir, oddDdir,
             oddCached, oddDurable, oddOld, oddRemoved, oddCuts>>

OddPhoto == [base |-> << <<"photo", 0>> >>, ext |-> ".jpg"]
OddThumb == Dav!DerivedPath(OddPhoto, Dav!DerivedSuffixes[1])
OddPath  == UNION {{Dav!BuildCandidate(p, k), Dav!PartName(Dav!BuildCandidate(p, k))} :
                     p \in {OddPhoto, OddThumb}, k \in 0 .. 1}
OddTarget == [r \in {ua, ub, da} |-> CASE r = ua -> OddPhoto
                                       [] r = ub -> OddThumb
                                       [] r = da -> Dav!PartName(OddPhoto)]

Odd == INSTANCE DavBridge WITH
  Upload <- {ua, ub}, Delete <- {da}, Path <- OddPath, Target <- OddTarget,
  Size <- [u \in {ua, ub} |-> IF u = ua THEN 1 ELSE 2], MaxSize <- 1, Checked <- {ua, ub},
  MaxTries <- 2, BufCap <- 1, NoReplace <- FALSE, DirSyncMayFail <- TRUE,
  Killable <- {}, Ageable <- {}, MaxCuts <- 1, None <- noInode,
  pc <- oddPc, n <- oddN, tmp <- oddTmp, buf <- oddBuf, bad <- oddBad,
  resp <- oddResp, dir <- oddDir, ddir <- oddDdir, cached <- oddCached,
  durable <- oddDurable, old <- oddOld, removed <- oddRemoved, cuts <- oddCuts
=============================================================================
