---------------------------- MODULE MCDavBridge ----------------------------
(* Small instances of DavBridge: two or three uploads of one name, and a   *)
(* delete of the file.                                                     *)
EXTENDS DavBridge

CONSTANTS ua, ub, uc, da

Photo == [base |-> << <<"photo", 0>> >>, ext |-> ".jpg"]

NamesOf(p) == UNION {{BuildCandidate(p, k), PartName(BuildCandidate(p, k))} :
                       k \in 0 .. (MaxTries - 1)}

\* every request is for the same photo
MCPhotoOnly == [r \in Request |-> Photo]
MCPhotoPath == NamesOf(Photo)

\* ua has a body of two chunks, the others of one
MCSize == [u \in Upload |-> IF u = ua THEN 2 ELSE 1]
MCOneChunk == [u \in Upload |-> 1]
=============================================================================
