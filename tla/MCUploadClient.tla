--------------------------- MODULE MCUploadClient ---------------------------
(* A small instance of UploadClient: the first photo may take either of    *)
(* two names, the others only the second.                                  *)
EXTENDS UploadClient
CONSTANTS p1, p2
MCUpload == File \X (1 .. MaxSent)
MCNames  == [u \in Upload |-> IF u[1] = 1 THEN {p1, p2} ELSE {p2}]
=============================================================================
