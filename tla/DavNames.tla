----------------------------- MODULE DavNames -----------------------------
(***************************************************************************)
(* File names as the dav-bridge CGI builds them.  The C code locates the   *)
(* last extension of a path and inserts text before or after it, so a name *)
(* is kept split there: ext is the final extension (dot included, "" when  *)
(* there is none) and base the tokens before it.  A token is a pair        *)
(* <<text, number>>: a stem or an earlier extension has number 0 and the   *)
(* suffix "-n" is <<"-", n>>.                                              *)
(***************************************************************************)
EXTENDS Naturals, Sequences

FileName == [base : Seq(STRING \X Nat), ext : STRING]

(* build_candidate: the n-th candidate has "-n" inserted before the final  *)
(* extension; candidate 0 is the name asked for.                           *)
BuildCandidate(fs, n) ==
  IF n = 0 THEN fs ELSE [fs EXCEPT !.base = Append(@, <<"-", n>>)]

(* The ".part" sibling that an upload writes before it publishes.          *)
PartName(fs) == [base |-> Append(fs.base, <<fs.ext, 0>>), ext |-> ".part"]

(* is_part_name: what directory listings hide as an unfinished upload.     *)
IsPartName(fs) == fs.ext = ".part"

(* derived_path: the final extension is REPLACED by the derived suffix, so *)
(* two files that differ only in it share their derived names.             *)
DerivedPath(fs, suffix) ==
  [base |-> Append(fs.base, <<suffix[1], 0>>), ext |-> suffix[2]]

DerivedSuffixes ==
  << <<".thumb", ".jpg">>, <<".preview", ".jpg">>, <<".preview", ".mp4">> >>

(* is_derived_name: a name that ends in one of the derived suffixes.       *)
IsDerivedName(fs) ==
  \E i \in DOMAIN DerivedSuffixes :
    /\ fs.base # << >>
    /\ fs.base[Len(fs.base)] = <<DerivedSuffixes[i][1], 0>>
    /\ fs.ext = DerivedSuffixes[i][2]
===========================================================================
