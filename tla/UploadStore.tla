---------------------------- MODULE UploadStore ----------------------------
(***************************************************************************)
(* What dav-bridge promises its clients: a store of whole files in which a *)
(* file appears under a free name in one step, nothing but a removal takes *)
(* it away, and an acknowledged file is on the card.  store is what the    *)
(* running system shows, disk what a power cut leaves.                     *)
(***************************************************************************)
CONSTANTS
  Upload,     \* uploads, each the content of one file
  Path,       \* the names of published files
  Names,      \* the names each upload may be given
  None        \* no file

ASSUME StoreConstants == None \notin Upload /\ Names \in [Upload -> SUBSET Path]

VARIABLES store, disk, acked, gone

storeVars == <<store, disk, acked, gone>>

Stored(u) == \E p \in Path : store[p] = u

Init ==
  /\ store = [p \in Path |-> None]
  /\ disk  = [p \in Path |-> None]
  /\ acked = {}     \* the uploads answered 201
  /\ gone  = {}     \* the uploads whose file was removed on request

(* An upload's file appears, whole, under one of its names that is free.   *)
Put(u, p) ==
  /\ p \in Names[u] /\ store[p] = None
  /\ ~Stored(u) /\ u \notin acked
  /\ store' = [store EXCEPT ![p] = u]
  /\ UNCHANGED <<disk, acked, gone>>

(* Mutant: the client is told before the file is on the card.              *)
AcknowledgeEarly(u) ==
  /\ Stored(u)
  /\ acked' = acked \cup {u}
  /\ UNCHANGED <<store, disk, gone>>

(* The client is told only of a file that is there and is on the card.     *)
Acknowledge(u) ==
  /\ Stored(u)
  /\ acked' = acked \cup {u}
  /\ disk' = store
  /\ UNCHANGED <<store, gone>>

(* Its file was deleted before the answer: the answer is still success.    *)
AcknowledgeGone(u) ==
  /\ u \in gone
  /\ acked' = acked \cup {u}
  /\ disk' = store
  /\ UNCHANGED <<store, gone>>

(* A removal the clients asked for.                                        *)
Remove(p) ==
  /\ store[p] # None
  /\ gone' = gone \cup {store[p]}
  /\ store' = [store EXCEPT ![p] = None]
  /\ UNCHANGED <<disk, acked>>

(* The directory reaches the card on its own account.                      *)
Commit ==
  /\ disk' = store
  /\ UNCHANGED <<store, acked, gone>>

PowerCut ==
  /\ store' = disk
  /\ UNCHANGED <<disk, acked, gone>>

Next ==
  \/ \E u \in Upload : \/ \E p \in Path : Put(u, p)
                       \/ Acknowledge(u) \/ AcknowledgeGone(u)
  \/ \E p \in Path : Remove(p)
  \/ Commit
  \/ PowerCut

Spec == Init /\ [][Next]_storeVars

-----------------------------------------------------------------------------
TypeOK ==
  /\ store \in [Path -> Upload \cup {None}]
  /\ disk \in [Path -> Upload \cup {None}]
  /\ acked \subseteq Upload /\ gone \subseteq Upload

(* An acknowledged file is shown and is on the card until it is removed,   *)
(* whatever the other clients do and however often the power fails: the    *)
(* meaning of a 201 from dav-bridge.                                       *)
AckedIsKept ==
  \A u \in acked \ gone : \E p \in Names[u] : store[p] = u /\ disk[p] = u

(* One file, one name: an upload is never shown twice.                     *)
OneName ==
  \A u \in Upload : \A p, q \in Path : store[p] = u /\ store[q] = u => p = q
=============================================================================
