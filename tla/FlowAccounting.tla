--------------------------- MODULE FlowAccounting ---------------------------
(***************************************************************************)
(* How apptraffic turns the kernel's connection counters into rows of the  *)
(* traffic table.  The kernel counts, per five-tuple, the bytes of the     *)
(* connection that uses it now.  The daemon's main loop reads the counters *)
(* (conntrack_update), keeps what is new since its last commit in a table  *)
(* of flows, and adds it to the flow's row of the current 5-minute bucket  *)
(* (database_store_flow).  The capture thread does not touch this table.   *)
(* One unit of time is one iteration of the loop (5 s).                    *)
(***************************************************************************)
EXTENDS Naturals

CONSTANTS
  Flow,         \* five-tuples
  Noise,        \* the five-tuples with a multicast, loopback... address
  Dir,          \* directions: reply (rx) and original (tx)
  FlowTimeout,  \* g_config.flow_timeout, in iterations
  CommitEvery,  \* g_config.commit_interval, in iterations
  Retention,    \* g_config.retention_days, in buckets
  MaxMissed,    \* for how many reads in a row a connection may be missed
  Reuse,        \* whether a five-tuple may be reused before it expired
  StoreMayFail, \* whether SQLite statements may fail
  MaxSent,      \* bound: bytes per five-tuple and direction
  MaxBucket,    \* bound: number of the last bucket
  MaxRestarts,  \* bound: restarts of the daemon alone
  MaxCuts,      \* bound: power cuts
  None          \* no entry, no row

ASSUME FlowConstants ==
  /\ Noise \subseteq Flow
  /\ FlowTimeout \in Nat /\ CommitEvery \in Nat
  /\ Retention \in Nat \ {0}  \* database_prune does nothing for 0
  /\ MaxMissed \in Nat /\ MaxMissed <= FlowTimeout
  /\ Reuse \in BOOLEAN /\ StoreMayFail \in BOOLEAN
  /\ MaxSent \in Nat /\ MaxBucket \in Nat
  /\ MaxRestarts \in Nat /\ MaxCuts \in Nat

Bucket == 0 .. MaxBucket
Bytes  == [Dir -> Nat]
Zero   == [d \in Dir |-> 0]
Plus(a, b) == [d \in Dir |-> a[d] + b[d]]

(* Mutant: a counter is never smaller than before.                         *)
GrowthUnguarded(c, p) == [d \in Dir |-> c[d] - p[d]]

(* The bytes of a reading that are new: never a negative amount.           *)
Growth(c, p) == [d \in Dir |-> IF c[d] > p[d] THEN c[d] - p[d] ELSE 0]

(* struct flow_entry.  bytes: not yet stored; prev: the counters at the    *)
(* last reading; unseen: iterations since last_seen; day: its bucket.      *)
Entry == [bytes : Bytes, prev : Bytes, dirty : BOOLEAN,
          unseen : 0 .. FlowTimeout, day : Bucket]
ASSUME NoneIsNoEntry == None \notin Entry /\ None \notin Bytes

VARIABLES
  live, counter,  \* the kernel's connections and their byte counters
  missed,         \* reads that missed the live connection in a row
  table,          \* flow_hash: the daemon's entry of each five-tuple
  db,             \* traffic.db as the daemon sees it
  card,           \* the part of it that survives a power cut
  pc, pending,    \* main loop: where it is, the flows still to be visited
  sinceCommit,    \* iterations since last_commit
  bucket,         \* time(NULL) / TS_BUCKET
  sent,           \* history: bytes sent under each five-tuple
  shown, base,    \* history: bytes the reads have shown; those before the
                  \* current connection
  failed,         \* history: five-tuples whose last statement failed
  lost,           \* history: five-tuples that may have lost bytes: their
                  \* entry expired after a failure, or was held at a reuse
  restarts, cuts

kernel == <<live, counter, missed, sent, base>>
losses == <<failed, lost>>
vars == <<live, counter, missed, table, db, card, pc, pending, sinceCommit,
          bucket, sent, shown, base, failed, lost, restarts, cuts>>

(* row: the table; credited: history of what was added to it for each      *)
(* five-tuple; pruned: what the retention has removed of that.             *)
Database == [row : [Flow \X Bucket -> Bytes \cup {None}],
             credited : [Flow -> Bytes], pruned : [Flow -> Bytes]]

TypeOK ==
  /\ live \in [Flow -> BOOLEAN]
  /\ counter \in [Flow -> Bytes] /\ sent \in [Flow -> Bytes]
  /\ shown \in [Flow -> Bytes] /\ base \in [Flow -> Bytes]
  /\ missed \in [Flow -> 0 .. MaxMissed]
  /\ table \in [Flow -> Entry \cup {None}]
  /\ db \in Database /\ card \in Database
  /\ pc \in {"read", "store", "sleep"}
  /\ pending \subseteq {f \in Flow : table[f] # None}
  /\ sinceCommit \in 0 .. CommitEvery
  /\ bucket \in Bucket
  /\ failed \subseteq Flow /\ lost \subseteq Flow
  /\ restarts \in 0 .. MaxRestarts /\ cuts \in 0 .. MaxCuts

EmptyDatabase ==
  [row |-> [r \in Flow \X Bucket |-> None],
   credited |-> [f \in Flow |-> Zero], pruned |-> [f \in Flow |-> Zero]]

Init ==
  /\ live = [f \in Flow |-> FALSE]
  /\ counter = [f \in Flow |-> Zero]
  /\ missed = [f \in Flow |-> 0]
  /\ table = [f \in Flow |-> None]
  /\ db = EmptyDatabase /\ card = EmptyDatabase
  /\ pc = "read" /\ pending = {} /\ sinceCommit = CommitEvery
  /\ bucket = 0
  /\ sent = [f \in Flow |-> Zero]
  /\ shown = [f \in Flow |-> Zero] /\ base = [f \in Flow |-> Zero]
  /\ failed = {} /\ lost = {}
  /\ restarts = 0 /\ cuts = 0

-----------------------------------------------------------------------------
(* The kernel: connections come and go, packets are counted.               *)

Open(f) ==
  /\ ~live[f] /\ (Reuse \/ table[f] = None)
  /\ live' = [live EXCEPT ![f] = TRUE]
  /\ counter' = [counter EXCEPT ![f] = Zero]
  /\ missed' = [missed EXCEPT ![f] = 0]
  /\ base' = [base EXCEPT ![f] = shown[f]]
  /\ lost' = IF table[f] = None THEN lost ELSE lost \cup {f}
  /\ UNCHANGED <<table, db, card, pc, pending, sinceCommit, bucket, sent,
                 shown, failed, restarts, cuts>>

Send(f, d) ==
  /\ live[f] /\ sent[f][d] < MaxSent
  /\ counter' = [counter EXCEPT ![f][d] = @ + 1]
  /\ sent' = [sent EXCEPT ![f][d] = @ + 1]
  /\ UNCHANGED <<live, missed, table, db, card, pc, pending, sinceCommit,
                 bucket, shown, base, losses, restarts, cuts>>

Close(f) ==
  /\ live[f]
  /\ live' = [live EXCEPT ![f] = FALSE]
  /\ UNCHANGED <<counter, missed, table, db, card, pc, pending, sinceCommit,
                 bucket, sent, shown, base, losses, restarts, cuts>>

-----------------------------------------------------------------------------
(* The daemon's main loop.                                                 *)

(* Mutant: every sight counts in full.                                     *)
IngestedInFull(f) ==
  LET e == table[f] IN
  [bytes |-> IF e = None THEN counter[f] ELSE Plus(e.bytes, counter[f]),
   prev |-> counter[f], dirty |-> TRUE, unseen |-> 0, day |-> bucket]

(* flow_ingest: a first sight counts in full, a later one by its growth.   *)
Ingested(f) ==
  LET e == table[f] IN
  IF e = None
  THEN [bytes |-> counter[f], prev |-> counter[f], dirty |-> TRUE,
        unseen |-> 0, day |-> bucket]
  ELSE [bytes  |-> Plus(e.bytes, Growth(counter[f], e.prev)),
        prev   |-> counter[f],
        dirty  |-> e.dirty \/ Growth(counter[f], e.prev) # Zero,
        unseen |-> 0, day |-> bucket]

(* Mutant: an entry expires one iteration early.                           *)
AgedTwice(f) ==
  LET e == table[f] IN
  IF e = None \/ e.unseen + 1 >= FlowTimeout THEN None
  ELSE [e EXCEPT !.unseen = @ + 1]

(* flow_expire: an entry last seen more than flow_timeout ago is freed,    *)
(* with whatever it still had to store.                                    *)
Aged(f) ==
  LET e == table[f] IN
  IF e = None \/ e.unseen >= FlowTimeout THEN None
  ELSE [e EXCEPT !.unseen = @ + 1]

(* conntrack_update: S are the connections that the netlink dump or, when  *)
(* it fails, /proc shows.  Counters that are all zero are skipped.  Then   *)
(* old entries expire, and the commit is due or not.                       *)
Read(S) ==
  /\ pc = "read"
  /\ S \subseteq {f \in Flow : live[f]}
  /\ \A f \in Flow : live[f] /\ f \notin S => missed[f] < MaxMissed
  /\ LET seen == {f \in S : counter[f] # Zero} IN
     /\ table' = [f \in Flow |-> IF f \in seen THEN Ingested(f) ELSE Aged(f)]
     /\ shown' = [f \in Flow |-> IF f \in seen THEN Plus(base[f], counter[f])
                                               ELSE shown[f]]
  /\ missed' = [f \in Flow |-> IF live[f] /\ f \notin S THEN missed[f] + 1
                                                        ELSE 0]
  /\ IF sinceCommit >= CommitEvery
     THEN pc' = "store" /\ pending' = {f \in Flow : table'[f] # None}
     ELSE pc' = "sleep" /\ UNCHANGED pending
  /\ lost' = lost \cup {f \in failed : table'[f] = None}
  /\ UNCHANGED <<live, counter, db, card, sinceCommit, bucket, sent, base,
                 failed, restarts, cuts>>

Cleared(f) == [table EXCEPT ![f].bytes = Zero, ![f].dirty = FALSE]
Visited(f) == pending' = pending \ {f}

(* flow_to_db_cb has nothing to do for a flow without new bytes.           *)
SkipFlow(f) ==
  /\ pc = "store" /\ f \in pending
  /\ ~table[f].dirty \/ table[f].bytes = Zero
  /\ Visited(f)
  /\ UNCHANGED <<kernel, table, db, card, pc, sinceCommit, bucket, shown,
                 losses, restarts, cuts>>

Storable(f) ==
  /\ pc = "store" /\ f \in pending
  /\ table[f].dirty /\ table[f].bytes # Zero

DropNoise(f) ==
  /\ Storable(f) /\ f \in Noise
  /\ table' = Cleared(f)
  /\ Visited(f)
  /\ UNCHANGED <<kernel, db, card, pc, sinceCommit, bucket, shown, restarts,
                 losses, cuts>>

(* Mutant: the row is supposed to be there.                                *)
NotInserted(f) == db

(* INSERT OR IGNORE: afterwards the bucket has a row for the flow.         *)
Inserted(f) ==
  LET r == <<f, table[f].day>> IN
  [row |-> [db.row EXCEPT ![r] = IF @ = None THEN Zero ELSE @],
   credited |-> db.credited, pruned |-> db.pruned]

(* UPDATE ... SET rx_bytes = rx_bytes + ?: changes the row if there is one.*)
Updated(D, f) ==
  LET r == <<f, table[f].day>> IN
  [row |-> [D.row EXCEPT ![r] = IF @ = None THEN None
                                            ELSE Plus(@, table[f].bytes)],
   credited |-> [D.credited EXCEPT ![f] = Plus(@, table[f].bytes)],
   pruned |-> D.pruned]

(* database_store_flow succeeds, and the entry starts from zero again.     *)
StoreFlow(f) ==
  /\ Storable(f) /\ f \notin Noise
  /\ db' = Updated(Inserted(f), f)
  /\ table' = Cleared(f)
  /\ Visited(f)
  /\ failed' = failed \ {f}
  /\ UNCHANGED <<kernel, card, pc, sinceCommit, bucket, shown, lost,
                 restarts, cuts>>

(* The INSERT or the UPDATE fails; the entry keeps its bytes for the next  *)
(* commit, and the row of zeros may be there.                              *)
StoreFails(f) ==
  /\ StoreMayFail /\ Storable(f) /\ f \notin Noise
  /\ db' \in {db, Inserted(f)}
  /\ Visited(f)
  /\ failed' = failed \cup {f}
  /\ UNCHANGED <<kernel, table, card, pc, sinceCommit, bucket, shown,
                 lost, restarts, cuts>>

(* The sum of the bytes of all buckets.                                    *)
Total(bytes) ==
  LET upTo[n \in 0 .. (MaxBucket + 1)] == IF n = 0 THEN 0 ELSE upTo[n - 1] + bytes[n - 1]
  IN upTo[MaxBucket + 1]

(* The bytes that D has of a flow in those of its rows that are in R.      *)
RowBytes(D, R, f, d) ==
  Total([b \in Bucket |-> IF <<f, b>> \notin R \/ D.row[<<f, b>>] = None THEN 0
                          ELSE D.row[<<f, b>>][d]])

(* database_prune deletes the rows R that are older than the retention; a  *)
(* timestamp lies anywhere in its bucket.                                  *)
Pruned(R) ==
  [row |-> [r \in Flow \X Bucket |-> IF r \in R THEN None ELSE db.row[r]],
   credited |-> db.credited,
   pruned |-> [f \in Flow |-> [d \in Dir |->
                 db.pruned[f][d] + RowBytes(db, R, f, d)]]]

(* database_prune, which may fail, and database_commit: the checkpoint     *)
(* brings everything to the card.                                          *)
PruneAndCommit ==
  /\ pc = "store" /\ pending = {}
  /\ \/ \E E \in SUBSET {r \in Flow \X Bucket : r[2] + Retention = bucket} :
          db' = Pruned(E \cup {r \in Flow \X Bucket : r[2] + Retention < bucket})
     \/ StoreMayFail /\ UNCHANGED db
  /\ card' = db'
  /\ sinceCommit' = 0
  /\ pc' = "sleep"
  /\ UNCHANGED <<kernel, table, pending, bucket, shown, losses, restarts, cuts>>

(* Mutant: the time of the last commit is set in every iteration.          *)
SleepUncounted ==
  /\ pc = "sleep" /\ pc' = "read"
  /\ sinceCommit' = 0
  /\ bucket' \in {bucket, bucket + 1} \cap Bucket
  /\ UNCHANGED <<kernel, table, db, card, pending, shown, losses, restarts,
                 cuts>>

Sleep ==
  /\ pc = "sleep"
  /\ pc' = "read"
  /\ sinceCommit' = IF sinceCommit < CommitEvery THEN sinceCommit + 1
                                                 ELSE sinceCommit
  /\ bucket' \in {bucket, bucket + 1} \cap Bucket
  /\ UNCHANGED <<kernel, table, db, card, pending, shown, losses, restarts,
                 cuts>>

Loop == \/ \E S \in SUBSET Flow : Read(S)
        \/ \E f \in Flow : SkipFlow(f) \/ DropNoise(f) \/ StoreFlow(f)
                           \/ StoreFails(f)
        \/ PruneAndCommit
        \/ Sleep

(* The process ends and starts again with an empty table: a SIGTERM, which *)
(* stores nothing, or a crash and procd's respawn.                         *)
Fresh ==
  /\ table' = [f \in Flow |-> None]
  /\ pc' = "read" /\ pending' = {} /\ sinceCommit' = CommitEvery

Restart ==
  /\ restarts < MaxRestarts
  /\ restarts' = restarts + 1
  /\ Fresh
  /\ UNCHANGED <<kernel, db, card, bucket, shown, cuts, losses>>

(* The write-ahead log reaches the card before a checkpoint asks for it.   *)
Writeback ==
  /\ card # db
  /\ card' = db
  /\ UNCHANGED <<kernel, table, db, pc, pending, sinceCommit, bucket, shown,
                 losses, restarts, cuts>>

(* With the power the connections go, too.                                 *)
PowerCut ==
  /\ cuts < MaxCuts
  /\ cuts' = cuts + 1
  /\ Fresh
  /\ db' = card
  /\ live' = [f \in Flow |-> FALSE]
  /\ UNCHANGED <<counter, missed, sent, base, card, bucket, shown, losses,
                 restarts>>

Next ==
  \/ \E f \in Flow : Open(f) \/ Close(f) \/ \E d \in Dir : Send(f, d)
  \/ Loop
  \/ Restart \/ Writeback \/ PowerCut

Spec == Init /\ [][Next]_vars
FairSpec == Spec /\ WF_vars(Loop)

-----------------------------------------------------------------------------
(* What the table still holds of a flow.                                   *)
Unstored(f) == IF table[f] = None THEN Zero ELSE table[f].bytes

(* No byte is counted twice: what was stored and what waits to be stored   *)
(* is never more than what was sent, whatever fails and however often      *)
(* five-tuples are reused (flow_ingest, database_store_flow).              *)
NeverOvercounts ==
  \A f \in Flow, d \in Dir :
    db.credited[f][d] + Unstored(f)[d] <= sent[f][d]

(* Every byte a read has shown is stored or waits to be, as long as the    *)
(* daemon runs: nothing falls between the flow table, its expiry and the   *)
(* traffic table.  A statement may fail, if a later one succeeds before    *)
(* the entry expires; the bytes of a five-tuple that is reused while its   *)
(* entry is held may be lost (flow_ingest, flow_expire, flow_to_db_cb).    *)
ShownIsCounted ==
  restarts = 0 /\ cuts = 0 =>
    \A f \in Flow \ (Noise \cup lost), d \in Dir :
      db.credited[f][d] + Unstored(f)[d] = shown[f][d]

(* The rows of the traffic table add up to what was credited and not       *)
(* pruned: an UPDATE always finds its row, whatever bucket it is for, and  *)
(* this holds on the card, too.                                            *)
RowsAddUp ==
  \A D \in {db, card} : \A f \in Flow, d \in Dir :
    RowBytes(D, {f} \X Bucket, f, d) + D.pruned[f][d] = D.credited[f][d]

(* What the daemon has read it stores sooner or later, or it is restarted. *)
EventuallyStored ==
  \A f \in Flow : Unstored(f) # Zero ~> Unstored(f) = Zero
=============================================================================
